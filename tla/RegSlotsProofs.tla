--------------------------- MODULE RegSlotsProofs ---------------------------
(***************************************************************************)
(* Theorems about RegSlots for every number of registers, of spilled slots,*)
(* of nodes and of quadruples: no two values alive at once share a slot;   *)
(* stack_range holds the live range of every definition, and lifetimes[]   *)
(* ends with the last live range of every node and its slot; the pool      *)
(* accounts for every slot, the lowest possible slot is given out, and the *)
(* allocation fails only where more values are alive than there are slots. *)
(* create_regslots implements SlotAssignment: every step of its loops is a *)
(* step of the abstract assignment of slots to live ranges, or changes     *)
(* nothing of it.                                                          *)
(***************************************************************************)
EXTENDS RegSlots, SequenceTheorems, FiniteSetTheorems, TLAPS

(* What is needed beside the types: no interval is active before the linear *)
(* scan.                                                                    *)
TypeInv ==
    /\ TypeOK
    /\ ~Sorted => active = <<>>

-----------------------------------------------------------------------------
(* Sequences and records                                                     *)

LEMMA FunctionIsSeq ==
    ASSUME NEW S, NEW n \in Nat, NEW f \in [1..n -> S]
    PROVE  f \in Seq(S) /\ Len(f) = n /\ DOMAIN f = 1..n
OBVIOUS

LEMMA LifetimeFields ==
    ASSUME NEW s \in Seq(SlotLifetime), NEW p \in 1..Len(s)
    PROVE  /\ s[p] \in SlotLifetime
           /\ s[p].start \in Nat
           /\ s[p].end \in Nat
           /\ s[p].node \in Nat
           /\ s[p].slot \in Slot
<1>1. s[p] \in SlotLifetime
  OBVIOUS
<1> QED BY <1>1 DEF SlotLifetime

LEMMA PushType ==
    ASSUME NEW S, NEW s \in Seq(S), NEW x \in S, NEW c \in Nat
    PROVE  Push(s, x, c) \in Seq(S)
BY DEF Push

LEMMA SetEnd ==
    ASSUME NEW r \in SlotLifetime, NEW p \in Nat
    PROVE  [r EXCEPT !.end = p] \in SlotLifetime
BY DEF SlotLifetime

LEMMA SlotFields ==
    ASSUME NEW slot \in Slot
    PROVE  /\ slot.spilled \in BOOLEAN
           /\ slot.slot \in Nat
           /\ slot = [spilled |-> slot.spilled, slot |-> slot.slot]
<1>1. CASE slot = NullSlot
  BY <1>1 DEF NullSlot
<1>2. ASSUME NEW r \in Regs, slot = RegSlot(r)
      PROVE  /\ slot.spilled \in BOOLEAN
             /\ slot.slot \in Nat
             /\ slot = [spilled |-> slot.spilled, slot |-> slot.slot]
  BY <1>2 DEF RegSlot, Regs
<1>3. ASSUME NEW s \in Spills, slot = StackSlot(s)
      PROVE  /\ slot.spilled \in BOOLEAN
             /\ slot.slot \in Nat
             /\ slot = [spilled |-> slot.spilled, slot |-> slot.slot]
  BY <1>3 DEF StackSlot, Spills
<1> QED BY <1>1, <1>2, <1>3 DEF Slot, AllSlots

LEMMA PoolSlots ==
    /\ \A r \in Regs : RegSlot(r) \in AllSlots /\ RegSlot(r) \in Slot
    /\ \A s \in Spills : StackSlot(s) \in AllSlots /\ StackSlot(s) \in Slot
BY DEF AllSlots, Slot

LEMMA SetSlot ==
    ASSUME NEW r \in SlotLifetime, NEW slot \in Slot
    PROVE  /\ [r EXCEPT !.slot = slot] \in SlotLifetime
           /\ [r EXCEPT !.slot = slot].slot = slot
           /\ [r EXCEPT !.slot = slot].start = r.start
           /\ [r EXCEPT !.slot = slot].end = r.end
           /\ [r EXCEPT !.slot = slot].node = r.node
BY DEF SlotLifetime

LEMMA OpenType ==
    ASSUME NEW lt \in [Nodes -> SlotLifetime], NEW n \in Item, NEW p \in Nat
    PROVE  Open(lt, n, p) \in [Nodes -> SlotLifetime]
<1>1. [start |-> p, end |-> p, node |-> n, slot |-> NullSlot] \in SlotLifetime
  BY RegSlotsAssumption
  DEF RegSlotsAssumption, SlotLifetime, Slot, Item, Nodes, NoItem
<1> QED BY <1>1 DEF Open, Item, NoItem

LEMMA ExtendType ==
    ASSUME NEW lt \in [Nodes -> SlotLifetime], NEW n \in Item, NEW p \in Nat
    PROVE  Extend(lt, n, p) \in [Nodes -> SlotLifetime]
<1>1. CASE n = NoItem
  BY <1>1 DEF Extend
<1>2. CASE n # NoItem
  <2> DEFINE r == [lt[n] EXCEPT !.end = p]
  <2>1. n \in Nodes
    BY <1>2 DEF Item
  <2>2. r \in SlotLifetime
    BY <2>1, SetEnd
  <2>3. Extend(lt, n, p) = [lt EXCEPT ![n] = r]
    BY <1>2 DEF Extend
  <2> HIDE DEF r
  <2> QED BY <2>1, <2>2, <2>3
<1> QED BY <1>1, <1>2

-----------------------------------------------------------------------------
(* Type correctness                                                          *)

(* The outcomes that destroy everything leave the null values.               *)
LEMMA DestroyType ==
    ASSUME TypeInv, Destroy
    PROVE  TypeInv'
BY DEF TypeInv, TypeOK, IndicesInside, Destroy, Phases, Sorted, NoLifetime, SlotLifetime, Slot

(* Giving a slot to interval i changes the slot of ranges[i] and no more.    *)
LEMMA AssignRanges ==
    ASSUME TypeInv, AllReady, NEW slot \in Slot, Assign(slot)
    PROVE  /\ i \in 1..Len(ranges)
           /\ ranges' \in Seq(SlotLifetime)
           /\ Len(ranges') = Len(ranges)
           /\ \A p \in 1..Len(ranges) :
                 /\ ranges'[p].start = ranges[p].start
                 /\ ranges'[p].end = ranges[p].end
                 /\ ranges'[p].node = ranges[p].node
                 /\ ranges'[p].slot = IF p = i THEN slot ELSE ranges[p].slot
<1> DEFINE r == [ranges[i] EXCEPT !.slot = slot]
<1>1. ranges \in Seq(SlotLifetime) /\ i \in 1..Len(ranges)
  BY DEF TypeInv, TypeOK, AllReady, IndicesInside
<1>2. ranges[i] \in SlotLifetime
  BY <1>1
<1>3. /\ r \in SlotLifetime
      /\ r.slot = slot
      /\ r.start = ranges[i].start
      /\ r.end = ranges[i].end
      /\ r.node = ranges[i].node
  BY <1>2, SetSlot
<1>4. ranges' = [ranges EXCEPT ![i] = r]
  BY DEF Assign
<1> HIDE DEF r
<1> QED BY <1>1, <1>3, <1>4

LEMMA AssignType ==
    ASSUME TypeInv, AllReady, NEW slot \in Slot, Assign(slot)
    PROVE  /\ pc' = "expire"
           /\ i' \in Nat
           /\ k' \in Nat \ {0}
           /\ quadCount' \in 0..MaxQuads
           /\ quads' \in Seq(Quad)
           /\ lifetimes' \in [Nodes -> SlotLifetime]
           /\ ranges' \in Seq(SlotLifetime)
           /\ active' \in Seq(DOMAIN ranges')
<1>1. /\ i \in 1..Len(ranges)
      /\ ranges' \in Seq(SlotLifetime)
      /\ Len(ranges') = Len(ranges)
  BY AssignRanges
<1>2. lifetimes' \in [Nodes -> SlotLifetime]
  <2> DEFINE n == ranges[i].node
             r == [lifetimes[n] EXCEPT !.slot = slot]
  <2>1. lifetimes' = [lifetimes EXCEPT ![n] = r]
    BY DEF Assign, GiveSlot
  <2>2. n \in Nodes => r \in SlotLifetime
    BY SetSlot DEF TypeInv, TypeOK
  <2> HIDE DEF n, r
  <2> QED BY <2>1, <2>2 DEF TypeInv, TypeOK
<1>3. active' \in Seq(DOMAIN ranges')
  BY <1>1 DEF TypeInv, TypeOK, Assign
<1>4. /\ pc' = "expire" /\ i' = i + 1 /\ k' = 1
      /\ quadCount' = quadCount /\ quads' = quads
  BY DEF AllReady, Assign
<1> QED
  BY <1>1, <1>2, <1>3, <1>4 DEF TypeInv, TypeOK

LEMMA InitType == Init => TypeInv
BY RegSlotsAssumption
DEF RegSlotsAssumption, Init, TypeInv, TypeOK, IndicesInside, Phases, Sorted, NoLifetime,
    SlotLifetime, Slot

(* Every loop stops as soon as its index has left what it walks.             *)
LEMMA NextIndices == TypeInv /\ [Next]_vars => IndicesInside'
<1> SUFFICES ASSUME TypeInv, [Next]_vars
             PROVE  IndicesInside'
  OBVIOUS
<1> USE RegSlotsAssumption DEF RegSlotsAssumption
<1>0. /\ IndicesInside
      /\ ~Sorted => active = <<>>
      /\ quadCount \in Nat /\ i \in Nat /\ k \in Nat \ {0}
      /\ Len(ranges) \in Nat /\ Len(active) \in Nat
      /\ ranges \in Seq(SlotLifetime) /\ active \in Seq(DOMAIN ranges)
  BY DEF TypeInv, TypeOK
<1>1. CASE Create
  BY <1>0, <1>1 DEF Create, IndicesInside
<1>2. CASE Destroy
  BY <1>2 DEF Destroy, IndicesInside
<1>3. ASSUME NEW q \in Inputs, ScanQuad(q)
      PROVE  IndicesInside'
  BY <1>0, <1>3 DEF ScanQuad, IndicesInside
<1>4. CASE EndScan \/ EndCollect \/ Finish
  BY <1>0, <1>4 DEF EndScan, EndCollect, Finish, IndicesInside
<1>5. CASE Collect
  BY <1>0, <1>5 DEF Collect, IndicesInside
<1>6. CASE InsertKey
  <2>1. PICK j \in 1..i : ranges' = Inserted(j)
    BY <1>6 DEF InsertKey
  <2>2. Inserted(j) \in [1..Len(ranges) -> SlotLifetime]
    BY <1>0, <1>6 DEF InsertKey, Inserted
  <2>3. Len(ranges') = Len(ranges)
    BY <1>0, <2>1, <2>2, FunctionIsSeq
  <2> QED BY <1>0, <1>6, <2>3 DEF InsertKey, IndicesInside
<1>7. CASE EndSort
  BY <1>0, <1>7 DEF EndSort, IndicesInside, Sorted
<1>8. CASE Expire
  <2>1. Without(active, k) \in [1..(Len(active) - 1) -> DOMAIN ranges]
    BY <1>0, <1>8 DEF Expire, Without
  <2>2. Len(active') = Len(active) - 1
    BY <1>0, <1>8, <2>1, FunctionIsSeq DEF Expire
  <2> QED BY <1>0, <1>8, <2>2 DEF Expire, IndicesInside
<1>9. CASE KeepActive
  BY <1>0, <1>9 DEF KeepActive, IndicesInside
<1>10. ASSUME NEW slot \in Slot, AllReady, Assign(slot)
       PROVE  IndicesInside'
  <2>1. Len(ranges') = Len(ranges) /\ i \in 1..Len(ranges)
    BY <1>10, AssignRanges
  <2>2. Len(active') = Len(active) + 1
    BY <1>0, <1>10 DEF Assign
  <2> QED BY <1>0, <1>10, <2>1, <2>2 DEF AllReady, Assign, IndicesInside
<1>11. CASE UNCHANGED vars
  BY <1>0, <1>11 DEF vars, IndicesInside
<1> QED
  BY <1>1, <1>2, <1>3, <1>4, <1>5, <1>6, <1>7, <1>8, <1>9, <1>10, <1>11, PoolSlots
  DEF Next, Returned, CreateOutOfMemory, ActiveOutOfMemory, AllocFails, AllocRegister,
      AllocSpilled

LEMMA NextType == TypeInv /\ [Next]_vars => TypeInv'
<1> SUFFICES ASSUME TypeInv, [Next]_vars
             PROVE  TypeInv'
  OBVIOUS
<1>0. IndicesInside'
  BY NextIndices
<1> USE RegSlotsAssumption, <1>0 DEF RegSlotsAssumption
<1>1. CASE Create
  BY <1>1 DEF Create, TypeInv, TypeOK, Phases, Sorted
<1>2. CASE CreateOutOfMemory
  BY <1>2, DestroyType DEF CreateOutOfMemory
<1>3. ASSUME NEW q \in Inputs, ScanQuad(q)
      PROVE  TypeInv'
  <2>1. q \in Quad /\ q.dst \in Item /\ q.src1 \in Item /\ q.src2 \in Item
    BY DEF Quad
  <2>2. quads' \in Seq(Quad)
    BY <1>3, <2>1 DEF ScanQuad, TypeInv, TypeOK
  <2>3. ranges' \in Seq(SlotLifetime)
    <3>1. Capacity \in Nat
      BY DEF Capacity, TypeInv, TypeOK
    <3>2. CASE q.dst # NoItem /\ lifetimes[q.dst].start # 0
      <4>1. lifetimes[q.dst] \in SlotLifetime
        BY <3>2, <2>1 DEF TypeInv, TypeOK, Item, NoItem
      <4> QED BY <1>3, <3>1, <3>2, <4>1, PushType DEF ScanQuad, TypeInv, TypeOK
    <3>3. CASE ~(q.dst # NoItem /\ lifetimes[q.dst].start # 0)
      BY <1>3, <3>3 DEF ScanQuad, TypeInv, TypeOK
    <3> QED BY <3>2, <3>3
  <2>4. lifetimes' \in [Nodes -> SlotLifetime]
    <3> DEFINE l1 == Open(lifetimes, q.dst, i)
               l2 == Extend(l1, q.src1, i)
    <3>1. l1 \in [Nodes -> SlotLifetime]
      BY <2>1, OpenType DEF TypeInv, TypeOK
    <3> HIDE DEF l1
    <3>2. l2 \in [Nodes -> SlotLifetime]
      BY <2>1, <3>1, ExtendType DEF TypeInv, TypeOK
    <3>3. lifetimes' = Extend(l2, q.src2, i)
      BY <1>3 DEF ScanQuad, l1
    <3> HIDE DEF l2
    <3> QED BY <2>1, <3>2, <3>3, ExtendType DEF TypeInv, TypeOK
  <2>5. active' = <<>> /\ ~Sorted'
    BY <1>3 DEF ScanQuad, TypeInv, Sorted
  <2> QED BY <1>3, <2>2, <2>3, <2>4, <2>5 DEF ScanQuad, TypeInv, TypeOK, Sorted
<1>4. CASE EndScan
  BY <1>4 DEF EndScan, TypeInv, TypeOK, Phases, Sorted
<1>5. CASE Collect
  <2>1. ranges' \in Seq(SlotLifetime)
    <3>1. Capacity \in Nat
      BY DEF Capacity, TypeInv, TypeOK
    <3>2. CASE lifetimes[i].start # 0 /\ i \in Nodes
      BY <1>5, <3>1, <3>2, PushType DEF Collect, TypeInv, TypeOK
    <3>3. CASE lifetimes[i].start = 0
      BY <1>5, <3>3 DEF Collect, TypeInv, TypeOK
    <3>4. i \in Nodes
      BY <1>5 DEF Collect, TypeInv, TypeOK, Nodes, IndicesInside
    <3> QED BY <3>2, <3>3, <3>4
  <2> QED BY <1>5, <2>1 DEF Collect, TypeInv, TypeOK, Sorted
<1>6. CASE EndCollect
  BY <1>6 DEF EndCollect, TypeInv, TypeOK, Phases, Sorted
<1>7. CASE InsertKey
  <2>1. PICK j \in 1..i : ranges' = Inserted(j)
    BY <1>7 DEF InsertKey
  <2>2. ranges' \in Seq(SlotLifetime)
    <3>1. Inserted(j) \in [1..Len(ranges) -> SlotLifetime]
      BY <1>7 DEF InsertKey, Inserted, TypeInv, TypeOK
    <3>2. Len(ranges) \in Nat
      BY DEF TypeInv, TypeOK
    <3> QED BY <2>1, <3>1, <3>2, FunctionIsSeq
  <2> QED BY <1>7, <2>2 DEF InsertKey, TypeInv, TypeOK, Sorted
<1>8. CASE EndSort
  BY <1>8 DEF EndSort, TypeInv, TypeOK, Phases, Sorted
<1>9. CASE ActiveOutOfMemory
  BY <1>9, DestroyType DEF ActiveOutOfMemory
<1>10. CASE Expire
  <2>1. active' \in Seq(DOMAIN ranges)
    BY <1>10 DEF Expire, Without, TypeInv, TypeOK
  <2>2. poolReg' \in [Regs -> BOOLEAN] /\ poolStack' \in [Spills -> BOOLEAN]
    BY <1>10 DEF Expire, Without, TypeInv, TypeOK
  <2> QED BY <1>10, <2>1, <2>2 DEF Expire, TypeInv, TypeOK, Sorted
<1>11. CASE KeepActive
  BY <1>11 DEF KeepActive, TypeInv, TypeOK, Sorted
<1>12. CASE AllocRegister
  <2>1. PICK r \in Regs : poolReg' = [poolReg EXCEPT ![r] = FALSE] /\ Assign(RegSlot(r))
    BY <1>12 DEF AllocRegister
  <2>2. RegSlot(r) \in Slot
    BY PoolSlots
  <2> QED BY <1>12, <2>1, <2>2, AssignType DEF AllocRegister, TypeInv, TypeOK, Sorted, Phases
<1>13. CASE AllocSpilled
  <2>1. PICK s \in Spills :
          poolStack' = [poolStack EXCEPT ![s] = FALSE] /\ Assign(StackSlot(s))
    BY <1>13 DEF AllocSpilled
  <2>2. StackSlot(s) \in Slot
    BY PoolSlots
  <2> QED BY <1>13, <2>1, <2>2, AssignType DEF AllocSpilled, TypeInv, TypeOK, Sorted, Phases
<1>14. CASE AllocFails
  BY <1>14, DestroyType DEF AllocFails
<1>15. CASE Finish
  BY <1>15 DEF Finish, TypeInv, TypeOK, Phases, Sorted
<1>16. CASE UNCHANGED vars
  BY <1>16 DEF vars, TypeInv, TypeOK, Sorted
<1> QED
  BY <1>1, <1>2, <1>3, <1>4, <1>5, <1>6, <1>7, <1>8, <1>9, <1>10, <1>11, <1>12,
     <1>13, <1>14, <1>15, <1>16
  DEF Next, Returned

(* Every variable of create_regslots keeps its type: a slot in lifetimes or  *)
(* in stack_range is null, a register or a spilled slot of the pool; the     *)
(* loops never go further than one past what they walk, whatever the pushes, *)
(* the sort and the swaps did, and the active intervals stay inside ranges.  *)
THEOREM Typing == Spec => []TypeOK
<1>1. TypeInv => TypeOK
  BY DEF TypeInv
<1> QED BY <1>1, InitType, NextType, PTL DEF Spec

-----------------------------------------------------------------------------
(* No two overlapping ranges share a slot                                    *)

SortedUpTo(n) ==
    \A p, q \in DOMAIN ranges : p < q /\ q <= n => ranges[p].start <= ranges[q].start

(* The slot is one of the pool's and is not free.                            *)
Taken(slot) ==
    IF slot.spilled THEN slot.slot \in Spills /\ ~poolStack[slot.slot]
    ELSE slot.slot \in Regs /\ ~poolReg[slot.slot]

ActiveTaken ==
    \A x \in DOMAIN active : active[x] < i /\ Taken(ranges[active[x]].slot)

ActiveDistinct ==
    \A x, y \in DOMAIN active :
        x # y => ranges[active[x]].slot # ranges[active[y]].slot

IsActive(p) == \E x \in DOMAIN active : active[x] = p

(* A range that has a slot and is not active ended before the current one.   *)
InactiveEnded ==
    i \in DOMAIN ranges =>
        \A p \in Allocated : IsActive(p) \/ ranges[p].end < ranges[i].start

(* The strengthening of OverlapDistinct.  The slots alone do not explain it: *)
(* a slot is reused only because the ranges are sorted, because the active   *)
(* ranges hold theirs, and because a range left the active list only when it *)
(* ended before the current one started.                                     *)
ScanInv ==
    /\ SortedUpTo(Len(ranges))
    /\ ActiveTaken
    /\ ActiveDistinct
    /\ InactiveEnded
    /\ OverlapDistinct

IInv ==
    /\ TypeInv
    /\ pc = "sort" => i >= 2 /\ SortedUpTo(i - 1)
    /\ pc = "expire" => ScanInv
    /\ pc = "done" => OverlapDistinct

LEMMA InsertSorted ==
    ASSUME TypeInv, i \in 2..Len(ranges), SortedUpTo(i - 1),
           NEW j \in 1..i, InsertionPoint(j), ranges' = Inserted(j)
    PROVE  \A p, q \in 1..Len(ranges) :
             p < q /\ q <= i => ranges'[p].start <= ranges'[q].start
<1>1. /\ ranges \in Seq(SlotLifetime)
      /\ DOMAIN ranges = 1..Len(ranges)
      /\ DOMAIN ranges' = 1..Len(ranges)
  BY DEF TypeInv, TypeOK, Inserted
<1>2. \A p \in 1..Len(ranges) :
        /\ p < j => ranges'[p].start = ranges[p].start
        /\ p = j => ranges'[p].start = ranges[i].start
        /\ p > j /\ p <= i => p - 1 \in 1..Len(ranges) /\ ranges'[p].start = ranges[p - 1].start
  BY <1>1 DEF Inserted
<1>3. \A p \in 1..Len(ranges) : ranges[p].start \in Nat
  BY <1>1, LifetimeFields
<1> SUFFICES ASSUME NEW p \in 1..Len(ranges), NEW q \in 1..Len(ranges), p < q, q <= i
             PROVE  ranges'[p].start <= ranges'[q].start
  OBVIOUS
<1>4. CASE q < j
  <2>1. ranges'[p].start = ranges[p].start /\ ranges'[q].start = ranges[q].start
    BY <1>2, <1>4
  <2>2. ranges[p].start <= ranges[q].start
    BY <1>1, <1>4 DEF SortedUpTo
  <2> QED BY <2>1, <2>2
<1>5. CASE q = j
  <2>1. j > 1 /\ j - 1 \in 1..Len(ranges) /\ ranges[j - 1].start <= ranges[i].start
    BY <1>5 DEF InsertionPoint
  <2>2. ranges[p].start <= ranges[j - 1].start
    BY <1>1, <1>3, <1>5, <2>1 DEF SortedUpTo
  <2>3. ranges'[p].start = ranges[p].start /\ ranges'[q].start = ranges[i].start
    BY <1>2, <1>5
  <2>4. i \in 1..Len(ranges)
    OBVIOUS
  <2> QED BY <1>3, <2>1, <2>2, <2>3, <2>4
<1>6. CASE q > j
  <2>1. ranges'[q].start = ranges[q - 1].start /\ q - 1 \in 1..Len(ranges) /\ q - 1 \in j..(i - 1)
    BY <1>2, <1>6
  <2>2. CASE p < j
    <3>1. ranges'[p].start = ranges[p].start
      BY <1>2, <2>2
    <3>2. ranges[p].start <= ranges[q - 1].start
      <4>1. p \in DOMAIN ranges /\ q - 1 \in DOMAIN ranges
        BY <1>1, <2>1
      <4>2. p < q - 1 /\ q - 1 <= i - 1
        BY <2>1, <2>2
      <4> QED BY <4>1, <4>2 DEF SortedUpTo
    <3> QED BY <2>1, <3>1, <3>2
  <2>3. CASE p = j
    BY <1>2, <1>3, <2>1, <2>3 DEF InsertionPoint
  <2>4. CASE p > j
    <3>1. ranges'[p].start = ranges[p - 1].start /\ p - 1 \in 1..Len(ranges)
      BY <1>2, <2>4
    <3>2. ranges[p - 1].start <= ranges[q - 1].start
      <4>1. p - 1 \in DOMAIN ranges /\ q - 1 \in DOMAIN ranges
        BY <1>1, <2>1, <3>1
      <4>2. p - 1 < q - 1 /\ q - 1 <= i - 1
        BY <2>1
      <4> QED BY <4>1, <4>2 DEF SortedUpTo
    <3> QED BY <2>1, <3>1, <3>2
  <2> QED BY <2>2, <2>3, <2>4
<1> QED BY <1>4, <1>5, <1>6

(* The swap with the last active interval loses only the one that ended, and *)
(* frees a slot no other active interval holds.                              *)
LEMMA ExpireKeepsScanInv ==
    ASSUME TypeInv, ScanInv, Expire
    PROVE  ScanInv'
<1>1. /\ ranges \in Seq(SlotLifetime)
      /\ active \in Seq(1..Len(ranges))
      /\ DOMAIN ranges = 1..Len(ranges)
      /\ DOMAIN active = 1..Len(active)
      /\ i \in 1..Len(ranges)
      /\ k \in 1..Len(active)
      /\ ranges' = ranges /\ i' = i /\ pc' = pc /\ pc = "expire"
  BY DEF TypeInv, TypeOK, Expire, IndicesInside
<1> DEFINE n == Len(active)
           old == ranges[active[k]]
<1>2. /\ DOMAIN active' = 1..(n - 1)
      /\ \A x \in 1..(n - 1) : active'[x] = IF x = k THEN active[n] ELSE active[x]
  BY <1>1 DEF Expire, Without
<1>2a. n \in Nat /\ k \in 1..n /\ DOMAIN active = 1..n
  BY <1>1
<1> HIDE DEF n
<1>3. \A x \in 1..(n - 1) : \E y \in 1..n \ {k} : active'[x] = active[y]
  <2> TAKE x \in 1..(n - 1)
  <2>1. CASE x = k
    <3>1. n \in 1..n \ {k}
      BY <1>2a, <2>1
    <3>2. active'[x] = active[n]
      BY <1>2, <1>2a, <3>1, <2>1
    <3> QED BY <3>1, <3>2
  <2>2. CASE x # k
    <3>1. x \in 1..n \ {k}
      BY <1>2a, <2>2
    <3>2. active'[x] = active[x]
      BY <1>2, <1>2a, <3>1, <2>2
    <3> QED BY <3>1, <3>2
  <2> QED BY <2>1, <2>2
<1>4. \A y \in 1..n \ {k} : \E x \in 1..(n - 1) : active'[x] = active[y]
  <2> TAKE y \in 1..n \ {k}
  <2>1. CASE y = n
    <3>1. k \in 1..(n - 1)
      BY <1>2a, <2>1
    <3>2. active'[k] = active[y]
      BY <1>2, <1>2a, <3>1, <2>1
    <3> QED BY <3>1, <3>2
  <2>2. CASE y # n
    <3>1. y \in 1..(n - 1)
      BY <1>2a, <2>2
    <3>2. active'[y] = active[y]
      BY <1>2, <1>2a, <3>1, <2>2
    <3> QED BY <3>1, <3>2
  <2> QED BY <2>1, <2>2
<1>5. SortedUpTo(Len(ranges))'
  BY <1>1 DEF ScanInv, SortedUpTo
<1>6. ActiveTaken'
  <2>1. ASSUME NEW y \in 1..n \ {k}
        PROVE  /\ active[y] < i
               /\ LET slot == ranges[active[y]].slot
                  IN  IF slot.spilled THEN slot.slot \in Spills /\ ~poolStack'[slot.slot]
                      ELSE slot.slot \in Regs /\ ~poolReg'[slot.slot]
    <3>1. /\ active[y] < i
          /\ Taken(ranges[active[y]].slot)
          /\ Taken(old.slot)
          /\ ranges[active[y]].slot # old.slot
      BY <1>1, <1>2a DEF ScanInv, ActiveTaken, ActiveDistinct
    <3>2. ranges[active[y]].slot \in Slot /\ old.slot \in Slot
      <4>1. active[y] \in 1..Len(ranges) /\ active[k] \in 1..Len(ranges)
        BY <1>1, <1>2a
      <4> QED BY <1>1, <4>1, LifetimeFields
    <3>3. /\ poolReg' = IF old.slot.spilled THEN poolReg
                       ELSE [poolReg EXCEPT ![old.slot.slot] = TRUE]
          /\ poolStack' = IF old.slot.spilled THEN [poolStack EXCEPT ![old.slot.slot] = TRUE]
                         ELSE poolStack
      BY DEF Expire
    <3>4. poolReg \in [Regs -> BOOLEAN] /\ poolStack \in [Spills -> BOOLEAN]
      BY DEF TypeInv, TypeOK
    <3>5. ranges[active[y]].slot.spilled = old.slot.spilled
            => ranges[active[y]].slot.slot # old.slot.slot
      BY <3>1, <3>2, SlotFields
    <3> DEFINE slot == ranges[active[y]].slot
    <3>6. IF slot.spilled THEN slot.slot \in Spills /\ ~poolStack'[slot.slot]
          ELSE slot.slot \in Regs /\ ~poolReg'[slot.slot]
      <4>1. CASE old.slot.spilled = slot.spilled
        BY <3>1, <3>3, <3>4, <3>5, <4>1 DEF Taken
      <4>2. CASE old.slot.spilled # slot.spilled
        BY <3>1, <3>2, <3>3, <3>4, <4>2, SlotFields DEF Taken
      <4> QED BY <4>1, <4>2
    <3> QED BY <3>1, <3>6
  <2> SUFFICES ASSUME NEW x \in 1..(n - 1)
               PROVE  /\ active'[x] < i
                      /\ LET slot == ranges[active'[x]].slot
                         IN  IF slot.spilled THEN slot.slot \in Spills /\ ~poolStack'[slot.slot]
                             ELSE slot.slot \in Regs /\ ~poolReg'[slot.slot]
    BY <1>1, <1>2, <1>2a DEF ActiveTaken, Taken, Spills, Regs
  <2>2. PICK y \in 1..n \ {k} : active'[x] = active[y]
    BY <1>3
  <2> QED BY <2>1, <2>2
<1>7. ActiveDistinct'
  <2> SUFFICES ASSUME NEW x \in 1..(n - 1), NEW y \in 1..(n - 1), x # y
               PROVE  ranges[active'[x]].slot # ranges[active'[y]].slot
    BY <1>1, <1>2, <1>2a DEF ActiveDistinct
  <2> DEFINE from(z) == IF z = k THEN n ELSE z
  <2>1. /\ from(x) \in DOMAIN active /\ from(y) \in DOMAIN active /\ from(x) # from(y)
        /\ active'[x] = active[from(x)] /\ active'[y] = active[from(y)]
    BY <1>1, <1>2, <1>2a
  <2> HIDE DEF from
  <2> QED BY <2>1 DEF ScanInv, ActiveDistinct
<1>8. InactiveEnded'
  <2> SUFFICES ASSUME NEW p \in Allocated
               PROVE  IsActive(p)' \/ ranges[p].end < ranges[i].start
    BY <1>1 DEF InactiveEnded, Allocated, Sorted
  <2>1. CASE ~IsActive(p)
    BY <1>1, <2>1 DEF ScanInv, InactiveEnded
  <2>2. CASE p = active[k]
    BY <2>2 DEF Expire, Ended
  <2>3. CASE IsActive(p) /\ p # active[k]
    BY <1>1, <1>2, <1>2a, <1>4, <2>3 DEF IsActive
  <2> QED BY <2>1, <2>2, <2>3
<1>9. OverlapDistinct'
  BY <1>1 DEF ScanInv, OverlapDistinct, Overlap, Allocated, Sorted
<1> QED BY <1>5, <1>6, <1>7, <1>8, <1>9 DEF ScanInv

(* A free slot given to interval i is held by no range alive where i starts. *)
LEMMA AssignKeepsScanInv ==
    ASSUME TypeInv, ScanInv, AllReady, NEW slot \in Slot, Assign(slot),
           ~Taken(slot), Taken(slot)',
           \A s \in Slot : Taken(s) => Taken(s)'
    PROVE  ScanInv'
<1> DEFINE n == Len(active)
           N == Len(ranges)
           sl(p) == ranges[p].slot
<1>1. /\ i \in 1..N
      /\ Len(ranges') = N
      /\ DOMAIN ranges = 1..N
      /\ DOMAIN ranges' = 1..N
      /\ \A p \in 1..N :
            /\ ranges'[p].start = ranges[p].start
            /\ ranges'[p].end = ranges[p].end
            /\ ranges'[p].slot = IF p = i THEN slot ELSE sl(p)
  BY AssignRanges DEF TypeInv, TypeOK
<1>2. /\ active \in Seq(1..N)
      /\ n \in Nat
      /\ N \in Nat
      /\ DOMAIN active = 1..n
      /\ DOMAIN active' = 1..(n + 1)
      /\ active'[n + 1] = i
      /\ \A x \in 1..n : active'[x] = active[x] /\ active[x] \in 1..N
      /\ i' = i + 1
      /\ pc = "expire" /\ pc' = "expire"
  BY <1>1 DEF TypeInv, TypeOK, Assign, AllReady
<1>3. \A p \in 1..N : /\ ranges[p].start \in Nat
                      /\ ranges[p].end \in Nat
                      /\ sl(p) \in Slot
  BY LifetimeFields DEF TypeInv, TypeOK
<1> HIDE DEF n, N, sl
<1>4. \A x \in 1..n : /\ active[x] < i
                      /\ Taken(sl(active[x]))
                      /\ ranges'[active[x]].slot = sl(active[x])
  <2> SUFFICES ASSUME NEW x \in 1..n
               PROVE  /\ active[x] < i
                      /\ Taken(sl(active[x]))
                      /\ ranges'[active[x]].slot = sl(active[x])
    OBVIOUS
  <2>1. active[x] < i /\ Taken(ranges[active[x]].slot)
    BY <1>2 DEF ScanInv, ActiveTaken
  <2>2. active[x] \in 1..N /\ active[x] # i
    BY <1>2, <2>1
  <2>3. ranges'[active[x]].slot = sl(active[x])
    BY <1>1, <2>2
  <2> QED BY <2>1, <2>3 DEF sl
<1>5. SortedUpTo(Len(ranges))'
  BY <1>1, <1>2 DEF ScanInv, SortedUpTo, N
<1>6. ActiveTaken'
  <2> SUFFICES ASSUME NEW x \in 1..(n + 1)
               PROVE  active'[x] < i + 1 /\ Taken(ranges[active[x]].slot)'
    BY <1>2 DEF ActiveTaken
  <2>1. CASE x = n + 1
    BY <1>1, <1>2, <2>1
  <2>2. CASE x # n + 1
    <3>1. x \in 1..n
      BY <1>2, <2>2
    <3>2. Taken(sl(active[x])) /\ sl(active[x]) \in Slot /\ active'[x] = active[x]
      BY <1>2, <1>3, <1>4, <3>1
    <3>3. ranges'[active'[x]].slot = sl(active[x])
      BY <1>4, <3>1, <3>2
    <3> DEFINE c == sl(active[x])
    <3>4. \A s \in Slot : s = c => Taken(s)'
      BY <3>2
    <3>5. active[x] < i + 1
      BY <1>1, <1>2, <1>4, <3>1
    <3> QED BY <3>2, <3>3, <3>4, <3>5 DEF Taken, Spills, Regs
  <2> QED BY <2>1, <2>2
<1>7. ActiveDistinct'
  <2> SUFFICES ASSUME NEW x \in 1..(n + 1), NEW y \in 1..(n + 1), x < y
               PROVE  ranges'[active'[x]].slot # ranges'[active'[y]].slot
    BY <1>2 DEF ActiveDistinct
  <2>1. x \in 1..n /\ ranges'[active'[x]].slot = sl(active[x])
    BY <1>2, <1>4
  <2>2. CASE y = n + 1
    <3>1. ranges'[active'[y]].slot = slot
      BY <1>1, <1>2, <2>2
    <3> QED BY <1>4, <2>1, <3>1
  <2>3. CASE y # n + 1
    <3>1. y \in 1..n
      BY <1>2, <2>3
    <3>2. ranges'[active'[y]].slot = sl(active[y])
      BY <1>2, <1>4, <3>1
    <3> QED BY <1>2, <2>1, <3>1, <3>2, SMTT(30) DEF ScanInv, ActiveDistinct, sl
  <2> QED BY <2>2, <2>3
<1>8. \A p \in 1..N : p < i => IsActive(p) \/ ranges[p].end < ranges[i].start
  BY <1>1, <1>2 DEF ScanInv, InactiveEnded, Allocated, Sorted
<1>9. InactiveEnded'
  <2> SUFFICES ASSUME i + 1 \in 1..N, NEW p \in 1..N, p < i + 1
               PROVE  IsActive(p)' \/ ranges'[p].end < ranges'[i + 1].start
    BY <1>1, <1>2 DEF InactiveEnded, Allocated
  <2>1. CASE p = i
    BY <1>2, <2>1 DEF IsActive
  <2>2. CASE p < i /\ IsActive(p)
    <3>1. PICK x \in 1..n : active[x] = p
      BY <1>2, <2>2 DEF IsActive
    <3>2. x \in 1..(n + 1) /\ active'[x] = p
      BY <1>2, <3>1
    <3> QED BY <1>2, <3>2 DEF IsActive
  <2>3. CASE p < i /\ ranges[p].end < ranges[i].start
    <3>1. ranges[i].start <= ranges[i + 1].start
      BY <1>1, <1>2 DEF ScanInv, SortedUpTo, N
    <3> QED BY <1>1, <1>3, <2>3, <3>1
  <2> QED BY <1>1, <1>2, <1>8, <2>1, <2>2, <2>3
<1>10. OverlapDistinct'
  <2>1. ASSUME NEW p \in 1..N, p < i, Overlap(p, i)
        PROVE  ranges'[p].slot # ranges'[i].slot
    <3>1. IsActive(p)
      BY <1>1, <1>3, <1>8, <2>1 DEF Overlap
    <3>2. PICK x \in 1..n : active[x] = p
      BY <1>2, <3>1 DEF IsActive
    <3> QED BY <1>1, <1>4, <3>2
  <2>2. ASSUME NEW p \in 1..N, NEW q \in 1..N, p < i, q < i, p # q, Overlap(p, q)
        PROVE  ranges'[p].slot # ranges'[q].slot
    <3>1. p \in Allocated /\ q \in Allocated
      BY <1>1, <1>2, <2>2 DEF Allocated, Sorted
    <3>2. sl(p) # sl(q)
      BY <2>2, <3>1 DEF ScanInv, OverlapDistinct, sl
    <3>3. ranges'[p].slot = sl(p) /\ ranges'[q].slot = sl(q)
      BY <1>1, <2>2
    <3> QED BY <3>2, <3>3
  <2> SUFFICES ASSUME NEW p \in 1..N, NEW q \in 1..N, p < i + 1, q < i + 1, p # q,
                      ranges'[p].start <= ranges'[q].end,
                      ranges'[q].start <= ranges'[p].end
               PROVE  ranges'[p].slot # ranges'[q].slot
    <3>1. Allocated' = {p \in 1..N : p < i + 1}
      BY <1>1, <1>2 DEF Allocated, Sorted
    <3> QED BY <3>1 DEF OverlapDistinct, Overlap
  <2>. Overlap(p, q)
    BY <1>1 DEF Overlap
  <2>3. CASE p = i
    <3>1. q < i /\ Overlap(q, i)
      BY <1>1, <2>3 DEF Overlap
    <3> QED BY <2>1, <2>3, <3>1
  <2>4. CASE q = i
    <3>1. p < i
      BY <1>1, <2>4
    <3> QED BY <2>1, <2>4, <3>1
  <2>5. CASE p # i /\ q # i
    <3>1. p < i /\ q < i
      BY <1>1, <2>5
    <3> QED BY <2>2, <3>1
  <2> QED BY <2>3, <2>4, <2>5
<1> QED BY <1>5, <1>6, <1>7, <1>9, <1>10 DEF ScanInv

(* The invariant holds in every state of create_regslots.                   *)
THEOREM Invariance == Spec => []IInv
<1>1. Init => IInv
  <2> SUFFICES ASSUME Init PROVE IInv
    OBVIOUS
  <2>1. TypeInv
    BY InitType
  <2> QED BY <2>1 DEF Init, IInv
<1>2. IInv /\ [Next]_vars => IInv'
  <2> SUFFICES ASSUME IInv, [Next]_vars
               PROVE  IInv'
    OBVIOUS
  <2>0. TypeInv /\ TypeInv'
    BY NextType DEF IInv
  <2>1. CASE Create
    BY <2>0, <2>1 DEF Create, IInv
  <2>2. CASE CreateOutOfMemory
    BY <2>0, <2>2 DEF CreateOutOfMemory, Destroy, IInv
  <2>3. ASSUME NEW q \in Inputs, ScanQuad(q)
        PROVE  IInv'
    BY <2>0, <2>3 DEF ScanQuad, IInv
  <2>4. CASE EndScan
    BY <2>0, <2>4 DEF EndScan, IInv
  <2>5. CASE Collect
    BY <2>0, <2>5 DEF Collect, IInv
  <2>6. CASE EndCollect
    <3>1. SortedUpTo(1)
      BY <2>0 DEF SortedUpTo, TypeInv, TypeOK
    <3>2. pc' = "sort" /\ i' = 2 /\ ranges' = ranges
      BY <2>6 DEF EndCollect
    <3>3. SortedUpTo(i - 1)'
      BY <3>1, <3>2 DEF SortedUpTo
    <3> QED BY <2>0, <3>2, <3>3 DEF IInv
  <2>7. CASE InsertKey
    <3>1. PICK j \in 1..i : InsertionPoint(j) /\ ranges' = Inserted(j)
      BY <2>7 DEF InsertKey
    <3>2. /\ i \in 2..Len(ranges) /\ SortedUpTo(i - 1)
          /\ pc' = "sort" /\ i' = i + 1
      BY <2>0, <2>7 DEF InsertKey, IInv, TypeInv, TypeOK
    <3>3. DOMAIN ranges' = 1..Len(ranges)
      BY <2>0, <3>1 DEF Inserted, TypeInv, TypeOK
    <3>4. \A p, q \in 1..Len(ranges) :
             p < q /\ q <= i => ranges'[p].start <= ranges'[q].start
      BY <2>0, <3>1, <3>2, InsertSorted
    <3>5. SortedUpTo(i - 1)'
      BY <3>2, <3>3, <3>4 DEF SortedUpTo
    <3> QED BY <2>0, <3>2, <3>5 DEF IInv
  <2>8. CASE EndSort
    <3>1. /\ SortedUpTo(i - 1) /\ i > Len(ranges) /\ active = <<>>
          /\ pc' = "expire" /\ i' = 1 /\ ranges' = ranges /\ active' = active
      BY <2>0, <2>8 DEF EndSort, IInv, TypeInv, Sorted
    <3>2. SortedUpTo(Len(ranges))'
      BY <2>0, <3>1 DEF SortedUpTo, TypeInv, TypeOK
    <3>3. Allocated' = {}
      BY <2>0, <3>1 DEF Allocated, TypeInv, TypeOK
    <3>4. ActiveTaken' /\ ActiveDistinct'
      BY <3>1 DEF ActiveTaken, ActiveDistinct
    <3>5. InactiveEnded' /\ OverlapDistinct'
      BY <3>3 DEF InactiveEnded, OverlapDistinct
    <3> QED BY <2>0, <3>1, <3>2, <3>4, <3>5 DEF IInv, ScanInv
  <2>9. CASE ActiveOutOfMemory
    BY <2>0, <2>9 DEF ActiveOutOfMemory, Destroy, IInv
  <2>10. CASE Expire
    <3>1. ScanInv'
      BY <2>0, <2>10, ExpireKeepsScanInv DEF Expire, IInv
    <3> QED BY <2>0, <2>10, <3>1 DEF Expire, IInv
  <2>11. CASE KeepActive
    <3>1. ScanInv'
      BY <2>11
      DEF KeepActive, IInv, ScanInv, SortedUpTo, ActiveTaken, Taken, ActiveDistinct,
          InactiveEnded, IsActive, OverlapDistinct, Overlap, Allocated, Sorted
    <3> QED BY <2>0, <2>11, <3>1 DEF KeepActive, IInv
  <2>12. CASE AllocRegister
    <3>1. PICK r \in Regs : /\ poolReg[r]
                           /\ poolReg' = [poolReg EXCEPT ![r] = FALSE]
                           /\ Assign(RegSlot(r))
      BY <2>12 DEF AllocRegister
    <3>2. RegSlot(r) \in Slot /\ AllReady /\ poolStack' = poolStack
      BY <2>12, PoolSlots DEF AllocRegister
    <3>3. poolReg \in [Regs -> BOOLEAN]
      BY <2>0 DEF TypeInv, TypeOK
    <3>4. /\ ~Taken(RegSlot(r))
          /\ Taken(RegSlot(r))'
          /\ \A s \in Slot : Taken(s) => Taken(s)'
      BY <3>1, <3>2, <3>3 DEF Taken, RegSlot
    <3>5. pc = "expire" /\ pc' = "expire"
      BY <3>1, <3>2 DEF AllReady, Assign
    <3>6. ScanInv'
      BY <2>0, <3>1, <3>2, <3>4, <3>5, AssignKeepsScanInv DEF IInv
    <3> QED BY <2>0, <3>5, <3>6 DEF IInv
  <2>13. CASE AllocSpilled
    <3>1. PICK c \in Spills : /\ poolStack[c]
                             /\ poolStack' = [poolStack EXCEPT ![c] = FALSE]
                             /\ Assign(StackSlot(c))
      BY <2>13 DEF AllocSpilled
    <3>2. StackSlot(c) \in Slot /\ AllReady /\ poolReg' = poolReg
      BY <2>13, PoolSlots DEF AllocSpilled
    <3>3. poolStack \in [Spills -> BOOLEAN]
      BY <2>0 DEF TypeInv, TypeOK
    <3>4. /\ ~Taken(StackSlot(c))
          /\ Taken(StackSlot(c))'
          /\ \A s \in Slot : Taken(s) => Taken(s)'
      BY <3>1, <3>2, <3>3 DEF Taken, StackSlot
    <3>5. pc = "expire" /\ pc' = "expire"
      BY <3>1, <3>2 DEF AllReady, Assign
    <3>6. ScanInv'
      BY <2>0, <3>1, <3>2, <3>4, <3>5, AssignKeepsScanInv DEF IInv
    <3> QED BY <2>0, <3>5, <3>6 DEF IInv
  <2>14. CASE AllocFails
    BY <2>0, <2>14 DEF AllocFails, Destroy, IInv
  <2>15. CASE Finish
    <3>1. OverlapDistinct'
      BY <2>15 DEF Finish, IInv, ScanInv, OverlapDistinct, Overlap, Allocated, Sorted
    <3> QED BY <2>0, <2>15, <3>1 DEF Finish, IInv
  <2>16. CASE UNCHANGED vars
    BY <2>0, <2>16
    DEF vars, IInv, ScanInv, SortedUpTo, ActiveTaken, Taken, ActiveDistinct,
        InactiveEnded, IsActive, OverlapDistinct, Overlap, Allocated, Sorted
  <2> QED
    BY <2>1, <2>2, <2>3, <2>4, <2>5, <2>6, <2>7, <2>8, <2>9, <2>10, <2>11, <2>12,
       <2>13, <2>14, <2>15, <2>16
    DEF Next, Returned
<1> QED BY <1>1, <1>2, PTL DEF Spec

(* Two values that are alive at the same quadruple never share a register or *)
(* a spilled slot, for any number of registers, nodes and quadruples.        *)
THEOREM NoSharedSlot == Spec => []OverlapDistinct
<1>1. IInv => OverlapDistinct
  BY DEF IInv, ScanInv, OverlapDistinct, Allocated, Sorted
<1> QED BY <1>1, Invariance, PTL

-----------------------------------------------------------------------------
(* The live ranges: the inductive invariant                                  *)

(* The node written at d is written again. *)
Overwritten(d) == \E p \in (d + 1)..Len(quads) : quads[p].dst = quads[d].dst

(* The lifetime lt is the live range of the value defined at d. *)
IsLiveRange(lt, d) ==
    /\ d \in Definitions
    /\ lt.start = d
    /\ lt.node = quads[d].dst
    /\ lt.end \in Uses(d)
    /\ \A p \in Uses(d) : p <= lt.end

(* lifetimes[] has the live range of the last value of every node. *)
NodeLifetimes ==
    \A n \in Nodes :
        IF lifetimes[n].start = 0 THEN ~Defined(n)
        ELSE /\ IsLiveRange(lifetimes[n], lifetimes[n].start)
             /\ ~Overwritten(lifetimes[n].start)
             /\ lifetimes[n].node = n

(* The definitions whose live range was pushed on stack_range: while the     *)
(* quadruples are scanned the overwritten ones, then those of the nodes      *)
(* before i as well, in the end all.                                         *)
Closed ==
    {d \in Definitions : \/ pc \in {"sort", "expire", "done"}
                         \/ Overwritten(d)
                         \/ pc = "collect" /\ quads[d].dst < i}

(* rs holds the live range of every definition of D exactly once.            *)
HoldsRanges(rs, D) ==
    /\ \A p \in DOMAIN rs : rs[p].start \in D /\ IsLiveRange(rs[p], rs[p].start)
    /\ \A p, q \in DOMAIN rs : p # q => rs[p].start # rs[q].start
    /\ \A d \in D : \E p \in DOMAIN rs : rs[p].start = d

RangesInv ==
    /\ pc = "create" => quads = <<>> /\ ranges = <<>> /\ lifetimes = [n \in Nodes |-> NoLifetime]
    /\ pc = "scan" => i = Len(quads) + 1
    /\ pc # "failed" => Len(quads) <= quadCount
    /\ pc = "collect" => i <= NodeCount + 1
    /\ pc \notin {"create", "failed"} => NodeLifetimes /\ HoldsRanges(ranges, Closed)
    /\ Sorted => SortedUpTo(Len(ranges))
    /\ pc = "done" => i > Len(ranges)

-----------------------------------------------------------------------------
(* Sequences of live ranges                                                  *)

(* As many ranges as definitions, since no definition has two.               *)
LEMMA RangesCount ==
    ASSUME NEW rs \in Seq(SlotLifetime), NEW D, NEW c \in Nat, D \subseteq 1..c,
           HoldsRanges(rs, D)
    PROVE  /\ Len(rs) <= c
           /\ Len(rs) = Cardinality(D)
<1> DEFINE f == [p \in 1..Len(rs) |-> rs[p].start]
<1>1. IsFiniteSet(1..c) /\ Cardinality(1..c) = c
  BY FS_Interval
<1>2. Len(rs) \in Nat /\ IsFiniteSet(1..Len(rs)) /\ Cardinality(1..Len(rs)) = Len(rs)
  BY FS_Interval
<1>3. IsFiniteSet(D) /\ Cardinality(D) <= c
  BY <1>1, FS_Subset
<1>4. f \in Bijection(1..Len(rs), D)
  BY DEF HoldsRanges, Bijection, Injection, Surjection, IsInjective
<1>5. Cardinality(D) = Cardinality(1..Len(rs))
  <2>1. ExistsBijection(1..Len(rs), D)
    BY <1>4 DEF ExistsBijection
  <2> QED BY <1>2, <2>1, FS_Bijection
<1> QED BY <1>2, <1>3, <1>5

LEMMA PushRange ==
    ASSUME NEW rs \in Seq(SlotLifetime), NEW D, HoldsRanges(rs, D),
           NEW lt \in SlotLifetime, IsLiveRange(lt, lt.start), lt.start \notin D
    PROVE  HoldsRanges(Append(rs, lt), D \cup {lt.start})
<1> DEFINE rs2 == Append(rs, lt)
           n == Len(rs)
<1>1. /\ n \in Nat
      /\ DOMAIN rs = 1..n
      /\ DOMAIN rs2 = 1..(n + 1)
      /\ rs2[n + 1] = lt
      /\ \A p \in 1..n : rs2[p] = rs[p]
  OBVIOUS
<1> HIDE DEF rs2, n
<1>2. \A p \in 1..(n + 1) : p \in 1..n \/ p = n + 1
  BY <1>1
<1>3. \A p \in DOMAIN rs2 : rs2[p].start \in D \cup {lt.start} /\ IsLiveRange(rs2[p], rs2[p].start)
  BY <1>1, <1>2 DEF HoldsRanges
<1>4. ASSUME NEW p \in DOMAIN rs2, NEW q \in DOMAIN rs2, p # q
      PROVE  rs2[p].start # rs2[q].start
  BY <1>1, <1>2, <1>4 DEF HoldsRanges
<1>5. ASSUME NEW d \in D \cup {lt.start}
      PROVE  \E p \in DOMAIN rs2 : rs2[p].start = d
  <2>1. CASE d = lt.start
    <3>1. n + 1 \in DOMAIN rs2
      BY <1>1
    <3> QED BY <1>1, <2>1, <3>1
  <2>2. CASE d \in D
    <3>1. PICK p \in 1..n : rs[p].start = d
      BY <1>1, <2>2 DEF HoldsRanges
    <3>2. p \in DOMAIN rs2 /\ rs2[p] = rs[p]
      BY <1>1, <3>1
    <3> QED BY <3>1, <3>2
  <2> QED BY <2>1, <2>2
<1>6. HoldsRanges(rs2, D \cup {lt.start})
  BY <1>3, <1>4, <1>5 DEF HoldsRanges
<1> QED BY <1>6 DEF rs2

(* Ranges that are put in another order, or are given slots.                 *)
LEMMA ReorderRanges ==
    ASSUME NEW rs \in Seq(SlotLifetime), NEW rs2 \in Seq(SlotLifetime), NEW D,
           HoldsRanges(rs, D),
           NEW f \in Bijection(DOMAIN rs2, DOMAIN rs),
           \A p \in DOMAIN rs2 : /\ rs2[p].start = rs[f[p]].start
                                 /\ rs2[p].end = rs[f[p]].end
                                 /\ rs2[p].node = rs[f[p]].node
    PROVE  HoldsRanges(rs2, D)
<1>1. /\ \A p \in DOMAIN rs2 : f[p] \in DOMAIN rs
      /\ \A p, q \in DOMAIN rs2 : f[p] = f[q] => p = q
      /\ \A p \in DOMAIN rs : \E q \in DOMAIN rs2 : f[q] = p
  BY DEF Bijection, Injection, Surjection, IsInjective
<1>2. \A p \in DOMAIN rs2 : rs2[p].start \in D /\ IsLiveRange(rs2[p], rs2[p].start)
  BY <1>1 DEF HoldsRanges, IsLiveRange
<1>3. ASSUME NEW p \in DOMAIN rs2, NEW q \in DOMAIN rs2, p # q
      PROVE  rs2[p].start # rs2[q].start
  <2>1. f[p] \in DOMAIN rs /\ f[q] \in DOMAIN rs /\ f[p] # f[q]
    BY <1>1, <1>3
  <2>2. rs[f[p]].start # rs[f[q]].start
    BY <2>1 DEF HoldsRanges
  <2> QED BY <2>2
<1>4. \A d \in D : \E p \in DOMAIN rs2 : rs2[p].start = d
  BY <1>1 DEF HoldsRanges
<1> QED BY <1>2, <1>3, <1>4 DEF HoldsRanges

-----------------------------------------------------------------------------
(* One quadruple more                                                        *)

(* What the quadruple that is scanned changes of the definitions before it:  *)
(* it may overwrite one, and read one that is not overwritten.               *)
LEMMA OneMoreQuad ==
    ASSUME quads \in Seq(Quad), NEW q \in Quad, quads' = Append(quads, q),
           NEW j, j = Len(quads) + 1
    PROVE  /\ Definitions' = IF q.dst = NoItem THEN Definitions ELSE Definitions \cup {j}
           /\ Definitions \subseteq 1..Len(quads)
           /\ \A d \in Definitions : quads'[d].dst = quads[d].dst
           /\ quads'[j] = q
           /\ \A d \in Definitions :
                 Overwritten(d)' <=> Overwritten(d) \/ quads[d].dst = q.dst
           /\ \A d \in Definitions : \A p :
                 p \in Uses(d)' <=> \/ p \in Uses(d)
                                   \/ /\ p = j
                                      /\ quads[d].dst \in {q.src1, q.src2}
                                      /\ ~Overwritten(d)'
           /\ ~Overwritten(j)'
           /\ Uses(j)' = {j}
           /\ \A n : Defined(n)' <=> Defined(n) \/ n = q.dst
<1>1. /\ Len(quads) \in Nat
      /\ DOMAIN quads = 1..Len(quads)
      /\ DOMAIN quads' = 1..j
      /\ Len(quads') = j
      /\ quads'[j] = q
      /\ \A p \in 1..Len(quads) : quads'[p] = quads[p]
      /\ j \notin 1..Len(quads)
      /\ j \in Nat
      /\ 1..j = 1..Len(quads) \cup {j}
  OBVIOUS
<1>2. Definitions' = IF q.dst = NoItem THEN Definitions ELSE Definitions \cup {j}
  BY <1>1 DEF Definitions
<1>3. Definitions \subseteq 1..Len(quads)
  BY <1>1 DEF Definitions
<1>4. \A d \in 1..Len(quads) :
         /\ (d + 1)..j = ((d + 1)..Len(quads)) \cup {j}
         /\ \A p \in (d + 1)..Len(quads) : p \in 1..Len(quads) /\ p < j
  BY <1>1
<1>5. \A d \in 1..Len(quads) : Overwritten(d)' <=> Overwritten(d) \/ quads[d].dst = q.dst
  <2> TAKE d \in 1..Len(quads)
  <2>1. quads'[d] = quads[d]
    BY <1>1
  <2>2. Overwritten(d)' <=> \E p \in ((d + 1)..Len(quads)) \cup {j} : quads'[p].dst = quads[d].dst
    BY <1>1, <1>4, <2>1 DEF Overwritten
  <2> QED BY <1>1, <1>4, <2>2 DEF Overwritten
<1>6. \A d \in 1..Len(quads) : \A p :
         p \in Uses(d)' <=> \/ p \in Uses(d)
                           \/ /\ p = j
                              /\ quads[d].dst \in {q.src1, q.src2}
                              /\ ~Overwritten(d)'
  <2> TAKE d \in 1..Len(quads)
  <2>1. quads'[d] = quads[d]
    BY <1>1
  <2>2. ASSUME NEW p \in (d + 1)..Len(quads)
        PROVE  p \in Uses(d)' <=> p \in Uses(d)
    <3>1. \A p2 \in (d + 1)..p : p2 \in 1..Len(quads)
      BY <1>1, <1>4
    <3>2. p \in (d + 1)..j /\ p \in 1..Len(quads) /\ p # d
      BY <1>1, <1>4
    <3> QED BY <1>1, <2>1, <3>1, <3>2 DEF Uses, Reads
  <2>3. j \in Uses(d)' <=> quads[d].dst \in {q.src1, q.src2} /\ ~Overwritten(d)'
    <3>1. j \in (d + 1)..j /\ j # d
      BY <1>1
    <3>2. (\A p2 \in (d + 1)..j : quads'[p2].dst # quads'[d].dst) <=> ~Overwritten(d)'
      BY <1>1 DEF Overwritten
    <3>3. j \in Uses(d)' <=> /\ quads'[d].dst \in {q.src1, q.src2}
                            /\ \A p2 \in (d + 1)..j : quads'[p2].dst # quads'[d].dst
      BY <1>1, <3>1 DEF Uses, Reads
    <3> QED BY <2>1, <3>2, <3>3
  <2>4. \A p \in Uses(d)' : p \in (d + 1)..Len(quads) \/ p = j \/ p = d
    BY <1>1, <1>4 DEF Uses
  <2>5. \A p \in Uses(d) : p \in (d + 1)..Len(quads) \/ p = d
    BY DEF Uses
  <2>6. d \in Uses(d)' /\ d \in Uses(d) /\ j \notin Uses(d)
    BY <1>1, <1>4 DEF Uses
  <2> QED BY <2>2, <2>3, <2>4, <2>5, <2>6
<1>7. \A p \in (j + 1)..j : FALSE
  BY <1>1
<1>8. ~Overwritten(j)' /\ Uses(j)' = {j}
  <2>1. ~Overwritten(j)'
    BY <1>1, <1>7 DEF Overwritten
  <2>2. Uses(j)' = {j}
    BY <1>1, <1>7 DEF Uses
  <2> QED BY <2>1, <2>2
<1>9. \A n : Defined(n)' <=> Defined(n) \/ n = q.dst
  BY <1>1 DEF Defined
<1> QED BY <1>1, <1>2, <1>3, <1>5, <1>6, <1>8, <1>9

LEMMA ExtendFields ==
    ASSUME NEW lt \in [Nodes -> SlotLifetime], NEW m \in Item, NEW p \in Nat
    PROVE  \A n \in Nodes :
              /\ Extend(lt, m, p)[n].start = lt[n].start
              /\ Extend(lt, m, p)[n].node = lt[n].node
              /\ Extend(lt, m, p)[n].slot = lt[n].slot
              /\ Extend(lt, m, p)[n].end = IF n = m THEN p ELSE lt[n].end
<1> SUFFICES ASSUME NEW n \in Nodes
             PROVE  /\ Extend(lt, m, p)[n].start = lt[n].start
                    /\ Extend(lt, m, p)[n].node = lt[n].node
                    /\ Extend(lt, m, p)[n].slot = lt[n].slot
                    /\ Extend(lt, m, p)[n].end = IF n = m THEN p ELSE lt[n].end
  OBVIOUS
<1>1. CASE m = NoItem
  <2>1. n # m
    BY <1>1 DEF Nodes, NoItem
  <2> QED BY <1>1, <2>1 DEF Extend
<1>2. CASE m # NoItem
  <2> DEFINE r == [lt[m] EXCEPT !.end = p]
  <2>1. m \in Nodes
    BY <1>2 DEF Item
  <2>2. r.start = lt[m].start /\ r.node = lt[m].node /\ r.slot = lt[m].slot /\ r.end = p
    BY <2>1 DEF SlotLifetime
  <2>3. Extend(lt, m, p) = [lt EXCEPT ![m] = r]
    BY <1>2 DEF Extend
  <2> HIDE DEF r
  <2> QED BY <2>1, <2>2, <2>3
<1> QED BY <1>1, <1>2

(* What the scan of a quadruple does to the lifetime of a node.              *)
LEMMA ScanLifetimes ==
    ASSUME TypeInv, NEW q \in Quad, ScanQuad(q), NEW n \in Nodes
    PROVE  /\ lifetimes'[n].start = IF n = q.dst THEN i ELSE lifetimes[n].start
           /\ lifetimes'[n].node = IF n = q.dst THEN n ELSE lifetimes[n].node
           /\ lifetimes'[n].slot = IF n = q.dst THEN NullSlot ELSE lifetimes[n].slot
           /\ lifetimes'[n].end = IF n \in {q.dst, q.src1, q.src2} THEN i ELSE lifetimes[n].end
<1> DEFINE l1 == Open(lifetimes, q.dst, i)
           l2 == Extend(l1, q.src1, i)
<1>1. /\ q.dst \in Item /\ q.src1 \in Item /\ q.src2 \in Item
      /\ i \in Nat
      /\ lifetimes \in [Nodes -> SlotLifetime]
      /\ n # NoItem
  BY DEF Quad, TypeInv, TypeOK, Nodes, NoItem
<1>2. l1 \in [Nodes -> SlotLifetime]
  BY <1>1, OpenType
<1>3. /\ l1[n].start = IF n = q.dst THEN i ELSE lifetimes[n].start
      /\ l1[n].node = IF n = q.dst THEN n ELSE lifetimes[n].node
      /\ l1[n].slot = IF n = q.dst THEN NullSlot ELSE lifetimes[n].slot
      /\ l1[n].end = IF n = q.dst THEN i ELSE lifetimes[n].end
  <2>1. CASE n = q.dst
    BY <1>1, <2>1 DEF Open
  <2>2. CASE n # q.dst
    <3>1. l1[n] = lifetimes[n]
      BY <1>1, <2>2 DEF Open
    <3> QED BY <2>2, <3>1
  <2> QED BY <2>1, <2>2
<1> HIDE DEF l1
<1>4. l2 \in [Nodes -> SlotLifetime]
  BY <1>1, <1>2, ExtendType
<1>5. /\ l2[n].start = l1[n].start /\ l2[n].node = l1[n].node /\ l2[n].slot = l1[n].slot
      /\ l2[n].end = IF n = q.src1 THEN i ELSE l1[n].end
  BY <1>1, <1>2, ExtendFields
<1>6. lifetimes' = Extend(l2, q.src2, i)
  BY DEF ScanQuad, l1
<1> HIDE DEF l2
<1>7. /\ lifetimes'[n].start = l2[n].start
      /\ lifetimes'[n].node = l2[n].node
      /\ lifetimes'[n].slot = l2[n].slot
      /\ lifetimes'[n].end = IF n = q.src2 THEN i ELSE l2[n].end
  BY <1>1, <1>4, <1>6, ExtendFields
<1> QED BY <1>3, <1>5, <1>7

(* The definition of the last value of a node is the one its lifetime has.   *)
LEMMA LastDefinition ==
    ASSUME TypeInv, NodeLifetimes, NEW d \in Definitions, ~Overwritten(d)
    PROVE  /\ quads[d].dst \in Nodes
           /\ lifetimes[quads[d].dst].start = d
<1> DEFINE n == quads[d].dst
           e == lifetimes[n].start
<1>1. d \in 1..Len(quads) /\ Len(quads) \in Nat
  BY DEF Definitions, TypeInv, TypeOK
<1>2. n \in Nodes
  <2>1. quads[d] \in Quad
    BY <1>1 DEF TypeInv, TypeOK
  <2>2. n \in Item /\ n # NoItem
    BY <2>1 DEF Quad, Definitions
  <2> QED BY <2>2 DEF Item
<1>3. Defined(n)
  BY DEF Definitions, Defined
<1>4. /\ e \in Definitions
      /\ quads[e].dst = n
      /\ ~Overwritten(e)
  BY <1>2, <1>3 DEF NodeLifetimes, IsLiveRange
<1>5. e \in 1..Len(quads)
  BY <1>4 DEF Definitions, TypeInv, TypeOK
<1> HIDE DEF e
<1>6. ~(d < e) /\ ~(e < d)
  <2>1. d < e => e \in (d + 1)..Len(quads)
    BY <1>1, <1>5
  <2>2. e < d => d \in (e + 1)..Len(quads)
    BY <1>1, <1>5
  <2> QED BY <1>4, <2>1, <2>2 DEF Overwritten
<1>7. e = d
  BY <1>1, <1>5, <1>6
<1> QED BY <1>2, <1>7 DEF e

-----------------------------------------------------------------------------
(* The loops                                                                 *)

(* memory_stack_push drops nothing: there is room for every definition.      *)
LEMMA RoomToPush ==
    ASSUME TypeInv, RangesInv, pc \in {"scan", "collect"}
    PROVE  Len(ranges) < Capacity
<1>1. /\ HoldsRanges(ranges, Closed)
      /\ Len(quads) <= quadCount
      /\ ranges \in Seq(SlotLifetime)
      /\ Len(quads) \in Nat
      /\ quadCount \in Nat
  BY DEF RangesInv, TypeInv, TypeOK
<1>2. Closed \subseteq 1..Len(quads)
  BY DEF Closed, Definitions, TypeInv, TypeOK
<1>3. Len(ranges) <= Len(quads)
  BY <1>1, <1>2, RangesCount
<1> QED BY <1>1, <1>3 DEF Capacity

LEMMA ScanKeepsNodeLifetimes ==
    ASSUME TypeInv, RangesInv, NEW q \in Quad, ScanQuad(q)
    PROVE  NodeLifetimes'
<1>1. /\ quads \in Seq(Quad)
      /\ quads' = Append(quads, q)
      /\ i = Len(quads) + 1
      /\ i \in Nat
      /\ NodeLifetimes
  BY DEF ScanQuad, RangesInv, TypeInv, TypeOK
<1> SUFFICES ASSUME NEW n \in Nodes
             PROVE  IF lifetimes'[n].start = 0 THEN ~Defined(n)'
                    ELSE /\ IsLiveRange(lifetimes[n], lifetimes[n].start)'
                         /\ ~Overwritten(lifetimes[n].start)'
                         /\ lifetimes'[n].node = n
  BY DEF NodeLifetimes
<1> DEFINE lt == lifetimes[n]
<1>2. /\ lifetimes'[n].start = IF n = q.dst THEN i ELSE lt.start
      /\ lifetimes'[n].node = IF n = q.dst THEN n ELSE lt.node
      /\ lifetimes'[n].end = IF n \in {q.dst, q.src1, q.src2} THEN i ELSE lt.end
  BY ScanLifetimes
<1> PICK j : j = i
  OBVIOUS
<1>3. j = Len(quads) + 1 /\ j \in Nat /\ j # 0
  BY <1>1
<1>4. CASE n = q.dst
  <2>1. n # NoItem
    BY DEF Nodes, NoItem
  <2>2. /\ j \in Definitions' /\ quads'[j] = q /\ ~Overwritten(j)' /\ Uses(j)' = {j}
    BY <1>1, <1>3, <1>4, <2>1, OneMoreQuad
  <2>3. lifetimes'[n].start = j /\ lifetimes'[n].node = n /\ lifetimes'[n].end = j
    BY <1>2, <1>4
  <2> QED BY <1>3, <1>4, <2>2, <2>3 DEF IsLiveRange
<1>5. CASE n # q.dst /\ lt.start = 0
  <2>1. ~Defined(n)
    BY <1>1, <1>5 DEF NodeLifetimes
  <2>2. ~Defined(n)'
    BY <1>1, <1>3, <1>5, <2>1, OneMoreQuad
  <2> QED BY <1>2, <1>5, <2>2
<1>6. CASE n # q.dst /\ lt.start # 0
  <2> PICK d : d = lt.start
    OBVIOUS
  <2>1. /\ IsLiveRange(lt, d)
        /\ ~Overwritten(d)
        /\ lt.node = n
        /\ d # 0
    BY <1>1, <1>6 DEF NodeLifetimes
  <2>2. d \in Definitions /\ quads[d].dst = n
    BY <2>1 DEF IsLiveRange
  <2>3. /\ d \in Definitions'
        /\ quads'[d].dst = n
        /\ ~Overwritten(d)'
        /\ \A p : p \in Uses(d)' <=> p \in Uses(d) \/ (p = j /\ n \in {q.src1, q.src2})
    <3>1. d \in Definitions'
      BY <1>1, <1>3, <2>2, OneMoreQuad
    <3>2. quads'[d].dst = n
      BY <1>1, <1>3, <2>2, OneMoreQuad
    <3>3. ~Overwritten(d)'
      BY <1>1, <1>3, <1>6, <2>1, <2>2, OneMoreQuad
    <3>4. \A p : p \in Uses(d)' <=> p \in Uses(d) \/ (p = j /\ n \in {q.src1, q.src2})
      BY <1>1, <1>3, <2>2, <3>3, OneMoreQuad
    <3> QED BY <3>1, <3>2, <3>3, <3>4
  <2>4. /\ lifetimes'[n].start = d
        /\ lifetimes'[n].node = n
        /\ lifetimes'[n].end = IF n \in {q.src1, q.src2} THEN j ELSE lt.end
    BY <1>2, <1>6, <2>1
  <2>5. \A p \in Uses(d) : p <= j
    <3>1. d \in 1..Len(quads) /\ Len(quads) \in Nat
      BY <1>1, <2>2 DEF Definitions
    <3> QED BY <1>3, <3>1 DEF Uses
  <2>6. lifetimes'[n].end \in Uses(d)' /\ \A p \in Uses(d)' : p <= lifetimes'[n].end
    <3>1. CASE n \in {q.src1, q.src2}
      BY <1>3, <2>3, <2>4, <2>5, <3>1
    <3>2. CASE n \notin {q.src1, q.src2}
      BY <2>1, <2>3, <2>4, <3>2 DEF IsLiveRange
    <3> QED BY <3>1, <3>2
  <2> QED BY <2>1, <2>3, <2>4, <2>6 DEF IsLiveRange
<1> QED BY <1>4, <1>5, <1>6

(* The value a quadruple overwrites is the one that is pushed.               *)
LEMMA ScanKeepsRanges ==
    ASSUME TypeInv, RangesInv, NEW q \in Quad, ScanQuad(q)
    PROVE  HoldsRanges(ranges, Closed)'
<1>1. /\ quads \in Seq(Quad)
      /\ quads' = Append(quads, q)
      /\ i = Len(quads) + 1
      /\ i \in Nat
      /\ NodeLifetimes
      /\ HoldsRanges(ranges, Closed)
      /\ ranges \in Seq(SlotLifetime)
      /\ pc = "scan" /\ pc' = "scan"
      /\ q.dst \in Item
  BY DEF ScanQuad, RangesInv, TypeInv, TypeOK, Quad
<1> PICK j : j = i
  OBVIOUS
<1> DEFINE lt == lifetimes[q.dst]
           S == {d \in Definitions : Overwritten(d) \/ quads[d].dst = q.dst}
<1>2. /\ Definitions' = IF q.dst = NoItem THEN Definitions ELSE Definitions \cup {j}
      /\ \A d \in Definitions : quads'[d].dst = quads[d].dst
      /\ \A d \in Definitions : Overwritten(d)' <=> Overwritten(d) \/ quads[d].dst = q.dst
      /\ ~Overwritten(j)'
  BY <1>1, OneMoreQuad
<1>2a. ASSUME NEW d \in Definitions, Overwritten(d)'
       PROVE  Uses(d)' = Uses(d)
  <2>1. \A p : p \in Uses(d)' <=> p \in Uses(d)
    BY <1>1, <1>2a, OneMoreQuad
  <2> QED BY <2>1
<1>3. Closed' = S
  BY <1>1, <1>2 DEF Closed
<1>4. Closed = {d \in Definitions : Overwritten(d)}
  BY <1>1 DEF Closed
<1>5. HoldsRanges(ranges', S)
  <2>1. CASE q.dst # NoItem /\ lt.start # 0
    <3>1. q.dst \in Nodes
      BY <1>1, <2>1 DEF Item
    <3>2. lt \in SlotLifetime
      BY <3>1 DEF TypeInv, TypeOK
    <3>3. ranges' = Append(ranges, lt)
      BY <2>1, RoomToPush, <1>1 DEF ScanQuad, Push
    <3>4. /\ IsLiveRange(lt, lt.start)
          /\ ~Overwritten(lt.start)
          /\ lt.node = q.dst
      BY <1>1, <2>1, <3>1 DEF NodeLifetimes
    <3>5. lt.start \in Definitions /\ quads[lt.start].dst = q.dst
      BY <3>4 DEF IsLiveRange
    <3>6. \A d \in Definitions : ~Overwritten(d) /\ quads[d].dst = q.dst => d = lt.start
      BY <1>1, LastDefinition
    <3>7. S = Closed \cup {lt.start}
      BY <1>4, <3>5, <3>6
    <3>8. lt.start \notin Closed
      BY <1>4, <3>4
    <3> HIDE DEF lt, S
    <3> QED BY <1>1, <3>2, <3>3, <3>4, <3>7, <3>8, PushRange
  <2>2. CASE ~(q.dst # NoItem /\ lt.start # 0)
    <3>1. ranges' = ranges
      BY <2>2 DEF ScanQuad
    <3>2. ASSUME NEW d \in Definitions
          PROVE  quads[d].dst # q.dst
      <4>1. quads[d].dst # NoItem /\ Defined(quads[d].dst)
        BY DEF Definitions, Defined
      <4>2. CASE q.dst \in Nodes
        BY <1>1, <2>2, <4>1, <4>2 DEF NodeLifetimes, Nodes, NoItem
      <4> QED BY <1>1, <4>1, <4>2 DEF Item
    <3>3. S = Closed
      BY <1>4, <3>2
    <3> QED BY <1>1, <3>1, <3>3
  <2> QED BY <2>1, <2>2
<1>6. \A l, d : d \in S /\ IsLiveRange(l, d) => IsLiveRange(l, d)'
  <2> SUFFICES ASSUME NEW l, NEW d \in S, IsLiveRange(l, d)
               PROVE  IsLiveRange(l, d)'
    OBVIOUS
  <2>1. d \in Definitions' /\ quads'[d].dst = quads[d].dst /\ Uses(d)' = Uses(d)
    BY <1>2, <1>2a
  <2> QED BY <2>1 DEF IsLiveRange
<1>7. \A p \in DOMAIN ranges' :
         /\ ranges'[p].start \in S
         /\ IsLiveRange(ranges'[p], ranges'[p].start)
  BY <1>5 DEF HoldsRanges
<1>8. \A p \in DOMAIN ranges' : IsLiveRange(ranges[p], ranges[p].start)'
  <2> HIDE DEF S
  <2> SUFFICES ASSUME NEW p \in DOMAIN ranges'
               PROVE  IsLiveRange(ranges[p], ranges[p].start)'
    OBVIOUS
  <2> PICK l, d : l = ranges'[p] /\ d = ranges'[p].start
    OBVIOUS
  <2>1. IsLiveRange(l, d)'
    BY <1>6, <1>7
  <2> QED BY <2>1 DEF IsLiveRange
<1> HIDE DEF S
<1> QED BY <1>3, <1>5, <1>7, <1>8 DEF HoldsRanges

(* What depends on quads and lifetimes only.                                 *)
LEMMA SameProgram ==
    ASSUME quads' = quads
    PROVE  /\ Definitions' = Definitions
           /\ \A d : Overwritten(d)' <=> Overwritten(d)
           /\ \A l, d : IsLiveRange(l, d)' <=> IsLiveRange(l, d)
           /\ \A rs, D : HoldsRanges(rs, D)' <=> HoldsRanges(rs, D)
<1>1. Definitions' = Definitions
  BY DEF Definitions
<1>2. \A d : Overwritten(d)' <=> Overwritten(d)
  BY DEF Overwritten
<1>3. \A d : Uses(d)' = Uses(d)
  BY DEF Uses, Reads
<1>4. \A l, d : IsLiveRange(l, d)' <=> IsLiveRange(l, d)
  BY <1>1, <1>3 DEF IsLiveRange
<1>5. \A rs, D : HoldsRanges(rs, D)' <=> HoldsRanges(rs, D)
  BY <1>4 DEF HoldsRanges
<1> QED BY <1>1, <1>2, <1>4, <1>5

LEMMA SameNodeLifetimes ==
    ASSUME quads' = quads, NodeLifetimes,
           \A n \in Nodes : /\ lifetimes'[n].start = lifetimes[n].start
                            /\ lifetimes'[n].end = lifetimes[n].end
                            /\ lifetimes'[n].node = lifetimes[n].node
    PROVE  NodeLifetimes'
<1> SUFFICES ASSUME NEW n \in Nodes
             PROVE  IF lifetimes'[n].start = 0 THEN ~Defined(n)'
                    ELSE /\ IsLiveRange(lifetimes[n], lifetimes[n].start)'
                         /\ ~Overwritten(lifetimes[n].start)'
                         /\ lifetimes'[n].node = n
  BY DEF NodeLifetimes
<1>1. Defined(n)' <=> Defined(n)
  BY DEF Defined
<1>2. Overwritten(lifetimes[n].start)' <=> Overwritten(lifetimes[n].start)
  BY DEF Overwritten
<1>3. IsLiveRange(lifetimes[n], lifetimes[n].start)
         => IsLiveRange(lifetimes[n], lifetimes[n].start)'
  <2>1. Uses(lifetimes[n].start)' = Uses(lifetimes[n].start)
    BY DEF Uses, Reads
  <2>2. Definitions' = Definitions
    BY DEF Definitions
  <2> QED BY <2>1, <2>2 DEF IsLiveRange
<1> QED BY <1>1, <1>2, <1>3 DEF NodeLifetimes

LEMMA CollectKeepsRanges ==
    ASSUME TypeInv, RangesInv, Collect
    PROVE  HoldsRanges(ranges, Closed)'
<1>1. /\ NodeLifetimes
      /\ HoldsRanges(ranges, Closed)
      /\ ranges \in Seq(SlotLifetime)
      /\ pc = "collect" /\ pc' = "collect"
      /\ i \in Nodes /\ i' = i + 1 /\ i \in Nat
      /\ quads' = quads
      /\ quads \in Seq(Quad)
  BY DEF Collect, RangesInv, TypeInv, TypeOK, Nodes, IndicesInside
<1> DEFINE lt == lifetimes[i]
           S == {d \in Definitions : Overwritten(d) \/ quads[d].dst < i + 1}
<1>2. Closed' = S
  BY <1>1, SameProgram DEF Closed
<1>3. Closed = {d \in Definitions : Overwritten(d) \/ quads[d].dst < i}
  BY <1>1 DEF Closed
<1>4. \A d \in Definitions : quads[d].dst \in Nat
  <2> TAKE d \in Definitions
  <2>1. quads[d] \in Quad
    BY <1>1 DEF Definitions
  <2>2. quads[d].dst \in Item
    BY <2>1 DEF Quad
  <2> QED BY <2>2, RegSlotsAssumption DEF Item, NoItem, Nodes, RegSlotsAssumption
<1>5. HoldsRanges(ranges', S)
  <2>1. CASE lt.start # 0
    <3>1. lt \in SlotLifetime
      BY <1>1 DEF TypeInv, TypeOK
    <3>2. ranges' = Append(ranges, lt)
      BY <1>1, <2>1, RoomToPush DEF Collect, Push
    <3>3. /\ IsLiveRange(lt, lt.start)
          /\ ~Overwritten(lt.start)
          /\ lt.node = i
      BY <1>1, <2>1 DEF NodeLifetimes
    <3>4. lt.start \in Definitions /\ quads[lt.start].dst = i
      BY <3>3 DEF IsLiveRange
    <3>5. \A d \in Definitions : ~Overwritten(d) /\ quads[d].dst = i => d = lt.start
      BY <1>1, LastDefinition
    <3>6. S = Closed \cup {lt.start}
      <4>1. \A d \in Definitions : quads[d].dst < i + 1 <=> quads[d].dst < i \/ quads[d].dst = i
        BY <1>1, <1>4
      <4> QED BY <1>3, <3>4, <3>5, <4>1
    <3>7. lt.start \notin Closed
      BY <1>1, <1>3, <3>3, <3>4
    <3> HIDE DEF lt, S
    <3> QED BY <1>1, <3>1, <3>2, <3>3, <3>6, <3>7, PushRange
  <2>2. CASE lt.start = 0
    <3>1. ranges' = ranges
      BY <2>2 DEF Collect
    <3>2. \A d \in Definitions : quads[d].dst # i
      BY <1>1, <2>2 DEF NodeLifetimes, Definitions, Defined
    <3>3. \A d \in Definitions : quads[d].dst < i + 1 <=> quads[d].dst < i
      BY <1>1, <1>4, <3>2
    <3>4. S = Closed
      BY <1>3, <3>3
    <3> QED BY <1>1, <3>1, <3>4
  <2> QED BY <2>1, <2>2
<1> HIDE DEF S
<1> QED BY <1>1, <1>2, <1>5, SameProgram DEF HoldsRanges

(* The insertion moves ranges and loses none.                                *)
LEMMA InsertKeepsRanges ==
    ASSUME TypeInv, i \in 2..Len(ranges), NEW j \in 1..i, NEW D,
           HoldsRanges(ranges, D)
    PROVE  HoldsRanges(Inserted(j), D)
<1> DEFINE N == Len(ranges)
           f == [p \in 1..N |-> IF p < j \/ p > i THEN p ELSE IF p = j THEN i ELSE p - 1]
           g == [p \in 1..N |-> IF p < j \/ p > i THEN p ELSE IF p = i THEN j ELSE p + 1]
           rs == Inserted(j)
<1>1. /\ ranges \in Seq(SlotLifetime)
      /\ N \in Nat
      /\ DOMAIN ranges = 1..N
  BY DEF TypeInv, TypeOK
<1>2. rs \in [1..N -> SlotLifetime]
  BY <1>1 DEF Inserted
<1>3. rs \in Seq(SlotLifetime) /\ DOMAIN rs = 1..N
  BY <1>1, <1>2, FunctionIsSeq
<1>4. \A p \in 1..N : rs[p] = ranges[f[p]]
  BY <1>1 DEF Inserted
<1>5. f \in Bijection(1..N, 1..N)
  <2>1. f \in [1..N -> 1..N] /\ g \in [1..N -> 1..N]
    OBVIOUS
  <2>2. \A p \in 1..N : f[g[p]] = p /\ g[f[p]] = p
    OBVIOUS
  <2> HIDE DEF f, g
  <2>3. \A p \in 1..N : \E q \in 1..N : f[q] = p
    BY <2>1, <2>2
  <2>4. \A p, q \in 1..N : f[p] = f[q] => p = q
    BY <2>1, <2>2
  <2> QED BY <2>1, <2>3, <2>4 DEF Bijection, Injection, Surjection, IsInjective
<1> HIDE DEF f, g, rs
<1>6. HoldsRanges(rs, D)
  BY <1>1, <1>3, <1>4, <1>5, ReorderRanges
<1> QED BY <1>6 DEF rs

(* A slot is no part of a live range.                                        *)
LEMMA AssignKeepsRanges ==
    ASSUME TypeInv, AllReady, NEW slot \in Slot, Assign(slot), NEW D,
           HoldsRanges(ranges, D), NodeLifetimes
    PROVE  HoldsRanges(ranges, D)' /\ NodeLifetimes'
<1>1. /\ ranges \in Seq(SlotLifetime)
      /\ ranges' \in Seq(SlotLifetime)
      /\ DOMAIN ranges = 1..Len(ranges)
      /\ DOMAIN ranges' = 1..Len(ranges)
      /\ \A p \in 1..Len(ranges) :
            /\ ranges'[p].start = ranges[p].start
            /\ ranges'[p].end = ranges[p].end
            /\ ranges'[p].node = ranges[p].node
  BY AssignRanges DEF TypeInv, TypeOK
<1>2. HoldsRanges(ranges', D)
  <2> DEFINE f == [p \in 1..Len(ranges) |-> p]
  <2>1. f \in Bijection(DOMAIN ranges', DOMAIN ranges)
    BY <1>1 DEF Bijection, Injection, Surjection, IsInjective
  <2>2. \A p \in DOMAIN ranges' : f[p] = p
    BY <1>1
  <2> HIDE DEF f
  <2> QED BY <1>1, <2>1, <2>2, ReorderRanges
<1>3. quads' = quads
  BY DEF Assign
<1>4. \A n \in Nodes : /\ lifetimes'[n].start = lifetimes[n].start
                       /\ lifetimes'[n].end = lifetimes[n].end
                       /\ lifetimes'[n].node = lifetimes[n].node
  BY DEF Assign, GiveSlot, TypeInv, TypeOK, SlotLifetime
<1>5. NodeLifetimes'
  BY <1>3, <1>4, SameNodeLifetimes
<1> QED BY <1>2, <1>3, <1>5, SameProgram DEF HoldsRanges

-----------------------------------------------------------------------------
(* The invariant                                                             *)

LEMMA InitRanges == Init => RangesInv
BY RegSlotsAssumption DEF RegSlotsAssumption, Init, RangesInv, Sorted

LEMMA NextRanges == IInv /\ RangesInv /\ [Next]_vars => RangesInv'
<1> SUFFICES ASSUME IInv, RangesInv, [Next]_vars
             PROVE  RangesInv'
  OBVIOUS
<1>0. /\ TypeInv /\ TypeInv'
      /\ quads \in Seq(Quad) /\ Len(quads) \in Nat
      /\ ranges \in Seq(SlotLifetime)
      /\ i \in Nat
  BY NextType DEF IInv, TypeInv, TypeOK
<1>1. CASE Create
  <2>1. /\ quads = <<>> /\ quads' = <<>> /\ ranges' = <<>> /\ i' = 1
        /\ pc = "create" /\ pc' = "scan"
        /\ lifetimes' = [n \in Nodes |-> NoLifetime]
        /\ quadCount' \in Nat
    BY <1>0, <1>1 DEF Create, RangesInv, TypeInv, TypeOK
  <2>2. Definitions' = {}
    BY <2>1 DEF Definitions
  <2>3. NodeLifetimes'
    BY <2>1 DEF NodeLifetimes, NoLifetime, Defined
  <2>4. HoldsRanges(ranges, Closed)'
    BY <2>1, <2>2 DEF HoldsRanges, Closed
  <2> QED BY <2>1, <2>3, <2>4 DEF RangesInv, Sorted
<1>2. ASSUME pc' = "failed" PROVE RangesInv'
  BY <1>2 DEF RangesInv, Sorted
<1>3. ASSUME NEW q \in Inputs, ScanQuad(q)
      PROVE  RangesInv'
  <2>1. q \in Quad
    BY RegSlotsAssumption DEF RegSlotsAssumption
  <2>2. NodeLifetimes' /\ HoldsRanges(ranges, Closed)'
    BY <1>0, <1>3, <2>1, ScanKeepsNodeLifetimes, ScanKeepsRanges
  <2>3. /\ pc' = "scan" /\ i' = i + 1 /\ i = Len(quads) + 1 /\ i <= quadCount
        /\ quadCount' = quadCount /\ Len(quads') = Len(quads) + 1
    BY <1>0, <1>3, <2>1 DEF ScanQuad, RangesInv
  <2> QED BY <1>0, <2>2, <2>3 DEF RangesInv, Sorted
<1>4. CASE EndScan
  <2>1. /\ pc = "scan" /\ pc' = "collect" /\ i' = 1 /\ quads' = quads
        /\ lifetimes' = lifetimes /\ ranges' = ranges /\ quadCount' = quadCount
    BY <1>4 DEF EndScan
  <2>2. NodeLifetimes'
    BY <2>1, SameNodeLifetimes DEF RangesInv
  <2>3. \A d \in Definitions : ~(quads[d].dst < 1)
    <3> TAKE d \in Definitions
    <3>1. quads[d] \in Quad
      BY <1>0 DEF Definitions
    <3>2. quads[d].dst \in Nodes
      BY <3>1 DEF Quad, Item, Definitions
    <3> QED BY <3>2, RegSlotsAssumption DEF Nodes, RegSlotsAssumption
  <2>4. Closed' = Closed
    BY <2>1, <2>3, SameProgram DEF Closed
  <2>5. HoldsRanges(ranges, Closed)'
    BY <2>1, <2>4, SameProgram DEF HoldsRanges, RangesInv
  <2> QED BY <2>1, <2>2, <2>5, RegSlotsAssumption DEF RangesInv, Sorted, RegSlotsAssumption
<1>5. CASE Collect
  <2>1. HoldsRanges(ranges, Closed)'
    BY <1>0, <1>5, CollectKeepsRanges
  <2>2. NodeLifetimes'
    BY <1>5, SameNodeLifetimes DEF RangesInv, Collect
  <2>3. /\ pc' = "collect" /\ i' = i + 1 /\ i' <= NodeCount + 1
        /\ quads' = quads /\ quadCount' = quadCount /\ pc = "collect"
    BY <1>0, <1>5, RegSlotsAssumption DEF Collect, RegSlotsAssumption
  <2> QED BY <2>1, <2>2, <2>3 DEF RangesInv, Sorted
<1>6. CASE EndCollect
  <2>1. /\ pc = "collect" /\ pc' = "sort" /\ i > NodeCount /\ quads' = quads
        /\ lifetimes' = lifetimes /\ ranges' = ranges /\ quadCount' = quadCount
    BY <1>6 DEF EndCollect
  <2>2. NodeLifetimes'
    BY <2>1, SameNodeLifetimes DEF RangesInv
  <2>3. \A d \in Definitions : quads[d].dst < i
    <3> TAKE d \in Definitions
    <3>1. quads[d] \in Quad
      BY <1>0 DEF Definitions
    <3>2. quads[d].dst \in Nodes
      BY <3>1 DEF Quad, Item, Definitions
    <3> QED BY <1>0, <2>1, <3>2, RegSlotsAssumption DEF Nodes, RegSlotsAssumption
  <2>4. Closed' = Definitions /\ Closed = Definitions
    BY <2>1, <2>3, SameProgram DEF Closed
  <2>5. HoldsRanges(ranges, Closed)'
    BY <2>1, <2>4, SameProgram DEF HoldsRanges, RangesInv
  <2> QED BY <2>1, <2>2, <2>5 DEF RangesInv, Sorted
<1>7. CASE InsertKey
  <2>1. PICK j \in 1..i : ranges' = Inserted(j)
    BY <1>7 DEF InsertKey
  <2>2. /\ pc = "sort" /\ pc' = "sort" /\ quads' = quads
        /\ lifetimes' = lifetimes /\ quadCount' = quadCount
        /\ i \in 2..Len(ranges)
    BY <1>0, <1>7 DEF InsertKey, IInv
  <2> PICK D : D = Closed
    OBVIOUS
  <2>3. Closed' = D
    BY <2>2, SameProgram DEF Closed
  <2>4. HoldsRanges(Inserted(j), D)
    BY <1>0, <2>2, InsertKeepsRanges DEF RangesInv
  <2>5. HoldsRanges(ranges, Closed)'
    BY <2>1, <2>2, <2>3, <2>4, SameProgram DEF HoldsRanges
  <2>6. NodeLifetimes'
    BY <2>2, SameNodeLifetimes DEF RangesInv
  <2> QED BY <2>2, <2>5, <2>6 DEF RangesInv, Sorted
<1>8. ASSUME UNCHANGED <<quadCount, quads, lifetimes, ranges>>, pc = "sort" \/ Sorted, Sorted',
             SortedUpTo(Len(ranges)), pc' = "done" => i' > Len(ranges)
      PROVE  RangesInv'
  <2>1. NodeLifetimes'
    BY <1>8, SameNodeLifetimes DEF RangesInv, Sorted
  <2>2. Closed = Definitions /\ Closed' = Closed
    BY <1>8, SameProgram DEF Closed, Sorted
  <2>3. HoldsRanges(ranges, Closed)'
    BY <1>8, <2>2, SameProgram DEF HoldsRanges, RangesInv, Sorted
  <2>4. SortedUpTo(Len(ranges))'
    BY <1>8 DEF SortedUpTo
  <2> QED BY <1>8, <2>1, <2>3, <2>4 DEF RangesInv, Sorted
<1>9. CASE EndSort
  <2>1. SortedUpTo(Len(ranges))
    BY <1>0, <1>9 DEF EndSort, IInv, SortedUpTo
  <2> QED BY <1>8, <1>9, <2>1 DEF EndSort, Sorted
<1>10. CASE Expire \/ KeepActive \/ Finish
  BY <1>8, <1>10 DEF Expire, KeepActive, Finish, RangesInv, Sorted
<1>11. ASSUME NEW slot \in Slot, AllReady, Assign(slot)
       PROVE  RangesInv'
  <2>1. /\ pc = "expire" /\ pc' = "expire" /\ quads' = quads /\ quadCount' = quadCount
    BY <1>11 DEF AllReady, Assign
  <2> PICK D : D = Closed
    OBVIOUS
  <2>2. Closed' = D
    BY <2>1, SameProgram DEF Closed
  <2>3. HoldsRanges(ranges, D)' /\ NodeLifetimes'
    BY <1>0, <1>11, <2>1, AssignKeepsRanges DEF RangesInv
  <2>4. SortedUpTo(Len(ranges))'
    <3>1. /\ DOMAIN ranges = 1..Len(ranges)
          /\ DOMAIN ranges' = 1..Len(ranges)
          /\ Len(ranges') = Len(ranges)
          /\ \A p \in 1..Len(ranges) : ranges'[p].start = ranges[p].start
      BY <1>0, <1>11, AssignRanges
    <3> QED BY <2>1, <3>1 DEF SortedUpTo, RangesInv, Sorted
  <2> QED BY <2>1, <2>2, <2>3, <2>4 DEF RangesInv, Sorted, HoldsRanges
<1>12. CASE AllocRegister
  <2>1. PICK r \in Regs : Assign(RegSlot(r))
    BY <1>12 DEF AllocRegister
  <2>2. RegSlot(r) \in Slot
    BY PoolSlots
  <2> QED BY <1>11, <1>12, <2>1, <2>2 DEF AllocRegister
<1>13. CASE AllocSpilled
  <2>1. PICK s \in Spills : Assign(StackSlot(s))
    BY <1>13 DEF AllocSpilled
  <2>2. StackSlot(s) \in Slot
    BY PoolSlots
  <2> QED BY <1>11, <1>13, <2>1, <2>2 DEF AllocSpilled
<1>14. CASE UNCHANGED vars
  <2>1. /\ quads' = quads /\ lifetimes' = lifetimes /\ ranges' = ranges /\ pc' = pc
        /\ quadCount' = quadCount /\ i' = i
    BY <1>14 DEF vars
  <2>2. Closed' = Closed
    BY <2>1, SameProgram DEF Closed
  <2>3. RangesInv => NodeLifetimes' \/ pc \in {"create", "failed"}
    BY <2>1, SameNodeLifetimes DEF RangesInv
  <2>4. HoldsRanges(ranges, Closed) => HoldsRanges(ranges, Closed)'
    BY <2>1, <2>2, SameProgram DEF HoldsRanges
  <2> QED BY <2>1, <2>3, <2>4 DEF RangesInv, Sorted, SortedUpTo
<1>15. CASE CreateOutOfMemory \/ ActiveOutOfMemory \/ AllocFails
  BY <1>2, <1>15 DEF CreateOutOfMemory, ActiveOutOfMemory, AllocFails, Destroy
<1> QED
  BY <1>1, <1>3, <1>4, <1>5, <1>6, <1>7, <1>9, <1>10, <1>12, <1>13, <1>14, <1>15
  DEF Next, Returned

(* The ranges collected so far are, in every state of create_regslots, the    *)
(* live ranges of the quadruples scanned so far.                              *)
THEOREM RangesInvariance == Spec => [](IInv /\ RangesInv)
<1>1. Spec => []IInv
  BY Invariance
<1> QED BY <1>1, InitRanges, NextRanges, PTL DEF Spec

(* Once sorted, stack_range has the live range of every definition of the    *)
(* program exactly once and in order, for every program: no push of          *)
(* create_regslots is dropped and no read of a value is missed.              *)
THEOREM RangesComputed == Spec => []RangesAreLiveRanges
<1>1. IInv /\ RangesInv => RangesAreLiveRanges
  <2> SUFFICES ASSUME IInv, RangesInv, Sorted
               PROVE  /\ Len(ranges) = Cardinality(Definitions)
                      /\ \A p, q \in DOMAIN ranges : p < q => ranges[p].start < ranges[q].start
                      /\ \A d \in Definitions : \E p \in DOMAIN ranges :
                            LifetimeOf(p) = LiveRange(d)
    BY DEF RangesAreLiveRanges
  <2>1. /\ ranges \in Seq(SlotLifetime)
        /\ DOMAIN ranges = 1..Len(ranges)
        /\ Len(quads) \in Nat
        /\ Definitions \subseteq 1..Len(quads)
    BY DEF IInv, TypeInv, TypeOK, Definitions
  <2>2. Closed = Definitions /\ HoldsRanges(ranges, Definitions)
    BY DEF RangesInv, Closed, Sorted
  <2>3. Len(ranges) = Cardinality(Definitions)
    BY <2>1, <2>2, RangesCount
  <2>4. ASSUME NEW p \in DOMAIN ranges, NEW q \in DOMAIN ranges, p < q
        PROVE  ranges[p].start < ranges[q].start
    <3>1. ranges[p].start <= ranges[q].start
      BY <2>1, <2>4 DEF RangesInv, SortedUpTo
    <3>2. ranges[p].start # ranges[q].start
      BY <2>1, <2>2, <2>4 DEF HoldsRanges
    <3>3. ranges[p].start \in Nat /\ ranges[q].start \in Nat
      BY <2>1, LifetimeFields
    <3> QED BY <3>1, <3>2, <3>3
  <2>5. ASSUME NEW d \in Definitions
        PROVE  \E p \in DOMAIN ranges : LifetimeOf(p) = LiveRange(d)
    <3>1. PICK p \in DOMAIN ranges : ranges[p].start = d /\ IsLiveRange(ranges[p], d)
      BY <2>2 DEF HoldsRanges
    <3>2. Uses(d) \subseteq Int
      BY <2>1 DEF Uses
    <3>3. \A e \in Uses(d) : (\A p2 \in Uses(d) : p2 <= e) => e = ranges[p].end
      BY <3>1, <3>2 DEF IsLiveRange
    <3>4. ranges[p].end = CHOOSE e \in Uses(d) : \A p2 \in Uses(d) : p2 <= e
      BY <3>1, <3>3 DEF IsLiveRange
    <3> QED BY <3>1, <3>4 DEF LifetimeOf, LiveRange, IsLiveRange
  <2> QED BY <2>3, <2>4, <2>5
<1> QED BY <1>1, RangesInvariance, PTL

-----------------------------------------------------------------------------
(* Where the code generator finds the slot of a node                         *)

Own(n) == {p \in Allocated : ranges[p].node = n}

(* lifetimes[] has the slot of the last range of the node that has one.      *)
SlotsInv ==
    /\ ~Sorted => \A n \in Nodes : lifetimes[n].slot = NullSlot
    /\ Sorted => \A n \in Nodes :
          /\ Own(n) = {} => lifetimes[n].slot = NullSlot
          /\ \A p \in Own(n) : (\A q \in Own(n) : q <= p) => lifetimes[n].slot = ranges[p].slot

LEMMA AssignKeepsSlots ==
    ASSUME TypeInv, SlotsInv, AllReady, NEW slot \in Slot, Assign(slot)
    PROVE  SlotsInv'
<1>1. /\ i \in 1..Len(ranges)
      /\ i' = i + 1
      /\ Len(ranges) \in Nat
      /\ DOMAIN ranges = 1..Len(ranges)
      /\ DOMAIN ranges' = 1..Len(ranges)
      /\ \A p \in 1..Len(ranges) :
            /\ ranges'[p].node = ranges[p].node
            /\ ranges'[p].slot = IF p = i THEN slot ELSE ranges[p].slot
      /\ pc = "expire" /\ pc' = "expire"
  <2>1. ranges \in Seq(SlotLifetime)
    BY DEF TypeInv, TypeOK
  <2>2. i' = i + 1 /\ pc = "expire" /\ pc' = "expire"
    BY DEF AllReady, Assign
  <2>3. /\ i \in 1..Len(ranges)
        /\ ranges' \in Seq(SlotLifetime)
        /\ Len(ranges') = Len(ranges)
        /\ \A p \in 1..Len(ranges) :
              /\ ranges'[p].node = ranges[p].node
              /\ ranges'[p].slot = IF p = i THEN slot ELSE ranges[p].slot
    BY AssignRanges
  <2> QED BY <2>1, <2>2, <2>3
<1>2. Sorted /\ Sorted'
  BY <1>1 DEF Sorted
<1>3. \A n \in Nodes : lifetimes'[n].slot = IF n = ranges[i].node THEN slot ELSE lifetimes[n].slot
  BY DEF Assign, GiveSlot, TypeInv, TypeOK, SlotLifetime
<1>4. Allocated = 1..(i - 1) /\ Allocated' = 1..i
  BY <1>1, <1>2 DEF Allocated
<1>5. \A n : Own(n)' = IF n = ranges[i].node THEN Own(n) \cup {i} ELSE Own(n)
  <2> TAKE n
  <2>1. Own(n)' = {p \in 1..i : ranges[p].node = n}
    BY <1>1, <1>4 DEF Own
  <2>2. 1..i = 1..(i - 1) \cup {i}
    BY <1>1
  <2> QED BY <1>1, <1>4, <2>1, <2>2 DEF Own
<1>6. \A n : Own(n) \subseteq 1..(i - 1)
  BY <1>4 DEF Own
<1> SUFFICES ASSUME NEW n \in Nodes
             PROVE  /\ Own(n)' = {} => lifetimes'[n].slot = NullSlot
                    /\ \A p \in Own(n)' : (\A q \in Own(n)' : q <= p)
                                             => lifetimes'[n].slot = ranges'[p].slot
  BY <1>2 DEF SlotsInv
<1>7. CASE n = ranges[i].node
  <2>1. Own(n)' = Own(n) \cup {i} /\ lifetimes'[n].slot = slot
    BY <1>3, <1>5, <1>7
  <2>2. \A p \in Own(n)' : i <= p => p = i
    BY <1>1, <1>6, <2>1
  <2> QED BY <1>1, <2>1, <2>2
<1>8. CASE n # ranges[i].node
  <2>1. Own(n)' = Own(n) /\ lifetimes'[n].slot = lifetimes[n].slot
    BY <1>3, <1>5, <1>8
  <2>2. \A p \in Own(n) : ranges'[p].slot = ranges[p].slot
    BY <1>1, <1>6
  <2> QED BY <1>2, <2>1, <2>2 DEF SlotsInv
<1> QED BY <1>7, <1>8

LEMMA NextSlots == TypeInv /\ SlotsInv /\ [Next]_vars => SlotsInv'
<1> SUFFICES ASSUME TypeInv, SlotsInv, [Next]_vars
             PROVE  SlotsInv'
  OBVIOUS
<1>1. ASSUME ~Sorted, ~Sorted', lifetimes' = lifetimes
      PROVE  SlotsInv'
  BY <1>1 DEF SlotsInv
<1>2. CASE Create \/ EndScan \/ Collect \/ EndCollect \/ InsertKey
  BY <1>1, <1>2 DEF Create, EndScan, Collect, EndCollect, InsertKey, Sorted
<1>3. ASSUME NEW q \in Inputs, ScanQuad(q)
      PROVE  SlotsInv'
  <2>1. q \in Quad
    BY RegSlotsAssumption DEF RegSlotsAssumption
  <2>2. \A n \in Nodes : lifetimes'[n].slot = IF n = q.dst THEN NullSlot ELSE lifetimes[n].slot
    BY <1>3, <2>1, ScanLifetimes
  <2> QED BY <1>3, <2>2 DEF ScanQuad, SlotsInv, Sorted
<1>4. CASE EndSort
  <2>1. Allocated' = {}
    BY <1>4 DEF EndSort, Allocated, TypeInv, TypeOK
  <2> QED BY <1>4, <2>1 DEF EndSort, SlotsInv, Sorted, Own
<1>5. ASSUME Sorted, Sorted', ranges' = ranges, lifetimes' = lifetimes, i' = i
      PROVE  SlotsInv'
  <2>1. \A n : Own(n)' = Own(n)
    BY <1>5 DEF Own, Allocated
  <2> QED BY <1>5, <2>1 DEF SlotsInv
<1>6. CASE Expire \/ KeepActive \/ Finish
  BY <1>5, <1>6 DEF Expire, KeepActive, Finish, Sorted
<1>7. CASE AllocRegister
  <2>1. PICK r \in Regs : Assign(RegSlot(r))
    BY <1>7 DEF AllocRegister
  <2>2. RegSlot(r) \in Slot
    BY PoolSlots
  <2> QED BY <1>7, <2>1, <2>2, AssignKeepsSlots DEF AllocRegister
<1>8. CASE AllocSpilled
  <2>1. PICK s \in Spills : Assign(StackSlot(s))
    BY <1>8 DEF AllocSpilled
  <2>2. StackSlot(s) \in Slot
    BY PoolSlots
  <2> QED BY <1>8, <2>1, <2>2, AssignKeepsSlots DEF AllocSpilled
<1>9. CASE CreateOutOfMemory \/ ActiveOutOfMemory \/ AllocFails
  BY <1>9 DEF CreateOutOfMemory, ActiveOutOfMemory, AllocFails, Destroy, SlotsInv, Sorted, NoLifetime
<1>10. CASE UNCHANGED vars
  BY <1>1, <1>5, <1>10 DEF vars, Sorted
<1> QED
  BY <1>2, <1>3, <1>4, <1>6, <1>7, <1>8, <1>9, <1>10 DEF Next, Returned

(* When create_regslots returns true, lifetimes[], where the code generator  *)
(* looks a node up, has the last live range of the node with its slot, and   *)
(* the null slot for a node that is never written.                           *)
THEOREM LastSlotFound == Spec => []LifetimeHasLastSlot
<1>1. Init => SlotsInv
  BY DEF Init, SlotsInv, Sorted, NoLifetime
<1>2. Spec => []SlotsInv
  <2>1. IInv /\ SlotsInv /\ [Next]_vars => SlotsInv'
    BY NextSlots DEF IInv
  <2> QED BY <1>1, <2>1, Invariance, PTL DEF Spec
<1>3. IInv /\ RangesInv /\ SlotsInv => LifetimeHasLastSlot
  <2> SUFFICES ASSUME IInv, RangesInv, SlotsInv, pc = "done", NEW n \in Nodes
               PROVE  LET own == {p \in DOMAIN ranges : ranges[p].node = n}
                      IN  IF own = {} THEN lifetimes[n].slot = NullSlot
                          ELSE \E p \in own : /\ \A q \in own : q <= p
                                              /\ lifetimes[n] = ranges[p]
    BY DEF LifetimeHasLastSlot
  <2> DEFINE own == {p \in DOMAIN ranges : ranges[p].node = n}
  <2>1. /\ ranges \in Seq(SlotLifetime)
        /\ DOMAIN ranges = 1..Len(ranges)
        /\ Len(ranges) \in Nat
        /\ i \in Nat
        /\ i > Len(ranges)
        /\ lifetimes[n] \in SlotLifetime
        /\ Len(quads) \in Nat
        /\ Definitions \subseteq 1..Len(quads)
    BY DEF IInv, TypeInv, TypeOK, RangesInv, Definitions
  <2>2. Own(n) = own
    BY <2>1 DEF Own, Allocated, Sorted
  <2>3. /\ HoldsRanges(ranges, Definitions) /\ NodeLifetimes
        /\ SortedUpTo(Len(ranges))
    BY DEF RangesInv, Closed, Sorted
  <2>4. ASSUME own # {}
        PROVE  \E p \in own : (\A q \in own : q <= p) /\ lifetimes[n] = ranges[p]
    <3>1. PICK p0 \in own : TRUE
      BY <2>4
    <3>2. Defined(n)
      <4>1. IsLiveRange(ranges[p0], ranges[p0].start) /\ ranges[p0].node = n
        BY <2>3 DEF HoldsRanges
      <4> QED BY <4>1 DEF IsLiveRange, Defined, Definitions
    <3> PICK d : d = lifetimes[n].start
      OBVIOUS
    <3>3. IsLiveRange(lifetimes[n], d) /\ ~Overwritten(d) /\ lifetimes[n].node = n
      BY <2>3, <3>2 DEF NodeLifetimes
    <3>4. d \in Definitions /\ quads[d].dst = n
      BY <3>3 DEF IsLiveRange
    <3>5. PICK p \in DOMAIN ranges : ranges[p].start = d /\ IsLiveRange(ranges[p], d)
      BY <2>3, <3>4 DEF HoldsRanges
    <3>6. p \in own
      BY <3>4, <3>5 DEF IsLiveRange
    <3>7. ASSUME NEW q \in own, ~(q <= p)
          PROVE  FALSE
      <4> PICK e : e = ranges[q].start
        OBVIOUS
      <4>1. e \in Definitions /\ quads[e].dst = n
        BY <2>3 DEF HoldsRanges, IsLiveRange
      <4>2. p < q /\ q \in DOMAIN ranges /\ q <= Len(ranges)
        BY <2>1, <3>7
      <4>3. d <= e /\ d # e
        BY <2>3, <3>5, <4>2 DEF SortedUpTo, HoldsRanges
      <4>4. e \in (d + 1)..Len(quads)
        BY <2>1, <3>4, <4>1, <4>3
      <4> QED BY <3>3, <3>4, <4>1, <4>4 DEF Overwritten
    <3>8. lifetimes[n].slot = ranges[p].slot
      BY <2>2, <3>6, <3>7 DEF SlotsInv, Sorted
    <3>9. lifetimes[n].end = ranges[p].end
      <4>1. Uses(d) \subseteq Int
        BY <2>1, <3>4 DEF Uses
      <4> QED BY <3>3, <3>5, <4>1 DEF IsLiveRange
    <3>10. lifetimes[n] = ranges[p]
      <4>1. ranges[p] \in SlotLifetime
        BY <2>1, <3>5
      <4>2. lifetimes[n].start = ranges[p].start /\ lifetimes[n].node = ranges[p].node
        BY <3>3, <3>5 DEF IsLiveRange
      <4>3. \A r \in SlotLifetime :
               r = [start |-> r.start, end |-> r.end, node |-> r.node, slot |-> r.slot]
        BY DEF SlotLifetime
      <4>4. ranges[p] = [start |-> ranges[p].start, end |-> ranges[p].end,
                         node |-> ranges[p].node, slot |-> ranges[p].slot]
        BY <4>1, <4>3
      <4>5. lifetimes[n] = [start |-> lifetimes[n].start, end |-> lifetimes[n].end,
                            node |-> lifetimes[n].node, slot |-> lifetimes[n].slot]
        BY <2>1, <4>3
      <4> QED BY <3>8, <3>9, <4>2, <4>4, <4>5
    <3> QED BY <3>6, <3>7, <3>10
  <2>5. own = {} => lifetimes[n].slot = NullSlot
    BY <2>2 DEF SlotsInv, Sorted
  <2> QED BY <2>4, <2>5
<1> QED BY <1>2, <1>3, RangesInvariance, PTL

-----------------------------------------------------------------------------
(* The pool: the inductive invariant                                         *)

PoolFull ==
    /\ \A r \in Regs : poolReg[r]
    /\ \A s \in Spills : poolStack[s]

(* A slot that is not free is held by an active interval. *)
PoolHeld ==
    /\ \A r \in Regs : poolReg[r] \/ RegSlot(r) \in Held
    /\ \A s \in Spills : poolStack[s] \/ StackSlot(s) \in Held

(* The active intervals the inner loop has passed are alive where interval i *)
(* starts.                                                                   *)
StillAlive ==
    i \in DOMAIN ranges =>
        \A x \in DOMAIN active : x < k => ranges[active[x]].end >= ranges[i].start

PoolInv ==
    /\ pc \in {"scan", "collect", "sort"} => PoolFull
    /\ Sorted => ActiveTaken /\ ActiveDistinct /\ PoolHeld
    /\ pc = "expire" => StillAlive
    /\ NoNeedlessSpill

-----------------------------------------------------------------------------
(* How many values are alive                                                 *)

(* The slot of rank j: the registers come before the spilled slots.          *)
SlotOfRank(j) == IF j <= CountReg THEN RegSlot(j) ELSE StackSlot(j - CountReg - 1)

LEMMA RanksDiffer ==
    ASSUME NEW a \in Nat, NEW b \in Nat, a # b
    PROVE  SlotOfRank(a) # SlotOfRank(b)
<1>1. CountReg \in Nat
  BY RegSlotsAssumption DEF RegSlotsAssumption
<1> QED BY <1>1 DEF SlotOfRank, RegSlot, StackSlot

(* When the slots of the first R ranks are held and no active interval has   *)
(* ended, R values besides that of interval i are alive where it starts.     *)
LEMMA PressureBound ==
    ASSUME IInv, RangesInv, PoolInv, AllReady, NEW R \in Nat,
           \A j \in 1..R : SlotOfRank(j) \in Held
    PROVE  /\ Pressure(i) \in Nat
           /\ Pressure(i) >= R + 1
<1> DEFINE T == {q \in 1..i : ranges[q].end >= ranges[i].start}
           holder(j) == CHOOSE x \in DOMAIN active : ranges[active[x]].slot = SlotOfRank(j)
           f == [j \in 1..(R + 1) |-> IF j = R + 1 THEN i ELSE active[holder(j)]]
<1>1. /\ ranges \in Seq(SlotLifetime)
      /\ DOMAIN ranges = 1..Len(ranges)
      /\ i \in 1..Len(ranges) /\ i \in Nat
      /\ \A x \in DOMAIN active : active[x] \in 1..Len(ranges) /\ x < k
  <2>1. /\ ranges \in Seq(SlotLifetime)
        /\ active \in Seq(DOMAIN ranges)
        /\ i \in Nat /\ k \in Nat
        /\ i >= 1
    BY DEF IInv, TypeInv, TypeOK, AllReady, IndicesInside
  <2>2. i <= Len(ranges) /\ k > Len(active)
    BY DEF AllReady
  <2> QED BY <2>1, <2>2
<1>2. IsFiniteSet(T)
  <2>1. IsFiniteSet(1..i)
    BY <1>1, FS_Interval
  <2> QED BY <2>1, FS_Subset
<1>3. i \in T
  <2>1. IsLiveRange(ranges[i], ranges[i].start)
    BY <1>1 DEF RangesInv, HoldsRanges, AllReady
  <2>2. ranges[i].start \in Nat /\ ranges[i].end \in Nat
    BY <1>1, LifetimeFields
  <2>3. ranges[i].end >= ranges[i].start
    BY <2>1, <2>2 DEF IsLiveRange, Uses
  <2> QED BY <1>1, <2>3
<1>4. ASSUME NEW j \in 1..R
      PROVE  /\ holder(j) \in DOMAIN active
             /\ ranges[active[holder(j)]].slot = SlotOfRank(j)
  BY DEF Held
<1>5. \A x \in DOMAIN active : active[x] \in T /\ active[x] < i
  <2> TAKE x \in DOMAIN active
  <2>1. active[x] < i
    BY DEF PoolInv, Sorted, AllReady, ActiveTaken
  <2>2. ranges[active[x]].end >= ranges[i].start
    BY <1>1 DEF PoolInv, StillAlive, AllReady
  <2>3. active[x] \in 1..i
    BY <1>1, <2>1
  <2> QED BY <2>1, <2>2, <2>3
<1> HIDE DEF holder, T
<1>6. f \in Injection(1..(R + 1), T)
  <2>1. f \in [1..(R + 1) -> T]
    <3> SUFFICES ASSUME NEW j \in 1..(R + 1) PROVE f[j] \in T
      OBVIOUS
    <3>1. CASE j = R + 1
      BY <1>3, <3>1
    <3>2. CASE j # R + 1
      BY <1>4, <1>5, <3>2
    <3> QED BY <3>1, <3>2
  <2>2. ASSUME NEW a \in 1..(R + 1), NEW b \in 1..(R + 1), a < b
        PROVE  f[a] # f[b]
    <3>1. a \in 1..R /\ f[a] = active[holder(a)]
      BY <2>2
    <3>2. CASE b = R + 1
      <4>1. f[b] = i
        BY <3>2
      <4>2. f[a] < i
        BY <1>4, <1>5, <3>1
      <4> QED BY <1>1, <4>1, <4>2
    <3>3. CASE b # R + 1
      <4>1. b \in 1..R /\ f[b] = active[holder(b)]
        BY <3>3
      <4>2. SlotOfRank(a) # SlotOfRank(b)
        BY <2>2, RanksDiffer
      <4> QED BY <1>4, <3>1, <4>1, <4>2
    <3> QED BY <3>2, <3>3
  <2>3. \A a, b \in 1..(R + 1) : f[a] = f[b] => a = b
    <3> HIDE DEF f
    <3> SUFFICES ASSUME NEW a \in 1..(R + 1), NEW b \in 1..(R + 1), a # b
                 PROVE  f[a] # f[b]
      OBVIOUS
    <3>1. a < b \/ b < a
      OBVIOUS
    <3> QED BY <2>2, <3>1
  <2> HIDE DEF f
  <2> QED BY <2>1, <2>3 DEF Injection, IsInjective
<1>7. Cardinality(1..(R + 1)) = R + 1
  BY FS_Interval
<1>8. Cardinality(T) >= R + 1 /\ Cardinality(T) \in Nat
  <2>1. Cardinality(1..(R + 1)) <= Cardinality(T)
    BY <1>2, <1>6, FS_Injection
  <2>2. Cardinality(T) \in Nat
    BY <1>2, FS_CardinalityType
  <2> QED BY <1>7, <2>1, <2>2
<1> QED BY <1>8 DEF Pressure, T

(* A slot given out changes no pressure.                                     *)
LEMMA SamePressure ==
    ASSUME NEW p, p \in 1..Len(ranges),
           \A q \in 1..Len(ranges) : /\ ranges'[q].start = ranges[q].start
                                     /\ ranges'[q].end = ranges[q].end
    PROVE  Pressure(p)' = Pressure(p)
<1>1. \A q \in 1..p : q \in 1..Len(ranges)
  OBVIOUS
<1>2. {q \in 1..p : ranges'[q].end >= ranges'[p].start}
        = {q \in 1..p : ranges[q].end >= ranges[p].start}
  BY <1>1
<1> QED BY <1>2 DEF Pressure

-----------------------------------------------------------------------------
(* The steps of the scan                                                     *)

(* Without loses item x and no other.                                        *)
LEMMA WithoutMembers ==
    ASSUME NEW S, NEW s \in Seq(S), NEW x \in 1..Len(s)
    PROVE  /\ DOMAIN Without(s, x) = 1..(Len(s) - 1)
           /\ \A y \in 1..(Len(s) - 1) : y # x => Without(s, x)[y] = s[y]
           /\ \A y \in 1..Len(s) : y # x =>
                 \E z \in 1..(Len(s) - 1) : Without(s, x)[z] = s[y]
<1> DEFINE n == Len(s)
           w == Without(s, x)
<1>1. n \in Nat /\ x \in 1..n
  OBVIOUS
<1>2. /\ DOMAIN w = 1..(n - 1)
      /\ \A y \in 1..(n - 1) : w[y] = IF y = x THEN s[n] ELSE s[y]
  BY DEF Without
<1> HIDE DEF n, w
<1>3. ASSUME NEW y \in 1..n, y # x
      PROVE  \E z \in 1..(n - 1) : w[z] = s[y]
  <2>1. CASE y = n
    <3>1. x \in 1..(n - 1)
      BY <1>1, <1>3, <2>1
    <3> QED BY <1>2, <2>1, <3>1
  <2>2. CASE y # n
    <3>1. y \in 1..(n - 1)
      BY <1>1, <2>2
    <3> QED BY <1>2, <1>3, <3>1
  <2> QED BY <2>1, <2>2
<1> QED BY <1>2, <1>3 DEF n, w

LEMMA ExpireKeepsPool ==
    ASSUME IInv, PoolInv, Expire
    PROVE  PoolInv'
<1> DEFINE n == Len(active)
           old == ranges[active[k]]
<1>1. /\ TypeInv /\ ScanInv
      /\ active \in Seq(DOMAIN ranges)
      /\ n \in Nat /\ k \in 1..n
      /\ DOMAIN active = 1..n
      /\ pc = "expire" /\ pc' = "expire"
      /\ ranges' = ranges /\ i' = i /\ k' = k
      /\ poolReg \in [Regs -> BOOLEAN] /\ poolStack \in [Spills -> BOOLEAN]
      /\ ranges \in Seq(SlotLifetime)
  BY DEF IInv, TypeInv, TypeOK, Expire
<1>2. /\ DOMAIN active' = 1..(n - 1)
      /\ \A y \in 1..(n - 1) : y # k => active'[y] = active[y]
      /\ \A y \in 1..n : y # k => \E z \in 1..(n - 1) : active'[z] = active[y]
  BY <1>1, WithoutMembers DEF Expire
<1>3. old.slot \in Slot
  BY <1>1, LifetimeFields
<1>4. /\ poolReg' = IF old.slot.spilled THEN poolReg
                    ELSE [poolReg EXCEPT ![old.slot.slot] = TRUE]
      /\ poolStack' = IF old.slot.spilled THEN [poolStack EXCEPT ![old.slot.slot] = TRUE]
                      ELSE poolStack
  BY DEF Expire
<1>5. ActiveTaken' /\ ActiveDistinct'
  BY <1>1, ExpireKeepsScanInv DEF ScanInv
<1>6. \A slot \in Held : slot # old.slot => slot \in Held'
  <2> SUFFICES ASSUME NEW x \in 1..n, ranges[active[x]].slot # old.slot
               PROVE  ranges[active[x]].slot \in Held'
    BY <1>1 DEF Held
  <2>1. PICK z \in 1..(n - 1) : active'[z] = active[x]
    BY <1>2
  <2> QED BY <1>1, <1>2, <2>1 DEF Held
<1>7. PoolHeld'
  <2>1. PoolHeld
    BY <1>1 DEF PoolInv, Sorted
  <2>2. ASSUME NEW r \in Regs, ~poolReg'[r]
        PROVE  RegSlot(r) \in Held'
    <3>1. ~poolReg[r]
      BY <1>1, <1>4, <2>2
    <3>2. RegSlot(r) # old.slot
      BY <1>1, <1>4, <2>2 DEF RegSlot
    <3> QED BY <1>6, <2>1, <3>1, <3>2 DEF PoolHeld
  <2>3. ASSUME NEW s \in Spills, ~poolStack'[s]
        PROVE  StackSlot(s) \in Held'
    <3>1. ~poolStack[s]
      BY <1>1, <1>4, <2>3
    <3>2. StackSlot(s) # old.slot
      BY <1>1, <1>4, <2>3 DEF StackSlot
    <3> QED BY <1>6, <2>1, <3>1, <3>2 DEF PoolHeld
  <2> QED BY <2>2, <2>3 DEF PoolHeld, RegSlot, StackSlot, Regs, Spills
<1>8. StillAlive'
  <2> SUFFICES ASSUME i \in DOMAIN ranges, NEW x \in 1..(n - 1), x < k
               PROVE  ranges[active'[x]].end >= ranges[i].start
    BY <1>1, <1>2 DEF StillAlive
  <2>1. active'[x] = active[x] /\ x \in DOMAIN active
    BY <1>1, <1>2
  <2> QED BY <1>1, <2>1 DEF PoolInv, StillAlive
<1>9. NoNeedlessSpill'
  BY <1>1 DEF PoolInv, NoNeedlessSpill, Allocated, Sorted, Pressure
<1> QED BY <1>1, <1>5, <1>7, <1>8, <1>9 DEF PoolInv, Sorted

(* Interval i is given the slot of rank R + 1, the ones before being held.   *)
LEMMA AssignKeepsPool ==
    ASSUME IInv, RangesInv, PoolInv, AllReady, NEW slot \in Slot, Assign(slot),
           ScanInv', NEW R \in Nat,
           Rank(slot) = R + 1, \A j \in 1..R : SlotOfRank(j) \in Held,
           \A r \in Regs : poolReg'[r] \/ ~poolReg[r] \/ RegSlot(r) = slot,
           \A s \in Spills : poolStack'[s] \/ ~poolStack[s] \/ StackSlot(s) = slot
    PROVE  PoolInv'
<1> DEFINE n == Len(active)
           N == Len(ranges)
<1>1. /\ TypeInv
      /\ ranges \in Seq(SlotLifetime)
      /\ active \in Seq(1..N)
      /\ i \in Nat
  BY DEF IInv, TypeInv, TypeOK
<1>2. /\ i \in 1..N
      /\ DOMAIN ranges = 1..N
      /\ DOMAIN ranges' = 1..N
      /\ \A p \in 1..N :
            /\ ranges'[p].start = ranges[p].start
            /\ ranges'[p].end = ranges[p].end
            /\ ranges'[p].slot = IF p = i THEN slot ELSE ranges[p].slot
  BY <1>1, AssignRanges
<1>3. /\ n \in Nat
      /\ DOMAIN active = 1..n
      /\ DOMAIN active' = 1..(n + 1)
      /\ active'[n + 1] = i
      /\ \A x \in 1..n : active'[x] = active[x] /\ active[x] \in 1..N
      /\ i' = i + 1 /\ k' = 1
      /\ pc = "expire" /\ pc' = "expire"
  BY <1>1 DEF AllReady, Assign
<1> HIDE DEF n, N
<1>4. \A x \in 1..n : active[x] < i
  BY <1>3 DEF PoolInv, Sorted, ActiveTaken
<1>5. Held' = Held \cup {slot}
  <2>1. \A x \in 1..n : ranges'[active'[x]].slot = ranges[active[x]].slot
    BY <1>2, <1>3, <1>4
  <2>2. ranges'[active'[n + 1]].slot = slot
    BY <1>2, <1>3
  <2>3. 1..(n + 1) = 1..n \cup {n + 1}
    BY <1>3
  <2>4. Held' = {ranges'[active'[p]].slot : p \in 1..n \cup {n + 1}}
    BY <1>3, <2>3 DEF Held
  <2>5. Held = {ranges[active[p]].slot : p \in 1..n}
    BY <1>3 DEF Held
  <2> QED BY <2>1, <2>2, <2>4, <2>5
<1>6. PoolHeld'
  BY <1>3, <1>5 DEF PoolInv, Sorted, PoolHeld, RegSlot, StackSlot, Regs, Spills
<1>7. ActiveTaken' /\ ActiveDistinct'
  BY DEF ScanInv
<1>8. StillAlive'
  BY <1>3 DEF StillAlive
<1>9. NoNeedlessSpill'
  <2>1. Allocated' = Allocated \cup {i} /\ Allocated = 1..(i - 1)
    <3>1. Allocated = 1..(i - 1) /\ Allocated' = 1..i
      BY <1>1, <1>2, <1>3 DEF Allocated, Sorted, N
    <3> QED BY <1>1, <1>2, <3>1 DEF N
  <2>2. \A p \in 1..N : Pressure(p)' = Pressure(p)
    BY <1>2, SamePressure DEF N
  <2>3. R + 1 \in 1..Pressure(i)
    BY PressureBound
  <2>4. ASSUME NEW p \in Allocated \cup {i}
        PROVE  Rank(ranges[p].slot)' \in 1..Pressure(p)'
    <3>1. p \in 1..N
      BY <1>1, <1>2, <2>1 DEF N
    <3>2. CASE p = i
      <4>1. ranges'[p].slot = slot
        BY <1>2, <3>1, <3>2
      <4>2. Pressure(p)' = Pressure(i)
        BY <2>2, <3>1, <3>2
      <4> QED BY <2>3, <4>1, <4>2 DEF Rank
    <3>3. CASE p # i
      <4>1. ranges'[p].slot = ranges[p].slot
        BY <1>2, <3>1, <3>3
      <4>2. Rank(ranges[p].slot) \in 1..Pressure(p)
        BY <2>4, <3>3 DEF PoolInv, NoNeedlessSpill
      <4> QED BY <2>2, <3>1, <4>1, <4>2 DEF Rank
    <3> QED BY <3>2, <3>3
  <2> QED BY <2>1, <2>4 DEF NoNeedlessSpill
<1> QED BY <1>3, <1>6, <1>7, <1>8, <1>9 DEF PoolInv, Sorted

-----------------------------------------------------------------------------
(* The theorems                                                              *)

LEMMA NextPool == IInv /\ IInv' /\ RangesInv /\ PoolInv /\ [Next]_vars => PoolInv'
<1> SUFFICES ASSUME IInv, IInv', RangesInv, PoolInv, [Next]_vars
             PROVE  PoolInv'
  OBVIOUS
<1> USE RegSlotsAssumption DEF RegSlotsAssumption
<1>0. TypeInv /\ TypeInv'
  BY DEF IInv
<1>1. ASSUME ~Sorted', pc' \notin {"scan", "collect", "sort"} \/ PoolFull'
      PROVE  PoolInv'
  BY <1>1 DEF PoolInv, NoNeedlessSpill, Allocated, Sorted
<1>2. CASE Create
  BY <1>1, <1>2 DEF Create, PoolFull, Sorted
<1>3. ASSUME NEW q \in Inputs, ScanQuad(q)
      PROVE  PoolInv'
  BY <1>1, <1>3 DEF ScanQuad, PoolInv, PoolFull, Sorted
<1>4. CASE EndScan \/ Collect \/ EndCollect \/ InsertKey
  BY <1>1, <1>4 DEF EndScan, Collect, EndCollect, InsertKey, PoolInv, PoolFull, Sorted
<1>5. CASE CreateOutOfMemory \/ ActiveOutOfMemory \/ AllocFails
  BY <1>1, <1>5 DEF CreateOutOfMemory, ActiveOutOfMemory, AllocFails, Destroy, Sorted
<1>6. CASE EndSort
  <2>1. PoolFull' /\ active' = <<>> /\ pc' = "expire"
    BY <1>0, <1>6 DEF EndSort, PoolInv, PoolFull, TypeInv, Sorted
  <2>2. Allocated' = {}
    BY <1>0, <1>6 DEF EndSort, Allocated, TypeInv, TypeOK
  <2>3. ActiveTaken' /\ ActiveDistinct' /\ PoolHeld' /\ StillAlive'
    BY <2>1 DEF ActiveTaken, ActiveDistinct, PoolHeld, PoolFull, StillAlive
  <2> QED BY <2>1, <2>2, <2>3 DEF PoolInv, NoNeedlessSpill
<1>7. CASE Expire
  BY <1>7, ExpireKeepsPool
<1>8. ASSUME UNCHANGED <<i, ranges, active, poolReg, poolStack>>, Sorted, Sorted',
             pc' = "expire" => StillAlive'
      PROVE  PoolInv'
  <2>1. ActiveTaken' /\ ActiveDistinct' /\ PoolHeld'
    BY <1>8 DEF PoolInv, ActiveTaken, Taken, ActiveDistinct, PoolHeld, Held
  <2>2. NoNeedlessSpill'
    BY <1>8 DEF PoolInv, NoNeedlessSpill, Allocated, Pressure
  <2> QED BY <1>8, <2>1, <2>2 DEF PoolInv, Sorted
<1>9. CASE KeepActive
  <2>1. StillAlive'
    <3> SUFFICES ASSUME i \in DOMAIN ranges, NEW x \in DOMAIN active, x < k + 1
                 PROVE  ranges[active[x]].end >= ranges[i].start
      BY <1>9 DEF KeepActive, StillAlive
    <3>1. /\ ranges \in Seq(SlotLifetime)
          /\ active \in Seq(DOMAIN ranges)
          /\ k \in Nat
      BY <1>0 DEF TypeInv, TypeOK
    <3>2. ranges[active[x]].end \in Nat /\ ranges[i].start \in Nat
      BY <3>1, LifetimeFields
    <3>3. CASE x = k
      BY <1>9, <3>2, <3>3 DEF KeepActive, Ended
    <3>4. CASE x < k
      BY <1>9, <3>4 DEF KeepActive, PoolInv, StillAlive
    <3> QED BY <3>1, <3>3, <3>4
  <2> QED BY <1>8, <1>9, <2>1 DEF KeepActive, Sorted
<1>10. CASE Finish
  BY <1>8, <1>10 DEF Finish, Sorted
<1>11. CASE AllocRegister
  <2>1. PICK r \in Regs : /\ \A r2 \in 1..(r - 1) : ~poolReg[r2]
                          /\ poolReg' = [poolReg EXCEPT ![r] = FALSE]
                          /\ Assign(RegSlot(r))
    BY <1>11 DEF AllocRegister
  <2>2. /\ RegSlot(r) \in Slot /\ AllReady /\ poolStack' = poolStack
        /\ r \in 1..CountReg
    BY <1>11, PoolSlots DEF AllocRegister, Regs
  <2>3. poolReg \in [Regs -> BOOLEAN] /\ poolStack \in [Spills -> BOOLEAN]
    BY <1>0 DEF TypeInv, TypeOK
  <2>4. ScanInv'
    BY <2>1, <2>2 DEF IInv, AllReady, Assign
  <2>5. \A j \in 1..(r - 1) : SlotOfRank(j) \in Held
    <3> TAKE j \in 1..(r - 1)
    <3>1. j \in Regs /\ ~poolReg[j] /\ j <= CountReg
      BY <2>1, <2>2 DEF Regs
    <3> QED BY <2>2, <3>1 DEF PoolInv, PoolHeld, SlotOfRank, AllReady, Sorted
  <2>6. Rank(RegSlot(r)) = (r - 1) + 1 /\ r - 1 \in Nat
    BY <2>2 DEF Rank, RegSlot
  <2>7. /\ \A r3 \in Regs : poolReg'[r3] \/ ~poolReg[r3] \/ RegSlot(r3) = RegSlot(r)
        /\ \A s \in Spills : poolStack'[s] \/ ~poolStack[s] \/ StackSlot(s) = RegSlot(r)
    BY <2>1, <2>2, <2>3
  <2> QED BY <2>1, <2>2, <2>4, <2>5, <2>6, <2>7, AssignKeepsPool
<1>12. CASE AllocSpilled
  <2>1. PICK c \in Spills : /\ \A s2 \in 0..(c - 1) : ~poolStack[s2]
                            /\ poolStack' = [poolStack EXCEPT ![c] = FALSE]
                            /\ Assign(StackSlot(c))
    BY <1>12 DEF AllocSpilled
  <2>2. /\ StackSlot(c) \in Slot /\ AllReady /\ poolReg' = poolReg
        /\ \A r \in Regs : ~poolReg[r]
        /\ c \in 0..(CountSpilled - 1)
    BY <1>12, PoolSlots DEF AllocSpilled, Spills
  <2>3. poolReg \in [Regs -> BOOLEAN] /\ poolStack \in [Spills -> BOOLEAN]
    BY <1>0 DEF TypeInv, TypeOK
  <2>4. ScanInv'
    BY <2>1, <2>2 DEF IInv, AllReady, Assign
  <2>5. \A j \in 1..(CountReg + c) : SlotOfRank(j) \in Held
    <3> TAKE j \in 1..(CountReg + c)
    <3>1. PoolHeld
      BY <2>2 DEF PoolInv, AllReady, Sorted
    <3>2. CASE j <= CountReg
      <4>1. j \in Regs
        BY <3>2 DEF Regs
      <4> QED BY <2>2, <3>1, <3>2, <4>1 DEF PoolHeld, SlotOfRank
    <3>3. CASE ~(j <= CountReg)
      <4>1. j - CountReg - 1 \in Spills /\ ~poolStack[j - CountReg - 1]
        BY <2>1, <2>2, <3>3 DEF Spills
      <4> QED BY <3>1, <3>3, <4>1 DEF PoolHeld, SlotOfRank
    <3> QED BY <3>2, <3>3
  <2>6. Rank(StackSlot(c)) = (CountReg + c) + 1 /\ CountReg + c \in Nat
    BY <2>2 DEF Rank, StackSlot
  <2>7. /\ \A r3 \in Regs : poolReg'[r3] \/ ~poolReg[r3] \/ RegSlot(r3) = StackSlot(c)
        /\ \A s \in Spills : poolStack'[s] \/ ~poolStack[s] \/ StackSlot(s) = StackSlot(c)
    BY <2>1, <2>2, <2>3
  <2> QED BY <2>1, <2>2, <2>4, <2>5, <2>6, <2>7, AssignKeepsPool
<1>13. CASE UNCHANGED vars
  <2>1. CASE Sorted
    <3>1. StillAlive' <=> StillAlive
      BY <1>13 DEF vars, StillAlive
    <3> QED BY <1>8, <1>13, <2>1, <3>1 DEF vars, Sorted, PoolInv
  <2>2. CASE ~Sorted
    BY <1>1, <1>13, <2>2 DEF vars, Sorted, PoolInv, PoolFull
  <2> QED BY <2>1, <2>2
<1> QED
  BY <1>2, <1>3, <1>4, <1>5, <1>6, <1>7, <1>9, <1>10, <1>11, <1>12, <1>13
  DEF Next, Returned

(* The invariant of the pool holds in every state of create_regslots.        *)
THEOREM PoolInvariance == Spec => [](IInv /\ RangesInv /\ PoolInv)
<1>1. Init => PoolInv
  BY DEF Init, PoolInv, NoNeedlessSpill, Allocated, Sorted
<1> QED BY <1>1, NextPool, RangesInvariance, PTL DEF Spec

(* A slot is free exactly when no active interval holds it, and no two       *)
(* active intervals hold one: regslots_free loses no slot and frees none     *)
(* twice, in whatever order the intervals end.                               *)
THEOREM PoolConserved == Spec => []PoolMatchesActive
<1>1. IInv /\ PoolInv => PoolMatchesActive
  <2> SUFFICES ASSUME IInv, PoolInv, Sorted
               PROVE  /\ \A r \in Regs : poolReg[r] <=> RegSlot(r) \notin Held
                      /\ \A s \in Spills : poolStack[s] <=> StackSlot(s) \notin Held
                      /\ Cardinality(Held) = Len(active)
    BY DEF PoolMatchesActive
  <2>1. /\ poolReg \in [Regs -> BOOLEAN] /\ poolStack \in [Spills -> BOOLEAN]
        /\ DOMAIN active = 1..Len(active) /\ Len(active) \in Nat
    BY DEF IInv, TypeInv, TypeOK
  <2>2. \A slot \in Held : Taken(slot)
    BY DEF Held, PoolInv, ActiveTaken
  <2>3. \A r \in Regs : poolReg[r] <=> RegSlot(r) \notin Held
    <3> TAKE r \in Regs
    <3>1. Taken(RegSlot(r)) => ~poolReg[r]
      BY DEF Taken, RegSlot
    <3> QED BY <2>2, <3>1 DEF PoolInv, PoolHeld
  <2>4. \A s \in Spills : poolStack[s] <=> StackSlot(s) \notin Held
    <3> TAKE s \in Spills
    <3>1. Taken(StackSlot(s)) => ~poolStack[s]
      BY DEF Taken, StackSlot
    <3> QED BY <2>2, <3>1 DEF PoolInv, PoolHeld
  <2>5. Cardinality(Held) = Len(active)
    <3> DEFINE f == [x \in 1..Len(active) |-> ranges[active[x]].slot]
    <3>1. f \in Bijection(1..Len(active), Held)
      <4>1. f \in [1..Len(active) -> Held] /\ \A slot \in Held : \E x \in 1..Len(active) : f[x] = slot
        BY <2>1 DEF Held
      <4>2. \A x, y \in 1..Len(active) : x # y => f[x] # f[y]
        BY <2>1 DEF PoolInv, ActiveDistinct
      <4> HIDE DEF f
      <4>3. \A x, y \in 1..Len(active) : f[x] = f[y] => x = y
        BY <4>2
      <4> QED BY <4>1, <4>3 DEF Bijection, Injection, Surjection, IsInjective
    <3>2. ExistsBijection(1..Len(active), Held)
      BY <3>1 DEF ExistsBijection
    <3> QED BY <2>1, <3>2, FS_CountingElements
  <2> QED BY <2>3, <2>4, <2>5
<1> QED BY <1>1, PoolInvariance, PTL

(* An interval never gets a higher slot than the number of values alive at   *)
(* its start requires.                                                       *)
THEOREM LowestSlotTaken == Spec => []NoNeedlessSpill
<1>1. PoolInv => NoNeedlessSpill
  BY DEF PoolInv
<1> QED BY <1>1, PoolInvariance, PTL

(* create_regslots fails for want of a slot only where more values are alive *)
(* than there are slots, for any number of slots.                            *)
THEOREM FailsUnderPressure == Spec => NoSpuriousFailure
<1>1. IInv /\ RangesInv /\ PoolInv /\ [Next]_vars =>
         [pc = "expire" /\ pc' = "failed" => Pressure(i) > CountReg + CountSpilled]_vars
  <2> SUFFICES ASSUME IInv, RangesInv, PoolInv, [Next]_vars, pc = "expire", pc' = "failed"
               PROVE  Pressure(i) > CountReg + CountSpilled
    OBVIOUS
  <2>1. AllocFails
    BY DEF Next, vars, Create, CreateOutOfMemory, ScanQuad, EndScan, Collect, EndCollect,
           InsertKey, EndSort, ActiveOutOfMemory, Expire, KeepActive, AllocRegister,
           AllocSpilled, Assign, Finish, Returned
  <2>2. CountReg \in Nat /\ CountSpilled \in Nat
    BY RegSlotsAssumption DEF RegSlotsAssumption
  <2>3. /\ AllReady
        /\ \A r \in Regs : RegSlot(r) \in Held
        /\ \A s \in Spills : StackSlot(s) \in Held
    BY <2>1 DEF AllocFails, PoolInv, PoolHeld, Sorted
  <2>4. \A j \in 1..(CountReg + CountSpilled) : SlotOfRank(j) \in Held
    <3> TAKE j \in 1..(CountReg + CountSpilled)
    <3>1. CASE j <= CountReg
      <4>1. j \in Regs
        BY <2>2, <3>1 DEF Regs
      <4> QED BY <2>3, <3>1, <4>1 DEF SlotOfRank
    <3>2. CASE ~(j <= CountReg)
      <4>1. j - CountReg - 1 \in Spills
        BY <2>2, <3>2 DEF Spills
      <4> QED BY <2>3, <3>2, <4>1 DEF SlotOfRank
    <3> QED BY <3>1, <3>2
  <2>5. /\ Pressure(i) \in Nat
        /\ Pressure(i) >= (CountReg + CountSpilled) + 1
    BY <2>2, <2>3, <2>4, PressureBound
  <2> QED BY <2>2, <2>5
<1> QED BY <1>1, PoolInvariance, PTL DEF Spec, NoSpuriousFailure

-----------------------------------------------------------------------------
(* The refinement mapping                                                    *)

(* What the instance Assignment has for values and slotOf. *)
Values == {LifetimeOf(p) : p \in {q \in DOMAIN ranges : Sorted}}

SlotOf == [v \in {LifetimeOf(p) : p \in Allocated} |->
              ranges[CHOOSE p \in Allocated : LifetimeOf(p) = v].slot]

(* No two ranges have the same live range, so that a live range has the slot *)
(* of the range it is the one of.                                            *)
LEMMA MappingFacts ==
    ASSUME IInv, RangesInv, Sorted
    PROVE  /\ Values = {LifetimeOf(p) : p \in DOMAIN ranges}
           /\ Allocated \subseteq DOMAIN ranges
           /\ \A p, q \in DOMAIN ranges : LifetimeOf(p) = LifetimeOf(q) => p = q
           /\ DOMAIN SlotOf = {LifetimeOf(p) : p \in Allocated}
           /\ \A p \in Allocated : SlotOf[LifetimeOf(p)] = ranges[p].slot
<1>1. Values = {LifetimeOf(p) : p \in DOMAIN ranges}
  BY DEF Values
<1>2. Allocated \subseteq DOMAIN ranges
  BY DEF Allocated
<1>3. \A p, q \in DOMAIN ranges : LifetimeOf(p) = LifetimeOf(q) => p = q
  <2> SUFFICES ASSUME NEW p \in DOMAIN ranges, NEW q \in DOMAIN ranges,
                      LifetimeOf(p) = LifetimeOf(q)
               PROVE  p = q
    OBVIOUS
  <2>1. LifetimeOf(p).start = ranges[p].start /\ LifetimeOf(q).start = ranges[q].start
    BY DEF LifetimeOf
  <2> QED BY <2>1 DEF RangesInv, HoldsRanges, Sorted
<1>4. DOMAIN SlotOf = {LifetimeOf(p) : p \in Allocated}
  BY DEF SlotOf
<1>5. ASSUME NEW p \in Allocated
      PROVE  SlotOf[LifetimeOf(p)] = ranges[p].slot
  <2> DEFINE c == CHOOSE q \in Allocated : LifetimeOf(q) = LifetimeOf(p)
  <2>1. c \in Allocated /\ LifetimeOf(c) = LifetimeOf(p)
    OBVIOUS
  <2>2. c = p
    BY <1>2, <1>3, <2>1
  <2>3. SlotOf[LifetimeOf(p)] = ranges[c].slot
    BY DEF SlotOf
  <2> QED BY <2>2, <2>3
<1> QED BY <1>1, <1>2, <1>3, <1>4, <1>5

LEMMA NothingMapped ==
    ASSUME ~Sorted
    PROVE  Values = {} /\ SlotOf = Assignment!EmptyFunction
<1>1. Allocated = {}
  BY DEF Allocated
<1>2. Values = {}
  BY DEF Values
<1>3. {LifetimeOf(p) : p \in Allocated} = {}
  BY <1>1
<1>4. \A v \in {} : FALSE
  OBVIOUS
<1> QED BY <1>2, <1>3 DEF SlotOf, Assignment!EmptyFunction

(* create_regslots starts where SlotAssignment does.                         *)
LEMMA InitRefines == Init => Assignment!SInit
<1> SUFFICES ASSUME Init
             PROVE  Assignment!SInit
  OBVIOUS
<1>1. ~Sorted /\ Verdict = "none"
  BY DEF Init, Sorted, Verdict
<1>2. Values = {} /\ SlotOf = Assignment!EmptyFunction
  BY <1>1, NothingMapped
<1> QED BY <1>1, <1>2 DEF Assignment!SInit, Values, SlotOf

-----------------------------------------------------------------------------
(* The steps                                                                 *)

(* The abstract steps in terms of the mapping.                               *)
LEMMA MappedSteps ==
    /\ Assignment!Submit <=> /\ Verdict = "none" /\ Verdict' = "open"
                             /\ Values' \in SUBSET Assignment!LiveRanges
                             /\ SlotOf' = SlotOf
    /\ Assignment!Abandon <=> /\ Verdict = "none" /\ Verdict' = "refused"
                              /\ Values' = Values /\ SlotOf' = SlotOf
    /\ Assignment!Accept <=> /\ Verdict = "open" /\ DOMAIN SlotOf = Values
                             /\ Verdict' = "assigned"
                             /\ Values' = Values /\ SlotOf' = SlotOf
    /\ Assignment!Refuse <=> /\ Verdict = "open" /\ Verdict' = "refused"
                             /\ \E v \in Values \ DOMAIN SlotOf : \A s \in AllSlots :
                                   \E w \in DOMAIN SlotOf :
                                       SlotOf[w] = s /\ Assignment!AliveAt(w, v.start)
                             /\ Values' = {} /\ SlotOf' = Assignment!EmptyFunction
BY DEF Assignment!Submit, Assignment!Abandon, Assignment!Accept,
       Assignment!Refuse, Values, SlotOf, AllSlots

LEMMA MappedStutter ==
    ASSUME Verdict' = Verdict, Values' = Values, SlotOf' = SlotOf
    PROVE  UNCHANGED Assignment!sVars
BY DEF Assignment!sVars, Values, SlotOf

LEMMA MappedGive ==
    ASSUME NEW v, NEW s, Verdict = "open", Verdict' = "open",
           v \in Values \ DOMAIN SlotOf,
           \A w \in DOMAIN SlotOf : Assignment!Conflict(v, w) => SlotOf[w] # s,
           SlotOf' = [w \in DOMAIN SlotOf \cup {v} |-> IF w = v THEN s ELSE SlotOf[w]],
           Values' = Values
    PROVE  Assignment!Give(v, s)
BY DEF Assignment!Give, Values, SlotOf

(* An interval that is given a slot is a live range that is given one, and   *)
(* no live range in conflict with it has that slot.                          *)
LEMMA AssignRefines ==
    ASSUME IInv, IInv', RangesInv, RangesInv', AllReady,
           NEW slot \in Slot, slot \in AllSlots, Assign(slot)
    PROVE  Assignment!SNext
<1> DEFINE N == Len(ranges)
<1>1. /\ TypeInv
      /\ ranges \in Seq(SlotLifetime)
      /\ i \in Nat
      /\ pc = "expire" /\ pc' = "expire" /\ i' = i + 1
  BY DEF IInv, TypeInv, TypeOK, AllReady, Assign
<1>2. /\ i \in 1..N
      /\ DOMAIN ranges = 1..N
      /\ DOMAIN ranges' = 1..N
      /\ \A p \in 1..N :
            /\ ranges'[p].start = ranges[p].start
            /\ ranges'[p].end = ranges[p].end
            /\ ranges'[p].node = ranges[p].node
            /\ ranges'[p].slot = IF p = i THEN slot ELSE ranges[p].slot
  BY <1>1, AssignRanges
<1>3. Sorted /\ Sorted'
  BY <1>1 DEF Sorted
<1> HIDE DEF N
<1>4. /\ Allocated = 1..(i - 1) /\ Allocated' = 1..i
      /\ Allocated' = Allocated \cup {i} /\ i \notin Allocated
      /\ Allocated' \subseteq 1..N
  <2>1. Allocated = 1..(i - 1) /\ Allocated' = 1..i
    BY <1>1, <1>2, <1>3 DEF Allocated, N
  <2> QED BY <1>1, <1>2, <2>1 DEF N
<1>5. \A p \in 1..N : LifetimeOf(p)' = LifetimeOf(p)
  BY <1>2 DEF LifetimeOf
<1>6. /\ Values = {LifetimeOf(p) : p \in 1..N}
      /\ \A p, q \in 1..N : LifetimeOf(p) = LifetimeOf(q) => p = q
      /\ DOMAIN SlotOf = {LifetimeOf(p) : p \in Allocated}
      /\ \A p \in Allocated : SlotOf[LifetimeOf(p)] = ranges[p].slot
  BY <1>2, <1>3, MappingFacts
<1>7. Values' = Values
  <2>1. Values' = {LifetimeOf(p)' : p \in 1..N}
    BY <1>2, <1>3 DEF Values
  <2> QED BY <1>5, <1>6, <2>1
<1>8. /\ DOMAIN SlotOf' = {LifetimeOf(p) : p \in Allocated \cup {i}}
      /\ \A p \in Allocated \cup {i} : SlotOf'[LifetimeOf(p)] = ranges'[p].slot
  <2> PICK A : A = Allocated'
    OBVIOUS
  <2>1. DOMAIN SlotOf' = {LifetimeOf(p)' : p \in A}
    BY DEF SlotOf
  <2>2. \A p \in A : SlotOf'[LifetimeOf(p)'] = ranges'[p].slot
    <3>1. \A p, q \in A : LifetimeOf(p)' = LifetimeOf(q)' => p = q
      BY <1>4, <1>5, <1>6
    <3> TAKE p \in A
    <3> DEFINE c == CHOOSE q \in A : LifetimeOf(q)' = LifetimeOf(p)'
    <3>2. c = p
      BY <3>1
    <3>3. SlotOf'[LifetimeOf(p)'] = ranges'[c].slot
      BY DEF SlotOf
    <3> QED BY <3>2, <3>3
  <2> QED BY <1>4, <1>5, <2>1, <2>2
<1> PICK v : v = LifetimeOf(i)
  OBVIOUS
<1>9. v \in Values \ DOMAIN SlotOf
  BY <1>2, <1>4, <1>6
<1>10. ASSUME NEW w \in DOMAIN SlotOf, Assignment!Conflict(v, w)
       PROVE  SlotOf[w] # slot
  <2>1. PICK p \in Allocated : w = LifetimeOf(p)
    BY <1>6
  <2>2. p \in 1..N /\ p # i
    BY <1>4
  <2>3. /\ w.start = ranges[p].start /\ w.end = ranges[p].end
        /\ v.start = ranges[i].start /\ v.end = ranges[i].end
    BY <2>1 DEF LifetimeOf
  <2>4. \A q \in 1..N : /\ ranges[q].start \in Nat /\ ranges[q].end \in Nat
                        /\ ranges[q].start <= ranges[q].end
    <3> TAKE q \in 1..N
    <3>1. ranges[q].start \in Nat /\ ranges[q].end \in Nat
      BY <1>1, LifetimeFields DEF N
    <3>2. IsLiveRange(ranges[q], ranges[q].start)
      BY <1>1, <1>2 DEF RangesInv, HoldsRanges
    <3> QED BY <3>1, <3>2 DEF IsLiveRange, Uses
  <2>5. ranges[p].start <= ranges[i].end /\ ranges[i].start <= ranges[p].end
    BY <1>2, <1>10, <2>2, <2>3, <2>4 DEF Assignment!Conflict, Assignment!AliveAt
  <2>7. OverlapDistinct'
    BY <1>1 DEF IInv, ScanInv
  <2> PICK j : j = i
    OBVIOUS
  <2>8. p \in Allocated' /\ j \in Allocated'
    BY <1>4
  <2>9. ranges'[p].slot # ranges'[j].slot
    <3>1. Overlap(p, j)'
      BY <1>2, <2>2, <2>5 DEF Overlap
    <3> QED BY <2>2, <2>7, <2>8, <3>1 DEF OverlapDistinct
  <2> QED BY <1>2, <1>6, <2>1, <2>2, <2>9
<1>11. SlotOf' = [w \in DOMAIN SlotOf \cup {v} |-> IF w = v THEN slot ELSE SlotOf[w]]
  <2> DEFINE g == [w \in DOMAIN SlotOf \cup {v} |-> IF w = v THEN slot ELSE SlotOf[w]]
  <2>1. DOMAIN g = DOMAIN SlotOf'
    BY <1>6, <1>8
  <2>2. ASSUME NEW p \in Allocated \cup {i}
        PROVE  SlotOf'[LifetimeOf(p)] = g[LifetimeOf(p)]
    <3>1. p \in 1..N
      BY <1>2, <1>4
    <3>2. CASE p = i
      BY <1>2, <1>8, <3>2
    <3>3. CASE p # i
      <4>1. p \in Allocated /\ LifetimeOf(p) # v /\ LifetimeOf(p) \in DOMAIN SlotOf
        BY <1>2, <1>6, <2>2, <3>1, <3>3
      <4>2. g[LifetimeOf(p)] = ranges[p].slot
        BY <1>6, <4>1
      <4> QED BY <1>2, <1>8, <3>1, <3>3, <4>1, <4>2
    <3> QED BY <3>2, <3>3
  <2>3. \A w \in DOMAIN SlotOf' : SlotOf'[w] = g[w]
    BY <1>8, <2>2
  <2>4. SlotOf' = [w \in DOMAIN SlotOf' |-> SlotOf'[w]]
    BY DEF SlotOf
  <2>5. g = [w \in DOMAIN g |-> g[w]]
    OBVIOUS
  <2> HIDE DEF g
  <2>6. SlotOf' = g
    BY <2>1, <2>3, <2>4, <2>5
  <2> QED BY <2>6 DEF g
<1>12. Verdict = "open" /\ Verdict' = "open"
  BY <1>1 DEF Verdict
<1>13. Assignment!Give(v, slot)
  BY <1>7, <1>9, <1>10, <1>11, <1>12, MappedGive
<1>14. v \in Values /\ slot \in AllSlots
  BY <1>9
<1> QED BY <1>13, <1>14 DEF Assignment!SNext, Values, AllSlots

(* Every slot is held by an active interval, and those are alive where the   *)
(* interval starts that gets none.                                           *)
LEMMA FailureRefines ==
    ASSUME IInv, RangesInv, PoolInv, AllocFails
    PROVE  Assignment!Refuse
<1> DEFINE N == Len(ranges)
<1>1. /\ ranges \in Seq(SlotLifetime)
      /\ DOMAIN ranges = 1..N
      /\ i \in 1..N
      /\ pc = "expire" /\ pc' = "failed"
      /\ Sorted /\ ~Sorted'
      /\ AllReady
      /\ \A x \in DOMAIN active : active[x] \in 1..N /\ x < k
  <2>1. /\ ranges \in Seq(SlotLifetime)
        /\ active \in Seq(DOMAIN ranges)
        /\ i \in Nat /\ k \in Nat
        /\ i >= 1 /\ i <= Len(ranges) /\ k > Len(active)
        /\ pc = "expire" /\ pc' = "failed"
    BY DEF IInv, TypeInv, TypeOK, AllocFails, AllReady, Destroy, IndicesInside
  <2> QED BY <2>1 DEF Sorted, AllocFails
<1> HIDE DEF N
<1>2. /\ Values = {LifetimeOf(p) : p \in 1..N}
      /\ \A p, q \in 1..N : LifetimeOf(p) = LifetimeOf(q) => p = q
      /\ DOMAIN SlotOf = {LifetimeOf(p) : p \in Allocated}
      /\ \A p \in Allocated : SlotOf[LifetimeOf(p)] = ranges[p].slot
      /\ Allocated \subseteq 1..N
  BY <1>1, MappingFacts
<1>3. i \notin Allocated
  BY <1>1 DEF Allocated, N
<1> PICK v : v = LifetimeOf(i)
  OBVIOUS
<1>4. v \in Values \ DOMAIN SlotOf
  BY <1>1, <1>2, <1>3
<1>5. ASSUME NEW s \in AllSlots
      PROVE  \E w \in DOMAIN SlotOf : SlotOf[w] = s /\ Assignment!AliveAt(w, v.start)
  <2>1. s \in Held
    BY <1>1 DEF AllSlots, AllocFails, PoolInv, PoolHeld
  <2>2. PICK x \in DOMAIN active : ranges[active[x]].slot = s
    BY <2>1 DEF Held
  <2> PICK p : p = active[x]
    OBVIOUS
  <2>3. p \in 1..N /\ p < i /\ p \in Allocated
    BY <1>1 DEF PoolInv, ActiveTaken, Allocated
  <2>4. ranges[p].start <= ranges[i].start
    BY <1>1, <2>3 DEF RangesInv, SortedUpTo, N
  <2>5. ranges[i].start <= ranges[p].end
    <3>1. ranges[p].end >= ranges[i].start
      BY <1>1 DEF PoolInv, StillAlive
    <3>2. ranges[p].end \in Nat /\ ranges[i].start \in Nat
      BY <1>1, <2>3, LifetimeFields DEF N
    <3> QED BY <3>1, <3>2
  <2>6. /\ LifetimeOf(p).start = ranges[p].start
        /\ LifetimeOf(p).end = ranges[p].end
        /\ v.start = ranges[i].start
    BY DEF LifetimeOf
  <2>7. Assignment!AliveAt(LifetimeOf(p), v.start)
    BY <2>4, <2>5, <2>6 DEF Assignment!AliveAt
  <2>8. LifetimeOf(p) \in DOMAIN SlotOf /\ SlotOf[LifetimeOf(p)] = s
    BY <1>2, <2>2, <2>3
  <2> QED BY <2>7, <2>8
<1>6. Values' = {} /\ SlotOf' = Assignment!EmptyFunction
  <2>1. Allocated' = {}
    BY <1>1 DEF Allocated
  <2>2. {LifetimeOf(p)' : p \in Allocated'} = {}
    BY <2>1
  <2>3. Values' = {}
    BY <1>1 DEF Values
  <2> QED BY <2>2, <2>3 DEF SlotOf, Assignment!EmptyFunction
<1>7. Verdict = "open" /\ Verdict' = "refused"
  BY <1>1 DEF Verdict
<1>8. \E u \in Values \ DOMAIN SlotOf : \A s \in AllSlots :
         \E w \in DOMAIN SlotOf : SlotOf[w] = s /\ Assignment!AliveAt(w, u.start)
  BY <1>4, <1>5
<1> QED BY <1>6, <1>7, <1>8, MappedSteps

LEMMA NextRefines ==
    ASSUME IInv, IInv', RangesInv, RangesInv', PoolInv, [Next]_vars
    PROVE  Assignment!SNext \/ UNCHANGED Assignment!sVars
<1>0. /\ TypeInv /\ TypeInv'
      /\ ranges \in Seq(SlotLifetime)
      /\ i \in Nat
  BY DEF IInv, TypeInv, TypeOK
<1>1. ASSUME ~Sorted', Values = {}, SlotOf = Assignment!EmptyFunction
      PROVE  Values' = Values /\ SlotOf' = SlotOf
  <2>1. Allocated' = {} /\ {LifetimeOf(p)' : p \in Allocated'} = {}
    BY <1>1 DEF Allocated
  <2>2. Values' = {}
    BY <1>1 DEF Values
  <2>3. SlotOf' = Assignment!EmptyFunction
    BY <2>1 DEF SlotOf, Assignment!EmptyFunction
  <2> QED BY <1>1, <2>2, <2>3
<1>2. ASSUME ~Sorted, ~Sorted', Verdict' = Verdict
      PROVE  UNCHANGED Assignment!sVars
  BY <1>1, <1>2, NothingMapped, MappedStutter
<1>3. CASE Create \/ EndScan \/ Collect \/ EndCollect \/ InsertKey
  <2>1. ~Sorted /\ ~Sorted' /\ Verdict' = Verdict
    BY <1>3 DEF Create, EndScan, Collect, EndCollect, InsertKey, Sorted, Verdict
  <2> QED BY <1>2, <2>1
<1>4. ASSUME NEW q \in Inputs, ScanQuad(q)
      PROVE  UNCHANGED Assignment!sVars
  <2>1. ~Sorted /\ ~Sorted' /\ Verdict' = Verdict
    BY <1>4 DEF ScanQuad, Sorted, Verdict
  <2> QED BY <1>2, <2>1
<1>5. CASE CreateOutOfMemory \/ ActiveOutOfMemory
  <2>1. ~Sorted /\ ~Sorted' /\ Verdict = "none" /\ Verdict' = "refused"
    BY <1>5 DEF CreateOutOfMemory, ActiveOutOfMemory, Destroy, Sorted, Verdict
  <2>2. Values' = Values /\ SlotOf' = SlotOf
    BY <1>1, <2>1, NothingMapped
  <2>3. Assignment!Abandon
    BY <2>1, <2>2, MappedSteps
  <2> QED BY <2>3 DEF Assignment!SNext
<1>6. CASE EndSort
  <2>1. /\ ~Sorted /\ Sorted' /\ Verdict = "none" /\ Verdict' = "open"
        /\ ranges' = ranges /\ i' = 1
    BY <1>6 DEF EndSort, Sorted, Verdict
  <2>2. Allocated' = {} /\ {LifetimeOf(p)' : p \in Allocated'} = {}
    BY <1>0, <2>1 DEF Allocated
  <2>3. SlotOf' = SlotOf
    BY <2>1, <2>2, NothingMapped DEF SlotOf, Assignment!EmptyFunction
  <2>4. \A p \in DOMAIN ranges : LifetimeOf(p)' \in Assignment!LiveRanges
    <3> TAKE p \in DOMAIN ranges
    <3>1. /\ ranges[p].start \in Nat /\ ranges[p].end \in Nat /\ ranges[p].node \in Nat
      BY <1>0, LifetimeFields
    <3> QED BY <2>1, <3>1 DEF LifetimeOf, Assignment!LiveRanges
  <2>5. Values' \in SUBSET Assignment!LiveRanges
    BY <2>1, <2>4 DEF Values
  <2>6. Assignment!Submit
    BY <2>1, <2>3, <2>5, MappedSteps
  <2> QED BY <2>6 DEF Assignment!SNext
<1>7. ASSUME Sorted, Sorted', ranges' = ranges, i' = i
      PROVE  Values' = Values /\ SlotOf' = SlotOf
  <2>1. Allocated' = Allocated
    BY <1>7 DEF Allocated
  <2> QED BY <1>7, <2>1 DEF Values, SlotOf, LifetimeOf
<1>8. CASE Expire \/ KeepActive
  <2>1. Sorted /\ Sorted' /\ ranges' = ranges /\ i' = i /\ Verdict' = Verdict
    BY <1>8 DEF Expire, KeepActive, Sorted, Verdict
  <2> QED BY <1>7, <2>1, MappedStutter
<1>9. CASE AllocRegister
  <2>1. PICK r \in Regs : Assign(RegSlot(r))
    BY <1>9 DEF AllocRegister
  <2>2. RegSlot(r) \in Slot /\ RegSlot(r) \in AllSlots
    BY PoolSlots
  <2>3. AllReady
    BY <1>9 DEF AllocRegister
  <2> QED BY <2>1, <2>2, <2>3, AssignRefines
<1>10. CASE AllocSpilled
  <2>1. PICK s \in Spills : Assign(StackSlot(s))
    BY <1>10 DEF AllocSpilled
  <2>2. StackSlot(s) \in Slot /\ StackSlot(s) \in AllSlots
    BY PoolSlots
  <2>3. AllReady
    BY <1>10 DEF AllocSpilled
  <2> QED BY <2>1, <2>2, <2>3, AssignRefines
<1>11. CASE AllocFails
  <2>1. Assignment!Refuse
    BY <1>11, FailureRefines
  <2> QED BY <2>1 DEF Assignment!SNext
<1>12. CASE Finish
  <2>1. /\ Sorted /\ Sorted' /\ ranges' = ranges /\ i' = i /\ i > Len(ranges)
        /\ Verdict = "open" /\ Verdict' = "assigned"
    BY <1>12 DEF Finish, Sorted, Verdict
  <2>2. Allocated = DOMAIN ranges
    <3>1. \A p \in DOMAIN ranges : p < i
      BY <1>0, <2>1
    <3> QED BY <2>1, <3>1 DEF Allocated
  <2>3. DOMAIN SlotOf = Values
    BY <2>1, <2>2, MappingFacts
  <2>4. Values' = Values /\ SlotOf' = SlotOf
    BY <1>7, <2>1
  <2>5. Assignment!Accept
    BY <2>1, <2>3, <2>4, MappedSteps
  <2> QED BY <2>5 DEF Assignment!SNext
<1>13. CASE UNCHANGED vars
  <2>1. ranges' = ranges /\ i' = i /\ Verdict' = Verdict /\ (Sorted' <=> Sorted)
    BY <1>13 DEF vars, Verdict, Sorted
  <2> QED BY <1>2, <1>7, <2>1, MappedStutter
<1> QED
  BY <1>3, <1>4, <1>5, <1>6, <1>8, <1>9, <1>10, <1>11, <1>12, <1>13 DEF Next, Returned

(* create_regslots does what SlotAssignment specifies, for every program and *)
(* every number of slots: each live range is given one slot, once, that no   *)
(* live range in conflict with it has, all have one when it returns true,    *)
(* and it refuses only where some live range starts while every slot is      *)
(* held.                                                                     *)
THEOREM Implements == Spec => ImplementsSlotAssignment
<1>1. IInv /\ RangesInv /\ PoolInv /\ (IInv /\ RangesInv /\ PoolInv)' /\ [Next]_vars
         => [Assignment!SNext]_(Assignment!sVars)
  BY NextRefines
<1>2. Init => Assignment!SInit
  BY InitRefines
<1> QED
  BY <1>1, <1>2, PoolInvariance, PTL DEF Spec, ImplementsSlotAssignment, Assignment!SSpec

=============================================================================

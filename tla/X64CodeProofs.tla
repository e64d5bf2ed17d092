---------------------------- MODULE X64CodeProofs ----------------------------
(***************************************************************************)
(* The code that is listed keeps the values of the program: theorems about *)
(* X64Code for every target, every split of its registers into those a     *)
(* call destroys and those it keeps, and every program of one activation.  *)
(***************************************************************************)
EXTENDS X64Code, RegSlotsProofs

-----------------------------------------------------------------------------
(* Numbers and runs of quadruples                                            *)

(* A set of numbers has a least one: the finite sets 1..x are well-founded.  *)
LEMMA LeastNat ==
    ASSUME NEW T \in SUBSET Nat, T # {}
    PROVE  \E x \in T : \A y \in T : x <= y
<1> DEFINE Up == {1..x : x \in T}
<1>1. Up \subseteq FiniteSubsetsOf(Nat)
  BY FS_Interval DEF FiniteSubsetsOf
<1>2. IsWellFoundedOn(StrictSubsetOrdering(Nat), FiniteSubsetsOf(Nat))
  BY FS_StrictSubsetOrderingWellFounded
<1>3. PICK X \in Up : \A Y \in Up : ~(<<Y, X>> \in StrictSubsetOrdering(Nat))
  <2> Up # {} OBVIOUS
  <2> HIDE DEF Up
  <2> QED BY <1>1, <1>2, WFMin
<1>4. PICK x \in T : X = 1..x
  BY <1>3
<1>5. ASSUME NEW y \in T, y < x PROVE FALSE
  <2>1. <<1..y, X>> \notin StrictSubsetOrdering(Nat)
    BY <1>3
  <2>2. 1..y \in SUBSET Nat /\ 1..x \in SUBSET Nat
    OBVIOUS
  <2>3. 1..y \subseteq 1..x /\ 1..y # 1..x
    <3>1. x \in 1..x /\ x \notin 1..y
      BY <1>5
    <3> QED BY <3>1, <1>5
  <2> QED BY <2>1, <2>2, <2>3, <1>4 DEF StrictSubsetOrdering
<1> QED BY <1>5

(* The quadruples of one kind that end at n are the last ones up to n.       *)
LEMMA RunOfQuads ==
    ASSUME NEW n \in Nat, NEW op, NEW S,
           \A p : p \in S <=> p \in 1..n /\ \A p2 \in p..n : quads[p2].op = op
    PROVE  /\ Cardinality(S) \in 0..n
           /\ S = (n - Cardinality(S) + 1)..n
           /\ n - Cardinality(S) >= 1 => quads[n - Cardinality(S)].op # op
<1>1. CASE S = {}
  <2>1. Cardinality(S) = 0
    BY <1>1, FS_EmptySet
  <2>2. n >= 1 => quads[n].op # op
    <3>1. \A p2 \in n..n : p2 = n
      OBVIOUS
    <3> QED BY <1>1, <3>1
  <2> QED BY <1>1, <2>1, <2>2
<1>2. CASE S # {}
  <2>0. S \in SUBSET Nat
    OBVIOUS
  <2>1. PICK f \in S : \A y \in S : f <= y
    BY <1>2, <2>0, LeastNat
  <2>2. f \in 1..n /\ \A p2 \in f..n : quads[p2].op = op
    BY <2>1
  <2>3. S = f..n
    <3>1. ASSUME NEW p \in f..n PROVE p \in S
      BY <2>2
    <3>2. ASSUME NEW p \in S PROVE p \in f..n
      BY <2>1
    <3> QED BY <3>1, <3>2
  <2>4. Cardinality(S) = n - f + 1
    BY <2>2, <2>3, FS_Interval
  <2>5. f > 1 => quads[f - 1].op # op
    <3> SUFFICES ASSUME f > 1, quads[f - 1].op = op PROVE FALSE
      OBVIOUS
    <3>1. \A p2 \in (f - 1)..n : p2 = f - 1 \/ p2 \in f..n
      BY <2>2
    <3>2. f - 1 \in S
      BY <2>2, <3>1
    <3> QED BY <2>1, <2>2, <3>2
  <2> QED BY <2>2, <2>3, <2>4, <2>5
<1> QED BY <1>1, <1>2

-----------------------------------------------------------------------------
(* The loads of the arguments                                                *)

(* The registers h after the load of argument c. *)
Load(h, c) ==
    [h EXCEPT ![SavedCaller[c]] = Operand(h, quads[Argument(c)].src1, Argument(c))]

(* The recursive definition of Loaded has a solution: a least number of      *)
(* loads without one could be reached from the one before.                   *)
LEMMA LoadedDef ==
    Loaded = [c \in 0..Len(SavedCaller) |-> IF c = 0 THEN regs ELSE Load(Loaded[c - 1], c)]
<1> DEFINE Solves(g, m) == g = [c \in 0..m |-> IF c = 0 THEN regs ELSE Load(g[c - 1], c)]
           Unsolved == {m \in Nat : ~\E g : Solves(g, m)}
<1>1. Unsolved = {}
  <2> SUFFICES ASSUME Unsolved # {} PROVE FALSE
    OBVIOUS
  <2>1. PICK m \in Unsolved : \A y \in Unsolved : m <= y
    <3>1. Unsolved \in SUBSET Nat
      OBVIOUS
    <3> HIDE DEF Unsolved
    <3> QED BY <3>1, LeastNat
  <2>2. CASE m = 0
    <3> DEFINE g == [c \in 0..0 |-> regs]
    <3>1. Solves(g, 0)
      OBVIOUS
    <3> HIDE DEF Solves
    <3> QED BY <2>1, <2>2, <3>1
  <2>3. CASE m # 0
    <3>1. m \in Nat /\ m - 1 \in Nat /\ m - 1 \notin Unsolved
      <4>1. m \in Nat /\ m - 1 \in Nat /\ ~(m <= m - 1)
        BY <2>3
      <4> HIDE DEF Unsolved
      <4> QED BY <2>1, <4>1
    <3>2. PICK g : Solves(g, m - 1)
      BY <3>1
    <3> DEFINE h == [c \in 0..m |-> IF c < m THEN g[c] ELSE Load(g[m - 1], m)]
    <3>3. ASSUME NEW c \in 0..m
          PROVE  h[c] = IF c = 0 THEN regs ELSE Load(h[c - 1], c)
      <4>1. CASE c = m
        <5>1. h[c] = Load(g[m - 1], m) /\ h[c - 1] = g[m - 1]
          BY <3>1, <4>1
        <5> QED BY <2>3, <4>1, <5>1
      <4>2. CASE c # m
        <5>1. c \in 0..(m - 1) /\ h[c] = g[c]
          BY <3>1, <4>2
        <5>2. c # 0 => h[c - 1] = g[c - 1]
          BY <3>1, <4>2
        <5>3. g[c] = IF c = 0 THEN regs ELSE Load(g[c - 1], c)
          BY <3>2, <5>1
        <5> QED BY <5>1, <5>2, <5>3
      <4> QED BY <4>1, <4>2
    <3>4. Solves(h, m)
      <4>1. h = [c \in 0..m |-> h[c]]
        OBVIOUS
      <4> HIDE DEF h
      <4> QED BY <3>3, <4>1
    <3> HIDE DEF Solves
    <3> QED BY <2>1, <3>4
  <2> QED BY <2>2, <2>3
<1>2. Len(SavedCaller) \in Nat
  BY X64Assumption DEF X64Assumption
<1>3. PICK g : Solves(g, Len(SavedCaller))
  BY <1>1, <1>2
<1>4. g = [c \in 0..Len(SavedCaller) |-> IF c = 0 THEN regs ELSE Load(g[c - 1], c)]
  BY <1>3
<1> HIDE DEF Solves
<1> QED BY <1>4 DEF Loaded, Load

LEMMA LoadedStep ==
    /\ Loaded[0] = regs
    /\ \A c \in 1..Len(SavedCaller) : Loaded[c] = Load(Loaded[c - 1], c)
<1>1. Len(SavedCaller) \in Nat
  BY X64Assumption DEF X64Assumption
<1>2. \A c \in 0..Len(SavedCaller) :
         Loaded[c] = IF c = 0 THEN regs ELSE Load(Loaded[c - 1], c)
  BY LoadedDef
<1> QED BY <1>1, <1>2

(* The registers a call destroys are different ones of the machine.          *)
LEMMA SavedCallers ==
    /\ Len(SavedCaller) \in Nat
    /\ \A x \in 1..Len(SavedCaller) : SavedCaller[x] \in Machine
    /\ \A x, y \in 1..Len(SavedCaller) : SavedCaller[x] = SavedCaller[y] => x = y
<1>1. SavedCaller \in Seq(Regs)
  BY X64Assumption DEF X64Assumption
<1>2. \A x \in 1..Len(SavedCaller) : SavedCaller[x] \in Regs
  BY <1>1
<1>3. \A r \in Regs : r \in Machine
  BY RegSlotsAssumption DEF RegSlotsAssumption, Regs, Machine
<1>4. \A x, y \in 1..Len(SavedCaller) : SavedCaller[x] = SavedCaller[y] => x = y
  BY X64Assumption DEF X64Assumption
<1>5. Len(SavedCaller) \in Nat
  BY <1>1
<1> QED BY <1>2, <1>3, <1>4, <1>5

(* After c loads, of arguments that have a register, the registers that were *)
(* not loaded are as before and each of the others has what its load found.  *)
LEMMA LoadedRegisters ==
    ASSUME regs \in [Machine -> Int],
           NEW m \in 0..Len(SavedCaller),
           \A c \in 1..m :
              /\ Argument(c) \in Nat
              /\ quads[Argument(c)].src1 # NoItem => Physical(quads[Argument(c)].src1) \in Machine
    PROVE  \A c \in 0..m :
              /\ Loaded[c] \in [Machine -> Int]
              /\ \A r \in Machine :
                    (\A x \in 1..c : SavedCaller[x] # r) => Loaded[c][r] = regs[r]
              /\ \A x \in 1..c :
                    Loaded[c][SavedCaller[x]] =
                        Operand(Loaded[x - 1], quads[Argument(x)].src1, Argument(x))
<1> DEFINE Good(c) ==
              /\ Loaded[c] \in [Machine -> Int]
              /\ \A r \in Machine :
                    (\A x \in 1..c : SavedCaller[x] # r) => Loaded[c][r] = regs[r]
              /\ \A x \in 1..c :
                    Loaded[c][SavedCaller[x]] =
                        Operand(Loaded[x - 1], quads[Argument(x)].src1, Argument(x))
           Bad == {c \in 0..m : ~Good(c)}
<1>1. /\ Len(SavedCaller) \in Nat
      /\ \A x \in 1..Len(SavedCaller) : SavedCaller[x] \in Machine
      /\ \A x, y \in 1..Len(SavedCaller) : SavedCaller[x] = SavedCaller[y] => x = y
  BY SavedCallers
<1>2. Good(0)
  BY LoadedStep
<1>3. ASSUME NEW c \in 1..m, Good(c - 1) PROVE Good(c)
  <2> DEFINE h == Loaded[c - 1]
             v == Operand(h, quads[Argument(c)].src1, Argument(c))
  <2>1. c \in 1..Len(SavedCaller) /\ c - 1 \in 0..m
    BY <1>1
  <2>2. Loaded[c] = [h EXCEPT ![SavedCaller[c]] = v]
    BY <2>1, LoadedStep DEF Load
  <2>3. h \in [Machine -> Int]
    BY <1>3
  <2>4. v \in Int
    BY <2>3 DEF Operand
  <2>5. SavedCaller[c] \in Machine
    BY <1>1, <2>1
  <2>6. ASSUME NEW r \in Machine, \A x \in 1..c : SavedCaller[x] # r
        PROVE  Loaded[c][r] = regs[r]
    <3>1. h[r] = regs[r]
      BY <1>3, <2>6
    <3>2. SavedCaller[c] # r
      BY <2>6
    <3> HIDE DEF h, v
    <3> QED BY <2>2, <2>3, <3>1, <3>2
  <2>7. ASSUME NEW x \in 1..c
        PROVE  Loaded[c][SavedCaller[x]] =
                   Operand(Loaded[x - 1], quads[Argument(x)].src1, Argument(x))
    <3>1. CASE x = c
      <4>1. Loaded[c][SavedCaller[c]] = v
        <5> HIDE DEF h, v
        <5> QED BY <2>2, <2>3, <2>5
      <4> QED BY <3>1, <4>1
    <3>2. CASE x # c
      <4>1. x \in 1..(c - 1) /\ x \in 1..Len(SavedCaller)
        BY <2>1, <3>2
      <4>2. SavedCaller[x] # SavedCaller[c] /\ SavedCaller[x] \in Machine
        BY <1>1, <2>1, <3>2, <4>1
      <4>3. h[SavedCaller[x]] = Operand(Loaded[x - 1], quads[Argument(x)].src1, Argument(x))
        BY <1>3, <4>1
      <4> HIDE DEF h, v
      <4> QED BY <2>2, <2>3, <4>2, <4>3
    <3> QED BY <3>1, <3>2
  <2>8. Loaded[c] \in [Machine -> Int]
    <3> HIDE DEF h, v
    <3> QED BY <2>2, <2>3, <2>4
  <2> QED BY <2>6, <2>7, <2>8
<1> HIDE DEF Good
<1>4. Bad = {}
  <2> SUFFICES ASSUME Bad # {} PROVE FALSE
    OBVIOUS
  <2>1. PICK c \in Bad : \A y \in Bad : c <= y
    <3>1. Bad \in SUBSET Nat
      OBVIOUS
    <3> HIDE DEF Bad
    <3> QED BY <3>1, LeastNat
  <2>2. c \in 1..m /\ ~Good(c)
    BY <1>2, <2>1
  <2>3. c - 1 \notin Bad
    <3> HIDE DEF Bad
    <3> QED BY <2>1, <2>2
  <2>4. Good(c - 1)
    BY <2>2, <2>3
  <2> QED BY <1>3, <2>2, <2>4
<1>5. \A c \in 0..m : Good(c)
  BY <1>4
<1> QED BY <1>5 DEF Good

(* The arguments of the call at pos are the last Arity quadruples before it. *)
LEMMA ArgumentRun ==
    ASSUME pos \in Nat, pos >= 1
    PROVE  /\ Arity \in 0..(pos - 1)
           /\ \A p \in (pos - Arity)..(pos - 1) : quads[p].op = "ARG"
<1> DEFINE S == {p \in 1..(pos - 1) : \A p2 \in p..(pos - 1) : quads[p2].op = "ARG"}
<1>1. \A p : p \in S <=> p \in 1..(pos - 1) /\ \A p2 \in p..(pos - 1) : quads[p2].op = "ARG"
  OBVIOUS
<1>2. pos - 1 \in Nat /\ Arity = Cardinality(S)
  BY DEF Arity
<1> HIDE DEF S
<1>3. /\ Cardinality(S) \in 0..(pos - 1)
      /\ S = (pos - 1 - Cardinality(S) + 1)..(pos - 1)
  BY <1>1, <1>2, RunOfQuads
<1>4. pos - Arity = pos - 1 - Cardinality(S) + 1
  BY <1>2, <1>3
<1>5. ASSUME NEW p \in (pos - Arity)..(pos - 1) PROVE quads[p].op = "ARG"
  <2>1. p \in S /\ p \in p..(pos - 1)
    BY <1>2, <1>3, <1>4
  <2> QED BY <1>1, <2>1
<1> QED BY <1>2, <1>3, <1>5

(* ParamIndex counts the parameters from the first of their run.             *)
LEMMA ParameterRun ==
    ASSUME pos \in Nat, pos >= 1, quads[pos].op = "PARAM"
    PROVE  /\ ParamIndex \in 1..pos
           /\ \A p \in (pos - ParamIndex + 1)..pos : quads[p].op = "PARAM"
           /\ pos - ParamIndex >= 1 => quads[pos - ParamIndex].op # "PARAM"
<1> DEFINE S == {p \in 1..pos : \A p2 \in p..pos : quads[p2].op = "PARAM"}
<1>1. \A p : p \in S <=> p \in 1..pos /\ \A p2 \in p..pos : quads[p2].op = "PARAM"
  OBVIOUS
<1>2. ParamIndex = Cardinality(S)
  BY DEF ParamIndex
<1>3. pos \in S
  <2>1. \A p2 \in pos..pos : p2 = pos
    OBVIOUS
  <2> QED BY <2>1
<1> HIDE DEF S
<1>4. /\ Cardinality(S) \in 0..pos
      /\ S = (pos - Cardinality(S) + 1)..pos
      /\ pos - Cardinality(S) >= 1 => quads[pos - Cardinality(S)].op # "PARAM"
  BY <1>1, RunOfQuads
<1>5. ASSUME NEW p \in (pos - ParamIndex + 1)..pos PROVE quads[p].op = "PARAM"
  <2>1. p \in S /\ p \in p..pos
    BY <1>2, <1>4
  <2> QED BY <1>1, <2>1
<1>6. ParamIndex \in 1..pos
  BY <1>2, <1>3, <1>4
<1> QED BY <1>2, <1>4, <1>5, <1>6

-----------------------------------------------------------------------------
(* What the allocator leaves to the code generator                           *)

(* The quadruples the three-address code emits, all read when the lifetimes  *)
(* are collected.                                                            *)
ProgInv ==
    /\ \A p \in DOMAIN quads :
          /\ quads[p].op \in {"ARG", "SCOPE"} => quads[p].dst = NoItem
          /\ quads[p].op \in {"CALL", "PARAM"} => quads[p].dst # NoItem /\ quads[p].src1 = NoItem
          /\ quads[p].op # "ALU" => quads[p].src2 = NoItem
    /\ pc \in {"collect", "sort", "expire", "done"} => Len(quads) = quadCount

AllocInv == IInv /\ RangesInv /\ PoolInv /\ LifetimeHasLastSlot /\ ProgInv

LEMMA InitProg == Init => ProgInv
BY DEF Init, ProgInv

LEMMA NextProg == IInv /\ RangesInv /\ ProgInv /\ [Next]_vars => ProgInv'
<1> SUFFICES ASSUME IInv, RangesInv, ProgInv, [Next]_vars PROVE ProgInv'
    OBVIOUS
<1>1. ASSUME NEW q \in Inputs, ScanQuad(q) PROVE ProgInv'
  <2>1. q \in Quad /\ quads \in Seq(Quad)
    BY RegSlotsAssumption DEF RegSlotsAssumption, IInv, TypeInv, TypeOK
  <2>2. quads' = Append(quads, q) /\ pc' = "scan"
    BY <1>1 DEF ScanQuad
  <2>3. /\ q.op \in {"ARG", "SCOPE"} => q.dst = NoItem
        /\ q.op \in {"CALL", "PARAM"} => q.dst \in Nodes /\ q.src1 = NoItem
        /\ q.op # "ALU" => q.src2 = NoItem
    BY <1>1, <2>1, RegSlotsAssumption
    DEF ScanQuad, Emitted, Quad, Ops, RegSlotsAssumption, Nodes
  <2>4. NoItem \notin Nodes
    BY RegSlotsAssumption DEF RegSlotsAssumption, Nodes, NoItem
  <2>5. ASSUME NEW p \in DOMAIN quads' PROVE (p \in DOMAIN quads /\ quads'[p] = quads[p]) \/ quads'[p] = q
    BY <2>1, <2>2
  <2> QED BY <2>2, <2>3, <2>4, <2>5 DEF ProgInv
<1>2. CASE EndScan
  BY <1>2 DEF EndScan, ProgInv, IInv, TypeInv, TypeOK, RangesInv
<1>3. CASE pc' \in {"scan", "failed"} /\ UNCHANGED quads
  BY <1>3 DEF ProgInv
<1>4. CASE pc \in {"collect", "sort", "expire", "done"} /\ UNCHANGED <<quads, quadCount>>
  BY <1>4 DEF ProgInv
<1>5. CASE UNCHANGED vars
  BY <1>5 DEF vars, ProgInv
<1> QED
  BY <1>1, <1>2, <1>3, <1>4, <1>5
  DEF Next, Create, CreateOutOfMemory, Destroy, Collect, EndCollect, InsertKey, EndSort,
      ActiveOutOfMemory, Expire, KeepActive, AllReady, AllocRegister, AllocSpilled, AllocFails,
      Assign, Finish, Returned

(* All that was proved of the allocator holds of every behaviour of Spec.    *)
LEMMA Allocation == Spec => []AllocInv
<1>1. Spec => []ProgInv
  BY InitProg, NextProg, RangesInvariance, PTL DEF Spec
<1>2. IInv /\ RangesInv /\ PoolInv /\ LifetimeHasLastSlot /\ ProgInv => AllocInv
  BY DEF AllocInv
<1> QED BY <1>1, <1>2, PoolInvariance, LastSlotFound, PTL

LEMMA DoneTypes ==
    ASSUME AllocInv, pc = "done"
    PROVE  /\ quadCount \in Nat
           /\ quads \in Seq(Quad) /\ DOMAIN quads = 1..quadCount
           /\ \A p \in 1..quadCount :
                 /\ quads[p].op \in Ops
                 /\ {quads[p].dst, quads[p].src1, quads[p].src2} \subseteq Item
           /\ lifetimes \in [Nodes -> SlotLifetime]
           /\ \A n \in Nodes : /\ lifetimes[n].start \in Nat /\ lifetimes[n].end \in Nat
                               /\ lifetimes[n].slot \in Slot
                               /\ Physical(n) \in Nat
           /\ ranges \in Seq(SlotLifetime)
           /\ Allocated = DOMAIN ranges
<1>1. /\ quadCount \in Nat
      /\ quads \in Seq(Quad) /\ lifetimes \in [Nodes -> SlotLifetime]
      /\ ranges \in Seq(SlotLifetime)
      /\ i \in Nat
  BY DEF AllocInv, IInv, TypeInv, TypeOK
<1>2. Len(quads) = quadCount
  BY DEF AllocInv, ProgInv
<1>3. DOMAIN quads = 1..quadCount
  BY <1>1, <1>2
<1>4. ASSUME NEW p \in 1..quadCount
      PROVE  /\ quads[p].op \in Ops
             /\ {quads[p].dst, quads[p].src1, quads[p].src2} \subseteq Item
  <2>1. quads[p] \in Quad
    BY <1>1, <1>3
  <2> QED BY <2>1 DEF Quad
<1>5. ASSUME NEW n \in Nodes
      PROVE  /\ lifetimes[n].start \in Nat /\ lifetimes[n].end \in Nat
             /\ lifetimes[n].slot \in Slot
             /\ Physical(n) \in Nat
  <2>1. lifetimes[n] \in SlotLifetime
    BY <1>1
  <2>2. lifetimes[n].slot \in Slot
    BY <2>1 DEF SlotLifetime
  <2> QED BY <2>1, <2>2, SlotFields DEF SlotLifetime, Physical
<1>6. Allocated = DOMAIN ranges
  <2>1. i > Len(ranges) /\ Sorted
    BY DEF AllocInv, RangesInv, Sorted
  <2>2. \A p \in DOMAIN ranges : p < i
    BY <1>1, <2>1
  <2> QED BY <2>1, <2>2 DEF Allocated
<1> QED BY <1>1, <1>3, <1>4, <1>5, <1>6

(* Where every node is written once, the lifetime of a written node is the   *)
(* live range of its value, and has a slot.                                  *)
LEMMA OwnLifetime ==
    ASSUME AllocInv, pc = "done", WrittenOnce, NEW d \in Definitions
    PROVE  /\ d \in 1..quadCount
           /\ quads[d].dst \in Nodes
           /\ lifetimes[quads[d].dst].start = d
           /\ lifetimes[quads[d].dst].end \in Uses(d)
           /\ \A p \in Uses(d) : p <= lifetimes[quads[d].dst].end
           /\ d <= lifetimes[quads[d].dst].end
           /\ \E p \in Allocated : ranges[p] = lifetimes[quads[d].dst]
<1> DEFINE n == quads[d].dst
<1>1. d \in 1..quadCount /\ n \in Nodes /\ Defined(n)
  BY DoneTypes DEF Definitions, Item, Defined
<1>2. /\ NodeLifetimes
      /\ HoldsRanges(ranges, Closed)
      /\ Closed = Definitions
  BY DEF AllocInv, RangesInv, Closed
<1>3. /\ lifetimes[n].start # 0
      /\ IsLiveRange(lifetimes[n], lifetimes[n].start)
  BY <1>1, <1>2 DEF NodeLifetimes
<1>4. lifetimes[n].start = d
  <2>1. lifetimes[n].node = n
    BY <1>1, <1>2, <1>3 DEF NodeLifetimes
  <2>2. /\ lifetimes[n].start \in Definitions
        /\ quads[lifetimes[n].start].dst = n
    BY <1>3, <2>1 DEF IsLiveRange
  <2> QED BY <2>2 DEF WrittenOnce
<1>5. /\ lifetimes[n].end \in Uses(d)
      /\ \A p \in Uses(d) : p <= lifetimes[n].end
      /\ d \in Uses(d)
  BY <1>3, <1>4 DEF IsLiveRange, Uses
<1>6. PICK p \in DOMAIN ranges : ranges[p].start = d
  BY <1>2 DEF HoldsRanges
<1>7. ranges[p].node = n
  BY <1>2, <1>6 DEF HoldsRanges, IsLiveRange
<1>8. \E q \in DOMAIN ranges : lifetimes[n] = ranges[q]
  BY <1>1, <1>6, <1>7 DEF AllocInv, LifetimeHasLastSlot
<1> HIDE DEF n
<1>9. d <= lifetimes[n].end
  BY <1>5
<1> QED BY <1>1, <1>4, <1>5, <1>8, <1>9, DoneTypes DEF n

(* Values that are alive together are in different registers.                *)
LEMMA RegistersDiffer ==
    ASSUME AllocInv, pc = "done", WrittenOnce, NoSpill,
           NEW d \in Definitions, NEW e \in Definitions, d # e,
           d <= lifetimes[quads[e].dst].end,
           e <= lifetimes[quads[d].dst].end
    PROVE  Physical(quads[d].dst) # Physical(quads[e].dst)
<1> DEFINE n == quads[d].dst
           m == quads[e].dst
<1>1. /\ n \in Nodes /\ m \in Nodes
      /\ lifetimes[n].start = d /\ lifetimes[m].start = e
  BY OwnLifetime
<1>2. PICK p \in Allocated : ranges[p] = lifetimes[n]
  BY OwnLifetime
<1>3. PICK q \in Allocated : ranges[q] = lifetimes[m]
  BY OwnLifetime
<1>4. p # q
  BY <1>1, <1>2, <1>3
<1>5. Overlap(p, q)
  BY <1>1, <1>2, <1>3 DEF Overlap
<1>6. lifetimes[n].slot # lifetimes[m].slot
  BY <1>2, <1>3, <1>4, <1>5 DEF AllocInv, IInv, OverlapDistinct
<1>7. lifetimes[n].slot \in Slot /\ lifetimes[m].slot \in Slot
  BY <1>1, DoneTypes
<1>8. ~lifetimes[n].slot.spilled /\ ~lifetimes[m].slot.spilled
  BY <1>1 DEF NoSpill
<1> HIDE DEF n, m
<1>9. lifetimes[n].slot.slot # lifetimes[m].slot.slot
  BY <1>6, <1>7, <1>8, SlotFields
<1> QED BY <1>9 DEF Physical, n, m

(* The slots are given in the order of the definitions, the lowest first:    *)
(* with only scopes before f, the value of d is in one of the first          *)
(* d - f + 1 registers.                                                      *)
LEMMA LowRegister ==
    ASSUME AllocInv, pc = "done", WrittenOnce, NoSpill,
           NEW f \in Nat, f >= 1, \A p \in 1..(f - 1) : quads[p].op = "SCOPE",
           NEW d \in Definitions, f <= d
    PROVE  Physical(quads[d].dst) <= d - f + 1
<1> DEFINE n == quads[d].dst
<1>1. /\ n \in Nodes /\ lifetimes[n].start = d
      /\ d \in 1..quadCount
  BY OwnLifetime
<1>2. PICK p \in Allocated : ranges[p] = lifetimes[n]
  BY OwnLifetime
<1>3. /\ ranges \in Seq(SlotLifetime) /\ p \in 1..Len(ranges)
      /\ \A q \in 1..Len(ranges) : ranges[q].start \in Nat
  BY <1>2, DoneTypes, LifetimeFields
<1>4. /\ SortedUpTo(Len(ranges))
      /\ HoldsRanges(ranges, Definitions)
  BY DEF AllocInv, RangesInv, Closed, Sorted
<1>5. \A e \in Definitions : e \in 1..quadCount /\ e >= f
  <2> SUFFICES ASSUME NEW e \in Definitions PROVE e \in 1..quadCount /\ e >= f
    OBVIOUS
  <2>1. e \in 1..quadCount
    BY DoneTypes DEF Definitions
  <2>2. e < f => quads[e].op = "SCOPE"
    BY <2>1
  <2>3. quads[e].op # "SCOPE"
    BY DEF AllocInv, ProgInv, Definitions
  <2> QED BY <2>1, <2>2, <2>3
<1>6. \A q \in 1..p : ranges[q].start \in f..d
  <2> SUFFICES ASSUME NEW q \in 1..p PROVE ranges[q].start \in f..d
    OBVIOUS
  <2>1. q \in DOMAIN ranges /\ p \in DOMAIN ranges
    BY <1>3
  <2>2. ranges[q].start <= ranges[p].start
    BY <1>3, <1>4, <2>1 DEF SortedUpTo
  <2>3. ranges[q].start \in Definitions
    BY <1>4, <2>1 DEF HoldsRanges
  <2>4. d \in Nat /\ ranges[p].start = d
    BY <1>1, <1>2, DoneTypes
  <2>5. ranges[q].start \in Nat /\ ranges[q].start >= f
    BY <1>3, <1>5, <2>1, <2>3
  <2> QED BY <2>2, <2>4, <2>5
<1> DEFINE g == [q \in 1..p |-> ranges[q].start]
<1>7. g \in Injection(1..p, f..d)
  <2>1. g \in [1..p -> f..d]
    BY <1>6
  <2>2. \A q, r \in 1..p : q # r => g[q] # g[r]
    BY <1>3, <1>4 DEF HoldsRanges
  <2> HIDE DEF g
  <2> QED BY <2>1, <2>2 DEF Injection, IsInjective
<1>8. p <= d - f + 1
  <2>1. d \in Int /\ p \in Int
    BY <1>1, <1>3
  <2>2. /\ IsFiniteSet(f..d) /\ Cardinality(f..d) = d - f + 1
        /\ Cardinality(1..p) = p
    BY <1>3, <2>1, FS_Interval
  <2> HIDE DEF g
  <2>3. Cardinality(1..p) <= Cardinality(f..d)
    BY <1>7, <2>2, FS_Injection
  <2> QED BY <2>2, <2>3
<1>9. Pressure(p) <= p
  <2> DEFINE S == {q \in 1..p : ranges[q].end >= ranges[p].start}
  <2>1. IsFiniteSet(1..p) /\ Cardinality(1..p) = p
    BY <1>3, FS_Interval
  <2>2. S \in SUBSET (1..p) /\ Pressure(p) = Cardinality(S)
    BY DEF Pressure
  <2> HIDE DEF S
  <2> QED BY <2>1, <2>2, FS_Subset
<1>10. Rank(ranges[p].slot) \in 1..Pressure(p)
  BY <1>2 DEF AllocInv, PoolInv, NoNeedlessSpill
<1>11. Rank(ranges[p].slot) = Physical(n)
  BY <1>1, <1>2 DEF Rank, Physical, NoSpill
<1>12. Physical(n) \in Nat
  BY <1>1, DoneTypes
<1>13. Pressure(p) \in Int /\ Physical(n) <= Pressure(p)
  <2>1. Pressure(p) \in Nat
    <3> DEFINE S == {q \in 1..p : ranges[q].end >= ranges[p].start}
    <3>1. IsFiniteSet(1..p) /\ S \in SUBSET (1..p)
      BY <1>3, FS_Interval
    <3>2. Pressure(p) = Cardinality(S)
      BY DEF Pressure
    <3> HIDE DEF S
    <3>3. IsFiniteSet(S)
      BY <3>1, FS_Subset
    <3> QED BY <3>2, <3>3, FS_CardinalityType
  <2> HIDE DEF n
  <2> QED BY <2>1, <1>10, <1>11
<1> HIDE DEF n
<1>14. Physical(n) <= d - f + 1
  BY <1>1, <1>3, <1>8, <1>9, <1>12, <1>13
<1> QED BY <1>14 DEF n

-----------------------------------------------------------------------------
(* The inductive invariant                                                   *)

(* The node's value may still be read: its lifetime reaches the quadruple    *)
(* about to run, or only arguments came after it, which are read by their    *)
(* call.                                                                     *)
Readable(n) == \A p \in lifetimes[n].end..(pos - 1) : quads[p].op = "ARG"

(* Every value made so far that may still be read is in its register. *)
ValuesHeld ==
    \A d \in Definitions : d < pos =>
        /\ env[quads[d].dst] # Undefined
        /\ Readable(quads[d].dst) => regs[Physical(quads[d].dst)] = env[quads[d].dst]

(* In the run of parameters that starts at f, the ones still to come are     *)
(* where the caller left them.                                               *)
ParamsHeld ==
    \A f \in 1..(pos - 1) :
        /\ \A p \in f..(pos - 1) : quads[p].op = "PARAM"
        /\ \A p \in 1..(f - 1) : quads[p].op = "SCOPE"
        => \A c \in (pos - f + 1)..ParamCount : regs[SavedCaller[c]] = f - 1 + c

XInv ==
    /\ XTypeOK
    /\ emission # "no" => /\ pc = "done" /\ pos >= 1
                          /\ \A p \in 1..(pos - 1) : Encodable(quads[p])
    /\ emission # "no" /\ Straight => ValuesHeld /\ ParamsHeld

(* An operand of the quadruple about to run, or of an argument of the call   *)
(* about to run, was made before and is in its register.                     *)
LEMMA OperandHeld ==
    ASSUME AllocInv, pc = "done", Straight, ValuesHeld,
           pos \in 1..quadCount, NEW p \in 1..pos,
           \A p2 \in p..(pos - 1) : quads[p2].op = "ARG",
           NEW n \in {quads[p].src1, quads[p].src2} \ {NoItem}
    PROVE  /\ env[n] # Undefined /\ regs[Physical(n)] = env[n]
           /\ \E d \in Definitions :
                 d < p /\ quads[d].dst = n /\ p <= lifetimes[n].end
<1>1. p \in DOMAIN quads /\ p \in Nat /\ pos \in Nat
  BY DoneTypes
<1>2. PICK d \in 1..(p - 1) : quads[d].dst = n
  BY <1>1 DEF Straight, WrittenBeforeRead
<1>3. d \in DOMAIN quads
  BY <1>1, <1>2, DoneTypes
<1>4. d \in Definitions /\ d < p
  BY <1>1, <1>2, <1>3 DEF Definitions
<1>5. p \in Uses(d)
  <2>1. p \in (d + 1)..Len(quads)
    BY <1>1, <1>2, DoneTypes
  <2>2. Reads(p, quads[d].dst)
    BY <1>2 DEF Reads
  <2>3. ASSUME NEW p2 \in (d + 1)..p PROVE quads[p2].dst # quads[d].dst
    <3>1. p2 \in DOMAIN quads /\ p2 # d
      BY <1>2, <2>1, DoneTypes
    <3>2. quads[p2].dst = quads[d].dst => p2 \in Definitions
      BY <1>2, <3>1 DEF Definitions
    <3> QED BY <1>4, <3>1, <3>2 DEF Straight, WrittenOnce
  <2> QED BY <2>1, <2>2, <2>3 DEF Uses
<1>6. n \in Nodes /\ p <= lifetimes[n].end
  BY <1>2, <1>4, <1>5, OwnLifetime DEF Straight
<1>7. Readable(n)
  <2>1. lifetimes[n].end \in Nat
    BY <1>6, DoneTypes
  <2>2. \A p2 \in lifetimes[n].end..(pos - 1) : p2 \in p..(pos - 1)
    BY <1>1, <1>6, <2>1
  <2> QED BY <2>2 DEF Readable
<1>8. d < pos
  BY <1>1, <1>2
<1> QED BY <1>2, <1>4, <1>6, <1>7, <1>8 DEF ValuesHeld

(* A value that may be read after a quadruple other than an argument is      *)
(* alive there, so that its register is not the one of the destination.      *)
LEMMA ReadableAfter ==
    ASSUME AllocInv, pc = "done", Straight, pos \in 1..quadCount,
           pos \in Definitions, quads[pos].op # "ARG",
           NEW d \in Definitions, d < pos,
           \A p \in lifetimes[quads[d].dst].end..pos : quads[p].op = "ARG"
    PROVE  /\ quads[d].dst \in Nodes
           /\ lifetimes[quads[d].dst].start = d
           /\ pos < lifetimes[quads[d].dst].end
           /\ Physical(quads[d].dst) # Physical(quads[pos].dst)
<1> DEFINE n == quads[d].dst
<1>1. n \in Nodes /\ lifetimes[n].start = d /\ lifetimes[n].end \in Nat
  BY OwnLifetime, DoneTypes DEF Straight
<1>2. pos \in Nat /\ d \in Nat /\ pos <= lifetimes[quads[pos].dst].end
  <2>1. pos \in Nat /\ d \in Nat
    BY DoneTypes DEF Definitions
  <2>2. pos <= lifetimes[quads[pos].dst].end
    BY OwnLifetime DEF Straight
  <2> QED BY <2>1, <2>2
<1>3. pos < lifetimes[n].end
  <2> SUFFICES ASSUME lifetimes[n].end <= pos PROVE FALSE
    BY <1>1, <1>2
  <2>1. pos \in lifetimes[n].end..pos
    BY <1>1, <1>2
  <2> QED BY <2>1
<1>4. lifetimes[quads[pos].dst].end \in Nat
  BY OwnLifetime, DoneTypes DEF Straight
<1>5. d <= lifetimes[quads[pos].dst].end /\ pos <= lifetimes[n].end
  BY <1>1, <1>2, <1>3, <1>4
<1>6. d # pos /\ WrittenOnce /\ NoSpill
  BY <1>2 DEF Straight
<1>7. Physical(n) # Physical(quads[pos].dst)
  BY <1>5, <1>6, RegistersDiffer
<1> QED BY <1>1, <1>3, <1>7

(* A quadruple with a destination keeps the invariant if it leaves its value *)
(* in the register of the destination and does not touch the register of     *)
(* another value that is alive there.                                        *)
LEMMA ValueMade ==
    ASSUME AllocInv, pc = "done", Straight, ValuesHeld, pos \in 1..quadCount,
           pos \in Definitions, quads[pos].op # "ARG",
           UNCHANGED vars, pos' = pos + 1,
           env \in [Nodes -> 0..quadCount],
           NEW v, v # Undefined,
           env' = [env EXCEPT ![quads[pos].dst] = v],
           regs'[Physical(quads[pos].dst)] = v,
           \A d \in Definitions :
              /\ d < pos
              /\ quads[d].dst \in Nodes
              /\ lifetimes[quads[d].dst].start = d
              /\ pos < lifetimes[quads[d].dst].end
              /\ Physical(quads[d].dst) # Physical(quads[pos].dst)
              => regs'[Physical(quads[d].dst)] = regs[Physical(quads[d].dst)]
    PROVE  ValuesHeld'
<1>1. /\ Definitions' = Definitions
      /\ quads' = quads /\ lifetimes' = lifetimes
  BY DEF vars, Definitions
<1>2. pos \in Nat /\ quads[pos].dst \in Nodes
  BY OwnLifetime, DoneTypes DEF Straight
<1> SUFFICES ASSUME NEW d \in Definitions, d < pos + 1
             PROVE  /\ env'[quads[d].dst] # Undefined
                    /\ (\A p \in lifetimes[quads[d].dst].end..pos : quads[p].op = "ARG")
                       => regs'[Physical(quads[d].dst)] = env'[quads[d].dst]
  <2>1. \A n : Physical(n)' = lifetimes[n].slot.slot /\ Physical(n) = lifetimes[n].slot.slot
    BY <1>1 DEF Physical
  <2>2. pos' - 1 = pos
    BY <1>2
  <2> QED BY <1>1, <2>1, <2>2 DEF ValuesHeld, Readable, Physical
<1>3. CASE d = pos
  <2>1. env'[quads[pos].dst] = v
    BY <1>2
  <2> QED BY <1>3, <2>1
<1>4. CASE d # pos
  <2>1. d \in Nat /\ d < pos /\ quads[d].dst \in Nodes
    BY <1>2, <1>4, OwnLifetime, DoneTypes DEF Straight
  <2>2. quads[d].dst # quads[pos].dst
    BY <1>4 DEF Straight, WrittenOnce
  <2>3. env'[quads[d].dst] = env[quads[d].dst]
    BY <1>2, <2>1, <2>2
  <2>4. env[quads[d].dst] # Undefined
    BY <2>1 DEF ValuesHeld
  <2>5. ASSUME \A p \in lifetimes[quads[d].dst].end..pos : quads[p].op = "ARG"
        PROVE  regs'[Physical(quads[d].dst)] = env[quads[d].dst]
    <3>1. /\ quads[d].dst \in Nodes
          /\ lifetimes[quads[d].dst].start = d
          /\ pos < lifetimes[quads[d].dst].end
          /\ Physical(quads[d].dst) # Physical(quads[pos].dst)
      BY <2>1, <2>5, ReadableAfter
    <3>2. Readable(quads[d].dst)
      <4>1. lifetimes[quads[d].dst].end \in Nat
        BY <2>1, DoneTypes
      <4> QED BY <1>2, <3>1, <4>1 DEF Readable
    <3>3. regs[Physical(quads[d].dst)] = env[quads[d].dst]
      BY <2>1, <3>2 DEF ValuesHeld
    <3>4. regs'[Physical(quads[d].dst)] = regs[Physical(quads[d].dst)]
      BY <2>1, <3>1
    <3> QED BY <3>3, <3>4
  <2> QED BY <2>3, <2>4, <2>5
<1> QED BY <1>3, <1>4

-----------------------------------------------------------------------------
(* Steps                                                                     *)

(* What a quadruple with a destination leaves of the parameters to come.     *)
LEMMA NoParameters ==
    ASSUME UNCHANGED vars, pos \in Nat, pos >= 1, pos' = pos + 1, quads[pos].op # "PARAM"
    PROVE  ParamsHeld'
<1> SUFFICES ASSUME NEW f \in 1..pos, \A p \in f..pos : quads[p].op = "PARAM"
             PROVE  FALSE
  <2>1. quads' = quads /\ pos' - 1 = pos
    BY DEF vars
  <2> QED BY <2>1 DEF ParamsHeld
<1> QED OBVIOUS

LEMMA Running ==
    ASSUME AllocInv, XInv, NEW op, Emit(op)
    PROVE  /\ pc = "done" /\ emission = "running" /\ emission' = "running"
           /\ pos \in 1..quadCount /\ pos \in Nat /\ pos' = pos + 1
           /\ quads[pos].op = op
           /\ Encodable(quads[pos]) /\ InTables(quads[pos])
           /\ \A p \in 1..pos : Encodable(quads[p])
           /\ UNCHANGED vars
           /\ regs \in [Machine -> Int] /\ env \in [Nodes -> 0..quadCount]
           /\ Straight <=> Straight'
           /\ Straight => ValuesHeld /\ ParamsHeld
<1>1. /\ pc = "done" /\ emission = "running" /\ emission' = "running"
      /\ pos' = pos + 1
      /\ quads[pos].op = op
      /\ Encodable(quads[pos]) /\ InTables(quads[pos])
      /\ UNCHANGED vars
      /\ regs \in [Machine -> Int] /\ env \in [Nodes -> 0..quadCount]
      /\ Straight => ValuesHeld /\ ParamsHeld
  BY DEF Emit, Quadruple, XInv, XTypeOK
<1>2. pos \in 1..quadCount /\ pos \in Nat
  BY <1>1, DoneTypes DEF Emit, XInv, XTypeOK
<1>3. \A p \in 1..(pos - 1) : Encodable(quads[p])
  BY <1>1 DEF XInv
<1>4. \A p \in 1..pos : Encodable(quads[p])
  BY <1>1, <1>2, <1>3
<1>5. Straight <=> Straight'
  BY <1>1 DEF vars, Straight, WrittenOnce, WrittenBeforeRead, OneActivation, NoSpill, Definitions
<1> QED BY <1>1, <1>2, <1>4, <1>5

(* The part of the invariant that is the same for every quadruple.           *)
LEMMA StepKept ==
    ASSUME AllocInv, XInv, NEW op, Emit(op),
           regs' \in [Machine -> Int], env' \in [Nodes -> 0..quadCount],
           Straight => ValuesHeld' /\ ParamsHeld'
    PROVE  XInv'
<1>1. /\ pc = "done" /\ emission' = "running"
      /\ pos \in 1..quadCount /\ pos \in Nat /\ pos' = pos + 1
      /\ \A p \in 1..pos : Encodable(quads[p])
      /\ UNCHANGED vars
      /\ Straight <=> Straight'
  BY Running
<1>2. quadCount \in Nat /\ pos' - 1 = pos /\ pos' >= 1 /\ pos' \in 0..(quadCount + 1)
  BY <1>1, DoneTypes
<1>3. ASSUME NEW p \in 1..pos PROVE Encodable(quads[p])'
  <2>1. Encodable(quads[p])
    BY <1>1
  <2> QED BY <1>1, <2>1 DEF vars, Encodable, Nodes2, Physical
<1>4. XTypeOK'
  BY <1>1, <1>2 DEF XTypeOK, vars
<1> QED BY <1>1, <1>2, <1>3, <1>4 DEF XInv, vars

LEMMA OperandInt ==
    ASSUME NEW q, Encodable(q), NEW state \in [Machine -> Int], NEW p \in Int
    PROVE  /\ Operand(state, q.src1, p) \in Int
           /\ Operand(state, q.src2, p) \in Int
BY DEF Operand, Encodable, Nodes2

(* Where the operands of the encoded instructions are. *)
LEMMA Destination ==
    ASSUME AllocInv, pc = "done", pos \in 1..quadCount, Encodable(quads[pos]),
           quads[pos].op \in {"MOVE", "ALU", "CALL", "PARAM"}
    PROVE  /\ pos \in Definitions
           /\ quads[pos].dst \in Nodes
           /\ Physical(quads[pos].dst) \in Machine
<1>1. pos \in DOMAIN quads /\ quads[pos].dst \in Item
  BY DoneTypes
<1>2. quads[pos].dst # NoItem
  BY <1>1 DEF Encodable, AllocInv, ProgInv
<1>3. Physical(quads[pos].dst) \in Machine
  BY <1>2 DEF Encodable, Nodes2
<1> QED BY <1>1, <1>2, <1>3 DEF Definitions, Item

LEMMA MoveKept == ASSUME AllocInv, XInv, EmitMove PROVE XInv'
<1> DEFINE dst == quads[pos].dst
           src == quads[pos].src1
           v == Operand(regs, src, pos)
           m == Meaning(src, pos)
<1>1. /\ Emit("MOVE")
      /\ regs' = [regs EXCEPT ![Physical(dst)] = v]
      /\ env' = [env EXCEPT ![dst] = m]
  BY DEF EmitMove, Quadruple
<1>2. /\ pc = "done" /\ pos \in 1..quadCount /\ pos \in Nat /\ pos' = pos + 1
      /\ quads[pos].op = "MOVE" /\ Encodable(quads[pos])
      /\ UNCHANGED vars
      /\ regs \in [Machine -> Int] /\ env \in [Nodes -> 0..quadCount]
      /\ Straight => ValuesHeld
  BY <1>1, Running
<1>3. pos \in Definitions /\ dst \in Nodes /\ Physical(dst) \in Machine
  BY <1>2, Destination
<1>4. v \in Int
  BY <1>2, OperandInt
<1>5. m \in 0..quadCount
  <2>1. src \in Item
    BY <1>2, DoneTypes
  <2> QED BY <1>2, <2>1 DEF Meaning, Item
<1>6. ASSUME Straight PROVE m = v /\ m # Undefined
  <2>1. src # NoItem => env[src] # Undefined /\ regs[Physical(src)] = env[src]
    <3>1. pos \in 1..pos /\ \A p2 \in pos..(pos - 1) : FALSE
      BY <1>2
    <3> QED BY <1>2, <1>6, <3>1, OperandHeld
  <2> QED BY <1>2, <2>1 DEF Meaning, Operand, Undefined
<1> HIDE DEF dst, v, m
<1>7. ASSUME Straight PROVE ValuesHeld'
  <2>1. regs'[Physical(dst)] = m
    BY <1>1, <1>2, <1>3, <1>6, <1>7
  <2>2. ASSUME NEW d \in Definitions, d < pos, Physical(quads[d].dst) # Physical(dst)
        PROVE  regs'[Physical(quads[d].dst)] = regs[Physical(quads[d].dst)]
    BY <1>1, <1>2, <2>2
  <2> QED BY <1>1, <1>2, <1>3, <1>6, <1>7, <2>1, <2>2, ValueMade DEF dst
<1>8. ParamsHeld'
  BY <1>2, NoParameters
<1>9. regs' \in [Machine -> Int] /\ env' \in [Nodes -> 0..quadCount]
  BY <1>1, <1>2, <1>3, <1>4, <1>5
<1> QED BY <1>1, <1>7, <1>8, <1>9, StepKept

LEMMA AluKept == ASSUME AllocInv, XInv, EmitAlu PROVE XInv'
<1> DEFINE q == quads[pos]
           dst == quads[pos].dst
           moved == [regs EXCEPT ![Physical(dst)] = Operand(regs, q.src1, pos)]
           right == /\ moved[Physical(dst)] = Meaning(q.src1, pos)
                    /\ Operand(moved, q.src2, pos) = Meaning(q.src2, pos)
           v == IF right THEN pos ELSE Junk
<1>1. /\ Emit("ALU")
      /\ regs' = [moved EXCEPT ![Physical(dst)] = v]
      /\ env' = [env EXCEPT ![dst] = pos]
  BY DEF EmitAlu, Quadruple
<1>2. /\ pc = "done" /\ pos \in 1..quadCount /\ pos \in Nat /\ pos' = pos + 1
      /\ quads[pos].op = "ALU" /\ Encodable(quads[pos])
      /\ UNCHANGED vars
      /\ regs \in [Machine -> Int] /\ env \in [Nodes -> 0..quadCount]
      /\ Straight => ValuesHeld
  BY <1>1, Running
<1>3. pos \in Definitions /\ dst \in Nodes /\ Physical(dst) \in Machine
  BY <1>2, Destination
<1>4. moved \in [Machine -> Int]
  <2>1. Operand(regs, q.src1, pos) \in Int
    BY <1>2, OperandInt
  <2> HIDE DEF dst
  <2> QED BY <1>2, <2>1
<1>5. v \in Int /\ pos \in 0..quadCount /\ pos # Undefined
  BY <1>2, DoneTypes DEF Junk, Undefined
<1>6. ASSUME Straight PROVE right
  <2>1. \A n \in {q.src1, q.src2} \ {NoItem} :
           /\ regs[Physical(n)] = env[n]
           /\ \E d \in Definitions : d < pos /\ quads[d].dst = n /\ pos <= lifetimes[n].end
    <3>1. pos \in 1..pos /\ \A p2 \in pos..(pos - 1) : FALSE
      BY <1>2
    <3> QED BY <1>2, <1>6, <3>1, OperandHeld
  <2>2. moved[Physical(dst)] = Meaning(q.src1, pos)
    <3>1. moved[Physical(dst)] = Operand(regs, q.src1, pos)
      <4> HIDE DEF dst, q
      <4> QED BY <1>2, <1>3
    <3>2. Operand(regs, q.src1, pos) = Meaning(q.src1, pos)
      BY <2>1 DEF Operand, Meaning
    <3> QED BY <3>1, <3>2
  <2>3. q.src2 # NoItem => moved[Physical(q.src2)] = regs[Physical(q.src2)]
    <3> SUFFICES ASSUME q.src2 # NoItem PROVE moved[Physical(q.src2)] = regs[Physical(q.src2)]
      OBVIOUS
    <3>1. PICK d \in Definitions : d < pos /\ quads[d].dst = q.src2 /\ pos <= lifetimes[q.src2].end
      BY <2>1
    <3>2. d <= lifetimes[dst].end
      <4>1. pos <= lifetimes[dst].end /\ lifetimes[dst].end \in Nat /\ d \in Nat
        BY <1>3, <1>6, OwnLifetime, DoneTypes, <1>2 DEF Straight, Definitions
      <4> HIDE DEF dst
      <4> QED BY <1>2, <3>1, <4>1
    <3>3. d # pos /\ WrittenOnce /\ NoSpill
      BY <1>2, <1>6, <3>1 DEF Straight
    <3>4. Physical(quads[d].dst) # Physical(dst)
      BY <1>2, <1>3, <3>1, <3>2, <3>3, RegistersDiffer
    <3>5. Physical(q.src2) \in Machine
      BY <1>2 DEF Encodable, Nodes2
    <3> HIDE DEF q, dst
    <3> QED BY <1>2, <3>1, <3>4, <3>5
  <2>4. Operand(moved, q.src2, pos) = Meaning(q.src2, pos)
    <3> HIDE DEF moved
    <3> QED BY <2>1, <2>3 DEF Operand, Meaning
  <2> QED BY <2>2, <2>4
<1> HIDE DEF q, dst, moved, right
<1>7. ASSUME Straight PROVE ValuesHeld'
  <2>1. v = pos
    BY <1>6, <1>7
  <2>2. regs'[Physical(dst)] = pos
    <3> HIDE DEF v
    <3> QED BY <1>1, <1>3, <1>4, <2>1
  <2>3. ASSUME NEW d \in Definitions, d < pos, Physical(quads[d].dst) # Physical(dst)
        PROVE  regs'[Physical(quads[d].dst)] = regs[Physical(quads[d].dst)]
    <3>1. moved[Physical(quads[d].dst)] = regs[Physical(quads[d].dst)]
      BY <1>2, <2>3 DEF moved
    <3>2. regs'[Physical(quads[d].dst)] = moved[Physical(quads[d].dst)]
      <4> HIDE DEF v
      <4> QED BY <1>1, <1>4, <2>3
    <3> QED BY <3>1, <3>2
  <2> QED BY <1>1, <1>2, <1>3, <1>5, <1>7, <2>2, <2>3, ValueMade DEF dst
<1>8. ParamsHeld'
  BY <1>2, NoParameters
<1>9. regs' \in [Machine -> Int] /\ env' \in [Nodes -> 0..quadCount]
  <2> HIDE DEF v
  <2> QED BY <1>1, <1>2, <1>3, <1>4, <1>5
<1> QED BY <1>1, <1>7, <1>8, <1>9, StepKept

LEMMA NothingKept == ASSUME AllocInv, XInv, EmitNothing PROVE XInv'
<1>1. PICK op \in {"ARG", "SCOPE"} : Emit(op)
  BY DEF EmitNothing
<1>2. /\ pc = "done" /\ pos \in 1..quadCount /\ pos \in Nat /\ pos' = pos + 1
      /\ quads[pos].op = op
      /\ UNCHANGED vars
      /\ regs \in [Machine -> Int] /\ env \in [Nodes -> 0..quadCount]
      /\ Straight => ValuesHeld
  BY <1>1, Running
<1>3. UNCHANGED <<regs, env>>
  BY DEF EmitNothing
<1>4. pos \notin Definitions
  BY <1>1, <1>2 DEF AllocInv, ProgInv, Definitions
<1>5. ASSUME Straight PROVE ValuesHeld'
  <2>1. /\ Definitions' = Definitions
        /\ quads' = quads /\ lifetimes' = lifetimes
    BY <1>2 DEF vars, Definitions
  <2> SUFFICES ASSUME NEW d \in Definitions, d < pos + 1
               PROVE  /\ env[quads[d].dst] # Undefined
                      /\ (\A p \in lifetimes[quads[d].dst].end..pos : quads[p].op = "ARG")
                         => regs[Physical(quads[d].dst)] = env[quads[d].dst]
    <3>1. \A n : Physical(n)' = lifetimes[n].slot.slot /\ Physical(n) = lifetimes[n].slot.slot
      BY <2>1 DEF Physical
    <3>2. pos' - 1 = pos
      BY <1>2
    <3> QED BY <1>2, <1>3, <2>1, <3>1, <3>2 DEF ValuesHeld, Readable, Physical
  <2>2. d \in Nat /\ d < pos
    BY <1>2, <1>4, DoneTypes DEF Definitions
  <2>3. env[quads[d].dst] # Undefined
    BY <1>2, <1>5, <2>2 DEF ValuesHeld
  <2>4. ASSUME \A p \in lifetimes[quads[d].dst].end..pos : quads[p].op = "ARG"
        PROVE  regs[Physical(quads[d].dst)] = env[quads[d].dst]
    <3>1. lifetimes[quads[d].dst].end \in Nat
      BY <1>2, <1>5, OwnLifetime, DoneTypes DEF Straight
    <3>2. Readable(quads[d].dst)
      BY <1>2, <2>4, <3>1 DEF Readable
    <3> QED BY <1>2, <1>5, <2>2, <3>2 DEF ValuesHeld
  <2> QED BY <2>3, <2>4
<1>6. ParamsHeld'
  BY <1>1, <1>2, NoParameters
<1>7. regs' \in [Machine -> Int] /\ env' \in [Nodes -> 0..quadCount]
  BY <1>2, <1>3
<1> QED BY <1>1, <1>5, <1>6, <1>7, StepKept

LEMMA ParamKept == ASSUME AllocInv, XInv, EmitParam PROVE XInv'
<1> DEFINE dst == quads[pos].dst
           carries(r) == \E c \in 1..ParamCount : SavedCaller[c] = r
           arrived == [r \in Machine |->
                          IF carries(r)
                          THEN pos - 1 + CHOOSE c \in 1..ParamCount : SavedCaller[c] = r
                          ELSE regs[r]]
           entered == IF ParamIndex > 1 THEN regs ELSE arrived
           v == entered[SavedCaller[ParamIndex]]
           f == pos - ParamIndex + 1
<1>1. /\ Emit("PARAM")
      /\ regs' = [entered EXCEPT ![Physical(dst)] = v]
      /\ env' = [env EXCEPT ![dst] = pos]
  BY DEF EmitParam, Quadruple
<1>2. /\ pc = "done" /\ pos \in 1..quadCount /\ pos \in Nat /\ pos' = pos + 1
      /\ quads[pos].op = "PARAM" /\ Encodable(quads[pos]) /\ InTables(quads[pos])
      /\ UNCHANGED vars
      /\ regs \in [Machine -> Int] /\ env \in [Nodes -> 0..quadCount]
      /\ Straight => ValuesHeld /\ ParamsHeld
  BY <1>1, Running
<1>3. pos \in Definitions /\ dst \in Nodes /\ Physical(dst) \in Machine
  BY <1>2, Destination
<1>4. /\ ParamIndex \in 1..pos
      /\ \A p \in f..pos : quads[p].op = "PARAM"
      /\ pos - ParamIndex >= 1 => quads[pos - ParamIndex].op # "PARAM"
  BY <1>2, ParameterRun
<1>5. /\ ParamCount \in Nat /\ ParamIndex \in 1..ParamCount
      /\ \A c \in 1..ParamCount : SavedCaller[c] \in Machine /\ SavedCaller[c] >= c
      /\ \A c, e \in 1..ParamCount : SavedCaller[c] = SavedCaller[e] => c = e
  <2>1. /\ Len(SavedCaller) \in Nat /\ ParamCount \in Nat
        /\ 1..ParamCount \subseteq 1..Len(SavedCaller)
    BY X64Assumption DEF X64Assumption
  <2>2. \A c \in 1..Len(SavedCaller) : SavedCaller[c] \in Machine
    BY SavedCallers
  <2>3. ParamIndex \in 1..ParamCount
    BY <1>2, <1>4, <2>1 DEF InTables
  <2> QED BY <2>1, <2>2, <2>3, X64Assumption DEF X64Assumption
<1>6. entered \in [Machine -> Int]
  <2>1. ASSUME NEW r \in Machine, carries(r)
        PROVE  (CHOOSE c \in 1..ParamCount : SavedCaller[c] = r) \in 1..ParamCount
    BY <2>1
  <2>2. ASSUME NEW r \in Machine PROVE arrived[r] \in Int
    BY <1>2, <1>5, <2>1
  <2> HIDE DEF carries
  <2>3. arrived \in [Machine -> Int]
    <3>1. arrived = [r \in Machine |-> arrived[r]]
      OBVIOUS
    <3> HIDE DEF arrived
    <3> QED BY <2>2, <3>1
  <2> QED BY <1>2, <2>3
<1>7. v \in Int
  <2> HIDE DEF entered
  <2> QED BY <1>5, <1>6
<1>8. ASSUME NEW c \in 1..ParamCount PROVE arrived[SavedCaller[c]] = pos - 1 + c
  <2>1. carries(SavedCaller[c]) /\ SavedCaller[c] \in Machine
    BY <1>5
  <2>2. (CHOOSE e \in 1..ParamCount : SavedCaller[e] = SavedCaller[c]) = c
    BY <1>5
  <2> QED BY <2>1, <2>2
<1> HIDE DEF dst, carries, arrived
<1>9. f \in 1..pos /\ f - 1 = pos - ParamIndex
  BY <1>2, <1>4
<1>10. ASSUME Straight PROVE \A p \in 1..(f - 1) : quads[p].op = "SCOPE"
  <2>1. pos \in DOMAIN quads
    BY <1>2, DoneTypes
  <2>2. \A p2 \in 1..(pos - 1) :
           quads[p2].op = "PARAM" \/ \A p3 \in 1..p2 : quads[p3].op = "SCOPE"
    BY <1>2, <1>10, <2>1 DEF Straight, OneActivation
  <2>3. CASE f - 1 >= 1
    <3>1. f - 1 \in 1..(pos - 1) /\ quads[f - 1].op # "PARAM"
      BY <1>2, <1>4, <1>9, <2>3
    <3> HIDE DEF f
    <3> QED BY <2>2, <3>1
  <2>4. CASE ~(f - 1 >= 1)
    BY <1>9, <2>4
  <2> QED BY <2>3, <2>4
<1>11. ASSUME Straight, NEW c \in ParamIndex..ParamCount
       PROVE  entered[SavedCaller[c]] = f - 1 + c
  <2>1. c \in 1..ParamCount
    BY <1>5
  <2>2. CASE ParamIndex = 1
    <3>1. f = pos
      BY <1>2, <2>2
    <3>2. entered = arrived
      BY <2>2
    <3> QED BY <1>8, <2>1, <3>1, <3>2
  <2>3. CASE ParamIndex > 1
    <3>1. f \in 1..(pos - 1) /\ \A p \in f..(pos - 1) : quads[p].op = "PARAM"
      BY <1>2, <1>4, <1>9, <2>3
    <3>2. c \in (pos - f + 1)..ParamCount
      BY <1>2, <1>5, <1>9
    <3>3. \A p \in 1..(f - 1) : quads[p].op = "SCOPE"
      BY <1>10, <1>11
    <3>4. entered = regs
      BY <2>3
    <3> HIDE DEF f
    <3> QED BY <1>2, <1>11, <3>1, <3>2, <3>3, <3>4 DEF ParamsHeld
  <2> QED BY <1>5, <2>2, <2>3
<1>12. ASSUME Straight PROVE v = pos
  <2>1. ParamIndex \in ParamIndex..ParamCount
    BY <1>5
  <2>2. v = f - 1 + ParamIndex
    BY <1>11, <1>12, <2>1
  <2> QED BY <1>2, <1>4, <2>2
<1>13. ASSUME Straight PROVE ValuesHeld'
  <2>1. regs'[Physical(dst)] = pos
    <3> HIDE DEF entered, v
    <3> QED BY <1>1, <1>3, <1>6, <1>12, <1>13
  <2>2. ASSUME NEW d \in Definitions, d < pos, Physical(quads[d].dst) # Physical(dst)
        PROVE  regs'[Physical(quads[d].dst)] = regs[Physical(quads[d].dst)]
    <3>1. CASE ParamIndex > 1
      <4>1. entered = regs
        BY <3>1
      <4> HIDE DEF entered, v
      <4> QED BY <1>1, <1>2, <2>2, <4>1
    <3>2. CASE ~(ParamIndex > 1)
      <4>1. f - 1 = pos - 1
        BY <1>2, <1>5, <3>2
      <4>2. d \in 1..(f - 1)
        BY <1>2, <2>2, <4>1, DoneTypes DEF Definitions
      <4>3. quads[d].op = "SCOPE"
        BY <1>10, <1>13, <4>2
      <4> QED BY <4>3 DEF AllocInv, ProgInv, Definitions
    <3> QED BY <3>1, <3>2
  <2>3. pos # Undefined
    BY <1>2 DEF Undefined
  <2> QED BY <1>1, <1>2, <1>3, <1>13, <2>1, <2>2, <2>3, ValueMade DEF dst
<1>14. ASSUME Straight PROVE ParamsHeld'
  <2> SUFFICES ASSUME NEW g \in 1..pos,
                      \A p \in g..pos : quads[p].op = "PARAM",
                      \A p \in 1..(g - 1) : quads[p].op = "SCOPE",
                      NEW c \in (pos + 1 - g + 1)..ParamCount
               PROVE  regs'[SavedCaller[c]] = g - 1 + c
    <3>1. quads' = quads /\ pos' - 1 = pos
      BY <1>2 DEF vars
    <3> QED BY <1>2, <3>1 DEF ParamsHeld
  <2>1. g = f
    <3>1. CASE g < f
      <4>1. f - 1 \in g..pos /\ pos - ParamIndex >= 1
        BY <1>2, <1>9, <3>1
      <4> QED BY <1>4, <1>9, <4>1
    <3>2. CASE g > f
      <4>1. f \in f..pos /\ f \in 1..(g - 1)
        BY <1>2, <1>9, <3>2
      <4> HIDE DEF f
      <4> QED BY <1>4, <4>1
    <3> QED BY <1>9, <3>1, <3>2
  <2>2. c \in ParamIndex..ParamCount /\ c > ParamIndex /\ c \in 1..ParamCount
    BY <1>2, <1>4, <1>5, <2>1
  <2>3. entered[SavedCaller[c]] = f - 1 + c
    BY <1>11, <1>14, <2>2
  <2>4. Physical(dst) <= ParamIndex
    <3>1. f \in Nat /\ f >= 1 /\ f <= pos /\ pos - f + 1 = ParamIndex
      BY <1>2, <1>4, <1>9
    <3>2. \A p \in 1..(f - 1) : quads[p].op = "SCOPE"
      BY <1>10, <1>14
    <3> HIDE DEF f
    <3>3. Physical(quads[pos].dst) <= pos - f + 1
      BY <1>2, <1>3, <1>14, <3>1, <3>2, LowRegister DEF Straight
    <3> QED BY <3>1, <3>3 DEF dst
  <2>5. SavedCaller[c] # Physical(dst) /\ SavedCaller[c] \in Machine
    <3>1. Physical(dst) \in Nat /\ SavedCaller[c] \in Nat
      BY <1>3, <1>5, <2>2, RegSlotsAssumption DEF Machine, RegSlotsAssumption
    <3> QED BY <1>5, <2>2, <2>4, <3>1
  <2>6. regs'[SavedCaller[c]] = entered[SavedCaller[c]]
    <3> HIDE DEF entered, v
    <3> QED BY <1>1, <1>6, <2>5
  <2> QED BY <2>1, <2>3, <2>6
<1>15. regs' \in [Machine -> Int] /\ env' \in [Nodes -> 0..quadCount]
  <2> HIDE DEF entered, v
  <2>1. pos \in 0..quadCount
    BY <1>2
  <2> QED BY <1>1, <1>2, <1>6, <1>7, <2>1
<1> QED BY <1>1, <1>13, <1>14, <1>15, StepKept

(* The loads of the call at pos. *)
LEMMA CallLoads ==
    ASSUME pos \in Nat, pos >= 1, regs \in [Machine -> Int],
           quads[pos].op = "CALL", InTables(quads[pos]),
           \A p \in 1..(pos - 1) : Encodable(quads[p])
    PROVE  /\ Arity \in 0..Len(SavedCaller) /\ Arity \in 0..(pos - 1)
           /\ \A c \in 1..Arity :
                 /\ Argument(c) \in (pos - Arity)..(pos - 1)
                 /\ Argument(c) \in 1..pos
                 /\ \A p2 \in Argument(c)..(pos - 1) : quads[p2].op = "ARG"
           /\ \A c \in 0..Arity :
                 /\ Loaded[c] \in [Machine -> Int]
                 /\ \A r \in Machine :
                       (\A x \in 1..c : SavedCaller[x] # r) => Loaded[c][r] = regs[r]
                 /\ \A x \in 1..c :
                       Loaded[c][SavedCaller[x]] =
                           Operand(Loaded[x - 1], quads[Argument(x)].src1, Argument(x))
<1>1. /\ Arity \in 0..(pos - 1)
      /\ \A p \in (pos - Arity)..(pos - 1) : quads[p].op = "ARG"
  BY ArgumentRun
<1>2. Arity \in 0..Len(SavedCaller)
  <2>1. Len(SavedCaller) \in Nat
    BY X64Assumption DEF X64Assumption
  <2> QED BY <1>1, <2>1 DEF InTables
<1>3. ASSUME NEW c \in 1..Arity
      PROVE  /\ Argument(c) \in (pos - Arity)..(pos - 1)
             /\ Argument(c) \in 1..pos
             /\ Argument(c) \in 1..(pos - 1)
             /\ \A p2 \in Argument(c)..(pos - 1) : quads[p2].op = "ARG"
  BY <1>1 DEF Argument
<1>4. ASSUME NEW c \in 1..Arity
      PROVE  /\ Argument(c) \in Nat
             /\ quads[Argument(c)].src1 # NoItem => Physical(quads[Argument(c)].src1) \in Machine
  <2>1. Argument(c) \in 1..(pos - 1) /\ Encodable(quads[Argument(c)])
    BY <1>3
  <2> QED BY <2>1 DEF Encodable, Nodes2
<1>5. \A c \in 0..Arity :
         /\ Loaded[c] \in [Machine -> Int]
         /\ \A r \in Machine :
               (\A x \in 1..c : SavedCaller[x] # r) => Loaded[c][r] = regs[r]
         /\ \A x \in 1..c :
               Loaded[c][SavedCaller[x]] =
                   Operand(Loaded[x - 1], quads[Argument(x)].src1, Argument(x))
  BY <1>2, <1>4, LoadedRegisters
<1> QED BY <1>1, <1>2, <1>3, <1>5

LEMMA CallKept == ASSUME AllocInv, XInv, EmitCall PROVE XInv'
<1> DEFINE dst == quads[pos].dst
           returned == [r \in Machine |-> IF r = Rax THEN pos
                                          ELSE IF r \in CallerSaved THEN Junk
                                          ELSE Loaded[Arity][r]]
           moved == [returned EXCEPT ![Physical(dst)] = pos]
<1>1. /\ Emit("CALL")
      /\ regs' = [r \in Machine |-> IF r \in Pushed THEN regs[r] ELSE moved[r]]
      /\ env' = [env EXCEPT ![dst] = pos]
  BY DEF EmitCall, Quadruple
<1>2. /\ pc = "done" /\ pos \in 1..quadCount /\ pos \in Nat /\ pos' = pos + 1 /\ pos >= 1
      /\ quads[pos].op = "CALL" /\ Encodable(quads[pos]) /\ InTables(quads[pos])
      /\ \A p \in 1..pos : Encodable(quads[p])
      /\ UNCHANGED vars
      /\ regs \in [Machine -> Int] /\ env \in [Nodes -> 0..quadCount]
      /\ Straight => ValuesHeld
  BY <1>1, Running
<1>3. pos \in Definitions /\ dst \in Nodes /\ Physical(dst) \in Machine
  BY <1>2, Destination
<1>4. /\ Arity \in 0..Len(SavedCaller)
      /\ Loaded[Arity] \in [Machine -> Int]
      /\ \A r \in Machine :
            (\A x \in 1..Arity : SavedCaller[x] # r) => Loaded[Arity][r] = regs[r]
  <2>1. \A p \in 1..(pos - 1) : Encodable(quads[p])
    BY <1>2
  <2>2. Arity \in 0..Arity
    BY <1>2, <2>1, CallLoads
  <2> QED BY <1>2, <2>1, <2>2, CallLoads
<1>5. Rax \in CallerSaved /\ Pushed \subseteq CallerSaved
  BY X64Assumption DEF X64Assumption, Rax, CallerSaved, Pushed
<1>6. \A r \in Machine : r \notin CallerSaved => Loaded[Arity][r] = regs[r]
  <2>1. \A x \in 1..Arity : SavedCaller[x] \in CallerSaved
    BY <1>4, X64Assumption DEF X64Assumption, CallerSaved
  <2> QED BY <1>4, <2>1
<1>7. moved \in [Machine -> Int] /\ \A r \in Machine : r # Physical(dst) => moved[r] = returned[r]
  <2>1. \A r \in Machine : returned[r] \in Int
    BY <1>2, <1>4 DEF Junk
  <2>2. returned \in [Machine -> Int]
    <3>1. returned = [r \in Machine |-> returned[r]]
      OBVIOUS
    <3> HIDE DEF returned
    <3> QED BY <2>1, <3>1
  <2> HIDE DEF returned, dst
  <2>3. moved \in [Machine -> Int]
    <3>1. pos \in Int
      BY <1>2
    <3> QED BY <2>2, <3>1
  <2>4. ASSUME NEW r \in Machine, r # Physical(dst) PROVE moved[r] = returned[r]
    BY <2>2, <2>4
  <2> QED BY <2>3, <2>4
<1>8. moved[Physical(dst)] = pos
  <2>1. returned = [r \in Machine |-> returned[r]]
    OBVIOUS
  <2> HIDE DEF returned, dst
  <2> QED BY <1>3, <2>1
<1>9. \A r \in Machine \ CallerSaved : r # Physical(dst) => moved[r] = regs[r]
  <2> SUFFICES ASSUME NEW r \in Machine \ CallerSaved, r # Physical(dst) PROVE moved[r] = regs[r]
    OBVIOUS
  <2>1. returned[r] = Loaded[Arity][r]
    BY <1>5
  <2> QED BY <1>6, <1>7, <2>1
<1> HIDE DEF dst, returned, moved
<1>10. ASSUME Straight, NEW n \in Nodes, lifetimes[n].start # 0, PassesThrough(n, pos)
       PROVE  Physical(n) # Physical(dst)
  <2> DEFINE d == lifetimes[n].start
  <2>1. d \in Definitions /\ quads[d].dst = n
    BY <1>2, <1>10 DEF AllocInv, RangesInv, NodeLifetimes, IsLiveRange
  <2>2. d < pos /\ pos < lifetimes[n].end /\ d \in Nat /\ lifetimes[n].end \in Nat
    BY <1>2, <1>10, DoneTypes DEF PassesThrough
  <2>3. pos <= lifetimes[dst].end /\ lifetimes[dst].end \in Nat
    BY <1>2, <1>3, <1>10, OwnLifetime, DoneTypes DEF Straight, dst
  <2>4. d # pos /\ d <= lifetimes[dst].end /\ pos <= lifetimes[n].end /\ WrittenOnce /\ NoSpill
    BY <1>2, <1>10, <2>2, <2>3 DEF Straight
  <2> HIDE DEF d
  <2> QED BY <1>2, <1>3, <2>1, <2>4, RegistersDiffer DEF dst
<1>11. ASSUME Straight PROVE ValuesHeld'
  <2>1. regs'[Physical(dst)] = pos
    <3>1. Physical(dst) \notin Pushed
      BY <1>10, <1>11 DEF Pushed
    <3> QED BY <1>1, <1>3, <1>8, <3>1
  <2>2. ASSUME NEW d \in Definitions, d < pos,
               quads[d].dst \in Nodes,
               lifetimes[quads[d].dst].start = d,
               pos < lifetimes[quads[d].dst].end,
               Physical(quads[d].dst) # Physical(dst)
        PROVE  regs'[Physical(quads[d].dst)] = regs[Physical(quads[d].dst)]
    <3> DEFINE n == quads[d].dst
    <3>1. d \in 1..(pos - 1) /\ d # 0
      BY <1>2, <2>2, DoneTypes DEF Definitions
    <3>2. Physical(n) \in Machine
      BY <1>2, <2>2, <3>1 DEF Encodable, Nodes2, Definitions
    <3>3. PassesThrough(n, pos)
      BY <2>2 DEF PassesThrough
    <3>4. CASE Physical(n) \in CallerSaved
      <4>1. Physical(n) \in Pushed
        BY <2>2, <3>1, <3>3, <3>4 DEF Pushed
      <4> QED BY <1>1, <3>2, <4>1
    <3>5. CASE Physical(n) \notin CallerSaved
      <4>1. Physical(n) \notin Pushed
        BY <1>5, <3>5
      <4> QED BY <1>1, <1>9, <2>2, <3>2, <3>5, <4>1
    <3> QED BY <3>4, <3>5
  <2>3. pos # Undefined
    BY <1>2 DEF Undefined
  <2> QED BY <1>1, <1>2, <1>3, <1>11, <2>1, <2>2, <2>3, ValueMade DEF dst
<1>12. ParamsHeld'
  BY <1>2, NoParameters
<1>13. regs' \in [Machine -> Int] /\ env' \in [Nodes -> 0..quadCount]
  <2>1. pos \in 0..quadCount
    BY <1>2
  <2> QED BY <1>1, <1>2, <1>7, <2>1
<1> QED BY <1>1, <1>11, <1>12, <1>13, StepKept

-----------------------------------------------------------------------------
(* The theorems                                                              *)

LEMMA XInitInv == XInit => XInv
BY RegSlotsAssumption
DEF XInit, Init, XInv, XTypeOK, Undefined, Machine, RegSlotsAssumption

(* A step of X64Code is a step of the allocator or leaves its variables.     *)
LEMMA XNextNext == [XNext]_allVars => [Next]_vars
BY DEF XNext, allVars, Allocate, Begin, EmitMove, EmitAlu, EmitParam, EmitNothing, EmitCall,
       Emit, Abort, ReadPastTable, Finished, Stopped

LEMMA XAllocates == XSpec => Spec
BY XNextNext, PTL DEF XSpec, Spec, XInit

LEMMA XNextInv == AllocInv /\ XInv /\ [XNext]_allVars => XInv'
<1> SUFFICES ASSUME AllocInv, XInv, [XNext]_allVars PROVE XInv'
    OBVIOUS
<1>1. CASE Allocate
  <2>1. /\ emission = "no" /\ emission' = "no" /\ pos' = pos /\ regs' = regs /\ env' = env
    BY <1>1 DEF Allocate, xVars
  <2>2. quadCount' = quadCount
    BY <1>1
    DEF Allocate, Next, vars, Create, CreateOutOfMemory, Destroy, ScanQuad, EndScan, Collect,
        EndCollect, InsertKey, EndSort, ActiveOutOfMemory, Expire, KeepActive, AllocRegister,
        AllocSpilled, AllocFails, Assign, Finish, Returned
  <2> QED BY <2>1, <2>2 DEF XInv, XTypeOK
<1>2. CASE Begin
  <2>1. /\ pc = "done" /\ emission' = "running" /\ pos' = 1 /\ UNCHANGED <<vars, regs, env>>
    BY <1>2 DEF Begin
  <2>2. quadCount \in Nat
    BY <2>1, DoneTypes
  <2>3. XTypeOK'
    BY <2>1, <2>2 DEF XInv, XTypeOK, vars
  <2>4. ValuesHeld'
    <3>1. \A d \in Definitions : ~(d < 1)
      BY <2>1, DoneTypes DEF Definitions
    <3>2. Definitions' = Definitions
      BY <2>1 DEF vars, Definitions
    <3> QED BY <2>1, <3>1, <3>2 DEF ValuesHeld
  <2>5. ParamsHeld'
    BY <2>1 DEF ParamsHeld
  <2> QED BY <2>1, <2>3, <2>4, <2>5 DEF XInv, vars
<1>3. CASE EmitMove
  BY <1>3, MoveKept
<1>4. CASE EmitAlu
  BY <1>4, AluKept
<1>5. CASE EmitParam
  BY <1>5, ParamKept
<1>6. CASE EmitNothing
  BY <1>6, NothingKept
<1>7. CASE EmitCall
  BY <1>7, CallKept
<1>8. CASE /\ UNCHANGED <<vars, pos, regs, env>>
           /\ emission # "no"
           /\ emission' \in {"running", "finished", "aborted", "undefined"}
  <2>1. XTypeOK'
    BY <1>8 DEF XInv, XTypeOK, vars
  <2>2. pc' = "done" /\ pos' >= 1 /\ (\A p \in 1..(pos - 1) : Encodable(quads[p]))'
    BY <1>8 DEF XInv, vars, Encodable, Nodes2, Physical
  <2>3. Straight' => ValuesHeld' /\ ParamsHeld'
    <3>1. Straight' <=> Straight
      BY <1>8
      DEF vars, Straight, WrittenOnce, WrittenBeforeRead, OneActivation, NoSpill, Definitions
    <3>2. /\ ValuesHeld' <=> ValuesHeld
          /\ ParamsHeld' <=> ParamsHeld
      BY <1>8 DEF vars, ValuesHeld, ParamsHeld, Readable, Physical, Definitions
    <3> QED BY <1>8, <3>1, <3>2 DEF XInv
  <2> QED BY <2>1, <2>2, <2>3 DEF XInv
<1>9. CASE UNCHANGED allVars
  <2>1. UNCHANGED <<vars, emission, pos, regs, env>>
    BY <1>9 DEF allVars, xVars
  <2>2. CASE emission = "no"
    BY <2>1, <2>2 DEF XInv, XTypeOK, vars
  <2>3. CASE emission # "no"
    <3>1. emission' \in {"running", "finished", "aborted", "undefined"}
      BY <2>1, <2>3 DEF XInv, XTypeOK
    <3> QED BY <1>8, <2>1, <2>3, <3>1
  <2> QED BY <2>2, <2>3
<1>10. CASE Abort \/ ReadPastTable \/ Finished
  BY <1>8, <1>10 DEF Abort, ReadPastTable, Finished
<1> QED
  BY <1>1, <1>2, <1>3, <1>4, <1>5, <1>6, <1>7, <1>9, <1>10 DEF XNext, Stopped

(* The invariant of the emitted code holds while it runs: a value that may    *)
(* still be read is in the register of its node's lifetime, and a parameter   *)
(* whose PARAM is still to come is in its argument register.                  *)
THEOREM XInvariance == XSpec => [](AllocInv /\ XInv)
BY XInitInv, XNextInv, XAllocates, Allocation, PTL DEF XSpec

(* Every instruction of the listing is executed on registers that exist, and *)
(* the walk over the quadruples ends at the last one.                        *)
THEOREM XTyping == XSpec => []XTypeOK
<1>1. XInv => XTypeOK
  BY DEF XInv
<1> QED BY <1>1, XInvariance, PTL

(* The registers create_regslots gives out are enough for assembly.c: in a   *)
(* program of one activation that writes every node once and spills nothing, *)
(* whatever it consists of, each operand is in its register when it is read. *)
THEOREM ValuesReachOperands == XSpec => []OperandsHoldValues
<1>1. AllocInv /\ XInv => OperandsHoldValues
  <2> SUFFICES ASSUME AllocInv, XInv, emission = "running", pos <= quadCount, Straight,
                      NEW n \in {quads[pos].src1, quads[pos].src2} \ {NoItem}
               PROVE  env[n] # Undefined /\ regs[Physical(n)] = env[n]
    BY DEF OperandsHoldValues, Quadruple
  <2>1. pc = "done" /\ pos \in 1..quadCount /\ ValuesHeld
    BY DoneTypes DEF XInv, XTypeOK
  <2>2. pos \in 1..pos /\ \A p2 \in pos..(pos - 1) : FALSE
    BY <2>1, DoneTypes
  <2> QED BY <2>1, <2>2, OperandHeld
<1> QED BY <1>1, XInvariance, PTL

(* The arguments of a call reach the registers of saved_caller in their      *)
(* order, unless one lies in a register that an earlier one is loaded into.  *)
THEOREM ArgumentsLoaded == XSpec => []ArgumentsArrive
<1>1. AllocInv /\ XInv => ArgumentsArrive
  <2> SUFFICES ASSUME AllocInv, XInv, emission = "running", pos <= quadCount, Straight,
                      quads[pos].op = "CALL", InTables(quads[pos]),
                      NEW p \in (pos - Arity)..(pos - 1),
                      NEW n, n = quads[p].src1,
                      NEW c, c = p - (pos - Arity) + 1,
                      n = NoItem \/ Physical(n) \notin {SavedCaller[x] : x \in 1..(c - 1)}
               PROVE  Loaded[Arity][SavedCaller[c]] = Meaning(n, p)
    BY DEF ArgumentsArrive, Quadruple
  <2>1. /\ pc = "done" /\ pos \in 1..quadCount /\ pos \in Nat /\ pos >= 1
        /\ ValuesHeld /\ regs \in [Machine -> Int]
        /\ \A x \in 1..(pos - 1) : Encodable(quads[x])
    BY DoneTypes DEF XInv, XTypeOK
  <2>2. Arity \in 0..(pos - 1)
    BY <2>1, CallLoads
  <2>3. c \in 1..Arity /\ c - 1 \in 0..Arity /\ Argument(c) = p /\ p \in 1..(pos - 1) /\ p \in 1..pos
    BY <2>1, <2>2 DEF Argument
  <2>4. /\ \A p2 \in p..(pos - 1) : quads[p2].op = "ARG"
        /\ Loaded[Arity][SavedCaller[c]] = Operand(Loaded[c - 1], n, p)
        /\ \A r \in Machine :
              (\A x \in 1..(c - 1) : SavedCaller[x] # r) => Loaded[c - 1][r] = regs[r]
    <3>1. Arity \in 0..Arity
      BY <2>2
    <3>2. \A p2 \in p..(pos - 1) : quads[p2].op = "ARG"
      BY <2>1, <2>3, CallLoads
    <3>3. c \in 1..Arity /\ quads[Argument(c)].src1 = n /\ Argument(c) = p
      BY <2>3
    <3>4. Loaded[Arity][SavedCaller[c]] = Operand(Loaded[c - 1], quads[Argument(c)].src1, Argument(c))
      BY <2>1, <3>1, <3>3, CallLoads
    <3>5. \A r \in Machine :
             (\A x \in 1..(c - 1) : SavedCaller[x] # r) => Loaded[c - 1][r] = regs[r]
      BY <2>1, <2>3, CallLoads
    <3> QED BY <3>2, <3>3, <3>4, <3>5
  <2>5. CASE n = NoItem
    BY <2>4, <2>5 DEF Operand, Meaning
  <2>6. CASE n # NoItem
    <3>1. Physical(n) \in Machine
      BY <2>1, <2>3, <2>6 DEF Encodable, Nodes2
    <3>2. Loaded[c - 1][Physical(n)] = regs[Physical(n)]
      BY <2>4, <2>6, <3>1
    <3>3. regs[Physical(n)] = env[n]
      BY <2>1, <2>3, <2>4, <2>6, OperandHeld
    <3> QED BY <2>4, <2>6, <3>2, <3>3 DEF Operand, Meaning
  <2> QED BY <2>5, <2>6
<1> QED BY <1>1, XInvariance, PTL

=============================================================================

-------------------------- MODULE QuadruplesProofs --------------------------
(***************************************************************************)
(* Proofs about Quadruples, for every forest that has the shape the parser *)
(* gives it: nothing is lost to a full stack, the scopes of the symbol     *)
(* table nest as those of the quadruples do, and the quadruples are what   *)
(* the register allocator takes for granted.                               *)
(***************************************************************************)
EXTENDS Quadruples, SequenceTheorems, FiniteSetTheorems, WellFoundedInduction, TLAPS

-----------------------------------------------------------------------------
(* The subtrees.                                                             *)

(* f are the roots, from right to left, of `count` subtrees side by side of  *)
(* which the right one ends at `last` and the left one starts at `first`;    *)
(* starts[n] is the first node of the subtree n is the root of.              *)
Tiles(starts, last, count, first, f) ==
    /\ f \in [1..count -> 1..last]
    /\ f[1] = last
    /\ \A c \in 1..(count - 1) : f[c + 1] = starts[f[c]] - 1
    /\ \A c \in 1..count : first <= starts[f[c]]
    /\ \A b, c \in 1..count : b < c => f[c] < starts[f[b]]
    /\ starts[f[count]] = first

(* A subtree starts with a leaf, and those of its children fill it.          *)
Measured(starts) ==
    /\ starts \in Seq(1..Len(nodes))
    /\ Len(starts) <= Len(nodes)
    /\ \A n \in 1..Len(starts) : starts[n] <= n /\ nodes[starts[n]].arity = 0
    /\ \A n \in 1..Len(starts) : nodes[n].arity = 0 => starts[n] = n
    /\ \A n \in 1..Len(starts) : nodes[n].arity > 0 =>
          \E f : Tiles(starts, n - 1, nodes[n].arity, starts[n], f)

(* The stack of the first loop: the first nodes of the complete subtrees.    *)
Complete(starts, s) ==
    /\ s \in Seq(1..Len(starts))
    /\ starts # <<>> => s # <<>> /\ s[1] = 1 /\ s[Len(s)] = starts[Len(starts)]
    /\ \A x, y \in 1..Len(s) : x < y => s[x] < s[y]
    /\ \A x \in 1..(Len(s) - 1) : starts[s[x + 1] - 1] = s[x]

MeasureInv ==
    /\ Measured(start_subtree)
    /\ Complete(start_subtree, stack)
    /\ entries = <<>> /\ watermarks = <<>> /\ quads = <<>> /\ operands = <<>>
    /\ offset_entry = 0 /\ count_param = 0 /\ ~dropped

-----------------------------------------------------------------------------
(* The visit.                                                                *)

Whole == Measured(start_subtree) /\ Len(start_subtree) = Len(nodes)

(* Subtrees still to visit lie apart, the lower on the stack the more to the *)
(* right.                                                                    *)
Apart(s) ==
    /\ s \in Seq(1..Len(nodes))
    /\ \A x, y \in 1..Len(s) : x < y => s[y] < start_subtree[s[x]]

(* The rest of an expression lies before them. *)
Expression(s, n, root, to) ==
    /\ root \in 1..Len(nodes) /\ n \in 1..root /\ TypeAt(root) = "EXP"
    /\ to \in 0..Len(nodes)
    /\ to # 0 /\ Headed => TypeAt(to) = "ID"
    /\ \A x \in 1..Len(s) : root < start_subtree[s[x]]

Names == {n \in 1..Len(nodes) : TypeAt(n) \in {"ID", "PARAM"}}
Values == {n \in 1..Len(nodes) : TypeAt(n) \notin {"ASSIGN", "EXP"}}
ItemTypes == {"NO", "KEY", "TEMP", "LIT", "PAL", "COUNT"}
Items == {item \in [type : ItemTypes, node : Nat] :
             item.type \in {"KEY", "TEMP", "LIT"} => item.node \in 1..Len(nodes)}
Ops == {"SCOPE", "PAL", "PARAM", "ARG", "CALL", "MOVE", "ADD", "MUL"} \cup Opening \cup Closing
Quadruple == [op : Ops, node : Nat, dst : Items, src1 : Items, src2 : Items]

Typed(es, qs, os) == es \in Seq(Names) /\ qs \in Seq(Quadruple) /\ os \in Seq(Values)

(* What a scope restores to is there, and what the scopes in it restore to   *)
(* is not below.                                                             *)
Restorable(es, ws) ==
    /\ ws \in Seq(Nat)
    /\ \A x \in 1..Len(ws) : ws[x] <= Len(es)
    /\ \A x, y \in 1..Len(ws) : x < y => ws[x] <= ws[y]

(* A node on the stack that stands for a scope that is open: its SCOPE_END,  *)
(* or the SCOPE or INIT that holds the SCOPE_END of a label or a PAL.        *)
Ends(n) ==
    \/ TypeAt(n) \in {"SCOPE_END", "INIT_LAB", "INIT_PAL"}
    \/ TypeAt(n) = "SCOPE" /\ TypeAt(n + 1) \in {"INIT_LAB", "INIT_PAL"}
Open(s) == {x \in 1..Len(s) : Ends(s[x])}

Rise(q) == (IF q.op \in Opening THEN 1 ELSE 0) - (IF q.op \in Closing THEN 1 ELSE 0)
Depths(qs, d) ==
    /\ d \in [0..Len(qs) -> Nat]
    /\ d[0] = 0
    /\ \A p \in 1..Len(qs) : d[p] = d[p - 1] + Rise(qs[p])

Nested(s, ws, qs) ==
    Headed =>
        /\ Len(ws) = Cardinality(Open(s)) + 1
        /\ \E d : Depths(qs, d) /\ d[Len(qs)] + 1 = Len(ws)

(* U are the nodes still to be processed: each of the others has added at    *)
(* most one name, one scope and what Writers and Callees allow for it.       *)
Weight(U) == Cardinality(U \cap Writers(nodes)) + Cardinality(U \cap Callees(nodes))

Covers(U, s) ==
    /\ U \subseteq 1..Len(nodes)
    /\ \A x \in 1..Len(s) : start_subtree[s[x]]..s[x] \subseteq U

Room(U, es, ws, qs, os) ==
    /\ Len(es) + Cardinality(U) <= Len(nodes)
    /\ Len(ws) + Cardinality(U) <= Len(nodes) + 1
    /\ Len(qs) + Len(os) + Weight(U) <= length

-----------------------------------------------------------------------------
(* What the register allocator relies on, of one quadruple.                  *)

Evaluates == {"ADD", "MUL", "CALL"}
Makes(qs, n) == {p \in 1..Len(qs) : qs[p].op \in Evaluates /\ qs[p].dst = Item("TEMP", n)}
ArgumentsOf(qs, n) == {a \in 1..Len(qs) : qs[a].op = "ARG" /\ qs[a].node = n}

Fed(qs, p) ==
    LET q == qs[p] IN
    /\ \A item \in {q.src1, q.src2} \cup (IF q.op = "MOVE" /\ Headed THEN {q.dst} ELSE {}) :
          Temporary(item) => \E r \in Makes(qs, item.node) : r < p
    /\ q.op \in Evaluates => q.dst = Item("TEMP", q.node) /\ Makes(qs, q.node) = {p}
    /\ q.op \notin {"ADD", "MUL"} => q.src2.type \in {"NO", "COUNT"}
    /\ q.op = "PARAM" => q.dst.type = "KEY"
    /\ q.op = "ARG" => p < Len(qs) /\ qs[p + 1].op \in {"ARG", "CALL"} /\ qs[p + 1].node = q.node
    /\ q.op = "CALL" => q.src2.node = Cardinality(ArgumentsOf(qs, q.node))

(* The operands that are not leaves have been computed, and the nodes to     *)
(* come have not. *)
Feeding(U, qs, os) ==
    /\ \A p \in 1..Len(qs) : Fed(qs, p)
    /\ \A p \in 1..Len(qs) : qs[p].op \in Evaluates \cup {"ARG"} => qs[p].node \notin U
    /\ \A x \in 1..Len(os) : TypeAt(os[x]) \in {"ADD", "MUL", "CALLEE"} => Makes(qs, os[x]) # {}

Moving == {"visit", "expression", "done", "aborted"}

VisitInv ==
    /\ Whole
    /\ Apart(stack)
    /\ Typed(entries, quads, operands)
    /\ offset_entry \in 0..Len(nodes) /\ count_param \in Nat
    /\ Restorable(entries, watermarks)
    /\ Nested(stack, watermarks, quads)
    /\ ~dropped
    /\ pc = "expression" => Expression(stack, i, end, dst)
    /\ pc = "done" => stack = <<>>
    /\ \E U :
          /\ Covers(U, stack)
          /\ pc = "expression" => i..end \subseteq U
          /\ Room(U, entries, watermarks, quads, operands)
          /\ Feeding(U, quads, operands)

IInv ==
    /\ Parsed
    /\ pc \in Phases
    /\ pc = "measure" => MeasureInv
    /\ pc \in Moving => VisitInv
    /\ pc \in {"rejected", "undefined"} => TypeOK /\ NothingDropped /\ FeedsAllocator

-----------------------------------------------------------------------------
(* Numbers.                                                                  *)

(* A set of numbers has a least one: the finite sets 1..x are well-founded.  *)
LEMMA LeastNat ==
    ASSUME NEW T \in SUBSET Nat, T # {}
    PROVE  \E x \in T : \A y \in T : x <= y
<1> DEFINE Up == {1..x : x \in T}
<1>1. Up \subseteq FiniteSubsetsOf(Nat)
  BY FS_Interval DEF FiniteSubsetsOf
<1>2. IsWellFoundedOn(StrictSubsetOrdering(Nat), FiniteSubsetsOf(Nat))
  BY FS_StrictSubsetOrderingWellFounded
<1>3. PICK X \in Up : \A Y \in Up : ~(<<Y, X>> \in StrictSubsetOrdering(Nat))
  <2> Up # {} OBVIOUS
  <2> HIDE DEF Up
  <2> QED BY <1>1, <1>2, WFMin
<1>4. PICK x \in T : X = 1..x
  BY <1>3
<1>5. ASSUME NEW y \in T, y < x PROVE FALSE
  <2>1. <<1..y, X>> \notin StrictSubsetOrdering(Nat)
    BY <1>3
  <2>2. 1..y \in SUBSET Nat /\ 1..x \in SUBSET Nat
    OBVIOUS
  <2>3. 1..y \subseteq 1..x /\ 1..y # 1..x
    <3>1. x \in 1..x /\ x \notin 1..y
      BY <1>5
    <3> QED BY <3>1, <1>5
  <2> QED BY <2>1, <2>2, <2>3, <1>4 DEF StrictSubsetOrdering
<1> QED BY <1>5

-----------------------------------------------------------------------------
(* The forest.                                                               *)

LEMMA NodesTyped ==
    ASSUME Parsed
    PROVE  /\ Len(nodes) \in Nat /\ DOMAIN nodes = 1..Len(nodes)
           /\ \A n \in 1..Len(nodes) : nodes[n].arity \in Nat /\ nodes[n].type \in ForestTypes
           /\ length \in Nat
<1> DEFINE R == [type : ForestTypes, arity : Nat, token : Nat]
<1>1. nodes \in Seq(R) /\ length \in Nat
  BY DEF Parsed, WellShaped, IsForest, HasRoom
<1>2. Len(nodes) \in Nat /\ DOMAIN nodes = 1..Len(nodes) /\ \A n \in 1..Len(nodes) : nodes[n] \in R
  <2> HIDE DEF R
  <2> QED BY <1>1
<1> QED BY <1>1, <1>2

(* What stands beside a node, of the types at its place. *)
LEMMA Neighbours ==
    ASSUME Parsed, NEW n \in Int
    PROVE  /\ TypeAt(n) = "SCOPE_END" => TypeAt(n + 1) = "SCOPE"
           /\ TypeAt(n) = "SCOPE" => TypeAt(n - 1) = "SCOPE_END"
           /\ TypeAt(n) = "INIT_LAB" => TypeAt(n - 1) = "SCOPE" /\ TypeAt(n + 1) = "DECL_LAB"
           /\ TypeAt(n) = "INIT_PAL" => TypeAt(n - 1) = "SCOPE" /\ TypeAt(n + 1) = "DECL_PAL"
           /\ TypeAt(n) = "INIT_VAR" => TypeAt(n - 1) = "EXP" /\ TypeAt(n + 1) = "DECL_VAR"
           /\ TypeAt(n) # "NO" => n \in 1..Len(nodes) /\ TypeAt(n) = nodes[n].type
           /\ TypeAt(n) \in Childless => nodes[n].arity = 0
           /\ TypeAt(n) \in Parents => nodes[n].arity > 0
<1>1. CASE n \in 1..Len(nodes)
  <2>1. n \in DOMAIN nodes
    BY <1>1, NodesTyped
  <2>2. SideBySide(nodes) /\ Arities(nodes)
    BY DEF Parsed, WellShaped
  <2>3. TypeAt(n) = nodes[n].type
    BY <2>1 DEF TypeAt
  <2>4. \A m, t : HasType(nodes, m, t) => TypeAt(m) = t
    BY DEF HasType, TypeAt
  <2>5. /\ nodes[n].type = "SCOPE_END" => HasType(nodes, n + 1, "SCOPE")
        /\ nodes[n].type = "SCOPE" => HasType(nodes, n - 1, "SCOPE_END")
        /\ nodes[n].type = "INIT_LAB" =>
              HasType(nodes, n - 1, "SCOPE") /\ HasType(nodes, n + 1, "DECL_LAB")
        /\ nodes[n].type = "INIT_PAL" =>
              HasType(nodes, n - 1, "SCOPE") /\ HasType(nodes, n + 1, "DECL_PAL")
        /\ nodes[n].type = "INIT_VAR" =>
              HasType(nodes, n - 1, "EXP") /\ HasType(nodes, n + 1, "DECL_VAR")
    BY <2>1, <2>2 DEF SideBySide
  <2>6. /\ nodes[n].type \in Childless => nodes[n].arity = 0
        /\ nodes[n].type \in Parents => nodes[n].arity > 0
    BY <2>1, <2>2 DEF Arities
  <2> QED BY <1>1, <2>3, <2>4, <2>5, <2>6
<1>2. CASE n \notin 1..Len(nodes)
  <2>1. TypeAt(n) = "NO"
    BY <1>2, NodesTyped DEF TypeAt
  <2> QED BY <2>1 DEF Childless, Parents
<1> QED BY <1>1, <1>2

(* The subtrees the walk finds are the ones f gives. *)
LEMMA SiblingsAre ==
    ASSUME NEW last \in Nat, NEW count \in Nat, NEW f \in [1..count -> Nat],
           \A c \in 1..count : f[c] = IF c = 1 THEN last ELSE Before(f[c - 1])
    PROVE  Siblings(last, count) = [c \in {d \in 1..count : f[d] > 0} |-> f[c]]
<1> DEFINE Solves(g) == g = [c \in 1..count |-> IF c = 1 THEN last ELSE Before(g[c - 1])]
<1>1. Solves(f)
  OBVIOUS
<1>2. PICK root : root = CHOOSE g : Solves(g)
  OBVIOUS
<1>3. Solves(root)
  <2> HIDE DEF Solves
  <2> QED BY <1>1, <1>2
<1>4. ASSUME NEW c \in 1..count
      PROVE  root[c] = IF c = 1 THEN last ELSE Before(root[c - 1])
  BY <1>3
<1>5. \A c \in 1..count : root[c] = f[c]
  <2> DEFINE Bad == {c \in 1..count : root[c] # f[c]}
  <2> SUFFICES ASSUME Bad # {} PROVE FALSE
    OBVIOUS
  <2>1. PICK c \in Bad : \A d \in Bad : c <= d
    <3>1. Bad \in SUBSET Nat
      OBVIOUS
    <3> HIDE DEF Bad
    <3> QED BY <3>1, LeastNat
  <2>2. c \in 1..count /\ root[c] # f[c]
    BY <2>1
  <2>3. c # 1 /\ c - 1 \in 1..count /\ ~(c <= c - 1)
    BY <1>4, <2>2
  <2>4. root[c - 1] = f[c - 1]
    BY <2>1, <2>3
  <2> QED BY <1>4, <2>2, <2>3, <2>4
<1>6. Siblings(last, count) = [c \in {d \in 1..count : root[d] > 0} |-> root[c]]
  BY <1>2 DEF Siblings
<1>7. {d \in 1..count : root[d] > 0} = {d \in 1..count : f[d] > 0}
  BY <1>5
<1> QED BY <1>5, <1>6, <1>7

(* The children of a node are the subtrees that fill its own. *)
LEMMA ChildrenFill ==
    ASSUME NEW last \in Nat, NEW count \in Nat, NEW first, NEW f,
           count > 0 => Tiles(start_subtree, last, count, first, f)
    PROVE  Siblings(last, count) = IF count = 0 THEN <<>> ELSE f
<1>1. CASE count = 0
  <2> DEFINE g == [c \in 1..0 |-> 0]
  <2>1. /\ g \in [1..count -> Nat]
        /\ \A c \in 1..count : g[c] = IF c = 1 THEN last ELSE Before(g[c - 1])
    BY <1>1
  <2>2. Siblings(last, count) = [c \in {d \in 1..count : g[d] > 0} |-> g[c]]
    <3> HIDE DEF g
    <3> QED BY <2>1, SiblingsAre
  <2>3. {d \in 1..count : g[d] > 0} = {}
    BY <1>1
  <2>4. Siblings(last, count) = [c \in {} |-> g[c]]
    BY <2>2, <2>3
  <2>5. [c \in {} |-> g[c]] = <<>>
    OBVIOUS
  <2> QED BY <1>1, <2>4, <2>5
<1>2. CASE count # 0
  <2>1. /\ f \in [1..count -> 1..last]
        /\ f[1] = last
        /\ \A c \in 1..(count - 1) : f[c + 1] = start_subtree[f[c]] - 1
    BY <1>2 DEF Tiles
  <2>2. f \in [1..count -> Nat] /\ \A c \in 1..count : f[c] \in 1..last
    BY <2>1
  <2>3. ASSUME NEW c \in 1..count
        PROVE  f[c] = IF c = 1 THEN last ELSE Before(f[c - 1])
    <3>1. CASE c # 1
      <4>1. c - 1 \in 1..(count - 1) /\ c - 1 \in 1..count /\ (c - 1) + 1 = c
        BY <3>1
      <4>2. f[c] = start_subtree[f[c - 1]] - 1 /\ f[c - 1] # 0
        BY <2>1, <2>2, <4>1
      <4> QED BY <3>1, <4>2 DEF Before
    <3> QED BY <2>1, <3>1
  <2>4. Siblings(last, count) = [c \in {d \in 1..count : f[d] > 0} |-> f[c]]
    BY <2>2, <2>3, SiblingsAre
  <2>5. {d \in 1..count : f[d] > 0} = 1..count
    BY <2>2
  <2> QED BY <1>2, <2>1, <2>4, <2>5
<1> QED BY <1>1, <1>2

-----------------------------------------------------------------------------
(* Measuring.                                                                *)

LEMMA TilesKept ==
    ASSUME NEW ss, NEW tt, NEW last \in Nat, NEW count \in Nat \ {0}, NEW first, NEW f,
           \A m \in 1..last : tt[m] = ss[m],
           Tiles(ss, last, count, first, f)
    PROVE  Tiles(tt, last, count, first, f)
<1>1. f \in [1..count -> 1..last] /\ count \in 1..count
  BY DEF Tiles
<1>2. \A c \in 1..count : tt[f[c]] = ss[f[c]]
  BY <1>1
<1>3. \A c \in 1..(count - 1) : c \in 1..count
  OBVIOUS
<1> QED BY <1>1, <1>2, <1>3 DEF Tiles

(* The roots of the last c subtrees on the stack. *)
Roots(ss, s, c) == [x \in 1..c |-> IF x = 1 THEN Len(ss) ELSE s[Len(s) - x + 2] - 1]

LEMMA CompleteTiles ==
    ASSUME NEW ss, NEW s, Measured(ss), Complete(ss, s), NEW c \in 1..Len(s)
    PROVE  Tiles(ss, Len(ss), c, s[Len(s) - c + 1], Roots(ss, s, c))
<1> DEFINE K == Len(ss)
           L == Len(s)
<1> PICK f : f = Roots(ss, s, c)
  OBVIOUS
<1>1. K \in Nat /\ L \in Nat /\ c \in 1..L /\ L > 0
  BY DEF Measured, Complete
<1>2. /\ \A x \in 1..L : s[x] \in 1..K
      /\ K > 0 /\ s[1] = 1 /\ s[L] = ss[K]
      /\ \A x, y \in 1..L : x < y => s[x] < s[y]
      /\ \A x \in 1..(L - 1) : ss[s[x + 1] - 1] = s[x]
  <2>1. s \in Seq(1..K)
    BY DEF Complete
  <2>2. \A x \in 1..L : s[x] \in 1..K
    BY <2>1
  <2>3. K > 0 /\ ss # <<>>
    BY <1>1, <2>2
  <2> QED BY <2>2, <2>3 DEF Complete
<1>3. ASSUME NEW x \in 1..c
      PROVE  /\ f[x] = IF x = 1 THEN K ELSE s[L - x + 2] - 1
             /\ f[x] \in 1..K
             /\ ss[f[x]] = s[L - x + 1]
  <2>1. f[x] = IF x = 1 THEN K ELSE s[L - x + 2] - 1
    BY DEF Roots
  <2>2. CASE x = 1
    <3>1. L - x + 1 = L /\ K \in 1..K
      BY <1>1, <1>2, <2>2
    <3> QED BY <1>2, <2>1, <2>2, <3>1
  <2>3. CASE x # 1
    <3>1. /\ L - x + 1 \in 1..(L - 1) /\ (L - x + 1) + 1 = L - x + 2
          /\ L - x + 2 \in 1..L /\ 1 < L - x + 2 /\ 1 \in 1..L
      BY <1>1, <2>3
    <3>2. s[L - x + 2] \in 1..K /\ s[1] < s[L - x + 2] /\ ss[s[L - x + 2] - 1] = s[L - x + 1]
      BY <1>2, <3>1
    <3>3. f[x] = s[L - x + 2] - 1
      BY <2>1, <2>3
    <3>4. f[x] \in 1..K
      BY <1>1, <1>2, <3>2, <3>3
    <3> QED BY <2>1, <3>2, <3>3, <3>4
  <2> QED BY <2>2, <2>3
<1>4. f \in [1..c -> 1..K]
  <2>1. f = [x \in 1..c |-> f[x]]
    BY DEF Roots
  <2> QED BY <1>3, <2>1
<1>5. f[1] = K /\ ss[f[c]] = s[L - c + 1]
  <2>1. 1 \in 1..c /\ c \in 1..c
    BY <1>1
  <2> QED BY <1>3, <2>1
<1>6. ASSUME NEW x \in 1..(c - 1)
      PROVE  f[x + 1] = ss[f[x]] - 1
  <2>1. x \in 1..c /\ x + 1 \in 1..c /\ x + 1 # 1 /\ L - (x + 1) + 2 = L - x + 1
    BY <1>1
  <2>2. f[x + 1] = s[L - x + 1] - 1 /\ ss[f[x]] = s[L - x + 1]
    BY <1>3, <2>1
  <2> QED BY <2>2
<1>9. ASSUME NEW x \in 1..L, NEW y \in 1..L, x <= y
      PROVE  s[x] <= s[y] /\ s[x] \in 1..K /\ s[y] \in 1..K
  <2>1. s[x] \in 1..K /\ s[y] \in 1..K
    BY <1>2
  <2>2. CASE x = y
    BY <2>1, <2>2
  <2>3. CASE x < y
    BY <1>2, <2>1, <2>3
  <2> QED BY <1>1, <1>9, <2>1, <2>2, <2>3
<1>7. ASSUME NEW x \in 1..c
      PROVE  s[L - c + 1] <= ss[f[x]]
  <2>1. L - c + 1 \in 1..L /\ L - x + 1 \in 1..L /\ L - c + 1 <= L - x + 1
    BY <1>1
  <2>2. s[L - c + 1] <= s[L - x + 1]
    BY <1>9, <2>1
  <2> QED BY <1>3, <2>2
<1>8. ASSUME NEW b \in 1..c, NEW x \in 1..c, b < x
      PROVE  f[x] < ss[f[b]]
  <2>1. /\ L - x + 2 \in 1..L /\ L - b + 1 \in 1..L /\ x # 1
        /\ L - x + 2 <= L - b + 1
    BY <1>1, <1>8
  <2>2. s[L - x + 2] <= s[L - b + 1] /\ s[L - x + 2] \in 1..K /\ s[L - b + 1] \in 1..K
    BY <1>9, <2>1
  <2>3. f[x] = s[L - x + 2] - 1 /\ ss[f[b]] = s[L - b + 1]
    BY <1>3, <2>1
  <2> QED BY <2>2, <2>3
<1>10. Tiles(ss, K, c, s[L - c + 1], f)
  BY <1>4, <1>5, <1>6, <1>7, <1>8 DEF Tiles
<1> QED BY <1>10

(* The subtree of one more node. *)
MeasuresNext(ss, s, tt, t, a, first) ==
    /\ Measured(ss) /\ Complete(ss, s)
    /\ Len(ss) < Len(nodes) /\ a <= Len(s) /\ a = nodes[Len(ss) + 1].arity
    /\ first = IF a = 0 THEN Len(ss) + 1 ELSE s[Len(s) - a + 1]
    /\ tt = Append(ss, first)
    /\ t = Append(SubSeq(s, 1, Len(s) - a), first)

LEMMA MeasureGrows ==
    ASSUME NEW ss, NEW s, NEW tt, NEW t, NEW a \in Nat, NEW first,
           Parsed, MeasuresNext(ss, s, tt, t, a, first)
    PROVE  Measured(tt) /\ Complete(tt, t)
<1> PICK K, L, N, n : K = Len(ss) /\ L = Len(s) /\ N = Len(nodes) /\ n = K + 1
  OBVIOUS
<1>0. /\ Measured(ss) /\ Complete(ss, s)
      /\ K = Len(ss) /\ L = Len(s) /\ N = Len(nodes) /\ n = K + 1
  BY DEF MeasuresNext
<1>1. /\ K \in Nat /\ L \in Nat /\ N \in Nat /\ n \in 1..N /\ n = K + 1 /\ n \in Nat
      /\ a <= L /\ a \in Nat
  <2>1. ss \in Seq(1..N) /\ s \in Seq(1..K)
    BY <1>0 DEF Measured, Complete
  <2>2. K \in Nat /\ L \in Nat
    BY <1>0, <2>1
  <2>3. N \in Nat
    BY <1>0, NodesTyped
  <2>4. K < N /\ a <= L
    BY <1>0 DEF MeasuresNext
  <2>5. n \in 1..N
    BY <1>0, <2>2, <2>3, <2>4
  <2> QED BY <1>0, <2>2, <2>3, <2>4, <2>5
<1>16. ss \in Seq(1..N) /\ s \in Seq(1..K)
  BY <1>0 DEF Measured, Complete
<1>15. a = nodes[n].arity /\ first = IF a = 0 THEN n ELSE s[L - a + 1]
  BY <1>0 DEF MeasuresNext
<1>17. tt = Append(ss, first) /\ t = Append(SubSeq(s, 1, L - a), first)
  BY <1>0 DEF MeasuresNext
<1>18. \A m \in 1..N : nodes[m].arity \in Nat
  BY <1>0, NodesTyped
<1>2. /\ \A x \in 1..L : s[x] \in 1..K
      /\ \A m \in 1..K : ss[m] \in 1..m /\ nodes[ss[m]].arity = 0
  <2>1. ASSUME NEW m \in 1..K PROVE ss[m] \in 1..m /\ nodes[ss[m]].arity = 0
    <3>1. ss[m] \in 1..N /\ m \in Nat
      BY <1>0, <1>16
    <3>2. ss[m] <= m /\ nodes[ss[m]].arity = 0
      BY <1>0 DEF Measured
    <3> QED BY <1>1, <3>1, <3>2
  <2>2. \A x \in 1..L : s[x] \in 1..K
    BY <1>0, <1>16
  <2> QED BY <2>1, <2>2
<1>3. /\ K > 0 => L > 0 /\ s[1] = 1 /\ s[L] = ss[K]
      /\ K = 0 => L = 0
      /\ \A x, y \in 1..L : x < y => s[x] < s[y]
      /\ \A x \in 1..(L - 1) : ss[s[x + 1] - 1] = s[x]
  <2>1. K = 0 => L = 0
    <3> SUFFICES ASSUME K = 0, L # 0 PROVE FALSE
      BY <1>1
    <3>1. 1 \in 1..L
      BY <1>1
    <3>2. s[1] \in 1..K
      BY <1>2, <3>1
    <3> QED BY <1>1, <3>2
  <2>2. K > 0 => ss # <<>>
    BY <1>0, <1>1
  <2>3. s # <<>> => L > 0
    BY <1>0, <1>16
  <2> QED BY <1>0, <2>1, <2>2, <2>3 DEF Complete
<1>4. a > 0 => Tiles(ss, K, a, first, Roots(ss, s, a))
  <2> SUFFICES ASSUME a > 0 PROVE Tiles(ss, K, a, first, Roots(ss, s, a))
    OBVIOUS
  <2>1. a \in 1..Len(s) /\ first = s[Len(s) - a + 1]
    BY <1>0, <1>1, <1>15
  <2> QED BY <1>0, <2>1, CompleteTiles
<1>5. first \in 1..n /\ nodes[first].arity = 0
  <2>1. CASE a = 0
    <3>1. first = n /\ n \in 1..n
      BY <1>1, <1>15, <2>1
    <3> QED BY <1>15, <2>1, <3>1
  <2>2. CASE a > 0
    <3>1. L - a + 1 \in 1..L
      BY <1>1, <2>2
    <3>2. first \in 1..K
      BY <1>2, <1>15, <2>2, <3>1
    <3>3. PICK f : f = Roots(ss, s, a)
      OBVIOUS
    <3>4. f[a] \in 1..K /\ ss[f[a]] = first
      <4>1. a \in 1..a
        BY <2>2
      <4> QED BY <1>4, <2>2, <3>3, <4>1 DEF Tiles
    <3>5. nodes[first].arity = 0
      BY <1>2, <3>4
    <3> QED BY <1>1, <3>2, <3>5
  <2> QED BY <1>1, <2>1, <2>2
<1>6. /\ tt \in Seq(1..N) /\ Len(tt) = n /\ tt[n] = first
      /\ \A m \in 1..K : tt[m] = ss[m]
  <2>1. first \in 1..N
    BY <1>1, <1>5
  <2>2. /\ tt \in Seq(1..N) /\ Len(tt) = Len(ss) + 1 /\ tt[Len(ss) + 1] = first
        /\ \A m \in 1..Len(ss) : tt[m] = ss[m]
    BY <1>16, <1>17, <2>1, AppendProperties
  <2> QED BY <1>0, <2>2
<1>7. Measured(tt)
  <2>1. ASSUME NEW m \in 1..n
        PROVE  tt[m] <= m /\ nodes[tt[m]].arity = 0
    <3>1. m \in 1..K \/ m = n
      BY <1>1
    <3>2. CASE m \in 1..K
      <4>1. tt[m] \in 1..m /\ nodes[tt[m]].arity = 0
        BY <1>2, <1>6, <3>2
      <4> QED BY <1>1, <4>1
    <3>3. CASE m = n
      BY <1>1, <1>5, <1>6, <3>3
    <3> QED BY <3>1, <3>2, <3>3
  <2>2. ASSUME NEW m \in 1..n, nodes[m].arity > 0
        PROVE  \E f : Tiles(tt, m - 1, nodes[m].arity, tt[m], f)
    <3>1. CASE m \in 1..K
      <4>1. PICK f : Tiles(ss, m - 1, nodes[m].arity, ss[m], f)
        BY <1>0, <2>2, <3>1 DEF Measured
      <4>2. /\ m - 1 \in Nat /\ nodes[m].arity \in Nat \ {0} /\ tt[m] = ss[m]
            /\ \A k \in 1..(m - 1) : tt[k] = ss[k]
        <5>1. m \in 1..N /\ m - 1 \in Nat /\ \A k \in 1..(m - 1) : k \in 1..K
          BY <1>1, <3>1
        <5> QED BY <1>6, <1>18, <2>2, <3>1, <5>1
      <4>3. Tiles(tt, m - 1, nodes[m].arity, ss[m], f)
        BY <4>1, <4>2, TilesKept
      <4> QED BY <4>2, <4>3
    <3>2. CASE m = n
      <4>1. a \in Nat \ {0} /\ m - 1 = K /\ tt[m] = first /\ nodes[m].arity = a
        BY <1>1, <1>6, <1>15, <2>2, <3>2
      <4>2. Tiles(tt, K, a, first, Roots(ss, s, a))
        <5>1. Tiles(ss, K, a, first, Roots(ss, s, a))
          BY <1>4, <4>1
        <5>2. \A k \in 1..K : tt[k] = ss[k]
          BY <1>6
        <5>3. K \in Nat
          BY <1>1
        <5>4. PICK f : f = Roots(ss, s, a)
          OBVIOUS
        <5> QED BY <4>1, <5>1, <5>2, <5>3, <5>4, TilesKept
      <4> QED BY <3>2, <4>1, <4>2
    <3> QED BY <1>1, <3>1, <3>2
  <2>3. Len(tt) <= N
    BY <1>1, <1>6
  <2>4. ASSUME NEW m \in 1..n, nodes[m].arity = 0
        PROVE  tt[m] = m
    <3>1. CASE m \in 1..K
      <4>1. ss[m] = m
        BY <1>0, <2>4, <3>1 DEF Measured
      <4> QED BY <1>6, <3>1, <4>1
    <3>2. CASE m = n
      <4>1. first = n
        BY <1>15, <2>4, <3>2
      <4> QED BY <1>6, <3>2, <4>1
    <3> QED BY <1>1, <3>1, <3>2
  <2> QED BY <1>0, <1>6, <2>1, <2>2, <2>3, <2>4 DEF Measured
<1>8. /\ t \in Seq(1..n) /\ Len(t) = L - a + 1 /\ t[L - a + 1] = first
      /\ \A x \in 1..(L - a) : t[x] = s[x]
  <2> DEFINE u == SubSeq(s, 1, L - a)
  <2>1. \A x \in 1..(L - a) : s[x] \in 1..n /\ 1 + x - 1 = x
    <3>1. \A x \in 1..(L - a) : x \in 1..L /\ 1 + x - 1 = x
      BY <1>1
    <3>2. \A y \in 1..K : y \in 1..n
      BY <1>1
    <3> QED BY <1>2, <3>1, <3>2
  <2>2. L - a \in Int /\ 1 \in Int /\ L - a - 1 + 1 = L - a /\ L - a >= 0
    BY <1>1
  <2>3. u \in Seq(1..n) /\ Len(u) = L - a /\ \A x \in 1..(L - a) : u[x] = s[x]
    <3>1. /\ u \in Seq(1..n) /\ Len(u) = IF 1 <= L - a THEN L - a - 1 + 1 ELSE 0
          /\ \A x \in 1..(L - a - 1 + 1) : u[x] = s[1 + x - 1]
      BY <2>1, <2>2, SubSeqProperties
    <3> QED BY <2>1, <2>2, <3>1
  <2>4. t = Append(u, first)
    BY <1>17
  <2> HIDE DEF u
  <2>6. u \in Seq(1..n) /\ first \in 1..n
    BY <1>5, <2>3
  <2>5. /\ t \in Seq(1..n) /\ Len(t) = Len(u) + 1 /\ t[Len(u) + 1] = first
        /\ \A x \in 1..Len(u) : t[x] = u[x]
    BY <2>4, <2>6, AppendProperties
  <2> QED BY <2>3, <2>5
<1>20. Len(t) = L - a + 1
  BY <1>8
<1>9. t # <<>> /\ tt # <<>> /\ t[Len(t)] = tt[Len(tt)]
  <2>1. Len(t) # 0 /\ Len(tt) # 0
    BY <1>1, <1>6, <1>8
  <2>2. t # <<>> /\ tt # <<>>
    BY <2>1
  <2> QED BY <1>6, <1>8, <2>2
<1>10. t[1] = 1
  <2>1. CASE L - a > 0
    <3>1. 1 \in 1..(L - a) /\ K > 0
      BY <1>1, <1>3, <2>1
    <3> QED BY <1>3, <1>8, <3>1
  <2>2. CASE L - a = 0
    <3>1. t[1] = first
      BY <1>8, <2>2
    <3>2. CASE a = 0
      <4>1. L = 0 /\ K = 0
        BY <1>1, <1>3, <2>2, <3>2
      <4> QED BY <1>1, <1>15, <3>1, <3>2, <4>1
    <3>3. CASE a # 0
      <4>1. L - a + 1 = 1 /\ K > 0
        BY <1>1, <1>3, <2>2, <3>3
      <4> QED BY <1>3, <1>15, <3>1, <3>3, <4>1
    <3> QED BY <3>2, <3>3
  <2> QED BY <1>1, <2>1, <2>2
<1>11. ASSUME NEW x \in 1..Len(t), NEW y \in 1..Len(t), x < y
       PROVE  t[x] < t[y]
  <2>0. x \in 1..(L - a) /\ x \in 1..L /\ ((y \in 1..(L - a) /\ y \in 1..L) \/ y = L - a + 1)
    BY <1>1, <1>20, <1>11
  <2>1. t[x] = s[x] /\ s[x] \in 1..K
    BY <1>2, <1>8, <2>0
  <2>2. CASE y \in 1..(L - a)
    <3>1. t[y] = s[y] /\ y \in 1..L
      BY <1>1, <1>8, <2>2
    <3> QED BY <1>3, <1>11, <2>0, <2>1, <3>1
  <2>3. CASE y = L - a + 1 /\ a = 0
    <3>1. t[y] = n
      BY <1>8, <1>15, <2>3
    <3> QED BY <1>1, <2>1, <3>1
  <2>4. CASE y = L - a + 1 /\ a # 0
    <3>1. y \in 1..L /\ t[y] = s[y]
      <4>1. y \in 1..L
        BY <1>1, <2>4
      <4>2. t[y] = first /\ first = s[y]
        BY <1>8, <1>15, <2>4
      <4> QED BY <4>1, <4>2
    <3> QED BY <1>3, <1>11, <2>0, <2>1, <3>1
  <2> QED BY <2>0, <2>2, <2>3, <2>4
<1>12. ASSUME NEW x \in 1..(Len(t) - 1)
       PROVE  tt[t[x + 1] - 1] = t[x]
  <2>0. x \in 1..(L - a)
    BY <1>1, <1>20
  <2>1. x \in 1..(L - a) /\ t[x] = s[x]
    BY <1>8, <2>0
  <2>2. CASE x + 1 \in 1..L /\ t[x + 1] = s[x + 1]
    <3>1. x \in 1..(L - 1) /\ 1 \in 1..L /\ 1 < x + 1
      BY <1>1, <2>2
    <3>2. ss[s[x + 1] - 1] = s[x] /\ s[1] < s[x + 1] /\ s[1] \in 1..K /\ s[x + 1] \in 1..K
      BY <1>2, <1>3, <2>2, <3>1
    <3>3. s[x + 1] - 1 \in 1..K
      BY <1>1, <3>2
    <3> QED BY <1>6, <2>1, <2>2, <3>2, <3>3
  <2>3. CASE x = L - a /\ a = 0
    <3>1. x = L /\ L > 0 /\ L - a + 1 = x + 1
      BY <1>1, <2>1, <2>3
    <3>3. t[x + 1] = n /\ K > 0
      BY <1>1, <1>3, <1>8, <1>15, <2>3, <3>1
    <3>2. t[x + 1] - 1 = K /\ K \in 1..K
      BY <1>1, <3>3
    <3> QED BY <1>3, <1>6, <2>1, <3>1, <3>2, <3>3
  <2>4. x + 1 \in 1..(L - a) \/ x + 1 = L - a + 1
    BY <1>1, <2>0
  <2>5. CASE x + 1 \in 1..(L - a)
    <3>1. x + 1 \in 1..L
      BY <1>1, <2>5
    <3> QED BY <1>8, <2>2, <2>5, <3>1
  <2>6. CASE x + 1 = L - a + 1
    <3>1. a # 0 => x + 1 \in 1..L /\ t[x + 1] = s[x + 1]
      <4>1. a # 0 => x + 1 \in 1..L
        BY <1>1, <2>6
      <4>2. a # 0 => t[x + 1] = first /\ first = s[x + 1]
        BY <1>8, <1>15, <2>6
      <4> QED BY <4>1, <4>2
    <3>2. x = L - a
      BY <1>1, <2>1, <2>6
    <3> QED BY <2>2, <2>3, <3>1, <3>2
  <2> QED BY <2>4, <2>5, <2>6
<1>13. t \in Seq(1..Len(tt))
  BY <1>6, <1>8
<1>14. Complete(tt, t)
  BY <1>9, <1>10, <1>11, <1>12, <1>13 DEF Complete
<1> QED BY <1>7, <1>14

LEMMA InvMeasureSubtree ==
    ASSUME Parsed, MeasureInv, MeasureSubtree
    PROVE  MeasureInv'
<1> DEFINE a == nodes[Len(start_subtree) + 1].arity
           first == IF a = 0 THEN Len(start_subtree) + 1 ELSE stack[Len(stack) - a + 1]
<1>1. /\ Len(start_subtree) < Len(nodes) /\ a <= Len(stack)
      /\ Measured(start_subtree) /\ Complete(start_subtree, stack)
  BY DEF MeasureSubtree, Measuring, Children, MeasureInv
<1>2. a \in Nat /\ Len(stack) \in Nat
  <2>1. Len(start_subtree) \in Nat
    BY DEF MeasureInv, Measured
  <2>2. Len(start_subtree) + 1 \in 1..Len(nodes)
    BY <1>1, <2>1, NodesTyped
  <2> QED BY <2>2, NodesTyped DEF MeasureInv, Complete
<1>3. a # 0 => Last(stack, a)[1] = stack[Len(stack) - a + 1]
  <2> SUFFICES ASSUME a # 0 PROVE Last(stack, a)[1] = stack[Len(stack) - a + 1]
    OBVIOUS
  <2> DEFINE m == Len(stack) - a + 1
  <2>1. m \in Int /\ 1 \in 1..(Len(stack) - m + 1) /\ m + 1 - 1 = m /\ Len(stack) \in Int
    BY <1>1, <1>2, SMTT(20)
  <2>2. stack \in Seq(1..Len(start_subtree))
    BY DEF MeasureInv, Complete
  <2>3. \A x \in m..Len(stack) : stack[x] \in 1..Len(start_subtree)
    <3>1. \A x \in m..Len(stack) : x \in 1..Len(stack)
      BY <1>1, <1>2
    <3>2. \A x \in 1..Len(stack) : stack[x] \in 1..Len(start_subtree)
      BY <2>2, ElementOfSeq
    <3> QED BY <3>1, <3>2
  <2> HIDE DEF m
  <2>4. SubSeq(stack, m, Len(stack))[1] = stack[m + 1 - 1]
    BY <2>1, <2>3, SubSeqProperties
  <2> QED BY <2>1, <2>4 DEF Last, m
<1>4. /\ start_subtree' = Append(start_subtree, first)
      /\ stack' = Append(SubSeq(stack, 1, Len(stack) - a), first)
  BY <1>3 DEF MeasureSubtree, Children
<1>5. Measured(start_subtree') /\ Complete(start_subtree', stack')
  <2>1. a = nodes[Len(start_subtree) + 1].arity
    OBVIOUS
  <2> HIDE DEF a
  <2>2. first = IF a = 0 THEN Len(start_subtree) + 1 ELSE stack[Len(stack) - a + 1]
    OBVIOUS
  <2> HIDE DEF first
  <2>3. MeasuresNext(start_subtree, stack, start_subtree', stack', a, first)
    BY <1>1, <1>4, <2>1, <2>2 DEF MeasuresNext
  <2> QED BY <1>2, <2>3, MeasureGrows
<1>6. nodes' = nodes
  BY DEF MeasureSubtree, input
<1>7. Measured(start_subtree)'
  BY <1>5, <1>6 DEF Measured
<1>8. Complete(start_subtree, stack)'
  BY <1>5 DEF Complete
<1>9. /\ entries' = entries /\ watermarks' = watermarks /\ quads' = quads /\ operands' = operands
      /\ offset_entry' = offset_entry /\ count_param' = count_param /\ dropped' = dropped
  BY DEF MeasureSubtree, expression
<1> QED BY <1>7, <1>8, <1>9 DEF MeasureInv


-----------------------------------------------------------------------------
(* Sequences, stacks and the weight of what is left.                         *)

LEMMA FunctionSeq ==
    ASSUME NEW S, NEW a \in Nat, NEW k \in [1..a -> S]
    PROVE  k \in Seq(S) /\ Len(k) = a
<1>1. k = [c \in 1..a |-> k[c]] /\ \A c \in 1..a : k[c] \in S
  OBVIOUS
<1> QED BY <1>1

LEMMA Joined ==
    ASSUME NEW S, NEW s \in Seq(S), NEW t \in Seq(S)
    PROVE  /\ s \o t \in Seq(S) /\ Len(s) \in Nat /\ Len(t) \in Nat
           /\ Len(s \o t) = Len(s) + Len(t)
           /\ \A x \in 1..Len(s) : (s \o t)[x] = s[x]
           /\ \A x \in (Len(s) + 1)..(Len(s) + Len(t)) :
                 (s \o t)[x] = t[x - Len(s)] /\ x - Len(s) \in 1..Len(t)
           /\ \A x \in 1..Len(t) : (s \o t)[Len(s) + x] = t[x]
<1> PICK u : u = s \o t
  OBVIOUS
<1>1. Len(s) \in Nat /\ Len(t) \in Nat
  OBVIOUS
<1>2. /\ u \in Seq(S) /\ Len(u) = Len(s) + Len(t)
      /\ \A x \in 1..(Len(s) + Len(t)) : u[x] = IF x <= Len(s) THEN s[x] ELSE t[x - Len(s)]
  BY ConcatProperties
<1>3. \A x \in 1..Len(s) : x \in 1..(Len(s) + Len(t)) /\ x <= Len(s)
  BY <1>1
<1>4. \A x \in (Len(s) + 1)..(Len(s) + Len(t)) :
         x \in 1..(Len(s) + Len(t)) /\ ~(x <= Len(s)) /\ x - Len(s) \in 1..Len(t)
  BY <1>1
<1>5. \A x \in 1..Len(t) : Len(s) + x \in (Len(s) + 1)..(Len(s) + Len(t)) /\ Len(s) + x - Len(s) = x
  BY <1>1
<1>6. \A x \in 1..Len(s) : u[x] = s[x]
  BY <1>2, <1>3
<1>7. \A x \in (Len(s) + 1)..(Len(s) + Len(t)) : u[x] = t[x - Len(s)]
  BY <1>2, <1>4
<1> QED BY <1>1, <1>2, <1>4, <1>5, <1>6, <1>7

LEMMA RestOf ==
    ASSUME NEW S, NEW s \in Seq(S), s # <<>>
    PROVE  /\ Len(s) \in Nat \ {0} /\ Top(s) = s[Len(s)] /\ Top(s) \in S
           /\ Rest(s) \in Seq(S) /\ Len(Rest(s)) = Len(s) - 1
           /\ \A x \in 1..(Len(s) - 1) : Rest(s)[x] = s[x]
<1>1. Len(s) \in Nat /\ Len(s) # 0 /\ \A x \in 1..Len(s) : s[x] \in S
  BY EmptySeq
<1>2. PICK k : k = Len(s) - 1
  OBVIOUS
<1>3. k \in Nat /\ Len(s) = k + 1 /\ Len(s) \in 1..Len(s) /\ \A x \in 1..k : s[x] \in S
  BY <1>1, <1>2
<1>4. /\ SubSeq(s, 1, k) \in Seq(S) /\ Len(SubSeq(s, 1, k)) = IF 1 <= k THEN k - 1 + 1 ELSE 0
      /\ \A x \in 1..(k - 1 + 1) : SubSeq(s, 1, k)[x] = s[1 + x - 1]
  BY <1>3, SubSeqProperties
<1>5. \A x \in 1..k : x \in 1..(k - 1 + 1) /\ 1 + x - 1 = x
  BY <1>3
<1>6. Len(SubSeq(s, 1, k)) = k /\ \A x \in 1..k : SubSeq(s, 1, k)[x] = s[x]
  BY <1>3, <1>4, <1>5
<1> QED BY <1>1, <1>2, <1>3, <1>4, <1>6 DEF Top, Rest

(* The children of a visited node replace it on the stack. *)
Descended(s, ns) ==
    LET n == Top(s)
        a == nodes[n].arity
    IN  /\ n \in 1..Len(nodes) /\ n = s[Len(s)] /\ Len(s) \in Nat \ {0} /\ a \in Nat
        /\ start_subtree[n] \in 1..n
        /\ ns \in Seq(1..Len(nodes)) /\ Len(ns) = Len(s) - 1 + a
        /\ \A x \in 1..(Len(s) - 1) : ns[x] = s[x]
        /\ a > 0 => ns[Len(s)] = n - 1
        /\ \A x \in Len(s)..Len(ns) : start_subtree[n] <= start_subtree[ns[x]] /\ ns[x] < n
        /\ \A x \in (Len(s) + 1)..Len(ns) : ns[x] + 1 = start_subtree[ns[x - 1]]
        /\ \A x, y \in Len(s)..Len(ns) : x < y => ns[y] < start_subtree[ns[x]]

LEMMA Starts ==
    ASSUME Parsed, Whole
    PROVE  /\ Len(nodes) \in Nat /\ DOMAIN start_subtree = 1..Len(nodes)
           /\ \A n \in 1..Len(nodes) : start_subtree[n] \in 1..n /\ nodes[start_subtree[n]].arity = 0
           /\ \A n \in 1..Len(nodes) : nodes[n].arity = 0 => start_subtree[n] = n
<1>1. start_subtree \in Seq(1..Len(nodes)) /\ Len(nodes) \in Nat
  BY NodesTyped DEF Whole, Measured
<1>2. DOMAIN start_subtree = 1..Len(nodes)
  BY <1>1 DEF Whole
<1>3. ASSUME NEW n \in 1..Len(nodes)
      PROVE  start_subtree[n] \in 1..n /\ nodes[start_subtree[n]].arity = 0
  <2>1. start_subtree[n] \in 1..Len(nodes)
    BY <1>1 DEF Whole
  <2>2. start_subtree[n] <= n /\ nodes[start_subtree[n]].arity = 0
    BY DEF Whole, Measured
  <2> QED BY <1>1, <2>1, <2>2
<1>4. \A n \in 1..Len(nodes) : nodes[n].arity = 0 => start_subtree[n] = n
  BY DEF Whole, Measured
<1> QED BY <1>1, <1>2, <1>3, <1>4

Descending(s, ns) == ns = Rest(s) \o Siblings(Top(s) - 1, nodes[Top(s)].arity)

LEMMA Descends ==
    ASSUME Parsed, Whole,
           NEW s, Apart(s), s # <<>>, NEW ns, Descending(s, ns)
    PROVE  Descended(s, ns)
<1>0. PICK n, a, N, L : n = Top(s) /\ a = nodes[n].arity /\ N = Len(nodes) /\ L = Len(s)
  OBVIOUS
<1>1. s \in Seq(1..N) /\ N \in Nat
  BY <1>0, NodesTyped DEF Apart
<1>2. /\ L \in Nat \ {0} /\ n = s[L] /\ n \in 1..N
      /\ Rest(s) \in Seq(1..N) /\ Len(Rest(s)) = L - 1
      /\ \A x \in 1..(L - 1) : Rest(s)[x] = s[x]
  BY <1>0, <1>1, RestOf
<1>3. a \in Nat /\ start_subtree[n] \in 1..n
  BY <1>0, <1>2, NodesTyped, Starts
<1>15. \A m \in 1..N : start_subtree[m] \in 1..m
  BY <1>0, Starts
<1>4. PICK f : a > 0 => Tiles(start_subtree, n - 1, a, start_subtree[n], f)
  BY <1>0, <1>2 DEF Whole, Measured
<1>5. Siblings(n - 1, a) = IF a = 0 THEN <<>> ELSE f
  <2>1. n - 1 \in Nat
    BY <1>1, <1>2
  <2> QED BY <1>3, <1>4, <2>1, ChildrenFill
<1>6. PICK k : k = Siblings(n - 1, a)
  OBVIOUS
<1>7. /\ k \in Seq(1..N) /\ Len(k) = a
      /\ \A c \in 1..a : k[c] \in 1..(n - 1) /\ start_subtree[n] <= start_subtree[k[c]]
      /\ a > 0 => k[1] = n - 1
      /\ \A c \in 1..(a - 1) : k[c + 1] + 1 = start_subtree[k[c]]
      /\ \A b, c \in 1..a : b < c => k[c] < start_subtree[k[b]]
  <2>1. CASE a = 0
    <3>1. k = <<>>
      BY <1>5, <1>6, <2>1
    <3>2. k \in Seq(1..N) /\ Len(k) = 0
      BY <3>1, EmptySeq
    <3> QED BY <2>1, <3>2
  <2>2. CASE a > 0
    <3>1. k = f /\ Tiles(start_subtree, n - 1, a, start_subtree[n], k)
      BY <1>4, <1>5, <1>6, <2>2
    <3>2. k \in [1..a -> 1..(n - 1)]
      BY <3>1 DEF Tiles
    <3>3. ASSUME NEW c \in 1..a PROVE k[c] \in 1..(n - 1) /\ k[c] \in 1..N
      <4>1. k[c] \in 1..(n - 1)
        BY <3>2
      <4> QED BY <1>1, <1>2, <4>1
    <3>4. k \in Seq(1..N) /\ Len(k) = a
      <4>1. k \in [1..a -> 1..N]
        BY <3>2, <3>3
      <4> QED BY <1>3, <4>1, FunctionSeq
    <3>5. ASSUME NEW c \in 1..(a - 1) PROVE k[c + 1] + 1 = start_subtree[k[c]]
      <4>1. c \in 1..a
        BY <1>3
      <4>2. start_subtree[k[c]] \in 1..k[c] /\ k[c] \in Nat
        BY <1>1, <1>15, <3>3, <4>1
      <4>3. k[c + 1] = start_subtree[k[c]] - 1
        BY <3>1 DEF Tiles
      <4> QED BY <4>2, <4>3
    <3> QED BY <3>1, <3>3, <3>4, <3>5 DEF Tiles
  <2> QED BY <1>3, <2>1, <2>2
<1>8. /\ ns \in Seq(1..N) /\ Len(ns) = L - 1 + a
      /\ \A x \in 1..(L - 1) : ns[x] = s[x]
      /\ \A x \in L..(L - 1 + a) : ns[x] = k[x - (L - 1)] /\ x - (L - 1) \in 1..a
  <2>1. ns = Rest(s) \o k
    BY <1>0, <1>6 DEF Descending
  <2>2. PICK r : r = Rest(s)
    OBVIOUS
  <2>3. r \in Seq(1..N) /\ Len(r) = L - 1 /\ k \in Seq(1..N) /\ Len(k) = a
    BY <1>2, <1>7, <2>2
  <2>4. /\ r \o k \in Seq(1..N) /\ Len(r \o k) = Len(r) + Len(k)
        /\ \A x \in 1..Len(r) : (r \o k)[x] = r[x]
        /\ \A x \in (Len(r) + 1)..(Len(r) + Len(k)) :
              (r \o k)[x] = k[x - Len(r)] /\ x - Len(r) \in 1..Len(k)
    BY <2>3, Joined, ZenonT(30)
  <2>5. L - 1 + 1 = L
    BY <1>2
  <2>6. ns = r \o k
    BY <2>1, <2>2
  <2>7. Len(r) = L - 1 /\ Len(k) = a /\ Len(r) + 1 = L
    BY <2>3, <2>5
  <2>8. \A x \in 1..(L - 1) : r[x] = s[x]
    BY <1>2, <2>2
  <2> QED BY <2>4, <2>6, <2>7, <2>8
<1>11. a > 0 => ns[L] = n - 1
  <2> SUFFICES ASSUME a > 0 PROVE ns[L] = n - 1
    OBVIOUS
  <2>1. L \in L..(L - 1 + a) /\ L - (L - 1) = 1
    BY <1>2, <1>3
  <2> QED BY <1>7, <1>8, <2>1
<1>12. \A x \in L..(L - 1 + a) : start_subtree[n] <= start_subtree[ns[x]] /\ ns[x] < n
  <2>1. ASSUME NEW c \in 1..a PROVE k[c] < n
    <3>1. k[c] \in 1..(n - 1) /\ n \in Nat
      BY <1>1, <1>2, <1>7, SMTT(20)
    <3> QED BY <3>1
  <2>2. SUFFICES ASSUME NEW x \in L..(L - 1 + a)
                 PROVE  start_subtree[n] <= start_subtree[ns[x]] /\ ns[x] < n
    OBVIOUS
  <2>3. PICK c : c = x - (L - 1)
    OBVIOUS
  <2>4. c \in 1..a /\ ns[x] = k[c]
    BY <1>8, <2>3
  <2> QED BY <1>7, <2>1, <2>4
<1>13. ASSUME NEW x \in (L + 1)..(L - 1 + a) PROVE ns[x] + 1 = start_subtree[ns[x - 1]]
  <2>1. /\ x \in L..(L - 1 + a) /\ x - 1 \in L..(L - 1 + a)
        /\ x - (L - 1) = (x - 1 - (L - 1)) + 1 /\ x - 1 - (L - 1) \in 1..(a - 1)
    BY <1>2, <1>3
  <2>2. ns[x] = k[x - (L - 1)] /\ ns[x - 1] = k[x - 1 - (L - 1)]
    BY <1>8, <2>1
  <2> QED BY <1>7, <2>1, <2>2
<1>14. ASSUME NEW x \in L..(L - 1 + a), NEW y \in L..(L - 1 + a), x < y
       PROVE  ns[y] < start_subtree[ns[x]]
  <2>1. x - (L - 1) < y - (L - 1)
    BY <1>2, <1>3, <1>14
  <2> QED BY <1>7, <1>8, <2>1
<1> QED BY <1>0, <1>2, <1>3, <1>8, <1>11, <1>12, <1>13, <1>14 DEF Descended

LEMMA DescendApart ==
    ASSUME Parsed, Whole,
           NEW s, Apart(s), NEW ns, Descended(s, ns)
    PROVE  Apart(ns)
<1>0. PICK n, a, N, L, M :
         n = Top(s) /\ a = nodes[n].arity /\ N = Len(nodes) /\ L = Len(s) /\ M = Len(ns)
  OBVIOUS
<1>1. /\ L \in Nat \ {0} /\ n = s[L] /\ a \in Nat /\ M = L - 1 + a /\ n \in 1..N
      /\ ns \in Seq(1..N)
  BY <1>0 DEF Descended
<1>2. /\ \A x \in 1..(L - 1) : ns[x] = s[x]
      /\ \A x \in L..M : ns[x] < n
      /\ \A x, y \in L..M : x < y => ns[y] < start_subtree[ns[x]]
  BY <1>0 DEF Descended
<1>3. \A x \in 1..L : s[x] \in 1..N /\ start_subtree[s[x]] \in Nat
  <2>1. \A x \in 1..L : s[x] \in 1..N
    BY <1>0 DEF Apart
  <2>2. \A m \in 1..N : start_subtree[m] \in 1..m /\ N \in Nat
    BY <1>0, Starts
  <2>3. \A m \in 1..N : start_subtree[m] \in Nat
    BY <2>2
  <2> QED BY <2>1, <2>3
<1>4. \A x, y \in 1..L : x < y => s[y] < start_subtree[s[x]]
  BY <1>0 DEF Apart
<1>5. \A x \in 1..M : ns[x] \in 1..N /\ ns[x] \in Nat
  <2>1. M = Len(ns) /\ ns \in Seq(1..N) /\ N \in Nat
    BY <1>0, <1>1, Starts
  <2>2. \A x \in 1..M : ns[x] \in 1..N
    BY <2>1, ElementOfSeq
  <2> QED BY <2>1, <2>2
<1>6. ASSUME NEW x \in 1..M, NEW y \in 1..M, x < y
      PROVE  ns[y] < start_subtree[ns[x]]
  <2>1. \/ x \in 1..(L - 1) /\ x \in 1..L /\ y \in 1..(L - 1) /\ y \in 1..L
        \/ x \in 1..(L - 1) /\ x \in 1..L /\ L \in 1..L /\ x < L /\ y \in L..M
        \/ x \in L..M /\ y \in L..M
    BY <1>1, <1>6
  <2>2. CASE x \in 1..(L - 1) /\ x \in 1..L /\ y \in 1..(L - 1) /\ y \in 1..L
    BY <1>2, <1>4, <1>6, <2>2
  <2>3. CASE x \in 1..(L - 1) /\ x \in 1..L /\ L \in 1..L /\ x < L /\ y \in L..M
    <3>1. ns[y] < n /\ ns[x] = s[x] /\ n < start_subtree[s[x]]
      BY <1>1, <1>2, <1>4, <2>3
    <3>2. ns[y] \in Nat /\ n \in Nat /\ start_subtree[s[x]] \in Nat
      BY <1>1, <1>3, <1>5, <2>3
    <3> QED BY <3>1, <3>2
  <2>4. CASE x \in L..M /\ y \in L..M
    BY <1>2, <1>6, <2>4
  <2> QED BY <2>1, <2>2, <2>3, <2>4
<1> QED BY <1>0, <1>1, <1>6 DEF Apart

LEMMA DescendCovers ==
    ASSUME Parsed, Whole,
           NEW s, Apart(s), NEW ns, Descended(s, ns), NEW U, Covers(U, s)
    PROVE  Top(s) \in U /\ start_subtree[Top(s)]..Top(s) \subseteq U /\ Covers(U \ {Top(s)}, ns)
<1>0. PICK n, a, N, L, M :
         n = Top(s) /\ a = nodes[n].arity /\ N = Len(nodes) /\ L = Len(s) /\ M = Len(ns)
  OBVIOUS
<1>1. /\ L \in Nat \ {0} /\ n = s[L] /\ a \in Nat /\ M = L - 1 + a /\ n \in 1..N
      /\ start_subtree[n] \in 1..n /\ ns \in Seq(1..N)
  BY <1>0 DEF Descended
<1>2. /\ \A x \in 1..(L - 1) : ns[x] = s[x]
      /\ \A x \in L..M : start_subtree[n] <= start_subtree[ns[x]] /\ ns[x] < n
  BY <1>0 DEF Descended
<1>3. U \subseteq 1..N /\ \A x \in 1..L : start_subtree[s[x]]..s[x] \subseteq U
  BY <1>0 DEF Covers
<1>4. \A x \in 1..(L - 1) : n < start_subtree[s[x]]
  <2>1. \A x \in 1..(L - 1) : x \in 1..L /\ L \in 1..L /\ x < L
    BY <1>1
  <2> QED BY <1>0, <1>1, <2>1 DEF Apart
<1>5. \A m \in 1..N : start_subtree[m] \in 1..m /\ start_subtree[m] \in Nat /\ N \in Nat
  <2>1. \A m \in 1..N : start_subtree[m] \in 1..m /\ N \in Nat
    BY <1>0, Starts
  <2> QED BY <2>1
<1>6. start_subtree[n]..n \subseteq U /\ n \in U
  <2>1. L \in 1..L /\ n \in start_subtree[n]..n
    BY <1>1, <1>5
  <2> QED BY <1>1, <1>3, <2>1
<1>7. ASSUME NEW x \in 1..M
      PROVE  start_subtree[ns[x]]..ns[x] \subseteq U \ {n}
  <2>1. (x \in 1..(L - 1) /\ x \in 1..L) \/ x \in L..M
    BY <1>1
  <2>2. CASE x \in 1..(L - 1) /\ x \in 1..L
    <3>1. ns[x] = s[x] /\ n < start_subtree[s[x]] /\ start_subtree[s[x]]..s[x] \subseteq U
      BY <1>2, <1>3, <1>4, <2>2
    <3>2. s[x] \in 1..N
      BY <1>0, <2>2 DEF Apart
    <3>3. n \notin start_subtree[s[x]]..s[x]
      <4>1. start_subtree[s[x]] \in Nat /\ n \in Nat
        BY <1>1, <1>5, <3>2
      <4> QED BY <3>1, <4>1
    <3> QED BY <3>1, <3>3
  <2>3. CASE x \in L..M
    <3>1. start_subtree[n] <= start_subtree[ns[x]] /\ ns[x] < n
      BY <1>2, <2>3
    <3>2. ns[x] \in 1..N
      <4>1. x \in 1..Len(ns) /\ ns \in Seq(1..N)
        BY <1>0, <1>1
      <4> QED BY <4>1, ElementOfSeq
    <3>3. /\ start_subtree[n] \in Nat /\ start_subtree[ns[x]] \in Nat /\ ns[x] \in Nat /\ n \in Nat
      BY <1>1, <1>5, <3>2
    <3>4. start_subtree[ns[x]]..ns[x] \subseteq (start_subtree[n]..n) \ {n}
      BY <3>1, <3>3
    <3> QED BY <1>6, <3>4
  <2> QED BY <2>1, <2>2, <2>3
<1>8. U \ {n} \subseteq 1..N
  BY <1>3
<1> QED BY <1>0, <1>6, <1>7, <1>8 DEF Covers

(* A node that stands for an open scope is the last child of the next one. *)
LEMMA EndsNext ==
    ASSUME Parsed, NEW n \in Int, Ends(n)
    PROVE  n + 1 \in 1..Len(nodes) /\ nodes[n + 1].arity > 0
<1>1. TypeAt(n + 1) \in Parents
  BY Neighbours DEF Ends, Parents
<1> QED BY <1>1, Neighbours DEF Parents

LEMMA DescendOpen ==
    ASSUME Parsed, Whole,
           NEW s, Apart(s), NEW ns, Descended(s, ns)
    PROVE  /\ Cardinality(Open(s)) \in Nat /\ Cardinality(Open(ns)) \in Nat
           /\ Cardinality(Open(ns)) =
                 Cardinality(Open(s))
                 - (IF Ends(Top(s)) THEN 1 ELSE 0)
                 + (IF nodes[Top(s)].arity > 0 /\ Ends(Top(s) - 1) THEN 1 ELSE 0)
<1>0. PICK n, a, N, L, M :
         n = Top(s) /\ a = nodes[n].arity /\ N = Len(nodes) /\ L = Len(s) /\ M = Len(ns)
  OBVIOUS
<1>1. /\ L \in Nat \ {0} /\ n = s[L] /\ a \in Nat /\ M = L - 1 + a /\ n \in 1..N
      /\ ns \in Seq(1..N)
  BY <1>0 DEF Descended
<1>2. /\ \A x \in 1..(L - 1) : ns[x] = s[x]
      /\ a > 0 => ns[L] = n - 1
      /\ \A x \in (L + 1)..M : ns[x] + 1 = start_subtree[ns[x - 1]]
  BY <1>0 DEF Descended
<1>3. ASSUME NEW x \in (L + 1)..M PROVE ~Ends(ns[x])
  <2>1. x - 1 \in 1..M /\ x \in 1..M
    BY <1>1
  <2>2. ns[x - 1] \in 1..N /\ ns[x] \in 1..N /\ N \in Nat
    <3>1. x - 1 \in 1..Len(ns) /\ x \in 1..Len(ns) /\ ns \in Seq(1..N)
      BY <1>0, <1>1, <2>1
    <3>2. N \in Nat
      BY <1>0, NodesTyped
    <3> QED BY <3>1, <3>2
  <2>3. nodes[start_subtree[ns[x - 1]]].arity = 0
    BY <1>0, <2>2, Starts
  <2>4. nodes[ns[x] + 1].arity = 0 /\ ns[x] \in Int
    BY <1>2, <2>2, <2>3
  <2> QED BY <2>4, EndsNext
<1>4. Open(s) = {x \in 1..L : Ends(s[x])} /\ Open(ns) = {x \in 1..M : Ends(ns[x])}
  BY <1>0 DEF Open
<1>5. IsFiniteSet(Open(s)) /\ IsFiniteSet(Open(ns))
  <2>0. M \in Int /\ L \in Int /\ 1 \in Int
    BY <1>1
  <2>1. IsFiniteSet(1..L) /\ IsFiniteSet(1..M)
    BY <2>0, FS_Interval
  <2> QED BY <1>4, <2>1, FS_Subset
<1>6. L \in Open(s) <=> Ends(n)
  BY <1>1, <1>4
<1>7. L \in Open(ns) <=> a > 0 /\ Ends(n - 1)
  <2>1. CASE a > 0
    <3>1. L \in 1..M /\ ns[L] = n - 1
      BY <1>1, <1>2, <2>1
    <3> QED BY <1>4, <2>1, <3>1
  <2>2. CASE ~(a > 0)
    <3>1. L \notin 1..M
      BY <1>1, <2>2
    <3> QED BY <1>4, <2>2, <3>1
  <2> QED BY <2>1, <2>2
<1>8. Open(s) \ {L} = Open(ns) \ {L}
  <2>1. \A x \in 1..L : x # L => x \in 1..M /\ x \in 1..(L - 1)
    BY <1>1
  <2>2. \A x \in 1..M : x # L => x \in 1..(L - 1) \/ x \in (L + 1)..M
    BY <1>1
  <2>3. \A x \in 1..(L - 1) : x \in 1..L
    BY <1>1
  <2> QED BY <1>2, <1>3, <1>4, <2>1, <2>2, <2>3
<1>9. /\ Cardinality(Open(s) \ {L}) = IF Ends(n) THEN Cardinality(Open(s)) - 1 ELSE Cardinality(Open(s))
      /\ Cardinality(Open(ns) \ {L}) =
            IF a > 0 /\ Ends(n - 1) THEN Cardinality(Open(ns)) - 1 ELSE Cardinality(Open(ns))
  BY <1>5, <1>6, <1>7, FS_RemoveElement
<1>10. Cardinality(Open(s)) \in Nat /\ Cardinality(Open(ns)) \in Nat
  BY <1>5, FS_CardinalityType
<1>11. PICK x, y, z : x = Cardinality(Open(s)) /\ y = Cardinality(Open(ns))
                       /\ z = Cardinality(Open(s) \ {L})
  OBVIOUS
<1>13. /\ x \in Nat /\ y \in Nat
       /\ z = IF Ends(n) THEN x - 1 ELSE x
       /\ z = IF a > 0 /\ Ends(n - 1) THEN y - 1 ELSE y
  BY <1>8, <1>9, <1>10, <1>11
<1>12. y = x - (IF Ends(n) THEN 1 ELSE 0) + (IF a > 0 /\ Ends(n - 1) THEN 1 ELSE 0)
  BY <1>13
<1> QED BY <1>0, <1>11, <1>12, <1>13

LEMMA PushFits ==
    ASSUME NEW s, NEW xs, NEW capacity, Len(s) \in Nat, Len(xs) \in Nat, capacity \in Nat,
           Len(s) + Len(xs) <= capacity
    PROVE  ~Full(s, xs, capacity) /\ Pushed(s, xs, capacity) = s \o xs
BY DEF Full, Pushed

LEMMA WeightLeft ==
    ASSUME Parsed, NEW U, U \subseteq 1..Len(nodes), NEW n \in U
    PROVE  /\ Cardinality(U) \in Nat /\ Cardinality(U \ {n}) \in Nat
           /\ Cardinality(U \ {n}) = Cardinality(U) - 1
           /\ Weight(U) \in Nat /\ Weight(U \ {n}) \in Nat
           /\ Weight(U \ {n}) = Weight(U) - (IF n \in Writers(nodes) THEN 1 ELSE 0)
                                          - (IF n \in Callees(nodes) THEN 1 ELSE 0)
<1>1. IsFiniteSet(U)
  <2>1. Len(nodes) \in Int /\ 1 \in Int
    BY NodesTyped
  <2>2. IsFiniteSet(1..Len(nodes))
    BY <2>1, FS_Interval
  <2> QED BY <2>2, FS_Subset
<1>2. ASSUME NEW W, W \subseteq U
      PROVE  /\ Cardinality(W) \in Nat /\ Cardinality(W \ {n}) \in Nat
             /\ Cardinality(W \ {n}) = Cardinality(W) - (IF n \in W THEN 1 ELSE 0)
  <2>1. IsFiniteSet(W)
    BY <1>1, <1>2, FS_Subset
  <2>2. /\ IsFiniteSet(W \ {n})
        /\ Cardinality(W \ {n}) = IF n \in W THEN Cardinality(W) - 1 ELSE Cardinality(W)
    BY <2>1, FS_RemoveElement
  <2>3. Cardinality(W) \in Nat /\ Cardinality(W \ {n}) \in Nat
    BY <2>1, <2>2, FS_CardinalityType
  <2> QED BY <2>2, <2>3
<1>3. PICK A, B : A = U \cap Writers(nodes) /\ B = U \cap Callees(nodes)
  OBVIOUS
<1>4. /\ A \subseteq U /\ B \subseteq U
      /\ n \in A <=> n \in Writers(nodes)
      /\ n \in B <=> n \in Callees(nodes)
      /\ (U \ {n}) \cap Writers(nodes) = A \ {n}
      /\ (U \ {n}) \cap Callees(nodes) = B \ {n}
  BY <1>3
<1>5. /\ Weight(U) = Cardinality(A) + Cardinality(B)
      /\ Weight(U \ {n}) = Cardinality(A \ {n}) + Cardinality(B \ {n})
  BY <1>3, <1>4 DEF Weight
<1>6. PICK x, y, z, w : /\ x = Cardinality(A) /\ y = Cardinality(B)
                        /\ z = Cardinality(A \ {n}) /\ w = Cardinality(B \ {n})
  OBVIOUS
<1>7. /\ x \in Nat /\ y \in Nat /\ z \in Nat /\ w \in Nat
      /\ z = x - (IF n \in Writers(nodes) THEN 1 ELSE 0)
      /\ w = y - (IF n \in Callees(nodes) THEN 1 ELSE 0)
  <2>1. /\ Cardinality(A) \in Nat /\ Cardinality(A \ {n}) \in Nat
        /\ Cardinality(A \ {n}) = Cardinality(A) - (IF n \in A THEN 1 ELSE 0)
    BY <1>2, <1>4
  <2>2. /\ Cardinality(B) \in Nat /\ Cardinality(B \ {n}) \in Nat
        /\ Cardinality(B \ {n}) = Cardinality(B) - (IF n \in B THEN 1 ELSE 0)
    BY <1>2, <1>4
  <2> QED BY <1>4, <1>6, <2>1, <2>2
<1>8. PICK p, r : p = x + y /\ r = z + w
  OBVIOUS
<1>12. /\ p \in Nat /\ r \in Nat
       /\ r = p - (IF n \in Writers(nodes) THEN 1 ELSE 0) - (IF n \in Callees(nodes) THEN 1 ELSE 0)
  BY <1>7, <1>8
<1>9. Cardinality(U) \in Nat /\ Cardinality(U \ {n}) \in Nat
      /\ Cardinality(U \ {n}) = Cardinality(U) - 1
  BY <1>2
<1>10. Weight(U) = p /\ Weight(U \ {n}) = r
  BY <1>5, <1>6, <1>8
<1> QED BY <1>9, <1>10, <1>12

-----------------------------------------------------------------------------
(* The depth of the scopes the quadruples have opened.                       *)

LEMMA RiseTyped == \A q : Rise(q) \in {-1, 0, 1}
BY DEF Rise

LEMMA DepthsOne ==
    ASSUME NEW S, NEW qs \in Seq(S), NEW q \in S, NEW d, Depths(qs, d),
           d[Len(qs)] + Rise(q) >= 0
    PROVE  \E e : Depths(qs \o <<q>>, e) /\ e[Len(qs \o <<q>>)] = d[Len(qs)] + Rise(q)
<1>0. PICK K, u : K = Len(qs) /\ u = qs \o <<q>>
  OBVIOUS
<1>1. K \in Nat /\ Len(u) = K + 1 /\ u[K + 1] = q /\ \A x \in 1..K : u[x] = qs[x]
  <2>1. <<q>> \in Seq(S) /\ Len(<<q>>) = 1 /\ <<q>>[1] = q /\ 1 \in 1..1
    OBVIOUS
  <2> QED BY <1>0, <2>1, Joined
<1>2. d \in [0..K -> Nat] /\ d[0] = 0 /\ \A p \in 1..K : d[p] = d[p - 1] + Rise(qs[p])
  BY <1>0 DEF Depths
<1>3. PICK r : r = d[K] + Rise(q)
  OBVIOUS
<1>4. r \in Nat
  <2>1. d[K] \in Nat /\ r >= 0
    BY <1>0, <1>1, <1>2, <1>3
  <2> QED BY <1>3, <2>1, RiseTyped
<1>5. PICK e : e = [p \in 0..(K + 1) |-> IF p = K + 1 THEN r ELSE d[p]]
  OBVIOUS
<1>6. e[K + 1] = r /\ \A p \in 0..K : e[p] = d[p] /\ d[p] \in Nat
  <2>1. K + 1 \in 0..(K + 1) /\ \A p \in 0..K : p \in 0..(K + 1) /\ p # K + 1
    BY <1>1
  <2> QED BY <1>2, <1>5, <2>1
<1>7. e \in [0..(K + 1) -> Nat]
  <2>1. \A p \in 0..(K + 1) : p = K + 1 \/ p \in 0..K
    BY <1>1
  <2>2. \A p \in 0..(K + 1) : e[p] \in Nat
    BY <1>4, <1>6, <2>1
  <2> QED BY <1>5, <2>2
<1>8. e[0] = 0
  <2>1. 0 \in 0..K
    BY <1>1
  <2> QED BY <1>2, <1>6, <2>1
<1>9. ASSUME NEW p \in 1..(K + 1) PROVE e[p] = e[p - 1] + Rise(u[p])
  <2>1. p - 1 \in 0..K /\ (p = K + 1 \/ (p \in 1..K /\ p \in 0..K))
    BY <1>1
  <2>2. CASE p = K + 1
    <3>1. e[p - 1] = d[K] /\ u[p] = q
      BY <1>1, <1>6, <2>1, <2>2
    <3> QED BY <1>3, <1>6, <2>2, <3>1
  <2>3. CASE p \in 1..K /\ p \in 0..K
    <3>1. e[p] = d[p] /\ e[p - 1] = d[p - 1] /\ u[p] = qs[p]
      BY <1>1, <1>6, <2>1, <2>3
    <3> QED BY <1>2, <2>3, <3>1
  <2> QED BY <2>1, <2>2, <2>3
<1>10. Depths(u, e)
  BY <1>1, <1>7, <1>8, <1>9 DEF Depths
<1> QED BY <1>0, <1>1, <1>3, <1>6, <1>10

LEMMA DepthsFlat ==
    ASSUME NEW S, NEW qs \in Seq(S), NEW xs \in Seq(S), NEW d, Depths(qs, d),
           \A x \in 1..Len(xs) : Rise(xs[x]) = 0
    PROVE  \E e : Depths(qs \o xs, e) /\ e[Len(qs \o xs)] = d[Len(qs)]
<1>0. PICK K, L, u : K = Len(qs) /\ L = Len(xs) /\ u = qs \o xs
  OBVIOUS
<1>1. /\ K \in Nat /\ L \in Nat /\ Len(u) = K + L
      /\ \A x \in 1..K : u[x] = qs[x]
      /\ \A x \in (K + 1)..(K + L) : Rise(u[x]) = 0
  BY <1>0, Joined
<1>2. d \in [0..K -> Nat] /\ d[0] = 0 /\ \A p \in 1..K : d[p] = d[p - 1] + Rise(qs[p])
  BY <1>0 DEF Depths
<1>5. PICK e : e = [p \in 0..(K + L) |-> IF p > K THEN d[K] ELSE d[p]]
  OBVIOUS
<1>6. /\ \A p \in 0..K : e[p] = d[p] /\ d[p] \in Nat
      /\ \A p \in (K + 1)..(K + L) : e[p] = d[K]
  <2>1. /\ \A p \in 0..K : p \in 0..(K + L) /\ ~(p > K)
        /\ \A p \in (K + 1)..(K + L) : p \in 0..(K + L) /\ p > K
    BY <1>1
  <2> QED BY <1>2, <1>5, <2>1
<1>7. e \in [0..(K + L) -> Nat]
  <2>1. K \in 0..K /\ \A p \in 0..(K + L) : p \in (K + 1)..(K + L) \/ p \in 0..K
    BY <1>1
  <2>2. \A p \in 0..(K + L) : e[p] \in Nat
    BY <1>6, <2>1
  <2> QED BY <1>5, <2>2
<1>8. e[0] = 0 /\ e[K + L] = d[K]
  <2>1. 0 \in 0..K /\ K \in 0..K /\ (K + L \in (K + 1)..(K + L) \/ K + L = K)
    BY <1>1
  <2> QED BY <1>2, <1>6, <2>1
<1>9. ASSUME NEW p \in 1..(K + L) PROVE e[p] = e[p - 1] + Rise(u[p])
  <2>1. \/ p \in (K + 1)..(K + L) /\ (p - 1 = K \/ p - 1 \in (K + 1)..(K + L))
        \/ p \in 1..K /\ p \in 0..K /\ p - 1 \in 0..K
    BY <1>1
  <2>2. CASE p \in (K + 1)..(K + L) /\ (p - 1 = K \/ p - 1 \in (K + 1)..(K + L))
    <3>1. K \in 0..K
      BY <1>1
    <3>2. e[p] = d[K] /\ e[p - 1] = d[K] /\ Rise(u[p]) = 0 /\ d[K] \in Nat
      BY <1>1, <1>6, <2>2, <3>1
    <3> QED BY <3>2
  <2>3. CASE p \in 1..K /\ p \in 0..K /\ p - 1 \in 0..K
    <3>1. e[p] = d[p] /\ e[p - 1] = d[p - 1] /\ u[p] = qs[p]
      BY <1>1, <1>6, <2>3
    <3> QED BY <1>2, <2>3, <3>1
  <2> QED BY <2>1, <2>2, <2>3
<1>10. Depths(u, e)
  BY <1>1, <1>7, <1>8, <1>9 DEF Depths
<1> QED BY <1>0, <1>1, <1>8, <1>10

-----------------------------------------------------------------------------
(* What the register allocator relies on stays true when quadruples follow.  *)

(* u is qs and quadruples that evaluate at most the node n. *)
Grown(qs, u, n) ==
    /\ Len(qs) \in Nat /\ Len(u) \in Nat /\ Len(qs) <= Len(u)
    /\ \A y \in 1..Len(qs) : u[y] = qs[y]
    /\ \A y \in (Len(qs) + 1)..Len(u) :
          /\ u[y].op \in Evaluates \cup {"ARG"} => u[y].node = n
          /\ u[y].op \in Evaluates => u[y].dst = Item("TEMP", n)

LEMMA MakesGrow ==
    ASSUME NEW qs, NEW u, NEW n, Grown(qs, u, n), NEW m
    PROVE  /\ Makes(qs, m) \subseteq Makes(u, m)
           /\ m # n => Makes(u, m) = Makes(qs, m) /\ ArgumentsOf(u, m) = ArgumentsOf(qs, m)
<1>0. PICK K, L : K = Len(qs) /\ L = Len(u)
  OBVIOUS
<1>1. /\ K \in Nat /\ L \in Nat /\ K <= L
      /\ \A y \in 1..K : u[y] = qs[y]
      /\ \A y \in (K + 1)..L :
            /\ u[y].op \in Evaluates \cup {"ARG"} => u[y].node = n
            /\ u[y].op \in Evaluates => u[y].dst = Item("TEMP", n)
  BY <1>0 DEF Grown
<1>2. /\ \A y \in 1..K : y \in 1..L
      /\ \A y \in 1..L : y \in 1..K \/ y \in (K + 1)..L
  BY <1>1
<1>3. /\ Makes(qs, m) = {p \in 1..K : qs[p].op \in Evaluates /\ qs[p].dst = Item("TEMP", m)}
      /\ Makes(u, m) = {p \in 1..L : u[p].op \in Evaluates /\ u[p].dst = Item("TEMP", m)}
      /\ ArgumentsOf(qs, m) = {a \in 1..K : qs[a].op = "ARG" /\ qs[a].node = m}
      /\ ArgumentsOf(u, m) = {a \in 1..L : u[a].op = "ARG" /\ u[a].node = m}
  BY <1>0 DEF Makes, ArgumentsOf
<1>4. Makes(qs, m) \subseteq Makes(u, m)
  BY <1>1, <1>2, <1>3
<1>5. ASSUME m # n PROVE Makes(u, m) \subseteq Makes(qs, m)
  <2>1. Item("TEMP", m) # Item("TEMP", n)
    BY <1>5 DEF Item
  <2>2. \A y \in (K + 1)..L : ~(u[y].op \in Evaluates /\ u[y].dst = Item("TEMP", m))
    BY <1>1, <2>1
  <2> QED BY <1>1, <1>2, <1>3, <2>2
<1>6. ASSUME m # n PROVE ArgumentsOf(u, m) = ArgumentsOf(qs, m)
  <2>1. \A y \in (K + 1)..L : ~(u[y].op = "ARG" /\ u[y].node = m)
    BY <1>1, <1>6
  <2> QED BY <1>1, <1>2, <1>3, <2>1
<1> QED BY <1>4, <1>5, <1>6

LEMMA FedKept ==
    ASSUME NEW U, NEW qs, NEW u, NEW os, NEW n \in U, Feeding(U, qs, os), Grown(qs, u, n),
           NEW p \in 1..Len(qs)
    PROVE  Fed(u, p)
<1>1. PICK q : q = qs[p]
  OBVIOUS
<1>2. u[p] = q
  BY <1>1 DEF Grown
<1>3. Fed(qs, p) /\ (q.op \in Evaluates \cup {"ARG"} => q.node # n)
  BY <1>1 DEF Feeding
<1>4. /\ \A item \in {q.src1, q.src2} \cup (IF q.op = "MOVE" /\ Headed THEN {q.dst} ELSE {}) :
            Temporary(item) => \E r \in Makes(qs, item.node) : r < p
      /\ q.op \in Evaluates => q.dst = Item("TEMP", q.node) /\ Makes(qs, q.node) = {p}
      /\ q.op \notin {"ADD", "MUL"} => q.src2.type \in {"NO", "COUNT"}
      /\ q.op = "PARAM" => q.dst.type = "KEY"
      /\ q.op = "ARG" => p < Len(qs) /\ qs[p + 1].op \in {"ARG", "CALL"} /\ qs[p + 1].node = q.node
      /\ q.op = "CALL" => q.src2.node = Cardinality(ArgumentsOf(qs, q.node))
  BY <1>1, <1>3 DEF Fed
<1>5. \A item \in {q.src1, q.src2} \cup (IF q.op = "MOVE" /\ Headed THEN {q.dst} ELSE {}) :
            Temporary(item) => \E r \in Makes(u, item.node) : r < p
  BY <1>4, MakesGrow
<1>6. q.op \in Evaluates => q.dst = Item("TEMP", q.node) /\ Makes(u, q.node) = {p}
  BY <1>3, <1>4, MakesGrow
<1>7. q.op = "ARG" => p < Len(u) /\ u[p + 1].op \in {"ARG", "CALL"} /\ u[p + 1].node = q.node
  <2> SUFFICES ASSUME q.op = "ARG"
               PROVE  p < Len(u) /\ u[p + 1].op \in {"ARG", "CALL"} /\ u[p + 1].node = q.node
    OBVIOUS
  <2>1. p < Len(qs) /\ qs[p + 1].op \in {"ARG", "CALL"} /\ qs[p + 1].node = q.node
    BY <1>4
  <2>2. Len(qs) \in Nat /\ Len(u) \in Nat /\ Len(qs) <= Len(u) /\ \A y \in 1..Len(qs) : u[y] = qs[y]
    BY DEF Grown
  <2>3. p + 1 \in 1..Len(qs) /\ p < Len(u)
    BY <2>1, <2>2
  <2> QED BY <2>1, <2>2, <2>3
<1>8. q.op = "CALL" => q.src2.node = Cardinality(ArgumentsOf(u, q.node))
  BY <1>3, <1>4, MakesGrow DEF Evaluates
<1> QED BY <1>2, <1>4, <1>5, <1>6, <1>7, <1>8 DEF Fed

(* A quadruple that evaluates nothing and reads no temporary. *)
Plain(q) ==
    /\ q.op \notin Evaluates \cup {"ARG", "MOVE"}
    /\ ~Temporary(q.src1) /\ ~Temporary(q.src2)
    /\ q.src2.type \in {"NO", "COUNT"}
    /\ q.op = "PARAM" => q.dst.type = "KEY"

LEMMA FeedingPlain ==
    ASSUME NEW U, NEW S, NEW qs \in Seq(S), NEW xs \in Seq(S), NEW os, NEW n \in U,
           Feeding(U, qs, os), \A x \in 1..Len(xs) : Plain(xs[x])
    PROVE  Feeding(U \ {n}, qs \o xs, os)
<1>0. PICK K, L, u : K = Len(qs) /\ L = Len(xs) /\ u = qs \o xs
  OBVIOUS
<1>1. /\ K \in Nat /\ L \in Nat /\ Len(u) = K + L
      /\ \A x \in 1..K : u[x] = qs[x]
      /\ \A x \in (K + 1)..(K + L) : Plain(u[x])
  BY <1>0, Joined
<1>2. K = Len(qs) /\ \A y \in 1..(K + L) : y \in 1..K \/ y \in (K + 1)..(K + L)
  BY <1>0, <1>1
<1>3. Grown(qs, u, n)
  <2>1. K + L \in Nat /\ K <= K + L
    BY <1>1
  <2> QED BY <1>1, <1>2, <2>1 DEF Grown, Plain
<1>4. ASSUME NEW p \in 1..Len(u) PROVE Fed(u, p)
  <2>1. CASE p \in 1..K
    BY <1>2, <1>3, <2>1, FedKept
  <2>2. CASE p \in (K + 1)..(K + L)
    <3>1. PICK q : q = u[p]
      OBVIOUS
    <3>2. Plain(q)
      BY <1>1, <2>2, <3>1
    <3> QED BY <3>1, <3>2 DEF Fed, Plain, Evaluates
  <2> QED BY <1>1, <1>2, <2>1, <2>2
<1>5. ASSUME NEW p \in 1..Len(u), u[p].op \in Evaluates \cup {"ARG"}
      PROVE  u[p].node \notin U \ {n}
  <2>1. p \in 1..K
    BY <1>1, <1>2, <1>5 DEF Plain
  <2> QED BY <1>1, <1>2, <1>5, <2>1 DEF Feeding
<1>6. ASSUME NEW x \in 1..Len(os), TypeAt(os[x]) \in {"ADD", "MUL", "CALLEE"}
      PROVE  Makes(u, os[x]) # {}
  BY <1>3, <1>6, MakesGrow DEF Feeding
<1> QED BY <1>0, <1>4, <1>5, <1>6 DEF Feeding

-----------------------------------------------------------------------------
(* Visiting.                                                                 *)

(* The invariant of the visit holds again if its parts hold of the new       *)
(* values: the forest stays as it is.                                        *)
LEMMA VisitKept ==
    ASSUME nodes' = nodes, length' = length, start_subtree' = start_subtree,
           Whole, Apart(stack'), Typed(entries', quads', operands'),
           offset_entry' \in 0..Len(nodes), count_param' \in Nat,
           Restorable(entries', watermarks'), Nested(stack', watermarks', quads'), ~dropped',
           pc' = "expression" => Expression(stack', i', end', dst'),
           pc' = "done" => stack' = <<>>,
           NEW CONSTANT U, Covers(U, stack'), pc' = "expression" => i'..end' \subseteq U,
           Room(U, entries', watermarks', quads', operands'), Feeding(U, quads', operands')
    PROVE  VisitInv'
<1>1. ASSUME NEW CONSTANT n PROVE TypeAt(n)' = TypeAt(n)
  BY DEF TypeAt
<1>2. Headed' = Headed
  BY DEF Headed, TypeAt
<1>3. Whole'
  BY DEF Whole, Measured
<1>4. Apart(stack)'
  BY DEF Apart
<1>5. Typed(entries, quads, operands)'
  <2>1. Names' = Names /\ Values' = Values
    BY DEF Names, Values, TypeAt
  <2>2. Quadruple' = Quadruple
    BY DEF Quadruple, Items, ItemTypes, Ops, Opening, Closing
  <2> QED BY <2>1, <2>2 DEF Typed
<1>6. (offset_entry \in 0..Len(nodes))' /\ (count_param \in Nat)' /\ (~dropped)'
  OBVIOUS
<1>7. Restorable(entries, watermarks)'
  BY DEF Restorable
<1>8. Nested(stack, watermarks, quads)'
  <2>1. Open(stack)' = Open(stack')
    BY DEF Open, Ends, TypeAt
  <2>2. \A d : Depths(quads, d)' <=> Depths(quads', d)
    BY DEF Depths, Rise, Opening, Closing
  <2> QED BY <1>2, <2>1, <2>2 DEF Nested
<1>9. (pc = "expression" => Expression(stack, i, end, dst))'
  BY <1>2 DEF Expression, TypeAt
<1>10. Covers(U, stack)'
  BY DEF Covers
<1>11. Room(U, entries, watermarks, quads, operands)'
  BY DEF Room, Weight
<1>12. Feeding(U, quads, operands)'
  <2>1. \A p : Fed(quads, p)' <=> Fed(quads', p)
    BY <1>2 DEF Fed, Makes, ArgumentsOf, Temporary, Item, Evaluates
  <2>2. \A p : Makes(quads, p)' = Makes(quads', p)
    BY DEF Makes, Evaluates, Item
  <2> QED BY <2>1, <2>2 DEF Feeding, TypeAt, Evaluates, Makes, Item
<1> QED BY <1>3, <1>4, <1>5, <1>6, <1>7, <1>8, <1>9, <1>10, <1>11, <1>12 DEF VisitInv

(* Scopes that a node adds to the open ones when its children replace it. *)
Balance(n) == (IF nodes[n].arity > 0 /\ Ends(n - 1) THEN 1 ELSE 0) - (IF Ends(n) THEN 1 ELSE 0)
RiseOf(xs) == IF xs = <<>> THEN 0 ELSE Rise(xs[1])

(* What the actions that visit a node have in common: the quadruples xs, at  *)
(* most one, and a name and a scope more or fewer. *)
Visits(xs) ==
    /\ pc = "visit" /\ stack # <<>> /\ Descend
    /\ xs \in Seq(Quadruple) /\ \A x \in 1..Len(xs) : Plain(xs[x])
    /\ Len(xs) <= (IF Node \in Writers(nodes) THEN 1 ELSE 0)
    /\ quads' = quads \o xs
    /\ entries' \in Seq(Names) /\ Len(entries') <= Len(entries) + 1
    /\ Restorable(entries', watermarks') /\ Len(watermarks') <= Len(watermarks) + 1
    /\ Headed => Len(watermarks') = Len(watermarks) + RiseOf(xs)
    /\ Headed => RiseOf(xs) = Balance(Node)
    /\ offset_entry' \in 0..Len(nodes) /\ count_param' \in Nat
    /\ ~dropped'

LEMMA DepthsAfter ==
    ASSUME NEW qs \in Seq(Quadruple), NEW xs \in Seq(Quadruple), Len(xs) <= 1, NEW d, Depths(qs, d),
           d[Len(qs)] + RiseOf(xs) >= 0
    PROVE  \E e : Depths(qs \o xs, e) /\ e[Len(qs \o xs)] = d[Len(qs)] + RiseOf(xs)
<1>1. CASE xs = <<>>
  <2>1. Len(xs) = 0 /\ \A x \in 1..Len(xs) : Rise(xs[x]) = 0
    BY <1>1
  <2>2. \E e : Depths(qs \o xs, e) /\ e[Len(qs \o xs)] = d[Len(qs)]
    BY <2>1, DepthsFlat
  <2>3. d[Len(qs)] = d[Len(qs)] + 0
    <3>1. d[Len(qs)] \in Nat
      <4>1. Len(qs) \in 0..Len(qs)
        OBVIOUS
      <4> QED BY <4>1 DEF Depths
    <3> QED BY <3>1
  <2> QED BY <1>1, <2>2, <2>3 DEF RiseOf
<1>2. CASE xs # <<>>
  <2>1. Len(xs) = 1 /\ xs[1] \in Quadruple
    <3>1. Len(xs) \in Nat \ {0}
      BY <1>2, EmptySeq
    <3>2. PICK l : l = Len(xs)
      OBVIOUS
    <3>3. l \in Nat \ {0} /\ l <= 1
      BY <3>1, <3>2
    <3>4. l = 1 /\ 1 \in 1..l
      BY <3>3
    <3>5. 1 \in 1..Len(xs)
      BY <3>2, <3>4
    <3> QED BY <3>2, <3>4, <3>5, ElementOfSeq
  <2>2. PICK q : q = xs[1]
    OBVIOUS
  <2>3. xs = <<q>>
    BY <2>1, <2>2
  <2>4. RiseOf(xs) = Rise(q)
    BY <1>2, <2>2 DEF RiseOf
  <2> QED BY <2>1, <2>2, <2>3, <2>4, DepthsOne
<1> QED BY <1>1, <1>2

LEMMA Visited ==
    ASSUME Parsed, VisitInv, NEW CONSTANT xs, Visits(xs)
    PROVE  VisitInv'
<1>1. PICK ns : ns = stack'
  OBVIOUS
<1>2. /\ nodes' = nodes /\ length' = length /\ start_subtree' = start_subtree /\ pc' = "visit"
      /\ operands' = operands /\ Descending(stack, ns)
  BY <1>1 DEF Visits, Descend, input, expression, Descending, Node, LastChild
<1>3. Whole /\ Apart(stack) /\ stack # <<>> /\ Typed(entries, quads, operands)
  BY DEF VisitInv, Visits
<1>4. Descended(stack, ns)
  BY <1>2, <1>3, Descends
<1>5. PICK U : /\ Covers(U, stack)
               /\ Room(U, entries, watermarks, quads, operands)
               /\ Feeding(U, quads, operands)
  BY DEF VisitInv
<1>6. PICK n, V : n = Node /\ V = U \ {n}
  OBVIOUS
<1>7. n = Top(stack)
  BY <1>6 DEF Node
<1>8. Apart(ns)
  BY <1>3, <1>4, DescendApart
<1>9. n \in U /\ Covers(V, ns) /\ U \subseteq 1..Len(nodes)
  <2>1. Whole /\ Apart(stack) /\ Covers(U, stack)
    BY <1>3, <1>5
  <2>2. Top(stack) \in U /\ Covers(U \ {Top(stack)}, ns)
    BY <1>4, <2>1, DescendCovers
  <2>3. U \subseteq 1..Len(nodes)
    BY <2>1 DEF Covers
  <2> QED BY <1>6, <1>7, <2>2, <2>3
<1>10. entries \in Seq(Names) /\ quads \in Seq(Quadruple) /\ operands \in Seq(Values) /\ watermarks \in Seq(Nat)
  BY DEF VisitInv, Typed, Restorable
<1>11. /\ xs \in Seq(Quadruple) /\ quads' = quads \o xs
       /\ \A x \in 1..Len(xs) : Plain(xs[x])
       /\ entries' \in Seq(Names) /\ Restorable(entries', watermarks')
  BY <1>6 DEF Visits
<1>19. /\ Len(xs) <= IF n \in Writers(nodes) THEN 1 ELSE 0
       /\ Len(entries') <= Len(entries) + 1
       /\ Len(watermarks') <= Len(watermarks) + 1
  BY <1>6 DEF Visits
<1>12. quads' \in Seq(Quadruple) /\ Len(quads') = Len(quads) + Len(xs)
  BY <1>10, <1>11, Joined
<1>13. Room(V, entries', watermarks', quads', operands')
  <2>1. /\ Cardinality(U) \in Nat /\ Cardinality(V) \in Nat /\ Cardinality(V) = Cardinality(U) - 1
        /\ Weight(U) \in Nat /\ Weight(V) \in Nat
        /\ Weight(V) = Weight(U) - (IF n \in Writers(nodes) THEN 1 ELSE 0)
                                 - (IF n \in Callees(nodes) THEN 1 ELSE 0)
    BY <1>6, <1>9, WeightLeft
  <2>2. n \notin Callees(nodes) \/ n \in Callees(nodes)
    OBVIOUS
  <2>3. /\ Len(entries) + Cardinality(U) <= Len(nodes)
        /\ Len(watermarks) + Cardinality(U) <= Len(nodes) + 1
        /\ Len(quads) + Len(operands) + Weight(U) <= length
    BY <1>5 DEF Room
  <2>4. /\ Len(entries) \in Nat /\ Len(watermarks) \in Nat /\ Len(quads) \in Nat
        /\ Len(operands) \in Nat /\ Len(xs) \in Nat /\ Len(entries') \in Nat
        /\ Len(watermarks') \in Nat /\ Len(nodes) \in Nat /\ length \in Nat
    BY <1>10, <1>11, NodesTyped DEF Restorable
  <2>5. /\ Len(entries') + Cardinality(V) <= Len(nodes)
        /\ Len(watermarks') + Cardinality(V) <= Len(nodes) + 1
    <3>1. PICK e, w, f, v, c, d, N :
             /\ e = Len(entries) /\ w = Len(watermarks) /\ f = Len(entries') /\ v = Len(watermarks')
             /\ c = Cardinality(U) /\ d = Cardinality(V) /\ N = Len(nodes)
      OBVIOUS
    <3>2. /\ e \in Nat /\ w \in Nat /\ f \in Nat /\ v \in Nat /\ c \in Nat /\ d \in Nat /\ N \in Nat
          /\ e + c <= N /\ w + c <= N + 1 /\ d = c - 1 /\ f <= e + 1 /\ v <= w + 1
      BY <1>19, <2>1, <2>3, <2>4, <3>1
    <3>3. f + d <= N /\ v + d <= N + 1
      BY <3>2
    <3> QED BY <3>1, <3>3
  <2>6. Len(quads') + Len(operands') + Weight(V) <= length
    <3>1. PICK q, o, x, g, w, v :
             /\ q = Len(quads) /\ o = Len(operands) /\ x = Len(xs) /\ g = Len(quads')
             /\ w = Weight(U) /\ v = Weight(V)
      OBVIOUS
    <3>2. /\ q \in Nat /\ o \in Nat /\ x \in Nat /\ w \in Nat /\ v \in Nat /\ length \in Nat
          /\ q + o + w <= length /\ g = q + x
      BY <1>12, <2>1, <2>3, <2>4, <3>1
    <3>3. /\ v = w - (IF n \in Writers(nodes) THEN 1 ELSE 0) - (IF n \in Callees(nodes) THEN 1 ELSE 0)
          /\ x <= IF n \in Writers(nodes) THEN 1 ELSE 0
      BY <1>19, <2>1, <3>1
    <3>4. g + o + v <= length
      BY <3>2, <3>3
    <3> QED BY <1>2, <3>1, <3>4
  <2> QED BY <2>5, <2>6 DEF Room
<1>14. Feeding(V, quads', operands')
  BY <1>2, <1>5, <1>6, <1>9, <1>10, <1>11, FeedingPlain
<1>15. Nested(ns, watermarks', quads')
  <2> SUFFICES ASSUME Headed
               PROVE  /\ Len(watermarks') = Cardinality(Open(ns)) + 1
                      /\ \E d : Depths(quads', d) /\ d[Len(quads')] + 1 = Len(watermarks')
    BY DEF Nested
  <2>1. PICK d : /\ Depths(quads, d) /\ d[Len(quads)] + 1 = Len(watermarks)
                 /\ Len(watermarks) = Cardinality(Open(stack)) + 1
    BY DEF VisitInv, Nested
  <2>2. PICK k, a, b, r : /\ k = d[Len(quads)] /\ a = Cardinality(Open(stack))
                          /\ b = Cardinality(Open(ns)) /\ r = RiseOf(xs)
    OBVIOUS
  <2>3. /\ a \in Nat /\ b \in Nat
        /\ b = a - (IF Ends(n) THEN 1 ELSE 0) + (IF nodes[n].arity > 0 /\ Ends(n - 1) THEN 1 ELSE 0)
    BY <1>3, <1>4, <1>7, <2>2, DescendOpen
  <2>4. /\ Len(watermarks') = Len(watermarks) + r
        /\ r = (IF nodes[n].arity > 0 /\ Ends(n - 1) THEN 1 ELSE 0) - (IF Ends(n) THEN 1 ELSE 0)
    BY <1>6, <2>2 DEF Visits, Balance
  <2>5. k \in Nat
    <3>1. Len(quads) \in 0..Len(quads)
      BY <1>10
    <3> QED BY <2>1, <2>2, <3>1 DEF Depths
  <2>6. k + 1 = Len(watermarks) /\ Len(watermarks) = a + 1
    BY <2>1, <2>2
  <2>7. k + r >= 0 /\ Len(watermarks') = b + 1 /\ k + r + 1 = Len(watermarks')
    BY <2>3, <2>4, <2>5, <2>6
  <2>8. Len(xs) <= 1
    <3>1. Len(xs) \in Nat
      BY <1>11
    <3> QED BY <1>19, <3>1
  <2>9. \E e : Depths(quads', e) /\ e[Len(quads')] = k + r
    <3>1. d[Len(quads)] + RiseOf(xs) >= 0
      BY <2>2, <2>7
    <3> QED BY <1>10, <1>11, <2>1, <2>2, <2>8, <3>1, DepthsAfter
  <2> QED BY <2>2, <2>7, <2>9
<1>16. offset_entry' \in 0..Len(nodes) /\ count_param' \in Nat /\ ~dropped'
  BY DEF Visits, VisitInv
<1>17. Typed(entries', quads', operands')
  BY <1>2, <1>10, <1>11, <1>12 DEF Typed
<1>18. pc' # "expression" /\ pc' # "done"
  BY <1>2
<1> QED BY <1>1, <1>2, <1>3, <1>8, <1>9, <1>11, <1>13, <1>14, <1>15, <1>16, <1>17, <1>18, VisitKept

LEMMA Balances ==
    ASSUME Parsed, NEW n \in 1..Len(nodes)
    PROVE  /\ TypeAt(n) \in {"DECL_VAR", "PARAM"} => Balance(n) = 0
           /\ TypeAt(n) = "DECL_LAB" => Balance(n) = IF TypeAt(n - 1) = "INIT_LAB" THEN 1 ELSE 0
           /\ TypeAt(n) = "DECL_PAL" => Balance(n) = IF TypeAt(n - 1) = "INIT_PAL" THEN 1 ELSE 0
           /\ TypeAt(n) = "SCOPE" =>
                 Balance(n) = IF TypeAt(n + 1) \in {"INIT_LAB", "INIT_PAL"} THEN 0 ELSE 1
           /\ TypeAt(n) = "SCOPE_END" => Balance(n) = -1
           /\ TypeAt(n) \notin {"SCOPE", "SCOPE_END"} \cup Declarations => Balance(n) = 0
<1>1. PICK m : m = n - 1
  OBVIOUS
<1>2. n \in Int /\ m \in Int /\ m + 1 = n
  BY <1>1, NodesTyped
<1>3. /\ TypeAt(n) = "SCOPE_END" => TypeAt(n + 1) = "SCOPE"
      /\ TypeAt(n) = "SCOPE" => TypeAt(m) = "SCOPE_END"
      /\ TypeAt(n) = "INIT_LAB" => TypeAt(m) = "SCOPE" /\ TypeAt(n + 1) = "DECL_LAB"
      /\ TypeAt(n) = "INIT_PAL" => TypeAt(m) = "SCOPE" /\ TypeAt(n + 1) = "DECL_PAL"
      /\ TypeAt(n) \in Childless => ~(nodes[n].arity > 0)
      /\ TypeAt(n) \in Parents => nodes[n].arity > 0
  BY <1>1, <1>2, Neighbours
<1>4. /\ TypeAt(m) = "SCOPE_END" => TypeAt(n) = "SCOPE"
      /\ TypeAt(m) = "INIT_LAB" => TypeAt(n) = "DECL_LAB"
      /\ TypeAt(m) = "INIT_PAL" => TypeAt(n) = "DECL_PAL"
  BY <1>2, Neighbours
<1>5. /\ Ends(n) <=> \/ TypeAt(n) \in {"SCOPE_END", "INIT_LAB", "INIT_PAL"}
                     \/ TypeAt(n) = "SCOPE" /\ TypeAt(n + 1) \in {"INIT_LAB", "INIT_PAL"}
      /\ Ends(m) <=> \/ TypeAt(m) \in {"SCOPE_END", "INIT_LAB", "INIT_PAL"}
                     \/ TypeAt(m) = "SCOPE" /\ TypeAt(n) \in {"INIT_LAB", "INIT_PAL"}
  BY <1>2 DEF Ends
<1>6. Balance(n) = (IF nodes[n].arity > 0 /\ Ends(m) THEN 1 ELSE 0) - (IF Ends(n) THEN 1 ELSE 0)
  BY <1>1 DEF Balance
<1>7. PICK A, E, O : /\ A = (IF nodes[n].arity > 0 /\ Ends(m) THEN 1 ELSE 0)
                      /\ E = (IF Ends(n) THEN 1 ELSE 0)
                      /\ O = Balance(n)
  OBVIOUS
<1>8. O = A - E
  BY <1>6, <1>7
<1>9. PICK T, P, F : T = TypeAt(n) /\ P = TypeAt(m) /\ F = TypeAt(n + 1)
  OBVIOUS
<1>10. CASE T \in {"DECL_VAR", "PARAM"}
  <2>1. ~Ends(n) /\ ~Ends(m)
    BY <1>4, <1>5, <1>9, <1>10, <1>3
  <2>2. A = 0 /\ E = 0
    BY <1>7, <2>1
  <2> QED BY <1>1, <1>7, <1>8, <1>9, <1>10, <2>2 DEF Declarations
<1>11. CASE T = "DECL_LAB"
  <2>1. ~Ends(n) /\ nodes[n].arity > 0 /\ (Ends(m) <=> P = "INIT_LAB")
    BY <1>3, <1>4, <1>5, <1>9, <1>11 DEF Parents
  <2>2. A = (IF P = "INIT_LAB" THEN 1 ELSE 0) /\ E = 0
    BY <1>7, <2>1
  <2> QED BY <1>1, <1>7, <1>8, <1>9, <1>11, <2>2 DEF Declarations
<1>12. CASE T = "DECL_PAL"
  <2>1. ~Ends(n) /\ nodes[n].arity > 0 /\ (Ends(m) <=> P = "INIT_PAL")
    BY <1>3, <1>4, <1>5, <1>9, <1>12 DEF Parents
  <2>2. A = (IF P = "INIT_PAL" THEN 1 ELSE 0) /\ E = 0
    BY <1>7, <2>1
  <2> QED BY <1>1, <1>7, <1>8, <1>9, <1>12, <2>2 DEF Declarations
<1>13. CASE T = "SCOPE"
  <2>1. nodes[n].arity > 0 /\ Ends(m) /\ (Ends(n) <=> F \in {"INIT_LAB", "INIT_PAL"})
    BY <1>3, <1>4, <1>5, <1>9, <1>13 DEF Parents
  <2>2. A = 1 /\ E = (IF F \in {"INIT_LAB", "INIT_PAL"} THEN 1 ELSE 0)
    BY <1>7, <2>1
  <2> QED BY <1>7, <1>8, <1>9, <1>13, <2>2 DEF Declarations
<1>14. CASE T = "SCOPE_END"
  <2>1. ~(nodes[n].arity > 0) /\ Ends(n)
    BY <1>3, <1>5, <1>9, <1>14 DEF Childless
  <2>2. A = 0 /\ E = 1
    BY <1>7, <2>1
  <2> QED BY <1>7, <1>8, <1>9, <1>14, <2>2 DEF Declarations
<1>15. CASE T \notin {"SCOPE", "SCOPE_END"} \cup Declarations
  <2>1. CASE T \in {"INIT_LAB", "INIT_PAL"}
    <3>1. nodes[n].arity > 0 /\ Ends(n) /\ Ends(m)
      BY <1>3, <1>5, <1>9, <2>1 DEF Parents
    <3>2. A = 1 /\ E = 1
      BY <1>7, <3>1
    <3> QED BY <1>7, <1>8, <1>9, <1>15, <2>1, <3>2 DEF Declarations
  <2>2. CASE T \notin {"INIT_LAB", "INIT_PAL"}
    <3>1. ~Ends(n) /\ ~Ends(m)
      BY <1>4, <1>5, <1>9, <1>15, <2>2 DEF Declarations
    <3>2. A = 0 /\ E = 0
      BY <1>7, <3>1
    <3> QED BY <1>7, <1>8, <1>9, <1>15, <3>2 DEF Declarations
  <2> QED BY <2>1, <2>2
<1> QED BY <1>9, <1>10, <1>11, <1>12, <1>13, <1>14, <1>15 DEF Declarations

LEMMA VisitRoom ==
    ASSUME Parsed, VisitInv, pc = "visit", stack # <<>>
    PROVE  /\ Node \in 1..Len(nodes) /\ FirstNode \in 1..Node /\ Len(nodes) \in Nat
           /\ Len(entries) \in Nat /\ Len(watermarks) \in Nat /\ Len(quads) \in Nat /\ length \in Nat
           /\ Len(entries) + 1 <= EntryRoom /\ EntryRoom \in Nat
           /\ Len(watermarks) + 1 <= WatermarkRoom /\ WatermarkRoom \in Nat
           /\ Node \in Writers(nodes) => Len(quads) + 1 <= length
           /\ Len(quads) <= length
<1>1. Whole /\ Apart(stack)
  BY DEF VisitInv
<1>2. PICK n, N : n = Top(stack) /\ N = Len(nodes)
  OBVIOUS
<1>3. n \in 1..N /\ N \in Nat /\ length \in Nat /\ Len(stack) \in Nat \ {0} /\ n = stack[Len(stack)]
  <2>1. stack \in Seq(1..Len(nodes))
    BY <1>1 DEF Apart
  <2>2. Top(stack) \in 1..Len(nodes) /\ Len(stack) \in Nat \ {0} /\ Top(stack) = stack[Len(stack)]
    BY <2>1, RestOf
  <2> QED BY <1>2, <2>2, NodesTyped
<1>4. start_subtree[n] \in 1..n
  BY <1>1, <1>2, <1>3, Starts
<1>5. PICK U : Covers(U, stack) /\ Room(U, entries, watermarks, quads, operands)
  BY DEF VisitInv
<1>6. n \in U /\ U \subseteq 1..N
  <2>1. Len(stack) \in 1..Len(stack)
    BY <1>3
  <2>2. start_subtree[n]..n \subseteq U
    BY <1>3, <1>5, <2>1 DEF Covers
  <2>3. n \in start_subtree[n]..n
    BY <1>3, <1>4
  <2> QED BY <1>2, <1>5, <2>2, <2>3 DEF Covers
<1>7. PICK e, w, q, o : e = Len(entries) /\ w = Len(watermarks) /\ q = Len(quads) /\ o = Len(operands)
  OBVIOUS
<1>8. e \in Nat /\ w \in Nat /\ q \in Nat /\ o \in Nat
  BY <1>7 DEF VisitInv, Typed, Restorable
<1>9. PICK c, d, x, y : /\ c = Cardinality(U) /\ d = Cardinality(U \ {n})
                        /\ x = Weight(U) /\ y = Weight(U \ {n})
  OBVIOUS
<1>10. /\ c \in Nat /\ d \in Nat /\ d = c - 1 /\ x \in Nat /\ y \in Nat
       /\ y = x - (IF n \in Writers(nodes) THEN 1 ELSE 0) - (IF n \in Callees(nodes) THEN 1 ELSE 0)
  BY <1>2, <1>6, <1>9, WeightLeft
<1>11. e + c <= N /\ w + c <= N + 1 /\ q + o + x <= length
  BY <1>2, <1>5, <1>7, <1>9 DEF Room
<1>12. e + 1 <= N + 1 /\ w + 1 <= N + 2 /\ q <= length
  BY <1>3, <1>8, <1>10, <1>11
<1>13. n \in Writers(nodes) => q + 1 <= length
  BY <1>3, <1>8, <1>10, <1>11
<1>14. N + 1 \in Nat /\ N + 2 \in Nat
  BY <1>3
<1> QED BY <1>2, <1>3, <1>4, <1>7, <1>8, <1>12, <1>13, <1>14
        DEF Node, FirstNode, EntryRoom, WatermarkRoom

(* What a visit pushes: at most one scope, and a quadruple for a writer. *)
Short(scopes, qs) ==
    /\ Len(scopes) \in Nat /\ Len(scopes) <= 1
    /\ Len(qs) \in Nat /\ Len(qs) <= (IF Node \in Writers(nodes) THEN 1 ELSE 0)

LEMMA NothingLost ==
    ASSUME Parsed, VisitInv, pc = "visit", stack # <<>>, NEW scopes, NEW qs, Short(scopes, qs)
    PROVE  /\ ~Full(entries, <<FirstNode>>, EntryRoom)
           /\ Pushed(entries, <<FirstNode>>, EntryRoom) = entries \o <<FirstNode>>
           /\ ~Full(watermarks, scopes, WatermarkRoom)
           /\ Pushed(watermarks, scopes, WatermarkRoom) = watermarks \o scopes
           /\ ~Full(quads, qs, length)
           /\ Pushed(quads, qs, length) = quads \o qs
<1>1. /\ Len(entries) \in Nat /\ Len(watermarks) \in Nat /\ Len(quads) \in Nat /\ length \in Nat
      /\ Len(entries) + 1 <= EntryRoom /\ EntryRoom \in Nat
      /\ Len(watermarks) + 1 <= WatermarkRoom /\ WatermarkRoom \in Nat
      /\ Node \in Writers(nodes) => Len(quads) + 1 <= length
      /\ Len(quads) <= length
  BY VisitRoom
<1>2. PICK f : f = <<FirstNode>>
  OBVIOUS
<1>3. Len(f) = 1
  BY <1>2
<1>4. ~Full(entries, f, EntryRoom) /\ Pushed(entries, f, EntryRoom) = entries \o f
  <2>1. Len(entries) + Len(f) <= EntryRoom /\ Len(f) \in Nat
    BY <1>1, <1>3
  <2> QED BY <1>1, <2>1, PushFits
<1>7. PICK a, b, c, d : a = Len(scopes) /\ b = Len(qs) /\ c = Len(watermarks) /\ d = Len(quads)
  OBVIOUS
<1>8. PICK most : most = IF Node \in Writers(nodes) THEN 1 ELSE 0
  OBVIOUS
<1>9. /\ a \in Nat /\ a <= 1 /\ b \in Nat /\ b <= most /\ c \in Nat /\ d \in Nat
      /\ c + 1 <= WatermarkRoom /\ d + most <= length /\ most \in 0..1
  <2>1. most \in 0..1 /\ (most = 1 => Node \in Writers(nodes)) /\ b <= most
    BY <1>7, <1>8 DEF Short
  <2>2. c \in Nat /\ d \in Nat /\ c + 1 <= WatermarkRoom /\ d <= length /\ length \in Nat
        /\ (most = 1 => d + 1 <= length)
    BY <1>1, <1>7, <2>1
  <2>3. d + most <= length
    BY <2>1, <2>2
  <2> QED BY <1>7, <2>1, <2>2, <2>3 DEF Short
<1>10. c + a <= WatermarkRoom /\ d + b <= length
  BY <1>1, <1>9
<1>5. Len(scopes) \in Nat /\ Len(watermarks) + Len(scopes) <= WatermarkRoom
  BY <1>7, <1>9, <1>10
<1>6. Len(qs) \in Nat /\ Len(quads) + Len(qs) <= length
  BY <1>7, <1>9, <1>10
<1> QED BY <1>1, <1>2, <1>4, <1>5, <1>6, PushFits

LEMMA OneOf ==
    ASSUME NEW S, NEW x \in S
    PROVE  <<x>> \in Seq(S) /\ Len(<<x>>) = 1 /\ <<x>>[1] = x
OBVIOUS

(* The symbol table when a name, and then a scope, is pushed, and when a     *)
(* scope is popped. *)
LEMMA RestorablePush ==
    ASSUME NEW S, NEW es \in Seq(S), NEW ws, Restorable(es, ws)
    PROVE  /\ Restorable(es, ws \o <<Len(es)>>)
           /\ \A e \in S : /\ Restorable(es \o <<e>>, ws)
                          /\ Restorable(es \o <<e>>, ws \o <<Len(es) + 1>>)
<1>1. PICK a, w : a = Len(es) /\ w = Len(ws)
  OBVIOUS
<1>2. ws \in Seq(Nat) /\ w \in Nat /\ a \in Nat
  BY <1>1 DEF Restorable
<1>3. /\ \A x \in 1..w : ws[x] \in Nat /\ ws[x] <= a
      /\ \A x, y \in 1..w : x < y => ws[x] <= ws[y]
  <2>1. \A x \in 1..w : ws[x] \in Nat
    BY <1>1, <1>2
  <2> QED BY <1>1, <2>1 DEF Restorable
<1>4. ASSUME NEW ff, NEW r \in Nat, a <= r, r <= Len(ff), Len(ff) \in Nat
      PROVE  Restorable(ff, ws \o <<r>>)
  <2>1. PICK v : v = ws \o <<r>>
    OBVIOUS
  <2>2. /\ v \in Seq(Nat) /\ Len(v) = w + 1 /\ v[w + 1] = r
        /\ \A x \in 1..w : v[x] = ws[x]
    <3>1. <<r>> \in Seq(Nat) /\ Len(<<r>>) = 1 /\ <<r>>[1] = r /\ 1 \in 1..1
      BY OneOf
    <3> QED BY <1>1, <1>2, <2>1, <3>1, Joined
  <2>3. \A x \in 1..(w + 1) : x \in 1..w \/ x = w + 1
    BY <1>2
  <2>4. \A x \in 1..w : ws[x] <= r /\ ws[x] <= Len(ff)
    BY <1>2, <1>3, <1>4
  <2>5. \A x \in 1..(w + 1) : v[x] <= Len(ff)
    BY <1>4, <2>2, <2>3, <2>4
  <2>6. ASSUME NEW x \in 1..(w + 1), NEW y \in 1..(w + 1), x < y PROVE v[x] <= v[y]
    <3>1. x \in 1..w
      BY <1>2, <2>6
    <3> QED BY <1>3, <2>2, <2>3, <2>4, <2>6, <3>1
  <2> QED BY <2>1, <2>2, <2>5, <2>6 DEF Restorable
<1>5. Restorable(es, ws \o <<Len(es)>>)
  <2>1. a <= a
    BY <1>2
  <2> QED BY <1>1, <1>2, <1>4, <2>1
<1>6. ASSUME NEW e \in S
      PROVE  /\ Restorable(es \o <<e>>, ws)
             /\ Restorable(es \o <<e>>, ws \o <<Len(es) + 1>>)
  <2>1. PICK ee, b : ee = es \o <<e>> /\ b = Len(ee)
    OBVIOUS
  <2>2. b = a + 1
    BY <1>1, <2>1, OneOf, Joined
  <2>3. \A x \in 1..w : ws[x] <= b
    BY <1>2, <1>3, <2>2
  <2>4. Restorable(ee, ws)
    BY <1>1, <1>2, <1>3, <2>1, <2>3 DEF Restorable
  <2>5. a + 1 \in Nat /\ a <= a + 1 /\ a + 1 <= b /\ b \in Nat
    BY <1>2, <2>2
  <2>6. Restorable(ee, ws \o <<a + 1>>)
    BY <1>4, <2>1, <2>5
  <2> QED BY <1>1, <2>1, <2>4, <2>6
<1> QED BY <1>5, <1>6

LEMMA RestorablePop ==
    ASSUME NEW S, NEW es \in Seq(S), NEW ws, Restorable(es, ws), ws # <<>>, NEW ff,
           ff = SubSeq(es, 1, Top(ws))
    PROVE  ff \in Seq(S) /\ Len(ff) <= Len(es) /\ Restorable(ff, Rest(ws))
<1>1. PICK a, w, r, v : a = Len(es) /\ w = Len(ws) /\ r = Top(ws) /\ v = Rest(ws)
  OBVIOUS
<1>2. a \in Nat
  BY <1>1
<1>3. /\ w \in Nat \ {0} /\ r = ws[w] /\ r \in Nat
      /\ v \in Seq(Nat) /\ Len(v) = w - 1 /\ \A x \in 1..(w - 1) : v[x] = ws[x]
  BY <1>1, RestOf DEF Restorable
<1>4. /\ \A x \in 1..w : ws[x] <= a
      /\ \A x, y \in 1..w : x < y => ws[x] <= ws[y]
  BY <1>1 DEF Restorable
<1>5. r <= a
  <2>1. w \in 1..w
    BY <1>3
  <2> QED BY <1>3, <1>4, <2>1
<1>6. ff \in Seq(S) /\ Len(ff) = r
  <2>1. \A x \in 1..r : es[x] \in S
    <3>1. \A x \in 1..r : x \in 1..Len(es)
      BY <1>1, <1>2, <1>3, <1>5
    <3> QED BY <3>1, ElementOfSeq
  <2>2. 1 \in Int /\ r \in Int
    BY <1>3
  <2>3. SubSeq(es, 1, r) \in Seq(S) /\ Len(SubSeq(es, 1, r)) = IF 1 <= r THEN r - 1 + 1 ELSE 0
    BY <2>1, <2>2, SubSeqProperties
  <2>5. ff = SubSeq(es, 1, r)
    BY <1>1
  <2>4. (IF 1 <= r THEN r - 1 + 1 ELSE 0) = r
    BY <1>3
  <2> QED BY <2>3, <2>4, <2>5
<1>7. \A x \in 1..(w - 1) : x \in 1..w /\ w \in 1..w /\ x < w
  BY <1>3
<1>8. \A x \in 1..(w - 1) : v[x] <= r
  BY <1>3, <1>4, <1>7
<1>9. \A x, y \in 1..(w - 1) : x < y => v[x] <= v[y]
  BY <1>3, <1>4, <1>7
<1>10. Restorable(ff, v)
  BY <1>3, <1>6, <1>8, <1>9 DEF Restorable
<1> QED BY <1>1, <1>5, <1>6, <1>10

(* The actions that declare a name, a scope of it or none, and write a       *)
(* quadruple or none. *)
Declares(scopes, qs) ==
    /\ pc = "visit" /\ stack # <<>> /\ Descend /\ DeclareName(scopes, qs)
    /\ FirstNode \in Names
    /\ scopes \in {<<>>, <<Len(entries) + 1>>}
    /\ qs \in Seq(Quadruple) /\ \A x \in 1..Len(qs) : Plain(qs[x])
    /\ Len(qs) <= (IF Node \in Writers(nodes) THEN 1 ELSE 0)
    /\ Len(scopes) = RiseOf(qs) /\ RiseOf(qs) = Balance(Node)
    /\ offset_entry' \in 0..Len(nodes) /\ count_param' \in Nat

LEMMA Declared ==
    ASSUME Parsed, VisitInv, NEW CONSTANT scopes, NEW CONSTANT qs, Declares(scopes, qs)
    PROVE  VisitInv'
<1>1. PICK f, fs : f = FirstNode /\ fs = <<f>>
  OBVIOUS
<1>2. pc = "visit" /\ stack # <<>> /\ Descend /\ DeclareName(scopes, qs) /\ f \in Names
  BY <1>1 DEF Declares
<1>3. scopes = <<>> \/ scopes = <<Len(entries) + 1>>
  BY DEF Declares
<1>4. Len(scopes) \in Nat /\ Len(scopes) <= 1 /\ Len(qs) \in Nat
  <2>1. Len(qs) \in Nat
    BY DEF Declares
  <2>2. CASE scopes = <<>>
    <3>1. Len(scopes) = 0
      BY <2>2
    <3> QED BY <2>1, <3>1
  <2>3. CASE scopes = <<Len(entries) + 1>>
    <3>1. Len(scopes) = 1
      BY <2>3
    <3> QED BY <2>1, <3>1
  <2> QED BY <1>3, <2>2, <2>3
<1>5. Short(scopes, qs)
  BY <1>4 DEF Declares, Short
<1>6. /\ ~Full(entries, fs, EntryRoom) /\ Pushed(entries, fs, EntryRoom) = entries \o fs
      /\ ~Full(watermarks, scopes, WatermarkRoom)
      /\ Pushed(watermarks, scopes, WatermarkRoom) = watermarks \o scopes
      /\ ~Full(quads, qs, length) /\ Pushed(quads, qs, length) = quads \o qs
  BY <1>1, <1>2, <1>5, NothingLost
<1>7. /\ entries' = entries \o fs /\ watermarks' = watermarks \o scopes /\ quads' = quads \o qs
      /\ ~dropped'
  BY <1>1, <1>2, <1>6 DEF DeclareName, VisitInv
<1>8. entries \in Seq(Names) /\ Restorable(entries, watermarks) /\ watermarks \in Seq(Nat)
  BY DEF VisitInv, Typed, Restorable
<1>9. entries' \in Seq(Names) /\ Len(entries') = Len(entries) + 1 /\ Len(entries) \in Nat
  <2>1. fs \in Seq(Names) /\ Len(fs) = 1
    BY <1>1, <1>2, OneOf
  <2>2. entries \in Seq(Names)
    BY <1>8
  <2>3. entries \o fs \in Seq(Names) /\ Len(entries \o fs) = Len(entries) + Len(fs) /\ Len(entries) \in Nat
    BY <2>1, <2>2, Joined
  <2> QED BY <1>7, <2>1, <2>3
<1>10. Restorable(entries', watermarks') /\ Len(watermarks') = Len(watermarks) + Len(scopes)
  <2>1. /\ Restorable(entries \o <<f>>, watermarks)
        /\ Restorable(entries \o <<f>>, watermarks \o <<Len(entries) + 1>>)
    BY <1>2, <1>8, RestorablePush
  <2>2. CASE scopes = <<>>
    <3>1. watermarks' = watermarks /\ Len(scopes) = 0 /\ Len(watermarks) \in Nat
      BY <1>7, <1>8, <2>2
    <3> QED BY <1>1, <1>7, <2>1, <3>1
  <2>3. CASE scopes = <<Len(entries) + 1>>
    <3>1. Len(watermarks \o scopes) = Len(watermarks) + Len(scopes)
      <4>1. scopes \in Seq(Nat)
        BY <1>9, <2>3
      <4> QED BY <1>8, <4>1, Joined
    <3> QED BY <1>1, <1>7, <2>1, <2>3, <3>1
  <2> QED BY <1>3, <2>2, <2>3
<1>11. /\ Len(entries') <= Len(entries) + 1
       /\ Len(watermarks') <= Len(watermarks) + 1
  <2>1. Len(watermarks) \in Nat
    BY <1>8
  <2> QED BY <1>4, <1>9, <1>10, <2>1
<1>12. Visits(qs)
  BY <1>2, <1>7, <1>9, <1>10, <1>11 DEF Visits, Declares
<1> QED BY <1>12, Visited

-----------------------------------------------------------------------------
(* The actions that visit a node.                                            *)

LEMMA QuadTyped ==
    /\ \A n \in 1..Len(nodes), type \in ItemTypes : Item(type, n) \in Items
    /\ \A k \in Nat : Item("COUNT", k) \in Items
    /\ NoItem \in Items
    /\ \A op \in Ops, n \in Nat, to, a, b \in Items : Quad(op, n, to, a, b) \in Quadruple
<1>5. ASSUME NEW type \in ItemTypes, NEW k \in Nat,
             type \in {"KEY", "TEMP", "LIT"} => k \in 1..Len(nodes)
      PROVE  Item(type, k) \in Items
  <2>1. PICK item : item = Item(type, k)
    OBVIOUS
  <2>2. item \in [type : ItemTypes, node : Nat] /\ item.type = type /\ item.node = k
    BY <2>1 DEF Item
  <2>3. item \in Items
    BY <1>5, <2>2 DEF Items
  <2> QED BY <2>1, <2>3
<1>1. \A k \in Nat : Item("COUNT", k) \in Items
  <2>1. "COUNT" \in ItemTypes /\ "COUNT" \notin {"KEY", "TEMP", "LIT"}
    BY DEF ItemTypes
  <2> QED BY <1>5, <2>1
<1>2. ASSUME NEW n \in 1..Len(nodes), NEW type \in ItemTypes PROVE Item(type, n) \in Items
  <2>1. n \in Nat
    OBVIOUS
  <2> QED BY <1>5, <2>1
<1>3. NoItem \in Items
  <2>1. "NO" \in ItemTypes /\ "NO" \notin {"KEY", "TEMP", "LIT"} /\ 0 \in Nat
    BY DEF ItemTypes
  <2> QED BY <1>5, <2>1 DEF NoItem
<1>4. \A op \in Ops, n \in Nat, to, a, b \in Items : Quad(op, n, to, a, b) \in Quadruple
  BY DEF Quad, Quadruple
<1> QED BY <1>1, <1>2, <1>3, <1>4

LEMMA WritersAre ==
    ASSUME Parsed, NEW n \in 1..Len(nodes)
    PROVE  /\ TypeAt(n) \in {"DECL_LAB", "DECL_PAL", "SCOPE", "SCOPE_END", "PARAM", "CALLEE"} \/ nodes[n].arity = 0
                 => n \in Writers(nodes)
           /\ TypeAt(n) = "CALLEE" => n \in Callees(nodes)
<1>1. n \in DOMAIN nodes /\ n \in Int
  BY NodesTyped
<1>2. TypeAt(n) = nodes[n].type
  BY <1>1 DEF TypeAt
<1>3. TypeAt(n) \in {"SCOPE_END", "PARAM"} => nodes[n].arity = 0
  BY <1>1, Neighbours DEF Childless
<1> QED BY <1>1, <1>2, <1>3 DEF Writers, Callees

LEMMA OffsetTyped ==
    ASSUME Parsed, VisitInv, pc = "visit", stack # <<>>
    PROVE  EntryOffset \in 0..Len(nodes)
<1>1. Node \in 1..Len(nodes) /\ Len(nodes) \in Nat
  BY VisitRoom
<1>2. Node \in 0..Len(nodes)
  BY <1>1
<1> QED BY <1>2 DEF EntryOffset, VisitInv

LEMMA InvDeclareVariable ==
    ASSUME Parsed, VisitInv, DeclareVariable
    PROVE  VisitInv'
<1>1. PICK n, f, none : n = Node /\ f = FirstNode /\ none = <<>>
  OBVIOUS
<1>2. pc = "visit" /\ stack # <<>> /\ TypeAt(n) = "DECL_VAR" /\ TypeAt(f) = "ID"
  BY <1>1 DEF DeclareVariable, Declaring, Visiting
<1>3. n \in 1..Len(nodes) /\ f \in 1..n /\ Len(nodes) \in Nat
  BY <1>1, <1>2, VisitRoom
<1>4. f \in Names
  BY <1>2, <1>3 DEF Names
<1>5. Balance(n) = 0 /\ RiseOf(none) = 0
  BY <1>1, <1>2, <1>3, Balances DEF RiseOf
<1>6. none \in Seq(Quadruple) /\ Len(none) = 0
  BY <1>1
<1>7. offset_entry' \in 0..Len(nodes) /\ count_param' \in Nat
  BY DEF DeclareVariable, VisitInv
<1>8. Declares(none, none)
  BY <1>1, <1>2, <1>4, <1>5, <1>6, <1>7 DEF Declares, DeclareVariable
<1> QED BY <1>8, Declared

(* The quadruples a visit writes, but for those of parameters. *)
LEMMA ScopeQuads ==
    ASSUME Parsed, NEW n \in 1..Len(nodes), NEW f \in 1..Len(nodes),
           NEW op \in {"SCOPE", "PAL"} \cup Opening \cup Closing,
           NEW item \in {NoItem, Item("KEY", f)},
           NEW qs, qs = <<Quad(op, n, NoItem, item, NoItem)>>
    PROVE  /\ qs \in Seq(Quadruple) /\ Len(qs) = 1 /\ \A x \in 1..Len(qs) : Plain(qs[x])
           /\ RiseOf(qs) = IF op \in Opening THEN 1 ELSE IF op \in Closing THEN -1 ELSE 0
<1>1. PICK q : q = Quad(op, n, NoItem, item, NoItem)
  OBVIOUS
<1>2. q \in Quadruple
  <2>1. op \in Ops /\ n \in Nat /\ NoItem \in Items
    <3>1. n \in Nat
      BY NodesTyped
    <3> QED BY <3>1, QuadTyped DEF Ops
  <2>2. item \in Items
    <3>1. "KEY" \in ItemTypes
      BY DEF ItemTypes
    <3>2. Item("KEY", f) \in Items /\ NoItem \in Items
      BY <3>1, QuadTyped
    <3> QED BY <3>2
  <2> QED BY <1>1, <2>1, <2>2, QuadTyped
<1>3. /\ Plain(q)
      /\ Rise(q) = IF op \in Opening THEN 1 ELSE IF op \in Closing THEN -1 ELSE 0
  <2>1. q.op = op /\ q.src1 = item /\ q.src2 = NoItem
    BY <1>1 DEF Quad
  <2>2. NoItem.type = "NO" /\ Item("KEY", f).type = "KEY"
    BY DEF NoItem, Item
  <2>3. q.op \notin Evaluates \cup {"ARG", "MOVE"} /\ q.op # "PARAM"
    BY <2>1 DEF Evaluates, Opening, Closing
  <2>4. ~Temporary(q.src1) /\ ~Temporary(q.src2) /\ q.src2.type \in {"NO", "COUNT"}
    BY <2>1, <2>2 DEF Temporary
  <2>5. Rise(q) = IF op \in Opening THEN 1 ELSE IF op \in Closing THEN -1 ELSE 0
    BY <2>1 DEF Rise, Opening, Closing
  <2> QED BY <2>3, <2>4, <2>5 DEF Plain
<1>4. qs = <<q>>
  BY <1>1
<1>5. qs \in Seq(Quadruple) /\ Len(qs) = 1 /\ qs[1] = q
  BY <1>2, <1>4, OneOf
<1>6. qs # <<>> /\ \A x \in 1..Len(qs) : Plain(qs[x])
  BY <1>3, <1>5
<1> QED BY <1>3, <1>5, <1>6 DEF RiseOf

LEMMA InvDeclareLabel ==
    ASSUME Parsed, VisitInv, DeclareLabel
    PROVE  VisitInv'
<1>1. PICK n, f, none, qs :
         /\ n = Node /\ f = FirstNode /\ none = <<>>
         /\ qs = <<Quad("SCOPE", n, NoItem, Item("KEY", f), NoItem)>>
  OBVIOUS
<1>2. /\ pc = "visit" /\ stack # <<>> /\ TypeAt(n) = "DECL_LAB" /\ TypeAt(f) = "ID"
      /\ TypeAt(n - 1) # "INIT_LAB"
  BY <1>1 DEF DeclareLabel, Declaring, Visiting
<1>3. n \in 1..Len(nodes) /\ f \in 1..n /\ Len(nodes) \in Nat
  BY <1>1, <1>2, VisitRoom
<1>4. f \in Names /\ f \in 1..Len(nodes)
  BY <1>2, <1>3 DEF Names
<1>5. /\ qs \in Seq(Quadruple) /\ Len(qs) = 1 /\ \A x \in 1..Len(qs) : Plain(qs[x])
      /\ RiseOf(qs) = 0
  BY <1>1, <1>3, <1>4, ScopeQuads DEF Opening, Closing
<1>6. Balance(n) = 0
  BY <1>2, <1>3, Balances
<1>7. offset_entry' \in 0..Len(nodes) /\ count_param' \in Nat
  BY <1>2, OffsetTyped DEF DeclareLabel, VisitInv
<1>8. n \in Writers(nodes)
  BY <1>2, <1>3, WritersAre
<1>9. none = <<>> /\ Len(none) = 0 /\ Len(qs) <= 1
  BY <1>1, <1>5
<1>10. Descend /\ DeclareName(none, qs)
  BY <1>1 DEF DeclareLabel, ScopeQuad, Key
<1>11. Declares(none, qs)
  BY <1>1, <1>2, <1>4, <1>5, <1>6, <1>7, <1>8, <1>9, <1>10 DEF Declares
<1> QED BY <1>11, Declared

LEMMA InvDeclarePrototype ==
    ASSUME Parsed, VisitInv, DeclarePrototype
    PROVE  VisitInv'
<1>1. PICK n, f, none, qs :
         /\ n = Node /\ f = FirstNode /\ none = <<>>
         /\ qs = <<Quad("PAL", n, NoItem, Item("KEY", f), NoItem)>>
  OBVIOUS
<1>2. /\ pc = "visit" /\ stack # <<>> /\ TypeAt(n) = "DECL_PAL" /\ TypeAt(f) = "ID"
      /\ TypeAt(n - 1) # "INIT_PAL"
  BY <1>1 DEF DeclarePrototype, Declaring, Visiting
<1>3. n \in 1..Len(nodes) /\ f \in 1..n /\ Len(nodes) \in Nat
  BY <1>1, <1>2, VisitRoom
<1>4. f \in Names /\ f \in 1..Len(nodes)
  BY <1>2, <1>3 DEF Names
<1>5. /\ qs \in Seq(Quadruple) /\ Len(qs) = 1 /\ \A x \in 1..Len(qs) : Plain(qs[x])
      /\ RiseOf(qs) = 0
  BY <1>1, <1>3, <1>4, ScopeQuads, SMTT(20) DEF Opening, Closing
<1>6. Balance(n) = 0
  BY <1>2, <1>3, Balances
<1>7. offset_entry' \in 0..Len(nodes) /\ count_param' \in Nat
  BY DEF DeclarePrototype, VisitInv
<1>8. n \in Writers(nodes)
  BY <1>2, <1>3, WritersAre
<1>9. none = <<>> /\ Len(none) = 0 /\ Len(qs) <= 1
  BY <1>1, <1>5
<1>10. Descend /\ DeclareName(none, qs)
  BY <1>1 DEF DeclarePrototype, ScopeQuad, Key
<1>11. Declares(none, qs)
  BY <1>1, <1>2, <1>4, <1>5, <1>6, <1>7, <1>8, <1>9, <1>10 DEF Declares
<1> QED BY <1>11, Declared

LEMMA InvDeclareScope ==
    ASSUME Parsed, VisitInv, DeclareScope
    PROVE  VisitInv'
<1>1. PICK n, f, scopes, op, qs :
         /\ n = Node /\ f = FirstNode /\ scopes = <<Len(entries) + 1>>
         /\ op = IF TypeAt(Node) = "DECL_LAB" THEN "SCOPE_START_LAB" ELSE "SCOPE_START_PAL"
         /\ qs = <<Quad(op, n, NoItem, Item("KEY", f), NoItem)>>
  OBVIOUS
<1>2. /\ pc = "visit" /\ stack # <<>> /\ TypeAt(f) = "ID"
      /\ \/ TypeAt(n) = "DECL_LAB" /\ TypeAt(n - 1) = "INIT_LAB"
         \/ TypeAt(n) = "DECL_PAL" /\ TypeAt(n - 1) = "INIT_PAL"
  BY <1>1 DEF DeclareScope, Declaring, Visiting
<1>3. n \in 1..Len(nodes) /\ f \in 1..n /\ Len(nodes) \in Nat
  BY <1>1, <1>2, VisitRoom
<1>4. f \in Names /\ f \in 1..Len(nodes)
  BY <1>2, <1>3 DEF Names
<1>5. /\ qs \in Seq(Quadruple) /\ Len(qs) = 1 /\ \A x \in 1..Len(qs) : Plain(qs[x])
      /\ RiseOf(qs) = 1
  <2>1. op \in Opening
    BY <1>1 DEF Opening
  <2> QED BY <1>1, <1>3, <1>4, <2>1, ScopeQuads
<1>6. Balance(n) = 1
  BY <1>2, <1>3, Balances
<1>7. offset_entry' \in 0..Len(nodes) /\ count_param' \in Nat
  BY <1>2, OffsetTyped DEF DeclareScope, VisitInv
<1>8. n \in Writers(nodes)
  BY <1>2, <1>3, WritersAre
<1>9. Len(scopes) = 1 /\ Len(qs) <= 1
  BY <1>1, <1>5
<1>10. Descend /\ DeclareName(scopes, qs)
  BY <1>1 DEF DeclareScope, ScopeQuad, Key
<1>11. Declares(scopes, qs)
  BY <1>1, <1>2, <1>4, <1>5, <1>6, <1>7, <1>8, <1>9, <1>10 DEF Declares
<1> QED BY <1>11, Declared

LEMMA InvDeclareParameter ==
    ASSUME Parsed, VisitInv, DeclareParameter
    PROVE  VisitInv'
<1>1. PICK n, none, to, count, q, qs :
         /\ n = Node /\ none = <<>>
         /\ to = Item("KEY", n) /\ count = Item("COUNT", count_param)
         /\ q = Quad("PARAM", n, to, NoItem, count) /\ qs = <<q>>
  OBVIOUS
<1>2. pc = "visit" /\ stack # <<>> /\ TypeAt(n) = "PARAM" /\ count_param \in Nat
  BY <1>1 DEF DeclareParameter, Visiting, VisitInv
<1>3. n \in 1..Len(nodes) /\ Len(nodes) \in Nat /\ n \in Nat
  BY <1>1, <1>2, VisitRoom
<1>4. FirstNode = n /\ n \in Names
  <2>1. nodes[n].arity = 0
    BY <1>2, <1>3, Neighbours DEF Childless
  <2>2. Whole
    BY DEF VisitInv
  <2> QED BY <1>1, <1>2, <1>3, <2>1, <2>2, Starts DEF FirstNode, Names
<1>5. q \in Quadruple
  <2>1. "KEY" \in ItemTypes /\ "PARAM" \in Ops
    BY DEF ItemTypes, Ops
  <2>2. to \in Items /\ count \in Items /\ NoItem \in Items
    BY <1>1, <1>2, <1>3, <2>1, QuadTyped
  <2> QED BY <1>1, <1>3, <2>1, <2>2, QuadTyped
<1>6. Plain(q) /\ Rise(q) = 0
  <2>1. q.op = "PARAM" /\ q.src1.type = "NO" /\ q.src2.type = "COUNT" /\ q.dst.type = "KEY"
    BY <1>1 DEF Quad, Item, NoItem
  <2> QED BY <2>1 DEF Plain, Rise, Temporary, Evaluates, Opening, Closing
<1>7. qs \in Seq(Quadruple) /\ Len(qs) = 1 /\ qs[1] = q /\ qs # <<>>
  BY <1>1, <1>5, OneOf
<1>8. RiseOf(qs) = 0 /\ Balance(n) = 0
  BY <1>2, <1>3, <1>6, <1>7, Balances DEF RiseOf
<1>9. n \in Writers(nodes)
  BY <1>2, <1>3, WritersAre
<1>10. /\ none = <<>> /\ Len(none) = 0 /\ Len(qs) <= 1
       /\ \A x \in 1..Len(qs) : Plain(qs[x])
  BY <1>1, <1>6, <1>7
<1>11. offset_entry' \in 0..Len(nodes) /\ count_param' \in Nat
  BY <1>2 DEF DeclareParameter, VisitInv
<1>12. Descend /\ DeclareName(none, qs)
  BY <1>1, <1>4 DEF DeclareParameter, Key
<1>13. Declares(none, qs)
  BY <1>1, <1>2, <1>4, <1>7, <1>8, <1>9, <1>10, <1>11, <1>12 DEF Declares
<1> QED BY <1>13, Declared

LEMMA InvOpenScope ==
    ASSUME Parsed, VisitInv, OpenScope
    PROVE  VisitInv'
<1>1. PICK n, scopes, zero, qs :
         /\ n = Node /\ scopes = <<Len(entries)>> /\ zero = <<0>>
         /\ qs = <<Quad("SCOPE_START", n, NoItem, NoItem, NoItem)>>
  OBVIOUS
<1>2. /\ pc = "visit" /\ stack # <<>> /\ TypeAt(n) = "SCOPE"
      /\ TypeAt(n + 1) \notin {"INIT_LAB", "INIT_PAL"}
  BY <1>1 DEF OpenScope, AnonymousScope, Visiting
<1>3. n \in 1..Len(nodes) /\ Len(nodes) \in Nat /\ Len(entries) \in Nat
  BY <1>1, <1>2, VisitRoom
<1>4. /\ qs \in Seq(Quadruple) /\ Len(qs) = 1 /\ \A x \in 1..Len(qs) : Plain(qs[x])
      /\ RiseOf(qs) = 1
  BY <1>1, <1>3, ScopeQuads DEF Opening
<1>5. Balance(n) = 1
  BY <1>2, <1>3, Balances
<1>6. n \in Writers(nodes)
  BY <1>2, <1>3, WritersAre
<1>7. Short(scopes, qs) /\ Short(zero, zero)
  <2>1. Len(scopes) = 1 /\ Len(zero) = 1
    BY <1>1
  <2> QED BY <1>1, <1>4, <1>6, <2>1 DEF Short
<1>8. /\ ~Full(watermarks, zero, WatermarkRoom) /\ ~Full(quads, zero, length)
  BY <1>2, <1>7, NothingLost
<1>9. /\ Pushed(watermarks, scopes, WatermarkRoom) = watermarks \o scopes
      /\ Pushed(quads, qs, length) = quads \o qs
  BY <1>2, <1>7, NothingLost
<1>10. /\ watermarks' = watermarks \o scopes /\ quads' = quads \o qs /\ ~dropped'
       /\ entries' = entries /\ Descend
  BY <1>1, <1>8, <1>9 DEF OpenScope, VisitInv
<1>11. entries \in Seq(Names) /\ Restorable(entries, watermarks) /\ watermarks \in Seq(Nat)
  BY DEF VisitInv, Typed, Restorable
<1>12. Restorable(entries', watermarks') /\ Len(watermarks') = Len(watermarks) + 1
  <2>1. Restorable(entries, watermarks \o <<Len(entries)>>)
    BY <1>11, RestorablePush
  <2>2. scopes \in Seq(Nat) /\ Len(scopes) = 1
    BY <1>1, <1>3, OneOf
  <2>3. Len(watermarks \o scopes) = Len(watermarks) + Len(scopes)
    BY <1>11, <2>2, Joined
  <2> QED BY <1>1, <1>10, <2>1, <2>2, <2>3
<1>13. offset_entry' \in 0..Len(nodes) /\ count_param' \in Nat
  BY <1>2, OffsetTyped DEF OpenScope, VisitInv
<1>14. /\ Len(entries') <= Len(entries) + 1 /\ Len(watermarks') <= Len(watermarks) + 1
       /\ Len(qs) <= 1
  <2>1. Len(watermarks) \in Nat
    BY <1>11
  <2> QED BY <1>3, <1>4, <1>10, <1>12, <2>1
<1>15. Visits(qs)
  BY <1>1, <1>2, <1>4, <1>5, <1>6, <1>10, <1>11, <1>12, <1>13, <1>14 DEF Visits
<1> QED BY <1>15, Visited

LEMMA InvCloseScope ==
    ASSUME Parsed, VisitInv, CloseScope
    PROVE  VisitInv'
<1>1. PICK n, none, op, qs :
         /\ n = Node /\ none = <<>> /\ op = EndOp
         /\ qs = <<Quad(op, n, NoItem, NoItem, NoItem)>>
  OBVIOUS
<1>2. pc = "visit" /\ stack # <<>> /\ TypeAt(n) = "SCOPE_END" /\ watermarks # <<>>
  BY <1>1 DEF CloseScope, Visiting
<1>3. n \in 1..Len(nodes) /\ Len(nodes) \in Nat /\ Len(entries) \in Nat
  BY <1>1, <1>2, VisitRoom
<1>4. /\ qs \in Seq(Quadruple) /\ Len(qs) = 1 /\ \A x \in 1..Len(qs) : Plain(qs[x])
      /\ RiseOf(qs) = -1
  <2>1. op \in Closing /\ op \notin Opening
    <3>1. op \in Closing
      BY <1>1 DEF EndOp, Closing
    <3> QED BY <3>1 DEF Closing, Opening
  <2> QED BY <1>1, <1>3, <2>1, ScopeQuads
<1>5. Balance(n) = -1
  BY <1>2, <1>3, Balances
<1>6. n \in Writers(nodes)
  BY <1>2, <1>3, WritersAre
<1>7. Short(none, qs)
  <2>1. Len(none) = 0
    BY <1>1
  <2> QED BY <1>1, <1>4, <1>6, <2>1 DEF Short
<1>8. ~Full(quads, qs, length) /\ Pushed(quads, qs, length) = quads \o qs
  BY <1>2, <1>7, NothingLost
<1>9. /\ watermarks' = Rest(watermarks) /\ quads' = quads \o qs /\ ~dropped'
      /\ entries' = SubSeq(entries, 1, Top(watermarks)) /\ Descend
  BY <1>1, <1>8 DEF CloseScope, VisitInv, Emit, Restored
<1>10. entries \in Seq(Names) /\ Restorable(entries, watermarks) /\ watermarks \in Seq(Nat)
  BY DEF VisitInv, Typed, Restorable
<1>11. PICK ff : ff = SubSeq(entries, 1, Top(watermarks))
  OBVIOUS
<1>12. ff \in Seq(Names) /\ Len(ff) <= Len(entries) /\ Restorable(ff, Rest(watermarks))
  BY <1>2, <1>10, <1>11, RestorablePop
<1>13. entries' \in Seq(Names) /\ Len(entries') <= Len(entries) /\ Restorable(entries', watermarks')
  BY <1>9, <1>11, <1>12
<1>14. Len(watermarks') = Len(watermarks) - 1 /\ Len(watermarks) \in Nat
  BY <1>2, <1>9, <1>10, RestOf
<1>15. /\ Len(entries') <= Len(entries) + 1 /\ Len(watermarks') <= Len(watermarks) + 1
       /\ Len(watermarks') = Len(watermarks) + RiseOf(qs) /\ Len(qs) <= 1
  <2>1. Len(entries') \in Nat
    BY <1>13
  <2> QED BY <1>3, <1>4, <1>13, <1>14, <2>1
<1>16. offset_entry' \in 0..Len(nodes) /\ count_param' \in Nat
  BY DEF CloseScope, VisitInv
<1>17. Visits(qs)
  BY <1>1, <1>2, <1>4, <1>5, <1>6, <1>9, <1>13, <1>15, <1>16 DEF Visits
<1> QED BY <1>17, Visited

LEMMA InvPassOver ==
    ASSUME Parsed, VisitInv, PassOver
    PROVE  VisitInv'
<1>1. PICK n, none : n = Node /\ none = <<>>
  OBVIOUS
<1>2. /\ pc = "visit" /\ stack # <<>> /\ TypeAt(n) # "SCOPE_END" /\ Descend
      /\ TypeAt(n) \in Declarations => TypeAt(start_subtree[n]) # "ID"
      /\ ~(TypeAt(n) = "SCOPE" /\ TypeAt(n + 1) \notin {"INIT_LAB", "INIT_PAL"})
  BY <1>1 DEF PassOver, AnonymousScope, Visiting, FirstNode
<1>3. n \in 1..Len(nodes) /\ Len(nodes) \in Nat
  BY <1>1, <1>2, VisitRoom
<1>4. /\ entries' = entries /\ watermarks' = watermarks /\ quads' = quads
      /\ offset_entry' = offset_entry /\ count_param' = count_param /\ dropped' = dropped
  BY DEF PassOver
<1>5. RiseOf(none) = 0 /\ none \in Seq(Quadruple) /\ Len(none) = 0
  BY <1>1 DEF RiseOf
<1>6. Headed => Balance(n) = 0
  <2> SUFFICES ASSUME Headed PROVE Balance(n) = 0
    OBVIOUS
  <2>1. Whole
    BY DEF VisitInv
  <2>2. TypeAt(n) \notin Declarations
    BY <1>2, <1>3, <2>1, Starts DEF Headed
  <2> QED BY <1>2, <1>3, <2>2, Balances
<1>7. entries \in Seq(Names) /\ Restorable(entries, watermarks) /\ watermarks \in Seq(Nat)
  BY DEF VisitInv, Typed, Restorable
<1>8. /\ Len(entries) <= Len(entries) + 1 /\ Len(watermarks) <= Len(watermarks) + 1
      /\ Len(watermarks) = Len(watermarks) + 0
  <2>1. Len(entries) \in Nat /\ Len(watermarks) \in Nat
    BY <1>7
  <2> QED BY <2>1
<1>9. quads = quads \o none
  <2>1. quads \in Seq(Quadruple)
    BY DEF VisitInv, Typed
  <2> QED BY <1>1, <2>1
<1>10. offset_entry \in 0..Len(nodes) /\ count_param \in Nat /\ ~dropped
  BY DEF VisitInv
<1>11. Len(none) <= (IF Node \in Writers(nodes) THEN 1 ELSE 0) /\ \A x \in 1..Len(none) : Plain(none[x])
  BY <1>5
<1>12. Visits(none)
  BY <1>1, <1>2, <1>4, <1>5, <1>6, <1>7, <1>8, <1>9, <1>10, <1>11 DEF Visits
<1> QED BY <1>12, Visited

-----------------------------------------------------------------------------
(* The roots of the forest.                                                  *)

LEMMA RootsOf ==
    ASSUME Parsed, Whole, NEW s, Complete(start_subtree, s), nodes # <<>>, NEW ns,
           ns = Siblings(Len(nodes), Len(nodes))
    PROVE  Apart(ns) /\ Covers(1..Len(nodes), ns) /\ Open(ns) = {}
<1>1. PICK N, L, R : N = Len(nodes) /\ L = Len(s) /\ R = Roots(start_subtree, s, L)
  OBVIOUS
<1>2. N \in Nat /\ N # 0 /\ nodes \in Seq([type : ForestTypes, arity : Nat, token : Nat])
  <2>1. nodes \in Seq([type : ForestTypes, arity : Nat, token : Nat])
    BY DEF Parsed, WellShaped, IsForest
  <2> QED BY <1>1, <2>1, EmptySeq
<1>3. Len(start_subtree) = N /\ start_subtree # <<>> /\ s \in Seq(1..N)
  BY <1>1, <1>2 DEF Whole, Complete
<1>4. L \in Nat \ {0} /\ s[1] = 1
  <2>1. s # <<>> /\ s[1] = 1
    BY <1>3 DEF Complete
  <2> QED BY <1>1, <1>3, <2>1, EmptySeq
<1>5. Tiles(start_subtree, N, L, 1, R)
  <2>1. L \in 1..Len(s) /\ Len(s) - L + 1 = 1
    BY <1>1, <1>4
  <2>2. Measured(start_subtree)
    BY DEF Whole
  <2>3. PICK r : r = s[Len(s) - L + 1]
    OBVIOUS
  <2>4. Tiles(start_subtree, Len(start_subtree), L, r, Roots(start_subtree, s, L))
    BY <2>1, <2>2, <2>3, CompleteTiles
  <2>5. r = 1
    BY <1>4, <2>1, <2>3
  <2> QED BY <1>1, <1>3, <2>4, <2>5
<1>6. /\ R \in [1..L -> 1..N] /\ R[1] = N
      /\ \A c \in 1..(L - 1) : R[c + 1] = start_subtree[R[c]] - 1
      /\ \A b, c \in 1..L : b < c => R[c] < start_subtree[R[b]]
      /\ start_subtree[R[L]] = 1
  BY <1>5 DEF Tiles
<1>7. \A c \in 1..L : R[c] \in 1..N /\ start_subtree[R[c]] \in 1..R[c]
  <2>1. \A c \in 1..L : R[c] \in 1..N
    BY <1>6
  <2>2. \A n \in 1..N : start_subtree[n] \in 1..n
    BY <1>1, Starts
  <2> QED BY <2>1, <2>2
<1>8. PICK f : f = [c \in 1..N |-> IF c <= L THEN R[c] ELSE 0]
  OBVIOUS
<1>9. f \in [1..N -> Nat] /\ \A c \in 1..N : f[c] = IF c <= L THEN R[c] ELSE 0
  <2>1. \A c \in 1..N : c <= L => c \in 1..L
    BY <1>4
  <2>2. \A c \in 1..N : (IF c <= L THEN R[c] ELSE 0) \in Nat
    BY <1>7, <2>1
  <2> QED BY <1>8, <2>2
<1>10. ASSUME NEW c \in 1..N
       PROVE  f[c] = IF c = 1 THEN N ELSE Before(f[c - 1])
  <2>1. CASE c = 1
    <3>1. c <= L
      BY <1>4, <2>1
    <3> QED BY <1>6, <1>9, <2>1, <3>1
  <2>2. CASE c # 1
    <3>1. c - 1 \in 1..N /\ c \in Nat
      BY <1>2, <2>2
    <3>2. CASE c <= L
      <4>1. c - 1 \in 1..(L - 1) /\ c - 1 \in 1..L /\ c - 1 + 1 = c /\ c - 1 <= L
        BY <1>4, <2>2, <3>1, <3>2
      <4>2. f[c] = R[c] /\ f[c - 1] = R[c - 1] /\ R[c] = start_subtree[R[c - 1]] - 1 /\ R[c - 1] # 0
        BY <1>6, <1>7, <1>9, <3>1, <3>2, <4>1
      <4> QED BY <2>2, <4>2 DEF Before
    <3>3. CASE c = L + 1
      <4>1. c - 1 = L /\ L \in 1..L /\ ~(c <= L) /\ L <= L
        BY <1>4, <3>3
      <4>2. f[c] = 0 /\ f[c - 1] = R[L] /\ R[L] # 0 /\ start_subtree[R[L]] - 1 = 0
        BY <1>6, <1>7, <1>9, <3>1, <4>1
      <4> QED BY <2>2, <4>2 DEF Before
    <3>4. CASE c > L + 1
      <4>1. ~(c <= L) /\ ~(c - 1 <= L)
        BY <1>4, <3>1, <3>4
      <4>2. f[c] = 0 /\ f[c - 1] = 0
        BY <1>9, <3>1, <4>1
      <4> QED BY <2>2, <4>2 DEF Before
    <3>5. c <= L \/ c = L + 1 \/ c > L + 1
      BY <1>4, <3>1
    <3> QED BY <3>2, <3>3, <3>4, <3>5
  <2> QED BY <2>1, <2>2
<1>11. ns = [c \in {d \in 1..N : f[d] > 0} |-> f[c]]
  BY <1>1, <1>2, <1>9, <1>10, SiblingsAre
<1>12. PICK M : M = IF L <= N THEN L ELSE N
  OBVIOUS
<1>13. /\ M \in Nat /\ M # 0
       /\ \A c \in 1..M : c \in 1..N /\ c \in 1..L /\ c <= L
       /\ \A c \in 1..N : c <= L => c \in 1..M
  BY <1>2, <1>4, <1>12
<1>14. {d \in 1..N : f[d] > 0} = 1..M
  <2>1. \A d \in 1..M : f[d] > 0 /\ d \in 1..N
    BY <1>7, <1>9, <1>13
  <2>2. \A d \in 1..N : f[d] > 0 => d \in 1..M
    BY <1>9, <1>13
  <2> QED BY <2>1, <2>2
<1>15. ns \in Seq(1..N) /\ Len(ns) = M /\ \A c \in 1..M : ns[c] = R[c]
  <2>1. ns = [c \in 1..M |-> f[c]] /\ \A c \in 1..M : f[c] = R[c] /\ R[c] \in 1..N
    BY <1>7, <1>9, <1>11, <1>13, <1>14
  <2>2. ns \in [1..M -> 1..N] /\ \A c \in 1..M : ns[c] = R[c]
    BY <2>1
  <2> QED BY <1>13, <2>2, FunctionSeq
<1>16. Apart(ns)
  BY <1>1, <1>6, <1>13, <1>15 DEF Apart
<1>17. Covers(1..N, ns)
  <2>1. ASSUME NEW c \in 1..M PROVE start_subtree[ns[c]]..ns[c] \subseteq 1..N
    <3>1. R[c] \in 1..N /\ start_subtree[R[c]] \in 1..R[c]
      BY <1>7, <1>13
    <3>2. start_subtree[R[c]]..R[c] \subseteq 1..N
      BY <1>2, <3>1
    <3> QED BY <1>15, <3>2
  <2> QED BY <1>1, <1>15, <2>1 DEF Covers
<1>18. ASSUME NEW c \in 1..M PROVE ~Ends(ns[c])
  <2>1. ns[c] = R[c] /\ R[c] \in 1..N /\ R[c] \in Int
    BY <1>7, <1>13, <1>15
  <2>2. SUFFICES ASSUME Ends(R[c]) PROVE FALSE
    BY <2>1
  <2>3. R[c] + 1 \in 1..N /\ nodes[R[c] + 1].arity > 0
    BY <1>1, <2>1, <2>2, EndsNext
  <2>4. CASE c = 1
    BY <1>2, <1>6, <2>3, <2>4
  <2>5. CASE c # 1
    <3>1. c - 1 \in 1..(L - 1) /\ c - 1 \in 1..L /\ c - 1 + 1 = c
      BY <1>4, <1>13, <2>5
    <3>2. R[c] = start_subtree[R[c - 1]] - 1 /\ R[c - 1] \in 1..N
          /\ start_subtree[R[c - 1]] \in 1..R[c - 1]
      BY <1>6, <1>7, <3>1
    <3>3. R[c] + 1 = start_subtree[R[c - 1]]
      BY <1>2, <2>1, <3>2
    <3>4. nodes[start_subtree[R[c - 1]]].arity = 0
      BY <1>1, <3>2, Starts
    <3> QED BY <2>3, <3>3, <3>4
  <2> QED BY <2>4, <2>5
<1>19. Open(ns) = {}
  BY <1>15, <1>18 DEF Open
<1> QED BY <1>1, <1>16, <1>17, <1>19

LEMMA InvStartVisit ==
    ASSUME Parsed, MeasureInv, StartVisit
    PROVE  VisitInv'
<1>1. PICK N, U, ns : N = Len(nodes) /\ U = 1..N /\ ns = Siblings(N, N)
  OBVIOUS
<1>2. /\ nodes' = nodes /\ length' = length /\ start_subtree' = start_subtree /\ stack' = ns
      /\ entries' = entries /\ quads' = quads /\ operands' = operands /\ watermarks' = <<0>>
      /\ offset_entry' = offset_entry /\ count_param' = count_param /\ dropped' = dropped
      /\ pc' = "visit"
  BY <1>1 DEF StartVisit, input, expression
<1>3. /\ entries = <<>> /\ watermarks = <<>> /\ quads = <<>> /\ operands = <<>>
      /\ offset_entry = 0 /\ count_param = 0 /\ ~dropped
  BY DEF MeasureInv
<1>4. Whole /\ nodes # <<>> /\ Complete(start_subtree, stack)
  BY DEF Whole, MeasureInv, StartVisit
<1>5. Apart(ns) /\ Covers(U, ns) /\ Open(ns) = {}
  BY <1>1, <1>4, RootsOf
<1>6. N \in Nat /\ length \in Nat
  BY <1>1, NodesTyped
<1>7. Typed(entries', quads', operands')
  BY <1>2, <1>3, EmptySeq DEF Typed
<1>8. Restorable(entries', watermarks')
  <2>1. <<0>> \in Seq(Nat) /\ Len(<<0>>) = 1 /\ <<0>>[1] = 0
    BY OneOf
  <2>2. Len(entries') = 0
    BY <1>2, <1>3
  <2> QED BY <1>2, <2>1, <2>2 DEF Restorable
<1>9. Nested(ns, watermarks', quads')
  <2>1. PICK d : d = [p \in 0..0 |-> 0]
    OBVIOUS
  <2>2. Len(quads') = 0 /\ Len(watermarks') = 1
    BY <1>2, <1>3
  <2>3. d \in [0..Len(quads') -> Nat] /\ d[0] = 0 /\ 0 + 1 = 1
    BY <2>1, <2>2
  <2>4. Depths(quads', d) /\ d[Len(quads')] + 1 = Len(watermarks')
    BY <2>2, <2>3 DEF Depths
  <2>5. Len(watermarks') = Cardinality(Open(ns)) + 1
    BY <1>5, <2>2, FS_EmptySet
  <2> QED BY <2>4, <2>5 DEF Nested
<1>10. Room(U, entries', watermarks', quads', operands')
  <2>1. Cardinality(U) = N
    <3>1. 1 \in Int /\ N \in Int
      BY <1>6
    <3>2. Cardinality(1..N) = IF 1 > N THEN 0 ELSE N - 1 + 1
      BY <3>1, FS_Interval
    <3> QED BY <1>1, <1>6, <3>2
  <2>2. Weight(U) <= length
    <3>1. Writers(nodes) \subseteq U /\ Callees(nodes) \subseteq U
      BY <1>1, NodesTyped DEF Writers, Callees
    <3>2. U \cap Writers(nodes) = Writers(nodes) /\ U \cap Callees(nodes) = Callees(nodes)
      BY <3>1
    <3> QED BY <3>2 DEF Weight, Parsed, WellShaped, HasRoom
  <2>3. /\ Len(entries') = 0 /\ Len(watermarks') = 1 /\ Len(quads') = 0 /\ Len(operands') = 0
    BY <1>2, <1>3
  <2>4. Weight(U) \in Nat
    <3>1. N \in U
      <4>1. nodes \in Seq([type : ForestTypes, arity : Nat, token : Nat])
        BY DEF Parsed, WellShaped, IsForest
      <4>2. N # 0
        BY <1>1, <1>4, <4>1, EmptySeq
      <4> QED BY <1>1, <1>6, <4>2
    <3> QED BY <1>1, <3>1, WeightLeft
  <2>5. 0 + N <= N /\ 1 + N <= N + 1 /\ 0 + 0 + Weight(U) <= length
    BY <1>6, <2>2, <2>4
  <2> QED BY <1>1, <2>1, <2>3, <2>5 DEF Room
<1>11. Feeding(U, quads', operands')
  <2>1. Len(quads') = 0 /\ Len(operands') = 0
    BY <1>2, <1>3
  <2> QED BY <2>1 DEF Feeding
<1>12. offset_entry' \in 0..Len(nodes) /\ count_param' \in Nat /\ ~dropped'
  BY <1>1, <1>2, <1>3, <1>6
<1>13. pc' # "expression" /\ pc' # "done"
  BY <1>2
<1> QED BY <1>2, <1>4, <1>5, <1>7, <1>8, <1>9, <1>10, <1>11, <1>12, <1>13, VisitKept

-----------------------------------------------------------------------------
(* Reading an expression.                                                    *)

LEMMA InvStartExpression ==
    ASSUME Parsed, VisitInv, StartExpression
    PROVE  VisitInv'
<1>1. PICK n, f, N, L, to, ns :
         /\ n = Node /\ f = FirstNode /\ N = Len(nodes) /\ L = Len(stack) /\ ns = Rest(stack)
         /\ to = IF TypeAt(Node + 1) = "INIT_VAR" THEN start_subtree[Node + 2] ELSE 0
  OBVIOUS
<1>2. /\ nodes' = nodes /\ length' = length /\ start_subtree' = start_subtree /\ stack' = ns
      /\ entries' = entries /\ quads' = quads /\ operands' = operands /\ watermarks' = watermarks
      /\ offset_entry' = offset_entry /\ count_param' = count_param /\ dropped' = dropped
      /\ pc' = "expression" /\ i' = f /\ end' = n /\ dst' = to
  BY <1>1 DEF StartExpression, input
<1>3. pc = "visit" /\ stack # <<>> /\ TypeAt(n) = "EXP"
  BY <1>1 DEF StartExpression, Visiting
<1>4. n \in 1..N /\ f \in 1..n /\ f = start_subtree[n] /\ N \in Nat
  BY <1>1, <1>3, VisitRoom DEF FirstNode
<1>5. Whole /\ Apart(stack)
  BY DEF VisitInv
<1>6. /\ L \in Nat \ {0} /\ n = stack[L] /\ ns \in Seq(1..N) /\ Len(ns) = L - 1
      /\ \A x \in 1..(L - 1) : ns[x] = stack[x]
  <2>1. stack \in Seq(1..N)
    BY <1>1, <1>5 DEF Apart
  <2> QED BY <1>1, <1>3, <2>1, RestOf DEF Node
<1>7. \A x \in 1..(L - 1) : x \in 1..L /\ L \in 1..L /\ x < L
  BY <1>6
<1>8. Apart(ns)
  BY <1>1, <1>5, <1>6, <1>7 DEF Apart
<1>9. Expression(ns, f, n, to)
  <2>1. \A x \in 1..Len(ns) : n < start_subtree[ns[x]]
    BY <1>1, <1>5, <1>6, <1>7 DEF Apart
  <2>2. to \in 0..N /\ (to # 0 /\ Headed => TypeAt(to) = "ID")
    <3>1. CASE TypeAt(n + 1) # "INIT_VAR"
      <4>1. to = 0
        BY <1>1, <3>1
      <4> QED BY <1>4, <4>1
    <3>2. CASE TypeAt(n + 1) = "INIT_VAR"
      <4>1. n + 1 \in Int /\ (n + 1) + 1 = n + 2
        BY <1>4
      <4>2. TypeAt(n + 2) = "DECL_VAR"
        <5>1. TypeAt((n + 1) + 1) = "DECL_VAR"
          BY <3>2, <4>1, Neighbours
        <5> QED BY <4>1, <5>1
      <4>3. n + 2 \in 1..N
        <5>1. n + 2 \in Int
          BY <1>4
        <5> QED BY <1>1, <4>2, <5>1, Neighbours
      <4>4. to = start_subtree[n + 2] /\ start_subtree[n + 2] \in 1..(n + 2)
        BY <1>1, <1>5, <3>2, <4>3, Starts
      <4>5. to \in 0..N
        BY <1>4, <4>3, <4>4
      <4>6. Headed => TypeAt(to) = "ID"
        <5>1. n + 2 \in DOMAIN start_subtree
          BY <1>1, <1>5, <4>3, Starts
        <5> QED BY <4>2, <4>4, <5>1 DEF Headed, Declarations
      <4> QED BY <4>5, <4>6
    <3> QED BY <3>1, <3>2
  <2> QED BY <1>1, <1>3, <1>4, <2>1, <2>2 DEF Expression
<1>10. PICK U : /\ Covers(U, stack)
                /\ Room(U, entries, watermarks, quads, operands)
                /\ Feeding(U, quads, operands)
  BY DEF VisitInv
<1>11. Covers(U, ns) /\ f..n \subseteq U
  BY <1>1, <1>4, <1>6, <1>7, <1>10, SMTT(20) DEF Covers
<1>12. Nested(ns, watermarks, quads)
  <2>1. Open(ns) = Open(stack)
    <3>1. ~Ends(stack[L])
      BY <1>3, <1>6 DEF Ends
    <3>2. \A x \in 1..L : x = L \/ x \in 1..(L - 1)
      BY <1>6
    <3> QED BY <1>1, <1>6, <1>7, <3>1, <3>2 DEF Open
  <2> QED BY <2>1 DEF VisitInv, Nested
<1>13. /\ Typed(entries, quads, operands) /\ offset_entry \in 0..Len(nodes) /\ count_param \in Nat
       /\ Restorable(entries, watermarks) /\ ~dropped
  BY DEF VisitInv
<1>14. pc' # "done"
  BY <1>2
<1> QED BY <1>2, <1>5, <1>8, <1>9, <1>10, <1>11, <1>12, <1>13, <1>14, VisitKept

(* U are the nodes still to be processed, those of the expression being read *)
(* among them. *)
Pending(U) ==
    /\ Covers(U, stack) /\ i..end \subseteq U
    /\ Room(U, entries, watermarks, quads, operands)
    /\ Feeding(U, quads, operands)

(* What the actions that read an expression have in common: quadruples xs    *)
(* that open and close no scope, written when a node is done, or behind the  *)
(* last. *)
Computes(U, V, xs) ==
    /\ UNCHANGED <<nodes, length, start_subtree, stack, entries, watermarks, offset_entry, count_param>>
    /\ \/ pc' = "expression" /\ i < end /\ i' = i + 1 /\ end' = end /\ dst' = dst /\ V = U \ {i}
       \/ pc' = "visit" /\ V = U
    /\ operands' \in Seq(Values)
    /\ xs \in Seq(Quadruple) /\ \A x \in 1..Len(xs) : Rise(xs[x]) = 0
    /\ quads' = quads \o xs
    /\ ~dropped'
    /\ Len(xs) + Len(operands') + Weight(V) <= Len(operands) + Weight(U)
    /\ Feeding(V, quads', operands')

LEMMA ExpressionTyped ==
    ASSUME Parsed, VisitInv, pc = "expression"
    PROVE  /\ Len(nodes) \in Nat /\ end \in 1..Len(nodes) /\ i \in 1..end /\ i \in 1..Len(nodes)
           /\ TypeAt(end) = "EXP" /\ dst \in 0..Len(nodes)
           /\ dst # 0 /\ Headed => TypeAt(dst) = "ID"
           /\ \A x \in 1..Len(stack) : end < start_subtree[stack[x]]
<1>1. Expression(stack, i, end, dst) /\ Len(nodes) \in Nat
  BY NodesTyped DEF VisitInv
<1>2. /\ end \in 1..Len(nodes) /\ i \in 1..end /\ TypeAt(end) = "EXP" /\ dst \in 0..Len(nodes)
      /\ dst # 0 /\ Headed => TypeAt(dst) = "ID"
      /\ \A x \in 1..Len(stack) : end < start_subtree[stack[x]]
  BY <1>1 DEF Expression
<1>3. i \in 1..Len(nodes)
  BY <1>1, <1>2
<1> QED BY <1>1, <1>2, <1>3

LEMMA Computed ==
    ASSUME Parsed, VisitInv, pc = "expression",
           NEW CONSTANT U, Pending(U), NEW CONSTANT V, NEW CONSTANT xs, Computes(U, V, xs)
    PROVE  VisitInv'
<1>1. /\ Len(nodes) \in Nat /\ end \in 1..Len(nodes) /\ i \in 1..end
      /\ TypeAt(end) = "EXP" /\ dst \in 0..Len(nodes)
      /\ dst # 0 /\ Headed => TypeAt(dst) = "ID"
      /\ \A x \in 1..Len(stack) : end < start_subtree[stack[x]]
  BY ExpressionTyped
<1>2. /\ nodes' = nodes /\ length' = length /\ start_subtree' = start_subtree /\ stack' = stack
      /\ entries' = entries /\ watermarks' = watermarks
      /\ offset_entry' = offset_entry /\ count_param' = count_param
  BY DEF Computes
<1>3. /\ Whole /\ Apart(stack) /\ Typed(entries, quads, operands)
      /\ offset_entry \in 0..Len(nodes) /\ count_param \in Nat
      /\ Restorable(entries, watermarks) /\ Nested(stack, watermarks, quads)
  BY DEF VisitInv
<1>4. i \in U /\ i..end \subseteq U /\ U \subseteq 1..Len(nodes)
  <2>1. i \in i..end
    BY <1>1
  <2> QED BY <2>1 DEF Pending, Covers
<1>5. V = U \ {i} \/ V = U
  BY DEF Computes
<1>6. Covers(V, stack')
  <2>1. \A x \in 1..Len(stack) : start_subtree[stack[x]]..stack[x] \subseteq U
    BY DEF Pending, Covers
  <2>2. ASSUME NEW x \in 1..Len(stack) PROVE i \notin start_subtree[stack[x]]..stack[x]
    <3>1. stack[x] \in 1..Len(nodes)
      BY <1>3 DEF Apart
    <3>2. start_subtree[stack[x]] \in 1..stack[x]
      BY <1>3, <3>1, Starts
    <3>3. end < start_subtree[stack[x]]
      BY <1>1
    <3> QED BY <1>1, <3>1, <3>2, <3>3
  <2> QED BY <1>2, <1>4, <1>5, <2>1, <2>2 DEF Covers
<1>7. /\ pc' = "expression" => Expression(stack', i', end', dst')
      /\ pc' = "expression" => i'..end' \subseteq V
  <2> SUFFICES ASSUME pc' = "expression"
               PROVE  Expression(stack', i', end', dst') /\ i'..end' \subseteq V
    OBVIOUS
  <2>1. i < end /\ i' = i + 1 /\ end' = end /\ dst' = dst /\ V = U \ {i}
    BY DEF Computes
  <2>2. i + 1 \in 1..end /\ (i + 1)..end \subseteq (i..end) \ {i}
    BY <1>1, <2>1
  <2>3. Expression(stack, i + 1, end, dst)
    BY <1>1, <2>2 DEF Expression
  <2> QED BY <1>2, <1>4, <2>1, <2>2, <2>3
<1>8. quads \in Seq(Quadruple) /\ operands \in Seq(Values) /\ xs \in Seq(Quadruple)
      /\ quads' = quads \o xs /\ operands' \in Seq(Values)
  BY <1>3 DEF Computes, Typed
<1>9. quads' \in Seq(Quadruple) /\ Len(quads') = Len(quads) + Len(xs)
  BY <1>8, Joined
<1>10. Typed(entries', quads', operands')
  BY <1>2, <1>3, <1>8, <1>9 DEF Typed
<1>11. Nested(stack', watermarks', quads')
  <2> SUFFICES ASSUME Headed
               PROVE  /\ Len(watermarks) = Cardinality(Open(stack)) + 1
                      /\ \E d : Depths(quads', d) /\ d[Len(quads')] + 1 = Len(watermarks)
    BY <1>2 DEF Nested
  <2>1. PICK d : /\ Depths(quads, d) /\ d[Len(quads)] + 1 = Len(watermarks)
                 /\ Len(watermarks) = Cardinality(Open(stack)) + 1
    BY <1>3 DEF Nested
  <2>2. \A x \in 1..Len(xs) : Rise(xs[x]) = 0
    BY DEF Computes
  <2>3. \E e : Depths(quads', e) /\ e[Len(quads')] = d[Len(quads)]
    BY <1>8, <2>1, <2>2, DepthsFlat
  <2> QED BY <2>1, <2>3
<1>12. Room(V, entries', watermarks', quads', operands')
  <2>1. /\ Len(entries) + Cardinality(U) <= Len(nodes)
        /\ Len(watermarks) + Cardinality(U) <= Len(nodes) + 1
        /\ Len(quads) + Len(operands) + Weight(U) <= length
    BY DEF Pending, Room
  <2>2. /\ Cardinality(U) \in Nat /\ Cardinality(U \ {i}) \in Nat
        /\ Cardinality(U \ {i}) = Cardinality(U) - 1
        /\ Weight(U) \in Nat /\ Weight(U \ {i}) \in Nat
    BY <1>4, WeightLeft
  <2>3. /\ Len(entries) \in Nat /\ Len(watermarks) \in Nat /\ Len(quads) \in Nat
        /\ Len(operands) \in Nat /\ Len(xs) \in Nat /\ Len(operands') \in Nat
        /\ Len(nodes) \in Nat /\ length \in Nat
    BY <1>3, <1>8, NodesTyped DEF Typed, Restorable
  <2>4. PICK e, w, q, o, x, p, c, d, N, g, h :
           /\ e = Len(entries) /\ w = Len(watermarks) /\ q = Len(quads) /\ o = Len(operands)
           /\ x = Len(xs) /\ p = Len(operands') /\ c = Cardinality(U) /\ d = Cardinality(V)
           /\ N = Len(nodes) /\ g = Weight(U) /\ h = Weight(V)
    OBVIOUS
  <2>5. /\ e \in Nat /\ w \in Nat /\ q \in Nat /\ o \in Nat /\ x \in Nat /\ p \in Nat
        /\ c \in Nat /\ d \in Nat /\ N \in Nat /\ g \in Nat /\ h \in Nat /\ d <= c
    <3>1. g \in Nat /\ h \in Nat
      BY <1>5, <2>2, <2>4
    <3>2. c \in Nat /\ (d = c \/ (d = c - 1 /\ d \in Nat))
      BY <1>5, <2>2, <2>4
    <3>3. d \in Nat /\ d <= c
      BY <3>2
    <3> QED BY <2>3, <2>4, <3>1, <3>2, <3>3
  <2>6. e + c <= N /\ w + c <= N + 1 /\ q + o + g <= length /\ x + p + h <= o + g
    BY <2>1, <2>4 DEF Computes
  <2>7. e + d <= N /\ w + d <= N + 1 /\ q + x + p + h <= length
    BY <2>3, <2>5, <2>6
  <2> QED BY <1>2, <1>9, <2>4, <2>7 DEF Room
<1>13. Feeding(V, quads', operands') /\ ~dropped' /\ pc' # "done"
  BY DEF Computes
<1> QED BY <1>2, <1>3, <1>6, <1>7, <1>10, <1>11, <1>12, <1>13, VisitKept

(* What may be pushed: an operand for the node, and a quadruple for each of  *)
(* the operands it takes and for itself. *)
LEMMA ExpressionRoom ==
    ASSUME Parsed, VisitInv, pc = "expression", NEW CONSTANT U, Pending(U)
    PROVE  /\ i \in U /\ Len(quads) \in Nat /\ Len(operands) \in Nat /\ length \in Nat
           /\ Weight(U) \in Nat /\ Weight(U \ {i}) \in Nat
           /\ Weight(U \ {i}) = Weight(U) - (IF i \in Writers(nodes) THEN 1 ELSE 0)
                                          - (IF i \in Callees(nodes) THEN 1 ELSE 0)
           /\ Len(quads) + Len(operands) + Weight(U) <= length
<1>1. i \in 1..end /\ end \in 1..Len(nodes) /\ Len(nodes) \in Nat
  BY ExpressionTyped
<1>2. i \in U /\ U \subseteq 1..Len(nodes)
  <2>1. i \in i..end
    BY <1>1
  <2> QED BY <2>1 DEF Pending, Covers
<1>3. Len(quads) \in Nat /\ Len(operands) \in Nat /\ length \in Nat
  BY NodesTyped DEF VisitInv, Typed
<1>4. Len(quads) + Len(operands) + Weight(U) <= length
  BY DEF Pending, Room
<1> QED BY <1>2, <1>3, <1>4, WeightLeft

(* The operands a node takes, and those below. *)
LEMMA TakenOf ==
    ASSUME Parsed, VisitInv, pc = "expression", NEW need, need = Needed, Len(operands) >= need
    PROVE  /\ need \in Nat /\ Len(operands) \in Nat
           /\ Taken \in Seq(Values) /\ Len(Taken) = need /\ DOMAIN Taken = 1..need
           /\ \A x \in 1..need : Taken[x] = operands[Len(operands) - need + x]
                                  /\ Len(operands) - need + x \in 1..Len(operands)
           /\ Left \in Seq(Values) /\ Len(Left) = Len(operands) - need
           /\ \A x \in 1..(Len(operands) - need) : Left[x] = operands[x]
<1>1. PICK L, T : L = Len(operands) /\ T = Taken
  OBVIOUS
<1>2. operands \in Seq(Values) /\ L \in Nat /\ \A x \in 1..L : operands[x] \in Values
  <2>1. operands \in Seq(Values)
    BY DEF VisitInv, Typed
  <2> QED BY <1>1, <2>1, ElementOfSeq
<1>3. need \in Nat /\ L >= need
  <2>1. i \in 1..Len(nodes)
    BY ExpressionTyped
  <2>2. nodes[i].arity \in Nat
    BY <2>1, NodesTyped
  <2> QED BY <1>1, <2>2 DEF Needed
<1>4. PICK m : m = L - need + 1
  OBVIOUS
<1>5. m \in Int /\ L \in Int /\ \A x \in m..L : operands[x] \in Values
  <2>1. m \in Int /\ L \in Int /\ \A x \in m..L : x \in 1..L
    BY <1>2, <1>3, <1>4
  <2> QED BY <1>2, <2>1
<1>6. /\ SubSeq(operands, m, L) \in Seq(Values)
      /\ Len(SubSeq(operands, m, L)) = IF m <= L THEN L - m + 1 ELSE 0
      /\ \A x \in 1..(L - m + 1) : SubSeq(operands, m, L)[x] = operands[m + x - 1]
  BY <1>5, SubSeqProperties
<1>7. /\ (IF m <= L THEN L - m + 1 ELSE 0) = need /\ L - m + 1 = need
      /\ \A x \in 1..need : m + x - 1 = L - need + x /\ L - need + x \in 1..L
  BY <1>2, <1>3, <1>4
<1>8. T = SubSeq(operands, m, L)
  BY <1>1, <1>4 DEF Taken, Last
<1>9. /\ T \in Seq(Values) /\ Len(T) = need
      /\ \A x \in 1..need : T[x] = operands[L - need + x] /\ L - need + x \in 1..L
  BY <1>6, <1>7, <1>8
<1>10. DOMAIN T = 1..need
  BY <1>9
<1>11. PICK k : k = L - need
  OBVIOUS
<1>12. k \in Nat /\ k \in Int /\ 1 \in Int /\ \A x \in 1..k : operands[x] \in Values
  <2>1. k \in Nat /\ \A x \in 1..k : x \in 1..L
    BY <1>2, <1>3, <1>11
  <2> QED BY <1>2, <2>1
<1>13. /\ SubSeq(operands, 1, k) \in Seq(Values)
       /\ Len(SubSeq(operands, 1, k)) = IF 1 <= k THEN k - 1 + 1 ELSE 0
       /\ \A x \in 1..(k - 1 + 1) : SubSeq(operands, 1, k)[x] = operands[1 + x - 1]
  BY <1>12, SubSeqProperties
<1>14. (IF 1 <= k THEN k - 1 + 1 ELSE 0) = k /\ k - 1 + 1 = k /\ \A x \in 1..k : 1 + x - 1 = x
  BY <1>12
<1>15. Left = SubSeq(operands, 1, k)
  BY <1>1, <1>9, <1>11 DEF Left
<1>16. Left \in Seq(Values) /\ Len(Left) = k /\ \A x \in 1..k : Left[x] = operands[x]
  BY <1>13, <1>14, <1>15
<1> QED BY <1>1, <1>2, <1>3, <1>9, <1>10, <1>11, <1>16

(* The last of the declarations of a name is one of them. *)
LEMMA LookupTyped ==
    ASSUME VisitInv, NEW n, Lookup(n) # 0
    PROVE  Lookup(n) \in Names
<1>1. PICK found : found = {e \in DOMAIN entries : Text(entries[e]) = Text(n)}
  OBVIOUS
<1>2. entries \in Seq(Names) /\ DOMAIN entries = 1..Len(entries) /\ Len(entries) \in Nat
  BY DEF VisitInv, Typed
<1>3. found # {}
  BY <1>1 DEF Lookup
<1>4. PICK last : last = CHOOSE e \in found : \A e2 \in found : e2 <= e
  OBVIOUS
<1>5. Lookup(n) = entries[last]
  BY <1>1, <1>3, <1>4 DEF Lookup
<1>6. \E e \in found : \A e2 \in found : e2 <= e
  <2>1. PICK L : L = Len(entries)
    OBVIOUS
  <2>2. L \in Nat /\ found \subseteq 1..L
    BY <1>1, <1>2, <2>1
  <2>3. PICK down : down = {L - e : e \in found}
    OBVIOUS
  <2>4. down \in SUBSET Nat /\ down # {}
    <3>1. \A e \in found : e \in 1..L
      BY <2>2
    <3>2. \A e \in found : L - e \in Nat
      BY <2>2, <3>1
    <3>3. \A d \in down : d \in Nat
      BY <2>3, <3>2
    <3>4. PICK e : e \in found
      BY <1>3
    <3>5. L - e \in down
      BY <2>3, <3>4
    <3> QED BY <3>3, <3>5
  <2>5. PICK d \in down : \A c \in down : d <= c
    BY <2>4, LeastNat
  <2>6. PICK e \in found : d = L - e
    BY <2>3
  <2>7. ASSUME NEW e2 \in found PROVE e2 <= e
    <3>1. L - e2 \in down
      BY <2>3
    <3>2. L - e <= L - e2 /\ e \in Nat /\ e2 \in Nat
      BY <2>2, <2>5, <2>6, <3>1
    <3> QED BY <2>2, <3>2
  <2> QED BY <2>7
<1>7. last \in found
  BY <1>4, <1>6
<1>8. last \in 1..Len(entries)
  BY <1>1, <1>2, <1>7
<1> QED BY <1>2, <1>5, <1>8, ElementOfSeq

(* An operand that get_operand finds; the temporary one of a node that has   *)
(* been computed. *)
LEMMA OperandOf ==
    ASSUME Parsed, VisitInv, NEW n \in 1..Len(nodes), Found(n)
    PROVE  /\ Operand(n) \in Items
           /\ Temporary(Operand(n)) =>
                 Operand(n).node = n /\ TypeAt(n) \in {"ADD", "MUL", "CALLEE"}
<1>1. PICK T : T = TypeAt(n)
  OBVIOUS
<1>2. ItemTypes = {"NO", "KEY", "TEMP", "LIT", "PAL", "COUNT"}
  BY DEF ItemTypes
<1>3. CASE T = "LIT"
  <2>1. Operand(n) = Item("LIT", n)
    BY <1>1, <1>3 DEF Operand
  <2>2. Operand(n).type = "LIT"
    BY <2>1 DEF Item
  <2> QED BY <1>2, <2>1, <2>2, QuadTyped DEF Temporary
<1>4. CASE T \in {"KEY", "ID"}
  <2>1. Operand(n) = Item("KEY", Lookup(n)) /\ Lookup(n) # 0
    BY <1>1, <1>4 DEF Operand, Found, Named
  <2>2. Operand(n).type = "KEY"
    BY <2>1 DEF Item
  <2>3. Lookup(n) \in 1..Len(nodes)
    BY <2>1, LookupTyped DEF Names
  <2> QED BY <1>2, <2>1, <2>2, <2>3, QuadTyped DEF Temporary
<1>5. CASE T \notin {"LIT", "KEY", "ID"}
  <2>1. Operand(n) = Item("TEMP", n) /\ T \in {"ADD", "MUL", "CALLEE"}
    BY <1>1, <1>5 DEF Operand, Found, Named
  <2>2. Operand(n).node = n
    BY <2>1 DEF Item
  <2> QED BY <1>1, <1>2, <2>1, <2>2, QuadTyped
<1> QED BY <1>3, <1>4, <1>5

Computing == {"ADD", "MUL", "CALLEE"}

(* The quadruples of u behind qs are fed, and the operands ps are of those   *)
(* in os or computed.                                                        *)
Feeds(V, qs, u, os, ps) ==
    /\ \A p \in (Len(qs) + 1)..Len(u) :
          Fed(u, p) /\ (u[p].op \in Evaluates \cup {"ARG"} => u[p].node \notin V)
    /\ \A x \in 1..Len(ps) : TypeAt(ps[x]) \in Computing =>
          Makes(u, ps[x]) # {} \/ \E y \in 1..Len(os) : ps[x] = os[y]

LEMMA FeedingMore ==
    ASSUME NEW U, NEW qs, NEW u, NEW os, NEW n \in U, Feeding(U, qs, os), Grown(qs, u, n),
           NEW V, V \subseteq U, NEW ps, Feeds(V, qs, u, os, ps)
    PROVE  Feeding(V, u, ps)
<1>1. \A p \in 1..Len(u) : p \in 1..Len(qs) \/ p \in (Len(qs) + 1)..Len(u)
  BY DEF Grown
<1>2. ASSUME NEW p \in 1..Len(u) PROVE Fed(u, p)
  BY <1>1, FedKept DEF Feeds
<1>3. ASSUME NEW p \in 1..Len(u), u[p].op \in Evaluates \cup {"ARG"} PROVE u[p].node \notin V
  <2>1. CASE p \in 1..Len(qs)
    <3>1. u[p] = qs[p]
      BY <2>1 DEF Grown
    <3>2. u[p].node \notin U
      BY <1>3, <2>1, <3>1 DEF Feeding
    <3> QED BY <3>2
  <2> QED BY <1>1, <1>3, <2>1 DEF Feeds
<1>4. ASSUME NEW x \in 1..Len(ps), TypeAt(ps[x]) \in {"ADD", "MUL", "CALLEE"}
      PROVE  Makes(u, ps[x]) # {}
  <2>1. Makes(u, ps[x]) # {} \/ \E y \in 1..Len(os) : ps[x] = os[y]
    BY <1>4 DEF Computing, Feeds
  <2>2. ASSUME NEW y \in 1..Len(os), ps[x] = os[y] PROVE Makes(u, ps[x]) # {}
    <3>1. Makes(qs, os[y]) # {}
      BY <1>4, <2>2 DEF Feeding
    <3>2. Makes(qs, os[y]) \subseteq Makes(u, os[y])
      BY MakesGrow
    <3> QED BY <2>2, <3>1, <3>2
  <2> QED BY <2>1, <2>2
<1> QED BY <1>2, <1>3, <1>4 DEF Feeding

(* A node that is still to be processed has been computed by no quadruple.   *)
LEMMA NotMade ==
    ASSUME NEW U, NEW qs, NEW os, NEW n \in U, Feeding(U, qs, os)
    PROVE  Makes(qs, n) = {} /\ ArgumentsOf(qs, n) = {}
<1>1. ASSUME NEW p \in 1..Len(qs), qs[p].op \in Evaluates, qs[p].dst = Item("TEMP", n)
      PROVE  FALSE
  <2>1. qs[p].dst = Item("TEMP", qs[p].node)
    BY <1>1 DEF Feeding, Fed
  <2>2. qs[p].node = n
    BY <1>1, <2>1 DEF Item
  <2> QED BY <1>1, <2>2 DEF Feeding
<1>2. ASSUME NEW p \in 1..Len(qs), qs[p].op = "ARG", qs[p].node = n
      PROVE  FALSE
  BY <1>2 DEF Feeding
<1> QED BY <1>1, <1>2 DEF Makes, ArgumentsOf

(* What an operand that is taken stands for has been computed.               *)
LEMMA OperandFed ==
    ASSUME Parsed, VisitInv, NEW U, Feeding(U, quads, operands),
           NEW y \in 1..Len(operands), NEW n, n = operands[y], Found(n)
    PROVE  /\ n \in Values /\ n \in 1..Len(nodes) /\ Operand(n) \in Items
           /\ Temporary(Operand(n)) => \E r \in Makes(quads, Operand(n).node) : r \in 1..Len(quads)
<1>1. n \in Values
  <2>1. operands \in Seq(Values)
    BY DEF VisitInv, Typed
  <2> QED BY <2>1, ElementOfSeq
<1>2. n \in 1..Len(nodes)
  BY <1>1 DEF Values
<1>3. /\ Operand(n) \in Items
      /\ Temporary(Operand(n)) => Operand(n).node = n /\ TypeAt(n) \in {"ADD", "MUL", "CALLEE"}
  BY <1>2, OperandOf
<1>4. TypeAt(n) \in {"ADD", "MUL", "CALLEE"} => Makes(quads, n) # {}
  BY DEF Feeding
<1>5. Makes(quads, n) \subseteq 1..Len(quads)
  BY DEF Makes
<1> QED BY <1>1, <1>2, <1>3, <1>4, <1>5

(* Node i is read: u are the quadruples, with xs behind those there were.    *)
Produces(n, xs, u) ==
    /\ pc = "expression" /\ i < end /\ Len(operands) >= Needed /\ Produce(n, xs)
    /\ n \in Values /\ xs \in Seq(Quadruple) /\ \A x \in 1..Len(xs) : Rise(xs[x]) = 0
    /\ Len(xs) + 1 <= Needed + (IF i \in Writers(nodes) THEN 1 ELSE 0)
                             + (IF i \in Callees(nodes) THEN 1 ELSE 0)
    /\ u = quads \o xs /\ Grown(quads, u, i)
    /\ \A p \in (Len(quads) + 1)..Len(u) : Fed(u, p)
    /\ TypeAt(n) \in Computing => Makes(u, n) # {} \/ \E y \in 1..Len(operands) : n = operands[y]

LEMMA Produced ==
    ASSUME Parsed, VisitInv, NEW CONSTANT n, NEW CONSTANT xs, NEW CONSTANT u, Produces(n, xs, u)
    PROVE  VisitInv'
<1>1. pc = "expression" /\ i < end /\ Produce(n, xs)
  BY DEF Produces
<1>2. PICK U : Pending(U)
  BY <1>1 DEF VisitInv, Pending
<1>3. PICK ns, ps, need, w, c : /\ ns = <<n>> /\ ps = Left \o ns /\ need = Needed
                                /\ w = (IF i \in Writers(nodes) THEN 1 ELSE 0)
                                /\ c = (IF i \in Callees(nodes) THEN 1 ELSE 0)
  OBVIOUS
<1>4. /\ i \in U /\ Len(quads) \in Nat /\ Len(operands) \in Nat /\ length \in Nat
      /\ Weight(U) \in Nat /\ Weight(U \ {i}) \in Nat /\ Weight(U \ {i}) = Weight(U) - w - c
      /\ Len(quads) + Len(operands) + Weight(U) <= length
  BY <1>1, <1>2, <1>3, ExpressionRoom
<1>5. /\ need \in Nat /\ Left \in Seq(Values) /\ Len(Left) = Len(operands) - need
      /\ Len(Left) \in Nat
      /\ \A x \in 1..(Len(operands) - need) : Left[x] = operands[x]
  <2>1. Len(operands) >= need
    BY <1>3 DEF Produces
  <2>2. /\ need \in Nat /\ Left \in Seq(Values) /\ Len(Left) = Len(operands) - need
        /\ \A x \in 1..(Len(operands) - need) : Left[x] = operands[x]
    BY <1>1, <1>3, <2>1, TakenOf
  <2> QED BY <1>4, <2>1, <2>2
<1>6. ns \in Seq(Values) /\ Len(ns) = 1 /\ ns[1] = n
  BY <1>3, OneOf DEF Produces
<1>7. /\ ps \in Seq(Values) /\ Len(ps) = Len(Left) + 1
      /\ \A x \in 1..Len(Left) : ps[x] = Left[x]
      /\ ps[Len(Left) + 1] = n
  <2>1. 1 \in 1..1
    OBVIOUS
  <2> QED BY <1>3, <1>5, <1>6, <2>1, Joined
<1>8. xs \in Seq(Quadruple) /\ Len(xs) \in Nat /\ Len(xs) + 1 <= need + w + c
  BY <1>3 DEF Produces
<1>9. PICK a, b, k, m, x, g, h :
         /\ a = Len(quads) /\ b = Len(operands) /\ k = Len(Left) /\ m = Len(ps) /\ x = Len(xs)
         /\ g = Weight(U) /\ h = Weight(U \ {i})
  OBVIOUS
<1>10. /\ a \in Nat /\ b \in Nat /\ k \in Nat /\ m \in Nat /\ x \in Nat /\ g \in Nat /\ h \in Nat
       /\ w \in 0..1 /\ c \in 0..1 /\ need \in Nat
       /\ k = b - need /\ m = k + 1 /\ x + 1 <= need + w + c /\ h = g - w - c
       /\ a + b + g <= length
  <2>1. m = k + 1 /\ m \in Nat
    BY <1>5, <1>7, <1>9
  <2>2. w \in 0..1 /\ c \in 0..1
    BY <1>3
  <2> QED BY <1>4, <1>5, <1>8, <1>9, <2>1, <2>2
<1>11. k + 1 <= length /\ a + x <= length /\ x + m + h <= b + g
  BY <1>4, <1>10
<1>12. /\ ~Full(Left, ns, length) /\ Pushed(Left, ns, length) = ps
       /\ ~Full(quads, xs, length) /\ Pushed(quads, xs, length) = quads \o xs
  <2>1. Len(Left) + Len(ns) <= length /\ Len(ns) \in Nat /\ Len(Left) \in Nat
    BY <1>6, <1>9, <1>10, <1>11
  <2>2. Len(quads) + Len(xs) <= length /\ Len(quads) \in Nat /\ Len(xs) \in Nat
    BY <1>9, <1>10, <1>11
  <2> QED BY <1>3, <1>4, <2>1, <2>2, PushFits
<1>13. operands' = ps /\ quads' = u /\ u = quads \o xs /\ ~dropped'
  BY <1>1, <1>3, <1>12 DEF Produce, Produces, VisitInv
<1>14. Feeding(U \ {i}, u, ps)
  <2>4. PICK V : V = U \ {i}
    OBVIOUS
  <2>1. \A p \in (Len(quads) + 1)..Len(u) :
           Fed(u, p) /\ (u[p].op \in Evaluates \cup {"ARG"} => u[p].node \notin V)
    BY <2>4 DEF Produces, Grown
  <2>2. ASSUME NEW y \in 1..Len(ps), TypeAt(ps[y]) \in Computing
        PROVE  Makes(u, ps[y]) # {} \/ \E z \in 1..Len(operands) : ps[y] = operands[z]
    <3>1. y \in 1..Len(Left) \/ y = Len(Left) + 1
      BY <1>5, <1>7
    <3>2. CASE y \in 1..Len(Left)
      <4>1. y \in 1..(Len(operands) - need) /\ y \in 1..Len(operands)
        BY <1>4, <1>5, <3>2
      <4> QED BY <1>5, <1>7, <3>2, <4>1
    <3>3. CASE y = Len(Left) + 1
      BY <1>7, <2>2, <3>3 DEF Produces
    <3> QED BY <3>1, <3>2, <3>3
  <2>3. Feeding(U, quads, operands) /\ Grown(quads, u, i) /\ i \in U /\ V \subseteq U
    BY <1>2, <1>4, <2>4 DEF Pending, Produces
  <2>5. \A y \in 1..Len(ps) : TypeAt(ps[y]) \in Computing =>
           Makes(u, ps[y]) # {} \/ \E z \in 1..Len(operands) : ps[y] = operands[z]
    BY <2>2
  <2>7. Feeds(V, quads, u, operands, ps)
    BY <2>1, <2>5 DEF Feeds
  <2>6. Feeding(V, u, ps)
    BY <2>3, <2>7, FeedingMore
  <2> QED BY <2>4, <2>6
<1>15. Computes(U, U \ {i}, xs)
  <2>1. /\ nodes' = nodes /\ length' = length /\ start_subtree' = start_subtree
        /\ stack' = stack /\ entries' = entries /\ watermarks' = watermarks
        /\ offset_entry' = offset_entry /\ count_param' = count_param
        /\ pc' = "expression" /\ i' = i + 1 /\ end' = end /\ dst' = dst
    BY <1>1 DEF Produce, input
  <2>2. Len(xs) + Len(operands') + Weight(U \ {i}) <= Len(operands) + Weight(U)
    BY <1>9, <1>11, <1>13
  <2>3. operands' \in Seq(Values) /\ xs \in Seq(Quadruple) /\ \A y \in 1..Len(xs) : Rise(xs[y]) = 0
    BY <1>7, <1>13 DEF Produces
  <2>4. Feeding(U \ {i}, quads', operands')
    BY <1>13, <1>14
  <2> QED BY <1>1, <1>13, <2>1, <2>2, <2>3, <2>4 DEF Computes
<1>16. PICK V : V = U \ {i}
  OBVIOUS
<1> QED BY <1>1, <1>2, <1>15, <1>16, Computed

(* What node n has made and been given are quadruples of the new ones.       *)
LEMMA NewlyMade ==
    ASSUME NEW U, NEW qs, NEW u, NEW os, NEW n \in U, Feeding(U, qs, os), Grown(qs, u, n)
    PROVE  /\ Makes(u, n) = {p \in (Len(qs) + 1)..Len(u) : u[p].op \in Evaluates}
           /\ ArgumentsOf(u, n) = {p \in (Len(qs) + 1)..Len(u) : u[p].op = "ARG"}
<1>1. Makes(qs, n) = {} /\ ArgumentsOf(qs, n) = {}
  BY NotMade
<1>2. /\ \A p \in 1..Len(qs) : u[p] = qs[p]
      /\ \A p \in (Len(qs) + 1)..Len(u) :
            /\ u[p].op \in Evaluates \cup {"ARG"} => u[p].node = n
            /\ u[p].op \in Evaluates => u[p].dst = Item("TEMP", n)
            /\ p \in 1..Len(u)
      /\ \A p \in 1..Len(u) : p \in 1..Len(qs) \/ p \in (Len(qs) + 1)..Len(u)
  BY DEF Grown
<1>3. /\ \A p \in 1..Len(qs) : ~(u[p].op \in Evaluates /\ u[p].dst = Item("TEMP", n))
      /\ \A p \in 1..Len(qs) : ~(u[p].op = "ARG" /\ u[p].node = n)
  BY <1>1, <1>2 DEF Makes, ArgumentsOf
<1>4. Makes(u, n) = {p \in (Len(qs) + 1)..Len(u) : u[p].op \in Evaluates}
  BY <1>2, <1>3 DEF Makes
<1>5. ArgumentsOf(u, n) = {p \in (Len(qs) + 1)..Len(u) : u[p].op = "ARG"}
  BY <1>2, <1>3 DEF ArgumentsOf
<1> QED BY <1>4, <1>5

(* An operand that is taken stands for a value that has been computed.       *)
LEMMA ArgumentFed ==
    ASSUME Parsed, VisitInv, Evaluating, NEW U, Feeding(U, quads, operands),
           NEW need, need = Needed, NEW x \in 1..need
    PROVE  /\ Taken[x] \in Values /\ Operand(Taken[x]) \in Items
           /\ \E y \in 1..Len(operands) : Taken[x] = operands[y]
           /\ Temporary(Operand(Taken[x])) =>
                 \E r \in Makes(quads, Operand(Taken[x]).node) : r \in 1..Len(quads)
<1>1. pc = "expression" /\ Len(operands) >= need
  BY DEF Evaluating
<1>2. DOMAIN Taken = 1..need /\ Taken[x] = operands[Len(operands) - need + x]
      /\ Len(operands) - need + x \in 1..Len(operands)
  BY <1>1, TakenOf
<1>3. Taken[x] \in Asked
  BY <1>2 DEF Asked
<1>4. Found(Taken[x])
  BY <1>3 DEF Evaluating
<1>5. PICK n, y : n = Taken[x] /\ y = Len(operands) - need + x
  OBVIOUS
<1>6. y \in 1..Len(operands) /\ n = operands[y] /\ Found(n)
  BY <1>2, <1>4, <1>5
<1> QED BY <1>5, <1>6, OperandFed

LEMMA InvReadLeaf ==
    ASSUME Parsed, VisitInv, ReadLeaf
    PROVE  VisitInv'
<1>1. PICK n, none, u : n = i /\ none = <<>> /\ u = quads
  OBVIOUS
<1>2. /\ pc = "expression" /\ n < end /\ Len(operands) >= Needed /\ Produce(n, none)
      /\ nodes[n].arity = 0 /\ TypeAt(n) # "CALLEE"
  BY <1>1 DEF ReadLeaf, Reading, Evaluating
<1>3. n \in 1..Len(nodes) /\ n \in Int /\ n # end
  BY <1>1, <1>2, ExpressionTyped
<1>4. TypeAt(n) \notin Parents
  BY <1>2, <1>3, Neighbours
<1>5. n \in Values /\ TypeAt(n) \notin Computing
  BY <1>2, <1>3, <1>4 DEF Values, Parents, Computing
<1>6. Needed = 0
  BY <1>1, <1>2, <1>3, <1>4 DEF Needed, Algebraic, Parents
<1>7. n \in Writers(nodes)
  BY <1>2, <1>3, WritersAre
<1>8. /\ none \in Seq(Quadruple) /\ Len(none) = 0
      /\ \A x \in 1..Len(none) : Rise(none[x]) = 0
  BY <1>1
<1>9. u \in Seq(Quadruple) /\ Len(u) \in Nat
  BY <1>1 DEF VisitInv, Typed
<1>10. u = quads \o none
  BY <1>1, <1>9
<1>11. Grown(quads, u, n) /\ \A p \in (Len(quads) + 1)..Len(u) : Fed(u, p)
  <2>1. Len(quads) = Len(u) /\ \A p \in (Len(u) + 1)..Len(u) : FALSE
    BY <1>1, <1>9
  <2> QED BY <1>1, <1>9, <2>1 DEF Grown
<1>12. Len(none) + 1 <= Needed + (IF i \in Writers(nodes) THEN 1 ELSE 0)
                               + (IF i \in Callees(nodes) THEN 1 ELSE 0)
  BY <1>1, <1>6, <1>7, <1>8
<1>13. Produces(n, none, u)
  BY <1>1, <1>2, <1>5, <1>8, <1>10, <1>11, <1>12 DEF Produces
<1> QED BY <1>13, Produced

(* A quadruple q of node n behind those there were.                          *)
Follows(qs, q, n, u) ==
    /\ qs \in Seq(Quadruple) /\ q \in Quadruple
    /\ q.op \in Evaluates \cup {"ARG"} => q.node = n
    /\ q.op \in Evaluates => q.dst = Item("TEMP", n)
    /\ u = qs \o <<q>>

LEMMA OneMore ==
    ASSUME NEW qs, NEW q, NEW n, NEW u, Follows(qs, q, n, u)
    PROVE  /\ Len(u) = Len(qs) + 1 /\ u[Len(u)] = q /\ Grown(qs, u, n)
           /\ \A p \in (Len(qs) + 1)..Len(u) : p = Len(u)
           /\ Len(u) \in (Len(qs) + 1)..Len(u)
<1>1. <<q>> \in Seq(Quadruple) /\ Len(<<q>>) = 1 /\ <<q>>[1] = q /\ 1 \in 1..1
  BY OneOf DEF Follows
<1>2. /\ Len(qs) \in Nat /\ Len(u) = Len(qs) + 1 /\ u[Len(qs) + 1] = q
      /\ \A x \in 1..Len(qs) : u[x] = qs[x]
  BY <1>1, Joined DEF Follows
<1>3. /\ Len(u) \in Nat /\ Len(qs) <= Len(u)
      /\ \A p \in (Len(qs) + 1)..Len(u) : p = Len(qs) + 1
      /\ Len(qs) + 1 \in (Len(qs) + 1)..Len(u)
  BY <1>2
<1>4. Grown(qs, u, n)
  BY <1>2, <1>3 DEF Grown, Follows
<1> QED BY <1>2, <1>3, <1>4

LEMMA InvReadAssignment ==
    ASSUME Parsed, VisitInv, ReadAssignment
    PROVE  VisitInv'
<1>1. PICK n, a, b, q, xs, u :
         /\ n = Result /\ a = Operand(Taken[1]) /\ b = Operand(Taken[2])
         /\ q = Quad("MOVE", i, a, b, NoItem) /\ xs = <<q>> /\ u = quads \o xs
  OBVIOUS
<1>2. Evaluating /\ pc = "expression" /\ i < end /\ Len(operands) >= Needed /\ TypeAt(i) = "ASSIGN"
      /\ Produce(n, xs)
  BY <1>1 DEF ReadAssignment, Reading, Evaluating
<1>3. i \in 1..Len(nodes) /\ i \in Nat /\ i # end
  BY <1>2, ExpressionTyped
<1>4. Needed = 2 /\ 1 \in 1..2 /\ 2 \in 1..2
  BY <1>2, <1>3 DEF Needed, Algebraic
<1>5. PICK U : Pending(U)
  BY <1>2 DEF VisitInv, Pending
<1>6. Feeding(U, quads, operands)
  BY <1>5 DEF Pending
<1>7. /\ a \in Items /\ (Temporary(a) => \E r \in Makes(quads, a.node) : r \in 1..Len(quads))
      /\ b \in Items /\ (Temporary(b) => \E r \in Makes(quads, b.node) : r \in 1..Len(quads))
      /\ n \in Values /\ \E y \in 1..Len(operands) : n = operands[y]
  BY <1>1, <1>2, <1>4, <1>6, ArgumentFed DEF Result
<1>8. q \in Quadruple
  <2>1. "MOVE" \in Ops
    BY DEF Ops
  <2> QED BY <1>1, <1>3, <1>7, <2>1, QuadTyped
<1>9. q.op = "MOVE" /\ q.node = i /\ q.dst = a /\ q.src1 = b /\ q.src2 = NoItem
  BY <1>1 DEF Quad
<1>10. quads \in Seq(Quadruple) /\ Len(quads) \in Nat
  BY DEF VisitInv, Typed
<1>11. q.op \in Evaluates => q.dst = Item("TEMP", i)
  BY <1>9 DEF Evaluates
<1>12. /\ Len(u) = Len(quads) + 1 /\ u[Len(u)] = q /\ Grown(quads, u, i)
       /\ \A p \in (Len(quads) + 1)..Len(u) : p = Len(u)
  <2>1. Follows(quads, q, i, u)
    BY <1>1, <1>8, <1>9, <1>10, <1>11 DEF Follows
  <2> QED BY <2>1, OneMore
<1>13. \A m : Makes(quads, m) \subseteq Makes(u, m)
  BY <1>12, MakesGrow
<1>14. Fed(u, Len(u))
  <2>1. \A r \in 1..Len(quads) : r < Len(u)
    BY <1>10, <1>12
  <2>2. \A item \in {a, b, NoItem} : Temporary(item) => \E r \in Makes(u, item.node) : r < Len(u)
    <3>1. ~Temporary(NoItem)
      BY DEF NoItem, Item, Temporary
    <3> QED BY <1>7, <1>13, <2>1, <3>1
  <2>3. NoItem.type = "NO"
    BY DEF NoItem, Item
  <2> QED BY <1>9, <1>12, <2>2, <2>3 DEF Fed, Evaluates
<1>15. xs \in Seq(Quadruple) /\ Len(xs) = 1 /\ \A x \in 1..Len(xs) : Rise(xs[x]) = 0
  <2>1. xs \in Seq(Quadruple) /\ Len(xs) = 1 /\ xs[1] = q
    BY <1>1, <1>8, OneOf
  <2>2. Rise(q) = 0
    BY <1>9 DEF Rise, Opening, Closing
  <2> QED BY <2>1, <2>2
<1>16. Len(xs) + 1 <= Needed + (IF i \in Writers(nodes) THEN 1 ELSE 0)
                             + (IF i \in Callees(nodes) THEN 1 ELSE 0)
  BY <1>4, <1>15
<1>17. \A p \in (Len(quads) + 1)..Len(u) : Fed(u, p)
  BY <1>12, <1>14
<1>18. Produces(n, xs, u)
  BY <1>1, <1>2, <1>7, <1>12, <1>15, <1>16, <1>17 DEF Produces
<1> QED BY <1>18, Produced

LEMMA InvReadOperator ==
    ASSUME Parsed, VisitInv, ReadOperator
    PROVE  VisitInv'
<1>1. PICK n, op, to, a, b, q, xs, u :
         /\ n = i /\ op = TypeAt(i) /\ to = Item("TEMP", i)
         /\ a = Operand(Taken[1]) /\ b = Operand(Taken[2])
         /\ q = Quad(op, i, to, a, b) /\ xs = <<q>> /\ u = quads \o xs
  OBVIOUS
<1>2. /\ Evaluating /\ pc = "expression" /\ i < end /\ Len(operands) >= Needed
      /\ op \in {"ADD", "MUL"} /\ Produce(n, xs)
  BY <1>1 DEF ReadOperator, Reading, Evaluating
<1>3. i \in 1..Len(nodes) /\ i \in Nat /\ i # end
  BY <1>2, ExpressionTyped
<1>4. Needed = 2 /\ 1 \in 1..2 /\ 2 \in 1..2
  BY <1>1, <1>2, <1>3 DEF Needed, Algebraic
<1>5. PICK U : Pending(U)
  BY <1>2 DEF VisitInv, Pending
<1>6. Feeding(U, quads, operands) /\ i \in U
  BY <1>2, <1>5, ExpressionRoom DEF Pending
<1>7. /\ a \in Items /\ (Temporary(a) => \E r \in Makes(quads, a.node) : r \in 1..Len(quads))
      /\ b \in Items /\ (Temporary(b) => \E r \in Makes(quads, b.node) : r \in 1..Len(quads))
  BY <1>1, <1>2, <1>4, <1>6, ArgumentFed
<1>8. q \in Quadruple
  <2>1. op \in Ops /\ "TEMP" \in ItemTypes
    BY <1>2 DEF Ops, ItemTypes
  <2>2. to \in Items
    BY <1>1, <1>3, <2>1, QuadTyped
  <2> QED BY <1>1, <1>3, <1>7, <2>1, <2>2, QuadTyped
<1>9. q.op = op /\ q.node = i /\ q.dst = to /\ q.src1 = a /\ q.src2 = b
  BY <1>1 DEF Quad
<1>10. quads \in Seq(Quadruple) /\ Len(quads) \in Nat
  BY DEF VisitInv, Typed
<1>12. /\ Len(u) = Len(quads) + 1 /\ u[Len(u)] = q /\ Grown(quads, u, i)
       /\ \A p \in (Len(quads) + 1)..Len(u) : p = Len(u)
       /\ Len(u) \in (Len(quads) + 1)..Len(u)
  <2>1. Follows(quads, q, i, u)
    BY <1>1, <1>8, <1>9, <1>10 DEF Follows
  <2> QED BY <2>1, OneMore
<1>13. \A m : Makes(quads, m) \subseteq Makes(u, m)
  BY <1>12, MakesGrow
<1>19. Makes(u, i) = {Len(u)}
  <2>1. Makes(u, i) = {p \in (Len(quads) + 1)..Len(u) : u[p].op \in Evaluates}
    BY <1>6, <1>12, NewlyMade
  <2> QED BY <1>2, <1>9, <1>12, <2>1 DEF Evaluates
<1>14. Fed(u, Len(u))
  <2>1. \A r \in 1..Len(quads) : r < Len(u)
    BY <1>10, <1>12
  <2>2. \A item \in {a, b} : Temporary(item) => \E r \in Makes(u, item.node) : r < Len(u)
    BY <1>7, <1>13, <2>1
  <2>3. op \in Evaluates /\ op \notin {"MOVE", "PARAM", "ARG", "CALL"}
    BY <1>2 DEF Evaluates
  <2> QED BY <1>1, <1>2, <1>9, <1>12, <1>19, <2>2, <2>3 DEF Fed
<1>15. xs \in Seq(Quadruple) /\ Len(xs) = 1 /\ \A x \in 1..Len(xs) : Rise(xs[x]) = 0
  <2>1. xs \in Seq(Quadruple) /\ Len(xs) = 1 /\ xs[1] = q
    BY <1>1, <1>8, OneOf
  <2>2. Rise(q) = 0
    BY <1>2, <1>9 DEF Rise, Opening, Closing
  <2> QED BY <2>1, <2>2
<1>16. Len(xs) + 1 <= Needed + (IF i \in Writers(nodes) THEN 1 ELSE 0)
                             + (IF i \in Callees(nodes) THEN 1 ELSE 0)
  BY <1>4, <1>15
<1>17. \A p \in (Len(quads) + 1)..Len(u) : Fed(u, p)
  BY <1>12, <1>14
<1>20. n \in Values /\ Makes(u, n) # {}
  BY <1>1, <1>2, <1>3, <1>19 DEF Values
<1>18. Produces(n, xs, u)
  BY <1>1, <1>2, <1>12, <1>15, <1>16, <1>17, <1>20 DEF Produces
<1> QED BY <1>18, Produced

LEMMA InvReadCall ==
    ASSUME Parsed, VisitInv, ReadCall
    PROVE  VisitInv'
<1>1. PICK n, a, T, args, call, xs, u :
         /\ n = i /\ a = nodes[i].arity /\ T = Taken
         /\ args = [x \in 1..a |-> Quad("ARG", i, NoItem, Operand(T[x]), NoItem)]
         /\ call = Quad("CALL", i, Item("TEMP", i), Item("PAL", i), Item("COUNT", a))
         /\ xs = args \o <<call>> /\ u = quads \o xs
  OBVIOUS
<1>2. /\ Evaluating /\ pc = "expression" /\ i < end /\ Len(operands) >= Needed
      /\ TypeAt(i) = "CALLEE"
  BY DEF ReadCall, Reading, Evaluating
<1>3. n \in 1..Len(nodes) /\ n \in Nat /\ i # end
  BY <1>1, <1>2, ExpressionTyped
<1>4. Needed = a /\ a \in Nat /\ DOMAIN T = 1..a
  <2>1. Needed = a
    BY <1>1, <1>2, <1>3 DEF Needed, Algebraic
  <2> QED BY <1>1, <1>2, <2>1, TakenOf
<1>5. Produce(n, xs)
  <2>1. Arguments = args
    BY <1>1, <1>4 DEF Arguments, Argument
  <2>2. Produce(i, Arguments \o <<Quad("CALL", i, Item("TEMP", i), Item("PAL", i), Item("COUNT", a))>>)
    BY <1>1 DEF ReadCall
  <2> QED BY <1>1, <2>1, <2>2
<1>6. PICK U : Pending(U)
  BY <1>2 DEF VisitInv, Pending
<1>7. Feeding(U, quads, operands) /\ n \in U
  BY <1>1, <1>2, <1>6, ExpressionRoom DEF Pending
<1>8. ASSUME NEW x \in 1..a
      PROVE  /\ Operand(T[x]) \in Items
             /\ Temporary(Operand(T[x])) =>
                   \E r \in Makes(quads, Operand(T[x]).node) : r \in 1..Len(quads)
  BY <1>1, <1>2, <1>4, <1>7, ArgumentFed
<1>9. ASSUME NEW x \in 1..a
      PROVE  /\ args[x] \in Quadruple /\ args[x].op = "ARG" /\ args[x].node = n
             /\ args[x].src1 = Operand(T[x]) /\ args[x].src2 = NoItem
  <2>1. args[x] = Quad("ARG", n, NoItem, Operand(T[x]), NoItem)
    BY <1>1
  <2>2. "ARG" \in Ops /\ NoItem \in Items
    BY QuadTyped DEF Ops
  <2>3. args[x] \in Quadruple
    BY <1>3, <1>8, <2>1, <2>2, QuadTyped
  <2> QED BY <2>1, <2>3 DEF Quad
<1>10. call \in Quadruple
  <2>1. "CALL" \in Ops /\ "TEMP" \in ItemTypes /\ "PAL" \in ItemTypes
    BY DEF Ops, ItemTypes
  <2>2. Item("TEMP", n) \in Items /\ Item("PAL", n) \in Items /\ Item("COUNT", a) \in Items
    BY <1>3, <1>4, <2>1, QuadTyped
  <2> QED BY <1>1, <1>3, <2>1, <2>2, QuadTyped
<1>11. /\ call.op = "CALL" /\ call.node = n /\ call.dst = Item("TEMP", n)
       /\ call.src1.type = "PAL" /\ call.src2.type = "COUNT" /\ call.src2.node = a
  BY <1>1 DEF Quad, Item
<1>12. args \in Seq(Quadruple) /\ Len(args) = a
  <2>1. args \in [1..a -> Quadruple]
    <3>1. args = [x \in 1..a |-> args[x]]
      BY <1>1
    <3> QED BY <1>9, <3>1
  <2> QED BY <1>4, <2>1, FunctionSeq
<1>13. /\ xs \in Seq(Quadruple) /\ Len(xs) = a + 1 /\ xs[a + 1] = call
       /\ \A x \in 1..a : xs[x] = args[x]
  <2>1. PICK cs : cs = <<call>>
    OBVIOUS
  <2>2. cs \in Seq(Quadruple) /\ Len(cs) = 1 /\ cs[1] = call /\ 1 \in 1..1
    BY <1>10, <2>1, OneOf
  <2>3. xs = args \o cs
    BY <1>1, <2>1
  <2>4. /\ args \o cs \in Seq(Quadruple) /\ Len(args \o cs) = Len(args) + Len(cs)
        /\ \A x \in 1..Len(args) : (args \o cs)[x] = args[x]
        /\ \A x \in 1..Len(cs) : (args \o cs)[Len(args) + x] = cs[x]
    <3>1. args \in Seq(Quadruple) /\ cs \in Seq(Quadruple)
      BY <1>12, <2>2
    <3> QED BY <3>1, Joined
  <2> QED BY <1>12, <2>2, <2>3, <2>4
<1>14. PICK K : K = Len(quads)
  OBVIOUS
<1>15. /\ K \in Nat /\ Len(u) = K + a + 1
       /\ \A y \in 1..K : u[y] = quads[y]
       /\ \A y \in (K + 1)..(K + a) : u[y] = args[y - K] /\ y - K \in 1..a
       /\ u[K + a + 1] = call
  <2>1. quads \in Seq(Quadruple)
    BY DEF VisitInv, Typed
  <2>4. xs \in Seq(Quadruple)
    BY <1>13
  <2>5. /\ Len(quads) \in Nat /\ Len(quads \o xs) = Len(quads) + Len(xs)
        /\ \A y \in 1..Len(quads) : (quads \o xs)[y] = quads[y]
        /\ \A y \in (Len(quads) + 1)..(Len(quads) + Len(xs)) :
              (quads \o xs)[y] = xs[y - Len(quads)] /\ y - Len(quads) \in 1..Len(xs)
    BY <2>1, <2>4, Joined
  <2>6. u = quads \o xs
    BY <1>1
  <2>2. /\ K \in Nat /\ Len(u) = K + Len(xs)
        /\ \A y \in 1..K : u[y] = quads[y]
        /\ \A y \in (K + 1)..(K + Len(xs)) : u[y] = xs[y - K] /\ y - K \in 1..Len(xs)
    BY <1>14, <2>5, <2>6
  <2>3. /\ K + Len(xs) = K + a + 1 /\ K + a + 1 \in (K + 1)..(K + Len(xs)) /\ (K + a + 1) - K = a + 1
        /\ \A y \in (K + 1)..(K + a) : y \in (K + 1)..(K + Len(xs)) /\ y - K \in 1..a
    BY <1>4, <1>13, <2>2
  <2> QED BY <1>13, <2>2, <2>3
<1>16. /\ Len(u) \in Nat /\ K <= Len(u)
       /\ \A y \in (K + 1)..Len(u) : y \in (K + 1)..(K + a) \/ y = K + a + 1
       /\ \A y \in (K + 1)..(K + a) : y \in (K + 1)..Len(u) /\ y < Len(u)
       /\ K + a + 1 \in (K + 1)..Len(u)
       /\ \A y \in (K + 1)..(K + a) : y + 1 \in (K + 1)..(K + a) \/ y + 1 = K + a + 1
       /\ \A r \in 1..K, y \in (K + 1)..Len(u) : r < y
  <2>1. PICK L : L = Len(u)
    OBVIOUS
  <2>2. K \in Nat /\ a \in Nat /\ L = K + a + 1
    BY <1>4, <1>15, <2>1
  <2>3. /\ L \in Nat /\ K <= L
        /\ \A y \in (K + 1)..L : y \in (K + 1)..(K + a) \/ y = K + a + 1
        /\ \A y \in (K + 1)..(K + a) : y \in (K + 1)..L /\ y < L
    BY <2>2
  <2>4. /\ K + a + 1 \in (K + 1)..L
        /\ \A y \in (K + 1)..(K + a) : y + 1 \in (K + 1)..(K + a) \/ y + 1 = K + a + 1
        /\ \A r \in 1..K, y \in (K + 1)..L : r < y
    BY <2>2
  <2> QED BY <2>1, <2>3, <2>4
<1>17. \A y \in (K + 1)..(K + a) :
          /\ u[y].op = "ARG" /\ u[y].node = n
          /\ u[y].src1 = Operand(T[y - K]) /\ y - K \in 1..a /\ u[y].src2 = NoItem
  BY <1>9, <1>15
<1>18. Grown(quads, u, n)
  BY <1>11, <1>14, <1>15, <1>16, <1>17 DEF Grown, Evaluates
<1>19. \A m : Makes(quads, m) \subseteq Makes(u, m)
  BY <1>18, MakesGrow
<1>20. Makes(u, n) = {K + a + 1} /\ ArgumentsOf(u, n) = (K + 1)..(K + a)
  <2>1. /\ Makes(u, n) = {p \in (K + 1)..Len(u) : u[p].op \in Evaluates}
        /\ ArgumentsOf(u, n) = {p \in (K + 1)..Len(u) : u[p].op = "ARG"}
    BY <1>7, <1>14, <1>18, NewlyMade
  <2>2. Makes(u, n) = {K + a + 1}
    BY <1>11, <1>15, <1>16, <1>17, <2>1 DEF Evaluates
  <2>3. ArgumentsOf(u, n) = (K + 1)..(K + a)
    BY <1>11, <1>15, <1>16, <1>17, <2>1
  <2> QED BY <2>2, <2>3
<1>21. Cardinality(ArgumentsOf(u, n)) = a
  <2>1. K + 1 \in Int /\ K + a \in Int
    BY <1>4, <1>15
  <2>2. Cardinality((K + 1)..(K + a)) = IF K + 1 > K + a THEN 0 ELSE (K + a) - (K + 1) + 1
    BY <2>1, FS_Interval
  <2>3. (IF K + 1 > K + a THEN 0 ELSE (K + a) - (K + 1) + 1) = a
    BY <1>4, <1>15
  <2> QED BY <1>20, <2>2, <2>3
<1>22. NoItem.type = "NO" /\ ~Temporary(NoItem)
  BY DEF NoItem, Item, Temporary
<1>23. ASSUME NEW p \in (K + 1)..(K + a) PROVE Fed(u, p)
  <2>1. /\ u[p].op = "ARG" /\ u[p].node = n
        /\ u[p].src1 = Operand(T[p - K]) /\ p - K \in 1..a /\ u[p].src2 = NoItem
    BY <1>17
  <2>2. Temporary(u[p].src1) => \E r \in Makes(u, u[p].src1.node) : r < p
    BY <1>8, <1>14, <1>16, <1>19, <2>1
  <2>3. p < Len(u) /\ u[p + 1].op \in {"ARG", "CALL"} /\ u[p + 1].node = n
    BY <1>11, <1>15, <1>16, <1>17
  <2>4. "ARG" \notin {"MOVE", "PARAM", "CALL"} \cup Evaluates
    BY DEF Evaluates
  <2> QED BY <1>22, <2>1, <2>2, <2>3, <2>4 DEF Fed
<1>24. Fed(u, K + a + 1)
  <2>1. ~Temporary(call.src1) /\ ~Temporary(call.src2)
    BY <1>11 DEF Temporary
  <2>2. "CALL" \notin {"MOVE", "PARAM", "ARG"} /\ "COUNT" \in {"NO", "COUNT"}
    OBVIOUS
  <2> QED BY <1>11, <1>15, <1>20, <1>21, <2>1, <2>2 DEF Fed
<1>25. \A p \in (Len(quads) + 1)..Len(u) : Fed(u, p)
  BY <1>14, <1>16, <1>23, <1>24
<1>26. \A x \in 1..Len(xs) : Rise(xs[x]) = 0
  <2>1. \A x \in 1..Len(xs) : x \in 1..a \/ x = a + 1
    BY <1>4, <1>13
  <2>2. \A x \in 1..Len(xs) : xs[x].op \in {"ARG", "CALL"}
    BY <1>9, <1>11, <1>13, <2>1
  <2>3. \A q : q.op \in {"ARG", "CALL"} => Rise(q) = 0
    BY DEF Rise, Opening, Closing
  <2> QED BY <2>2, <2>3
<1>27. Len(xs) + 1 <= Needed + (IF i \in Writers(nodes) THEN 1 ELSE 0)
                             + (IF i \in Callees(nodes) THEN 1 ELSE 0)
  <2>1. i \in Writers(nodes) /\ i \in Callees(nodes)
    BY <1>1, <1>2, <1>3, WritersAre
  <2> QED BY <1>4, <1>13, <2>1
<1>28. n \in Values /\ Makes(u, n) # {}
  BY <1>1, <1>2, <1>3, <1>20, ZenonT(30) DEF Values
<1>29. u = quads \o xs
  BY <1>1
<1>30. Produces(n, xs, u)
  BY <1>1, <1>2, <1>5, <1>13, <1>18, <1>25, <1>26, <1>27, <1>28, <1>29, ZenonT(30) DEF Produces
<1> QED BY <1>30, Produced

LEMMA InvEndExpression ==
    ASSUME Parsed, VisitInv, EndExpression
    PROVE  VisitInv'
<1>1. PICK a, b, q, xs, u, need, ps :
         /\ a = Operand(dst) /\ b = Operand(Taken[1]) /\ q = Quad("MOVE", dst, a, b, NoItem)
         /\ xs = (IF dst = 0 THEN <<>> ELSE <<q>>) /\ u = quads \o xs
         /\ need = Needed /\ ps = Left
  OBVIOUS
<1>2. /\ Evaluating /\ pc = "expression" /\ i = end /\ Len(operands) >= need
      /\ pc' = "visit" /\ operands' = ps
      /\ UNCHANGED <<nodes, length, start_subtree, stack, entries, watermarks, offset_entry, count_param>>
      /\ quads' = Pushed(quads, xs, length) /\ dropped' = (dropped \/ Full(quads, xs, length))
  BY <1>1 DEF EndExpression, Evaluating, Emit, input
<1>3. /\ dst \in 0..Len(nodes) /\ Len(nodes) \in Nat
      /\ dst # 0 /\ Headed => TypeAt(dst) = "ID"
  BY <1>2, ExpressionTyped
<1>4. need = IF dst = 0 THEN 0 ELSE 1
  <2>1. i = end
    BY <1>2
  <2> QED BY <1>1, <2>1 DEF Needed
<1>5. PICK U : Pending(U)
  BY <1>2 DEF VisitInv, Pending
<1>6. /\ Feeding(U, quads, operands) /\ i \in U
      /\ Len(quads) \in Nat /\ Len(operands) \in Nat /\ length \in Nat /\ Weight(U) \in Nat
      /\ Len(quads) + Len(operands) + Weight(U) <= length
  BY <1>2, <1>5, ExpressionRoom DEF Pending
<1>7. /\ ps \in Seq(Values) /\ Len(ps) = Len(operands) - need
      /\ \A x \in 1..(Len(operands) - need) : ps[x] = operands[x]
  BY <1>1, <1>2, TakenOf
<1>8. quads \in Seq(Quadruple)
  BY DEF VisitInv, Typed
<1>9. ASSUME dst # 0
      PROVE  /\ a \in Items /\ b \in Items /\ q \in Quadruple
             /\ Headed => ~Temporary(a)
             /\ Temporary(b) => \E r \in Makes(quads, b.node) : r \in 1..Len(quads)
  <2>1. dst \in 1..Len(nodes)
    BY <1>3, <1>9
  <2>2. Found(dst)
    BY <1>2, <1>9 DEF Evaluating, Asked
  <2>3. a \in Items
    BY <1>1, <2>1, <2>2, OperandOf
  <2>4. Headed => ~Temporary(a)
    BY <1>1, <1>3, <1>9 DEF Operand, Named, Temporary, Item
  <2>5. need = Needed /\ 1 \in 1..need
    BY <1>1, <1>4, <1>9
  <2>6. b \in Items /\ (Temporary(b) => \E r \in Makes(quads, b.node) : r \in 1..Len(quads))
    BY <1>1, <1>2, <1>6, <2>5, ArgumentFed
  <2>7. "MOVE" \in Ops /\ dst \in Nat
    BY <1>3 DEF Ops
  <2> QED BY <1>1, <2>3, <2>4, <2>6, <2>7, QuadTyped
<1>10. q.op = "MOVE" /\ q.dst = a /\ q.src1 = b /\ q.src2 = NoItem
  BY <1>1 DEF Quad
<1>11. /\ xs \in Seq(Quadruple) /\ Len(xs) = need
       /\ \A x \in 1..Len(xs) : Rise(xs[x]) = 0
       /\ Grown(quads, u, i)
       /\ \A p \in (Len(quads) + 1)..Len(u) : Fed(u, p) /\ u[p].op \notin Evaluates \cup {"ARG"}
  <2>1. CASE dst = 0
    <3>1. xs = <<>> /\ need = 0
      BY <1>1, <1>4, <2>1
    <3>2. xs \in Seq(Quadruple) /\ Len(xs) = 0 /\ u = quads
      BY <1>1, <1>8, <3>1
    <3>3. \A x \in 1..Len(xs) : FALSE
      BY <3>2
    <3>4. \A p \in (Len(quads) + 1)..Len(u) : FALSE
      BY <1>6, <3>2
    <3>5. Grown(quads, u, i)
      BY <1>6, <3>2, <3>4 DEF Grown
    <3> QED BY <3>1, <3>2, <3>3, <3>4, <3>5
  <2>2. CASE dst # 0
    <3>1. xs = <<q>> /\ need = 1
      BY <1>1, <1>4, <2>2
    <3>2. xs \in Seq(Quadruple) /\ Len(xs) = 1 /\ xs[1] = q
      BY <1>9, <2>2, <3>1, OneOf
    <3>3. \A x \in 1..Len(xs) : Rise(xs[x]) = 0
      <4>1. Rise(q) = 0
        BY <1>10 DEF Rise, Opening, Closing
      <4> QED BY <3>2, <4>1
    <3>4. q.op \notin Evaluates \cup {"ARG"}
      BY <1>10 DEF Evaluates
    <3>5. /\ Len(u) = Len(quads) + 1 /\ u[Len(u)] = q /\ Grown(quads, u, i)
          /\ \A p \in (Len(quads) + 1)..Len(u) : p = Len(u)
      <4>1. Follows(quads, q, i, u)
        BY <1>1, <1>8, <1>9, <2>2, <3>1, <3>4 DEF Follows
      <4> QED BY <4>1, OneMore
    <3>6. \A m : Makes(quads, m) \subseteq Makes(u, m)
      BY <3>5, MakesGrow
    <3>7. Fed(u, Len(u))
      <4>1. \A r \in 1..Len(quads) : r < Len(u)
        BY <1>6, <3>5
      <4>2. Temporary(b) => \E r \in Makes(u, b.node) : r < Len(u)
        BY <1>9, <2>2, <3>6, <4>1
      <4>3. NoItem.type = "NO" /\ ~Temporary(NoItem)
        BY DEF NoItem, Item, Temporary
      <4> QED BY <1>9, <1>10, <2>2, <3>5, <4>2, <4>3 DEF Fed, Evaluates
    <3> QED BY <3>1, <3>2, <3>3, <3>4, <3>5, <3>7
  <2> QED BY <2>1, <2>2
<1>12. PICK c, o, w, k : c = Len(quads) /\ o = Len(operands) /\ w = Weight(U) /\ k = Len(ps)
  OBVIOUS
<1>13. /\ c \in Nat /\ o \in Nat /\ w \in Nat /\ length \in Nat /\ need \in 0..1 /\ o >= need
       /\ c + o + w <= length /\ k = o - need
  BY <1>2, <1>4, <1>6, <1>7, <1>12
<1>14. c + need <= length /\ need + k + w <= o + w
  BY <1>13
<1>15. quads' = u /\ ~dropped'
  <2>1. Len(quads) + Len(xs) <= length /\ Len(xs) \in Nat
    BY <1>11, <1>12, <1>13, <1>14
  <2>2. ~Full(quads, xs, length) /\ Pushed(quads, xs, length) = quads \o xs
    BY <1>6, <2>1, PushFits
  <2> QED BY <1>1, <1>2, <2>2 DEF VisitInv
<1>16. Feeding(U, u, ps)
  <2>1. ASSUME NEW x \in 1..Len(ps) PROVE \E y \in 1..Len(operands) : ps[x] = operands[y]
    <3>1. x \in 1..(Len(operands) - need) /\ x \in 1..Len(operands)
      BY <1>7, <1>12, <1>13
    <3> QED BY <1>7, <3>1
  <2>2. Feeds(U, quads, u, operands, ps)
    BY <1>11, <2>1 DEF Feeds
  <2>3. Feeding(U, quads, operands) /\ Grown(quads, u, i) /\ i \in U /\ U \subseteq U
    BY <1>6, <1>11
  <2> QED BY <2>2, <2>3, FeedingMore
<1>17. Computes(U, U, xs)
  <2>1. Len(xs) + Len(operands') + Weight(U) <= Len(operands) + Weight(U)
    BY <1>2, <1>11, <1>12, <1>14
  <2>2. quads' = quads \o xs /\ operands' \in Seq(Values) /\ Feeding(U, quads', operands')
    BY <1>1, <1>2, <1>7, <1>15, <1>16
  <2>3. xs \in Seq(Quadruple) /\ \A x \in 1..Len(xs) : Rise(xs[x]) = 0
    BY <1>11
  <2> QED BY <1>2, <1>15, <2>1, <2>2, <2>3 DEF Computes
<1> QED BY <1>2, <1>5, <1>17, Computed

-----------------------------------------------------------------------------
(* Stopping.                                                                 *)

LEMMA InvStop ==
    ASSUME Parsed, VisitInv, NEW CONSTANT outcome, Stop(outcome),
           outcome = "aborted" \/ (outcome = "done" /\ stack = <<>>)
    PROVE  VisitInv'
<1>1. /\ nodes' = nodes /\ length' = length /\ start_subtree' = start_subtree /\ stack' = stack
      /\ entries' = entries /\ watermarks' = watermarks /\ quads' = quads /\ operands' = operands
      /\ offset_entry' = offset_entry /\ count_param' = count_param /\ dropped' = dropped
      /\ pc' = outcome
  BY DEF Stop, input, expression
<1>2. PICK U : /\ Covers(U, stack)
               /\ Room(U, entries, watermarks, quads, operands)
               /\ Feeding(U, quads, operands)
  BY DEF VisitInv
<1>3. /\ Whole /\ Apart(stack) /\ Typed(entries, quads, operands)
      /\ offset_entry \in 0..Len(nodes) /\ count_param \in Nat
      /\ Restorable(entries, watermarks) /\ Nested(stack, watermarks, quads) /\ ~dropped
  BY DEF VisitInv
<1>4. pc' # "expression" /\ (pc' = "done" => stack' = <<>>)
  BY <1>1
<1> QED BY <1>1, <1>2, <1>3, <1>4, VisitKept

-----------------------------------------------------------------------------
(* What the invariant tells.                                                 *)

LEMMA VisitTyped ==
    ASSUME Parsed, VisitInv, pc \in Phases
    PROVE  TypeOK
<1>1. Len(nodes) \in Nat /\ DOMAIN nodes = 1..Len(nodes)
  BY NodesTyped
<1>2. /\ stack \in Seq(1..Len(nodes)) /\ entries \in Seq(Names)
      /\ quads \in Seq(Quadruple) /\ operands \in Seq(Values)
      /\ offset_entry \in 0..Len(nodes)
  BY DEF VisitInv, Apart, Typed
<1>3. \A x \in DOMAIN stack : stack[x] \in DOMAIN nodes
  <2>1. \A x \in 1..Len(stack) : stack[x] \in 1..Len(nodes)
    BY <1>2, ElementOfSeq
  <2>2. DOMAIN stack = 1..Len(stack)
    BY <1>2
  <2> QED BY <1>1, <2>1, <2>2
<1>4. \A x \in DOMAIN entries : TypeAt(entries[x]) \in {"ID", "PARAM"}
  <2>1. \A x \in 1..Len(entries) : entries[x] \in Names
    BY <1>2, ElementOfSeq
  <2>2. DOMAIN entries = 1..Len(entries)
    BY <1>2
  <2> QED BY <2>1, <2>2 DEF Names
<1>5. \A x \in DOMAIN operands : TypeAt(operands[x]) \notin {"ASSIGN", "EXP"}
  <2>1. \A x \in 1..Len(operands) : operands[x] \in Values
    BY <1>2, ElementOfSeq
  <2>2. DOMAIN operands = 1..Len(operands)
    BY <1>2
  <2> QED BY <2>1, <2>2 DEF Values
<1>6. ASSUME NEW p \in DOMAIN quads, NEW item \in {quads[p].dst, quads[p].src1, quads[p].src2},
             item.type \in {"KEY", "TEMP", "LIT"}
      PROVE  item.node \in DOMAIN nodes
  <2>1. p \in 1..Len(quads)
    BY <1>2
  <2>2. quads[p] \in Quadruple
    BY <1>2, <2>1, ElementOfSeq
  <2>3. item \in Items
    BY <2>2 DEF Quadruple
  <2> QED BY <1>1, <1>6, <2>3 DEF Items
<1>7. offset_entry \in {0} \cup DOMAIN nodes
  BY <1>1, <1>2
<1> QED BY <1>3, <1>4, <1>5, <1>6, <1>7 DEF TypeOK

LEMMA VisitFeeds ==
    ASSUME VisitInv
    PROVE  FeedsAllocator
<1>1. DOMAIN quads = 1..Len(quads) /\ \A p \in 1..Len(quads) : Fed(quads, p)
  <2>1. quads \in Seq(Quadruple)
    BY DEF VisitInv, Typed
  <2> QED BY <2>1 DEF VisitInv, Feeding
<1> DEFINE Made(n) == {p \in DOMAIN quads : quads[p].op \in {"ADD", "MUL", "CALL"}
                                              /\ quads[p].dst = Item("TEMP", n)}
           Args(n) == {a \in DOMAIN quads : quads[a].op = "ARG" /\ quads[a].node = n}
<1>2. \A n : Makes(quads, n) = Made(n)
  BY <1>1 DEF Makes, Evaluates
<1>3. \A n : ArgumentsOf(quads, n) = Args(n)
  BY <1>1 DEF ArgumentsOf
<1> SUFFICES ASSUME NEW p \in DOMAIN quads
             PROVE  /\ \A item \in {quads[p].src1, quads[p].src2}
                                  \cup (IF quads[p].op = "MOVE" /\ Headed THEN {quads[p].dst} ELSE {}) :
                          Temporary(item) => \E r \in Made(item.node) : r < p
                    /\ quads[p].op \in {"ADD", "MUL", "CALL"} =>
                          Temporary(quads[p].dst) /\ Made(quads[p].dst.node) = {p}
                    /\ quads[p].op \notin {"ADD", "MUL"} => quads[p].src2.type \in {"NO", "COUNT"}
                    /\ quads[p].op = "PARAM" => quads[p].dst.type = "KEY"
                    /\ quads[p].op = "ARG" =>
                          /\ p < Len(quads) /\ quads[p + 1].op \in {"ARG", "CALL"}
                          /\ quads[p + 1].node = quads[p].node
                    /\ quads[p].op = "CALL" => quads[p].src2.node = Cardinality(Args(quads[p].node))
  BY DEF FeedsAllocator
<1> HIDE DEF Made, Args
<1>4. Fed(quads, p)
  BY <1>1
<1>5. quads[p].op \in {"ADD", "MUL", "CALL"} =>
         Temporary(quads[p].dst) /\ Made(quads[p].dst.node) = {p}
  <2>1. quads[p].op \in {"ADD", "MUL", "CALL"} =>
           quads[p].dst = Item("TEMP", quads[p].node) /\ Makes(quads, quads[p].node) = {p}
    BY <1>4 DEF Fed, Evaluates
  <2>2. quads[p].dst = Item("TEMP", quads[p].node) =>
           Temporary(quads[p].dst) /\ quads[p].dst.node = quads[p].node
    BY DEF Temporary, Item
  <2> QED BY <1>2, <2>1, <2>2
<1>6. \A item \in {quads[p].src1, quads[p].src2}
                  \cup (IF quads[p].op = "MOVE" /\ Headed THEN {quads[p].dst} ELSE {}) :
         Temporary(item) => \E r \in Made(item.node) : r < p
  BY <1>2, <1>4 DEF Fed
<1> QED BY <1>3, <1>4, <1>5, <1>6 DEF Fed

(* The depth is the one the scopes are counted with. *)
LEMMA DepthIs ==
    ASSUME quads \in Seq(Quadruple), NEW d, Depths(quads, d)
    PROVE  Depth = d
<1> DEFINE Step(g, p) == IF p = 0 THEN 0
                         ELSE g[p - 1] + (IF quads[p].op \in Opening THEN 1 ELSE 0)
                                       - (IF quads[p].op \in Closing THEN 1 ELSE 0)
           Solves(g) == g = [p \in 0..Len(quads) |-> Step(g, p)]
<1>1. Len(quads) \in Nat
  OBVIOUS
<1>2. /\ d \in [0..Len(quads) -> Nat] /\ d[0] = 0
      /\ \A p \in 1..Len(quads) : d[p] = d[p - 1] + Rise(quads[p])
  BY DEF Depths
<1>3. ASSUME NEW p \in 0..Len(quads) PROVE d[p] = Step(d, p)
  <2>1. CASE p = 0
    BY <1>2, <2>1
  <2>2. CASE p # 0
    <3>1. p \in 1..Len(quads) /\ p - 1 \in 0..Len(quads)
      BY <1>1, <2>2
    <3>2. d[p] = d[p - 1] + Rise(quads[p]) /\ d[p - 1] \in Nat
      BY <1>2, <3>1
    <3> QED BY <2>2, <3>2 DEF Rise
  <2> QED BY <2>1, <2>2
<1>4. Solves(d)
  <2>1. d = [p \in 0..Len(quads) |-> d[p]]
    BY <1>2
  <2> QED BY <1>3, <2>1
<1>5. PICK g : g = CHOOSE h : Solves(h)
  OBVIOUS
<1>6. Solves(g)
  <2> HIDE DEF Solves
  <2> QED BY <1>4, <1>5
<1>7. \A p \in 0..Len(quads) : g[p] = Step(g, p)
  BY <1>6
<1>8. \A p \in 0..Len(quads) : g[p] = d[p]
  <2> DEFINE Bad == {p \in 0..Len(quads) : g[p] # d[p]}
  <2> SUFFICES ASSUME Bad # {} PROVE FALSE
    OBVIOUS
  <2>1. PICK p \in Bad : \A r \in Bad : p <= r
    <3>1. Bad \in SUBSET Nat
      BY <1>1
    <3> HIDE DEF Bad
    <3> QED BY <3>1, LeastNat
  <2>2. p \in 0..Len(quads) /\ g[p] # d[p]
    BY <2>1
  <2>3. p # 0
    BY <1>3, <1>7, <2>2
  <2>4. p - 1 \in 0..Len(quads) /\ ~(p <= p - 1)
    BY <1>1, <2>2, <2>3
  <2>5. g[p - 1] = d[p - 1]
    BY <2>1, <2>4
  <2>6. Step(g, p) = Step(d, p)
    BY <2>3, <2>5
  <2>7. g[p] = Step(g, p) /\ d[p] = Step(d, p)
    BY <1>3, <1>7, <2>2
  <2> QED BY <2>2, <2>6, <2>7
<1>9. g = d
  <2>1. g = [p \in 0..Len(quads) |-> g[p]]
    BY <1>6
  <2>2. d = [p \in 0..Len(quads) |-> d[p]]
    BY <1>2
  <2> QED BY <1>8, <2>1, <2>2
<1>10. Depth = g
  BY <1>5 DEF Depth
<1> QED BY <1>9, <1>10

LEMMA VisitNests ==
    ASSUME VisitInv
    PROVE  ScopesNest
<1> SUFFICES ASSUME Headed
             PROVE  /\ Len(watermarks) = Depth[Len(quads)] + 1
                    /\ \A p \in DOMAIN quads : Depth[p] >= 0
                    /\ \A x \in DOMAIN watermarks :
                          /\ watermarks[x] <= Len(entries)
                          /\ x > 1 => watermarks[x - 1] <= watermarks[x]
                    /\ pc = "done" => Len(watermarks) = 1
  BY DEF ScopesNest
<1>1. quads \in Seq(Quadruple) /\ watermarks \in Seq(Nat)
  BY DEF VisitInv, Typed, Restorable
<1>2. PICK d : /\ Depths(quads, d) /\ d[Len(quads)] + 1 = Len(watermarks)
               /\ Len(watermarks) = Cardinality(Open(stack)) + 1
  BY DEF VisitInv, Nested
<1>3. Depth = d
  BY <1>1, <1>2, DepthIs
<1>4. \A p \in DOMAIN quads : d[p] >= 0
  <2>1. d \in [0..Len(quads) -> Nat] /\ DOMAIN quads = 1..Len(quads) /\ Len(quads) \in Nat
    BY <1>1, <1>2 DEF Depths
  <2>2. \A p \in 1..Len(quads) : p \in 0..Len(quads)
    BY <2>1
  <2> QED BY <2>1, <2>2
<1>5. ASSUME NEW x \in DOMAIN watermarks
      PROVE  watermarks[x] <= Len(entries) /\ (x > 1 => watermarks[x - 1] <= watermarks[x])
  <2>1. x \in 1..Len(watermarks) /\ Len(watermarks) \in Nat
    BY <1>1
  <2>2. /\ \A y \in 1..Len(watermarks) : watermarks[y] <= Len(entries)
        /\ \A y, z \in 1..Len(watermarks) : y < z => watermarks[y] <= watermarks[z]
    BY DEF VisitInv, Restorable
  <2>3. x > 1 => x - 1 \in 1..Len(watermarks) /\ x - 1 < x
    BY <2>1
  <2> QED BY <2>1, <2>2, <2>3
<1>6. pc = "done" => Len(watermarks) = 1
  <2> SUFFICES ASSUME pc = "done" PROVE Len(watermarks) = 1
    OBVIOUS
  <2>1. stack = <<>>
    BY DEF VisitInv
  <2>2. Open(stack) = {}
    BY <2>1 DEF Open
  <2>3. Cardinality(Open(stack)) = 0
    BY <2>2, FS_EmptySet
  <2> QED BY <1>2, <2>3
<1> QED BY <1>2, <1>3, <1>4, <1>5, <1>6

LEMMA MeasureTold ==
    ASSUME Parsed, MeasureInv, pc \in Phases
    PROVE  TypeOK /\ NothingDropped /\ FeedsAllocator
<1>1. /\ entries = <<>> /\ quads = <<>> /\ operands = <<>> /\ offset_entry = 0 /\ ~dropped
  BY DEF MeasureInv
<1>2. Len(nodes) \in Nat /\ DOMAIN nodes = 1..Len(nodes)
  BY NodesTyped
<1>3. \A x \in DOMAIN stack : stack[x] \in DOMAIN nodes
  <2>1. stack \in Seq(1..Len(start_subtree)) /\ Len(start_subtree) \in Nat
        /\ Len(start_subtree) <= Len(nodes)
    BY DEF MeasureInv, Measured, Complete
  <2>2. \A x \in 1..Len(stack) : stack[x] \in 1..Len(start_subtree)
    BY <2>1, ElementOfSeq
  <2>3. DOMAIN stack = 1..Len(stack) /\ 1..Len(start_subtree) \subseteq 1..Len(nodes)
    BY <1>2, <2>1
  <2> QED BY <1>2, <2>2, <2>3
<1>4. DOMAIN entries = {} /\ DOMAIN quads = {} /\ DOMAIN operands = {}
  BY <1>1
<1>5. TypeOK
  BY <1>1, <1>3, <1>4 DEF TypeOK
<1>6. FeedsAllocator
  BY <1>4 DEF FeedsAllocator
<1> QED BY <1>1, <1>5, <1>6 DEF NothingDropped

LEMMA InvInit ==
    ASSUME Init, Parsed
    PROVE  IInv
<1>1. /\ pc = "measure" /\ start_subtree = <<>> /\ stack = <<>>
      /\ entries = <<>> /\ watermarks = <<>> /\ quads = <<>> /\ operands = <<>>
      /\ offset_entry = 0 /\ count_param = 0 /\ ~dropped
  BY DEF Init, Start
<1>2. Len(nodes) \in Nat
  BY NodesTyped
<1>3. \A S : <<>> \in Seq(S) /\ Len(<<>>) = 0
  OBVIOUS
<1>4. \A x \in 1..0 : FALSE
  OBVIOUS
<1>5. Measured(start_subtree)
  <2>1. <<>> \in Seq(1..Len(nodes)) /\ Len(<<>>) = 0 /\ 0 <= Len(nodes)
    BY <1>2, <1>3
  <2> QED BY <1>1, <1>4, <2>1 DEF Measured
<1>6. Complete(start_subtree, stack)
  <2>1. <<>> \in Seq(1..Len(<<>>)) /\ Len(<<>>) = 0 /\ \A x \in 1..(0 - 1) : FALSE
    BY <1>3
  <2> QED BY <1>1, <1>4, <2>1 DEF Complete
<1>7. pc \in Phases /\ pc \notin Moving \cup {"rejected", "undefined"}
  BY <1>1 DEF Phases, Moving
<1> QED BY <1>1, <1>5, <1>6, <1>7 DEF IInv, MeasureInv

LEMMA FeedsUnchanged ==
    ASSUME nodes' = nodes, start_subtree' = start_subtree, quads' = quads
    PROVE  FeedsAllocator' <=> FeedsAllocator
<1>1. Headed' = Headed
  BY DEF Headed, TypeAt
<1> QED BY <1>1 DEF FeedsAllocator, Temporary, Item

(* What is known of a state whose walk has met what the code leaves          *)
(* undefined, or nothing at all.                                             *)
LEMMA InvGivenUp ==
    ASSUME TypeOK, NothingDropped, FeedsAllocator, NEW CONSTANT outcome,
           outcome \in {"rejected", "undefined"}, Stop(outcome)
    PROVE  (TypeOK /\ NothingDropped /\ FeedsAllocator)' /\ pc' = outcome
<1>1. /\ nodes' = nodes /\ start_subtree' = start_subtree /\ stack' = stack
      /\ entries' = entries /\ quads' = quads /\ operands' = operands
      /\ offset_entry' = offset_entry /\ dropped' = dropped /\ pc' = outcome
  BY DEF Stop, input, expression
<1>2. pc' \in Phases
  BY <1>1 DEF Phases, Outcomes
<1>3. Phases' = Phases /\ \A n : TypeAt(n)' = TypeAt(n)
  BY <1>1 DEF Phases, Outcomes, TypeAt
<1>4. TypeOK'
  BY <1>1, <1>2, <1>3 DEF TypeOK, Phases, Outcomes, TypeAt
<1>5. FeedsAllocator'
  BY <1>1, FeedsUnchanged
<1>6. NothingDropped'
  BY <1>1 DEF NothingDropped
<1> QED BY <1>1, <1>4, <1>5, <1>6

LEMMA InvNext ==
    ASSUME IInv, [Next]_vars
    PROVE  IInv'
<1>1. Parsed /\ pc \in Phases
  BY DEF IInv
<1>2. /\ pc = "measure" => MeasureInv
      /\ pc \in {"visit", "expression", "done", "aborted"} => VisitInv
  BY DEF IInv, Moving
<1>3. nodes' = nodes /\ length' = length => Parsed'
  BY <1>1 DEF Parsed
<1>4. ASSUME nodes' = nodes, length' = length, pc' \in Moving, VisitInv'
      PROVE  IInv'
  BY <1>3, <1>4 DEF IInv, Moving, Phases, Outcomes
<1>5. ASSUME nodes' = nodes, length' = length, pc' \in {"rejected", "undefined"},
             (TypeOK /\ NothingDropped /\ FeedsAllocator)'
      PROVE  IInv'
  BY <1>3, <1>5 DEF IInv, Moving, Phases, Outcomes
<1>6. ASSUME pc = "visit", nodes' = nodes, length' = length, pc' = pc, VisitInv'
      PROVE  IInv'
  BY <1>4, <1>6 DEF Moving
<1>7. ASSUME pc = "expression", nodes' = nodes, length' = length, pc' = pc, VisitInv'
      PROVE  IInv'
  BY <1>4, <1>7 DEF Moving
<1>8. CASE MeasureSubtree
  <2>1. pc = "measure" /\ pc' = pc /\ nodes' = nodes /\ length' = length
    BY <1>8 DEF MeasureSubtree, Measuring, input
  <2>2. MeasureInv'
    BY <1>1, <1>2, <1>8, <2>1, InvMeasureSubtree
  <2> QED BY <1>3, <2>1, <2>2 DEF IInv, Moving, Phases
<1>9. CASE StartVisit
  <2>1. pc = "measure" /\ pc' = "visit" /\ nodes' = nodes /\ length' = length
    BY <1>9 DEF StartVisit, input
  <2>2. VisitInv'
    BY <1>1, <1>2, <1>9, <2>1, InvStartVisit
  <2> QED BY <1>4, <2>1, <2>2 DEF Moving
<1>10. CASE RejectEmpty
  <2>1. pc = "measure" /\ Stop("rejected") /\ nodes' = nodes /\ length' = length
    BY <1>10 DEF RejectEmpty, Stop, input
  <2>2. TypeOK /\ NothingDropped /\ FeedsAllocator
    BY <1>1, <1>2, <2>1, MeasureTold
  <2>3. (TypeOK /\ NothingDropped /\ FeedsAllocator)' /\ pc' = "rejected"
    BY <2>1, <2>2, InvGivenUp
  <2> QED BY <1>5, <2>1, <2>3
<1>11. CASE DeclareVariable
  <2>1. pc = "visit" /\ pc' = pc /\ nodes' = nodes /\ length' = length
    BY <1>11 DEF DeclareVariable, Declaring, Visiting, Descend, input
  <2> QED BY <1>1, <1>2, <1>6, <1>11, <2>1, InvDeclareVariable
<1>12. CASE DeclareLabel
  <2>1. pc = "visit" /\ pc' = pc /\ nodes' = nodes /\ length' = length
    BY <1>12 DEF DeclareLabel, Declaring, Visiting, Descend, input
  <2> QED BY <1>1, <1>2, <1>6, <1>12, <2>1, InvDeclareLabel
<1>13. CASE DeclarePrototype
  <2>1. pc = "visit" /\ pc' = pc /\ nodes' = nodes /\ length' = length
    BY <1>13 DEF DeclarePrototype, Declaring, Visiting, Descend, input
  <2> QED BY <1>1, <1>2, <1>6, <1>13, <2>1, InvDeclarePrototype
<1>14. CASE DeclareScope
  <2>1. pc = "visit" /\ pc' = pc /\ nodes' = nodes /\ length' = length
    BY <1>14 DEF DeclareScope, Declaring, Visiting, Descend, input
  <2> QED BY <1>1, <1>2, <1>6, <1>14, <2>1, InvDeclareScope
<1>15. CASE DeclareParameter
  <2>1. pc = "visit" /\ pc' = pc /\ nodes' = nodes /\ length' = length
    BY <1>15 DEF DeclareParameter, Visiting, Descend, input
  <2> QED BY <1>1, <1>2, <1>6, <1>15, <2>1, InvDeclareParameter
<1>16. CASE OpenScope
  <2>1. pc = "visit" /\ pc' = pc /\ nodes' = nodes /\ length' = length
    BY <1>16 DEF OpenScope, AnonymousScope, Visiting, Descend, input
  <2> QED BY <1>1, <1>2, <1>6, <1>16, <2>1, InvOpenScope
<1>17. CASE CloseScope
  <2>1. pc = "visit" /\ pc' = pc /\ nodes' = nodes /\ length' = length
    BY <1>17 DEF CloseScope, Visiting, Descend, input
  <2> QED BY <1>1, <1>2, <1>6, <1>17, <2>1, InvCloseScope
<1>18. CASE PassOver
  <2>1. pc = "visit" /\ pc' = pc /\ nodes' = nodes /\ length' = length
    BY <1>18 DEF PassOver, Descend, input
  <2> QED BY <1>1, <1>2, <1>6, <1>18, <2>1, InvPassOver
<1>19. CASE StartExpression
  <2>1. pc = "visit" /\ pc' = "expression" /\ nodes' = nodes /\ length' = length
    BY <1>19 DEF StartExpression, Visiting, input
  <2>2. VisitInv'
    BY <1>1, <1>2, <1>19, <2>1, InvStartExpression
  <2> QED BY <1>4, <2>1, <2>2 DEF Moving
<1>20. CASE ReadLeaf
  <2>1. pc = "expression" /\ pc' = pc /\ nodes' = nodes /\ length' = length
    BY <1>20 DEF ReadLeaf, Reading, Evaluating, Produce, input
  <2> QED BY <1>1, <1>2, <1>7, <1>20, <2>1, InvReadLeaf
<1>21. CASE ReadCall
  <2>1. pc = "expression" /\ pc' = pc /\ nodes' = nodes /\ length' = length
    BY <1>21 DEF ReadCall, Reading, Evaluating, Produce, input
  <2> QED BY <1>1, <1>2, <1>7, <1>21, <2>1, InvReadCall
<1>22. CASE ReadAssignment
  <2>1. pc = "expression" /\ pc' = pc /\ nodes' = nodes /\ length' = length
    BY <1>22 DEF ReadAssignment, Reading, Evaluating, Produce, input
  <2> QED BY <1>1, <1>2, <1>7, <1>22, <2>1, InvReadAssignment
<1>23. CASE ReadOperator
  <2>1. pc = "expression" /\ pc' = pc /\ nodes' = nodes /\ length' = length
    BY <1>23 DEF ReadOperator, Reading, Evaluating, Produce, input
  <2> QED BY <1>1, <1>2, <1>7, <1>23, <2>1, InvReadOperator
<1>24. CASE EndExpression
  <2>1. pc = "expression" /\ pc' = "visit" /\ nodes' = nodes /\ length' = length
    BY <1>24 DEF EndExpression, Evaluating, input
  <2>2. VisitInv'
    BY <1>1, <1>2, <1>24, <2>1, InvEndExpression
  <2> QED BY <1>4, <2>1, <2>2 DEF Moving
<1>25. ASSUME NEW CONSTANT outcome, Stop(outcome), pc \in {"visit", "expression"},
              outcome = "aborted" \/ (outcome = "done" /\ stack = <<>>)
       PROVE  IInv'
  <2>1. VisitInv'
    BY <1>1, <1>2, <1>25, InvStop
  <2>2. pc' \in Moving /\ nodes' = nodes /\ length' = length
    BY <1>25 DEF Stop, input, Moving
  <2> QED BY <1>4, <2>1, <2>2
<1>26. CASE Unexpected
  <2>1. pc = "expression" /\ Stop("aborted")
    BY <1>26 DEF Unexpected
  <2> QED BY <1>25, <2>1
<1>27. CASE MissingOperand
  <2>1. pc \in {"measure", "expression"} /\ Stop("undefined") /\ nodes' = nodes /\ length' = length
    BY <1>27 DEF MissingOperand, Measuring, Stop, input
  <2>2. TypeOK /\ NothingDropped /\ FeedsAllocator
    <3>1. CASE pc = "measure"
      BY <1>1, <1>2, <3>1, MeasureTold
    <3>2. CASE pc = "expression"
      <4>1. VisitInv
        BY <1>2, <3>2
      <4> QED BY <1>1, <4>1, VisitTyped, VisitFeeds DEF VisitInv, NothingDropped
    <3> QED BY <2>1, <3>1, <3>2
  <2>3. (TypeOK /\ NothingDropped /\ FeedsAllocator)' /\ pc' = "undefined"
    BY <2>1, <2>2, InvGivenUp
  <2> QED BY <1>5, <2>1, <2>3
<1>28. CASE NoScopeLeft
  <2>1. pc = "visit" /\ Stop("aborted")
    BY <1>28 DEF NoScopeLeft, Visiting
  <2> QED BY <1>25, <2>1
<1>29. CASE Finish
  <2>1. pc = "visit" /\ stack = <<>> /\ Stop("done")
    BY <1>29 DEF Finish
  <2> QED BY <1>25, <2>1
<1>30. CASE UNCHANGED vars
  <2>1. IInv' <=> IInv
    BY <1>30, SMTT(30) DEF vars, IInv, Parsed, Phases, Outcomes, Moving, MeasureInv, Measured, Tiles, Complete,
        VisitInv, Whole, Apart, Typed, Names, Values, Quadruple, Items, ItemTypes, Ops, Opening, Closing,
        Restorable, Nested, Headed, Declarations, Open, Ends, Depths, Rise, Expression, Covers, Room,
        Weight, Feeding, Fed, Makes, ArgumentsOf, Evaluates, Temporary, Item, TypeAt,
        TypeOK, NothingDropped, FeedsAllocator
  <2> QED BY <2>1
<1>31. CASE Returned
  BY <1>30, <1>31 DEF Returned
<1> QED BY <1>8, <1>9, <1>10, <1>11, <1>12, <1>13, <1>14, <1>15, <1>16, <1>17, <1>18, <1>19, <1>20,
           <1>21, <1>22, <1>23, <1>24, <1>26, <1>27, <1>28, <1>29, <1>30, <1>31 DEF Next

(* The invariant holds of every run from a forest of the parser's shape.     *)
(* Init leaves the forest to the constant Forests, so the theorems name what *)
(* they take of it; the walk never changes it.                               *)
THEOREM QuadruplesInvariance == Spec /\ Parsed => []IInv
<1>1. Init /\ Parsed => IInv
  BY InvInit
<1>2. IInv /\ [Next]_vars => IInv'
  BY InvNext
<1> QED BY <1>1, <1>2, PTL DEF Spec

LEMMA Told ==
    ASSUME IInv
    PROVE  TypeOK /\ NothingDropped /\ FeedsAllocator /\ ScopesNest
<1>1. Parsed /\ pc \in Phases
  BY DEF IInv
<1>2. CASE pc = "measure"
  <2>1. MeasureInv
    BY <1>2 DEF IInv
  <2>2. ScopesNest
    BY <1>2 DEF ScopesNest
  <2> QED BY <1>1, <2>1, <2>2, MeasureTold
<1>3. CASE pc \in Moving
  <2>1. VisitInv
    BY <1>3 DEF IInv
  <2> QED BY <1>1, <2>1, VisitTyped, VisitFeeds, VisitNests DEF VisitInv, NothingDropped
<1>4. CASE pc \in {"rejected", "undefined"}
  BY <1>4 DEF IInv, ScopesNest
<1> QED BY <1>1, <1>2, <1>3, <1>4 DEF Phases, Outcomes, Moving

(* Every name, operand and item of a quadruple is a node of the forest of    *)
(* the kind its place is for (tac_stab.c:21, tac_quadruple.c:5).             *)
THEOREM OperandsTyped == Spec /\ Parsed => []TypeOK
<1>1. IInv => TypeOK
  BY Told
<1> QED BY <1>1, QuadruplesInvariance, PTL

(* No push of create_tac finds its stack full: the entries, the watermarks,  *)
(* the quadruples and the operands all have room (tac_quadruple.c:76).       *)
THEOREM NothingLostToFullStack == Spec /\ Parsed => []NothingDropped
<1>1. IInv => NothingDropped
  BY Told
<1> QED BY <1>1, QuadruplesInvariance, PTL

(* The frames of the symbol table are the scopes the quadruples have opened  *)
(* and not closed, though some are opened two levels above where they are    *)
(* closed (tac_stab.c:75).                                                   *)
THEOREM ScopesNested == Spec /\ Parsed => []ScopesNest
<1>1. IInv => ScopesNest
  BY Told
<1> QED BY <1>1, QuadruplesInvariance, PTL

(* The quadruples are what the register allocator takes for granted: every   *)
(* temporary is computed once and read behind it, and the arguments a call   *)
(* counts are those written right before it (tac_expression.c).              *)
THEOREM AllocatorFed == Spec /\ Parsed => []FeedsAllocator
<1>1. IInv => FeedsAllocator
  BY Told
<1> QED BY <1>1, QuadruplesInvariance, PTL
=============================================================================

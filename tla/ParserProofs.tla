---------------------------- MODULE ParserProofs -----------------------------
(***************************************************************************)
(* Proofs about Parser, for every list of tokens the lexer may return,     *)
(* every length of the source and every size of the stacks: the bounds of  *)
(* its arrays and what lies on its stacks in every phase.                  *)
(***************************************************************************)
EXTENDS Parser, FiniteSetTheorems, WellFoundedInduction, TLAPS

-----------------------------------------------------------------------------
(* Numbers and sums                                                          *)

(* A set of numbers has a least one: the finite sets 1..x are well-founded.  *)
LEMMA LeastNat ==
    ASSUME NEW T \in SUBSET Nat, T # {}
    PROVE  \E x \in T : \A y \in T : x <= y
<1> DEFINE Up == {1..x : x \in T}
<1>1. Up \subseteq FiniteSubsetsOf(Nat)
  BY FS_Interval DEF FiniteSubsetsOf
<1>2. IsWellFoundedOn(StrictSubsetOrdering(Nat), FiniteSubsetsOf(Nat))
  BY FS_StrictSubsetOrderingWellFounded
<1>3. PICK X \in Up : \A Y \in Up : ~(<<Y, X>> \in StrictSubsetOrdering(Nat))
  <2> Up # {} OBVIOUS
  <2> HIDE DEF Up
  <2> QED BY <1>1, <1>2, WFMin
<1>4. PICK x \in T : X = 1..x
  BY <1>3
<1>5. ASSUME NEW y \in T, y < x PROVE FALSE
  <2>1. <<1..y, X>> \notin StrictSubsetOrdering(Nat)
    BY <1>3
  <2>2. 1..y \in SUBSET Nat /\ 1..x \in SUBSET Nat
    OBVIOUS
  <2>3. 1..y \subseteq 1..x /\ 1..y # 1..x
    <3>1. x \in 1..x /\ x \notin 1..y
      BY <1>5
    <3> QED BY <3>1, <1>5
  <2> QED BY <2>1, <2>2, <2>3, <1>4 DEF StrictSubsetOrdering
<1> QED BY <1>5

(* The sums of the first numbers of a list: a least length without them      *)
(* could be reached from the one before.                                     *)
LEMMA SumExists ==
    ASSUME NEW n \in Nat, NEW d \in [1..n -> Int]
    PROVE  \E f : f = [k \in 0..n |-> IF k = 0 THEN 0 ELSE f[k - 1] + d[k]]
<1> DEFINE Solves(f, m) == f = [k \in 0..m |-> IF k = 0 THEN 0 ELSE f[k - 1] + d[k]]
           Unsolved == {m \in Nat : ~\E f : Solves(f, m)}
<1>1. Unsolved = {}
  <2> SUFFICES ASSUME Unsolved # {} PROVE FALSE
    OBVIOUS
  <2>1. PICK m \in Unsolved : \A y \in Unsolved : m <= y
    <3>1. Unsolved \in SUBSET Nat
      OBVIOUS
    <3> HIDE DEF Unsolved
    <3> QED BY <3>1, LeastNat
  <2>2. CASE m = 0
    <3> DEFINE f == [k \in 0..0 |-> 0]
    <3>1. Solves(f, 0)
      OBVIOUS
    <3> HIDE DEF Solves
    <3> QED BY <2>1, <2>2, <3>1
  <2>3. CASE m # 0
    <3>1. m \in Nat /\ m - 1 \in Nat /\ m - 1 \notin Unsolved
      <4>1. m \in Nat /\ m - 1 \in Nat /\ ~(m <= m - 1)
        BY <2>3
      <4> HIDE DEF Unsolved
      <4> QED BY <2>1, <4>1
    <3>2. PICK g : Solves(g, m - 1)
      BY <3>1
    <3> DEFINE h == [k \in 0..m |-> IF k < m THEN g[k] ELSE g[m - 1] + d[m]]
    <3>3. ASSUME NEW k \in 0..m
          PROVE  h[k] = IF k = 0 THEN 0 ELSE h[k - 1] + d[k]
      <4>1. CASE k = m
        <5>1. h[k] = g[m - 1] + d[m] /\ h[k - 1] = g[m - 1]
          BY <3>1, <4>1
        <5> QED BY <2>3, <4>1, <5>1
      <4>2. CASE k # m
        <5>1. k \in 0..(m - 1) /\ h[k] = g[k]
          BY <3>1, <4>2
        <5>2. k # 0 => h[k - 1] = g[k - 1]
          BY <3>1, <4>2
        <5>3. g[k] = IF k = 0 THEN 0 ELSE g[k - 1] + d[k]
          BY <3>2, <5>1
        <5> QED BY <5>1, <5>2, <5>3
      <4> QED BY <4>1, <4>2
    <3>4. Solves(h, m)
      <4>1. h = [k \in 0..m |-> h[k]]
        OBVIOUS
      <4> HIDE DEF h
      <4> QED BY <3>3, <4>1
    <3> HIDE DEF Solves
    <3> QED BY <2>1, <3>4
  <2> QED BY <2>2, <2>3
<1>2. PICK f : Solves(f, n)
  BY <1>1
<1> QED BY <1>2

(* Such sums are whole numbers.                                              *)
LEMMA SumInt ==
    ASSUME NEW n \in Nat, NEW d, NEW f, f[0] = 0,
           \A k \in 1..n : d[k] \in Int, \A k \in 1..n : f[k] = f[k - 1] + d[k]
    PROVE  \A k \in 0..n : f[k] \in Int
<1> DEFINE Bad == {k \in 0..n : f[k] \notin Int}
<1> SUFFICES ASSUME Bad # {} PROVE FALSE
  OBVIOUS
<1>1. PICK k \in Bad : \A y \in Bad : k <= y
  <2>1. Bad \in SUBSET Nat
    OBVIOUS
  <2> HIDE DEF Bad
  <2> QED BY <2>1, LeastNat
<1>2. k \in 1..n
  BY <1>1
<1>3. k - 1 \in 0..n /\ ~(k <= k - 1)
  BY <1>2
<1>4. f[k - 1] \in Int
  BY <1>1, <1>3
<1>5. f[k] \in Int
  BY <1>2, <1>4
<1> QED BY <1>1, <1>5

(* The number of complete trees after each node. *)
LEMMA TreesFacts ==
    ASSUME NEW S, NEW ns \in Seq(S), \A x \in S : Growth(x) \in Int
    PROVE  /\ Trees(ns) \in [0..Len(ns) -> Int]
           /\ Trees(ns)[0] = 0
           /\ \A n \in 1..Len(ns) : Trees(ns)[n] = Trees(ns)[n - 1] + Growth(ns[n])
<1> DEFINE d == [k \in 1..Len(ns) |-> Growth(ns[k])]
           Solves(f) == f = [n \in 0..Len(ns) |-> IF n = 0 THEN 0 ELSE f[n - 1] + Growth(ns[n])]
<1>1. Len(ns) \in Nat /\ d \in [1..Len(ns) -> Int]
  OBVIOUS
<1>2. ASSUME NEW f
      PROVE  Solves(f) <=> f = [n \in 0..Len(ns) |-> IF n = 0 THEN 0 ELSE f[n - 1] + d[n]]
  <2>1. \A n \in 0..Len(ns) : n # 0 => d[n] = Growth(ns[n])
    BY <1>1
  <2> HIDE DEF d
  <2> QED BY <2>1
<1>3. \E f : Solves(f)
  <2> HIDE DEF d, Solves
  <2> QED BY <1>1, <1>2, SumExists
<1>4. Solves(Trees(ns))
  <2>1. PICK f : Solves(f)
    BY <1>3
  <2> QED BY <2>1 DEF Trees
<1>5. \A n \in 1..Len(ns) : d[n] = Growth(ns[n])
  BY <1>1
<1>6. Trees(ns) = [n \in 0..Len(ns) |-> IF n = 0 THEN 0 ELSE Trees(ns)[n - 1] + d[n]]
  BY <1>2, <1>4
<1>7. /\ Trees(ns)[0] = 0
      /\ \A n \in 1..Len(ns) : Trees(ns)[n] = Trees(ns)[n - 1] + d[n]
  <2> HIDE DEF d, Solves
  <2> QED BY <1>1, <1>6
<1>8. \A n \in 1..Len(ns) : d[n] \in Int
  BY <1>1
<1>9. \A n \in 0..Len(ns) : Trees(ns)[n] \in Int
  <2> HIDE DEF d, Solves
  <2> QED BY <1>1, <1>7, <1>8, SumInt
<1>10. Trees(ns) = [n \in 0..Len(ns) |-> Trees(ns)[n]]
  <2> HIDE DEF d, Solves
  <2> QED BY <1>6
<1>11. Trees(ns) \in [0..Len(ns) -> Int]
  BY <1>9, <1>10
<1> QED BY <1>5, <1>7, <1>11

(* Nodes written later change nothing before them. *)
LEMMA TreesPrefix ==
    ASSUME NEW S, NEW ns \in Seq(S), NEW ns2 \in Seq(S), \A x \in S : Growth(x) \in Int,
           Len(ns) <= Len(ns2), \A n \in 1..Len(ns) : ns2[n] = ns[n]
    PROVE  \A n \in 0..Len(ns) : Trees(ns2)[n] = Trees(ns)[n]
<1> DEFINE Bad == {n \in 0..Len(ns) : Trees(ns2)[n] # Trees(ns)[n]}
<1> SUFFICES ASSUME Bad # {} PROVE FALSE
  OBVIOUS
<1>1. PICK n \in Bad : \A m \in Bad : n <= m
  <2>1. Bad \in SUBSET Nat
    OBVIOUS
  <2> HIDE DEF Bad
  <2> QED BY <2>1, LeastNat
<1>2. n \in 0..Len(ns) /\ Trees(ns2)[n] # Trees(ns)[n] /\ Len(ns) \in Nat /\ Len(ns2) \in Nat
  BY <1>1
<1>3. n # 0
  BY <1>2, TreesFacts
<1>4. n - 1 \in 0..Len(ns) /\ ~(n <= n - 1) /\ n \in 1..Len(ns) /\ n \in 1..Len(ns2)
  BY <1>2, <1>3
<1>5. Trees(ns2)[n - 1] = Trees(ns)[n - 1]
  BY <1>1, <1>4
<1>6. Trees(ns)[n] = Trees(ns)[n - 1] + Growth(ns[n])
  BY <1>4, TreesFacts
<1>7. Trees(ns2)[n] = Trees(ns2)[n - 1] + Growth(ns2[n])
  BY <1>4, TreesFacts
<1> QED BY <1>2, <1>4, <1>5, <1>6, <1>7

(* There is room for a node. *)
LEMMA SourceNotEmpty ==
    ASSUME NEW s \in Seq(Token)
    PROVE  ShortestSource(s) \in Nat /\ ShortestSource(s) > 0
<1> DEFINE before(n) == IF n = 1 THEN "NO" ELSE s[n - 1].kind
           Term(n) == Width[s[n].kind] + Between(before(n), s[n].kind)
           d == [k \in 1..Len(s) |-> Term(k)]
           Solves(f) == f = [n \in 0..Len(s) |->
                               IF n = 0 THEN 0
                               ELSE f[n - 1] + Width[s[n].kind] + Between(before(n), s[n].kind)]
<1>1. \A k \in 1..Len(s) : Width[s[k].kind] \in Int /\ Between(before(k), s[k].kind) \in Int
  <2> SUFFICES ASSUME NEW k \in 1..Len(s)
               PROVE  Width[s[k].kind] \in Int /\ Between(before(k), s[k].kind) \in Int
    OBVIOUS
  <2>1. s[k].kind \in Kinds
    <3>1. s[k] \in Token
      OBVIOUS
    <3> QED BY <3>1 DEF Token
  <2>2. Width[s[k].kind] \in Int
    BY <2>1 DEF Width
  <2> QED BY <2>2 DEF Between
<1>2. Len(s) \in Nat /\ d \in [1..Len(s) -> Int]
  <2>1. \A k \in 1..Len(s) : Term(k) \in Int
    BY <1>1
  <2> HIDE DEF Term
  <2> QED BY <2>1
<1>3. ASSUME NEW f, Solves(f)
      PROVE  f = [n \in 0..Len(s) |-> IF n = 0 THEN 0 ELSE f[n - 1] + d[n]]
  <2> DEFINE Bad == {n \in 0..Len(s) : f[n] \notin Int}
  <2>1. \A n \in 0..Len(s) : f[n] = IF n = 0 THEN 0
                               ELSE f[n - 1] + Width[s[n].kind] + Between(before(n), s[n].kind)
    <3> HIDE DEF before, d
    <3> QED BY <1>2, <1>3
  <2>2. Bad = {}
    <3> SUFFICES ASSUME Bad # {} PROVE FALSE
      OBVIOUS
    <3>1. PICK k \in Bad : \A y \in Bad : k <= y
      <4>1. Bad \in SUBSET Nat
        OBVIOUS
      <4> HIDE DEF Bad
      <4> QED BY <4>1, LeastNat
    <3>2. k \in 0..Len(s) /\ f[k] \notin Int
      BY <3>1
    <3>3. k # 0
      BY <2>1, <3>2
    <3>4. k - 1 \in 0..Len(s) /\ ~(k <= k - 1) /\ k \in 1..Len(s)
      BY <3>2, <3>3, <1>2
    <3>5. f[k - 1] \in Int
      BY <3>1, <3>4
    <3>6. f[k] = f[k - 1] + Width[s[k].kind] + Between(before(k), s[k].kind)
      BY <2>1, <3>2, <3>3
    <3>7. Width[s[k].kind] \in Int /\ Between(before(k), s[k].kind) \in Int
      BY <1>1, <3>4
    <3> HIDE DEF before, Bad, d
    <3> QED BY <3>2, <3>5, <3>6, <3>7
  <2>3. \A n \in 1..Len(s) : f[n] = f[n - 1] + d[n]
    <3> TAKE n \in 1..Len(s)
    <3>1. f[n - 1] \in Int /\ n \in 0..Len(s) /\ n # 0
      <4>1. n - 1 \in 0..Len(s)
        BY <1>2
      <4> QED BY <2>2, <4>1
    <3>2. d[n] = Width[s[n].kind] + Between(before(n), s[n].kind)
      OBVIOUS
    <3>3. f[n] = f[n - 1] + Width[s[n].kind] + Between(before(n), s[n].kind)
      BY <2>1, <3>1
    <3> HIDE DEF before, d
    <3> QED BY <1>1, <3>1, <3>2, <3>3
  <2>4. f = [n \in 0..Len(s) |-> f[n]]
    BY <1>3
  <2>5. \A n \in 0..Len(s) : f[n] = IF n = 0 THEN 0 ELSE f[n - 1] + d[n]
    <3> HIDE DEF before, d
    <3> QED BY <1>2, <2>1, <2>3
  <2> HIDE DEF d, Solves
  <2> QED BY <2>4, <2>5
<1>4. \E f : Solves(f)
  <2>1. PICK f : f = [k \in 0..Len(s) |-> IF k = 0 THEN 0 ELSE f[k - 1] + d[k]]
    <3> HIDE DEF d, Solves
    <3> QED BY <1>2, SumExists
  <2>2. f[0] = 0 /\ \A k \in 1..Len(s) : f[k] = f[k - 1] + d[k]
    <3> HIDE DEF d, Solves
    <3> QED BY <1>2, <2>1
  <2>6. \A k \in 1..Len(s) : d[k] \in Int
    BY <1>2
  <2>7. \A k \in 0..Len(s) : f[k] \in Int
    <3> HIDE DEF d, Solves
    <3> QED BY <1>2, <2>2, <2>6, SumInt
  <2>3. \A k \in 0..Len(s) : f[k] = IF k = 0 THEN 0
                               ELSE f[k - 1] + Width[s[k].kind] + Between(before(k), s[k].kind)
    <3> TAKE k \in 0..Len(s)
    <3>1. CASE k = 0
      BY <2>1, <3>1
    <3>2. CASE k # 0
      <4>1. k \in 1..Len(s) /\ k - 1 \in 0..Len(s)
        BY <3>2, <1>2
      <4>2. d[k] = Width[s[k].kind] + Between(before(k), s[k].kind)
        BY <4>1
      <4>3. f[k] = f[k - 1] + d[k] /\ f[k - 1] \in Int
        BY <2>2, <2>7, <4>1
      <4> HIDE DEF before, d
      <4> QED BY <1>1, <3>2, <4>1, <4>2, <4>3
    <3> QED BY <3>1, <3>2
  <2>4. f = [k \in 0..Len(s) |-> f[k]]
    BY <2>1
  <2>5. Solves(f)
    <3> HIDE DEF before, d
    <3> QED BY <2>3, <2>4
  <2> QED BY <2>5
<1>5. PICK f : /\ Solves(f)
               /\ ShortestSource(s) = IF f[Len(s)] > Len(s) THEN f[Len(s)] ELSE Len(s) + 1
  <2> DEFINE up == CHOOSE f : Solves(f)
  <2>1. Solves(up)
    <3> HIDE DEF Solves
    <3> QED BY <1>4
  <2>2. ShortestSource(s) = IF up[Len(s)] > Len(s) THEN up[Len(s)] ELSE Len(s) + 1
    BY DEF ShortestSource
  <2> HIDE DEF up
  <2> QED BY <2>1, <2>2
<1>6. f = [n \in 0..Len(s) |-> IF n = 0 THEN 0 ELSE f[n - 1] + d[n]]
  <2> HIDE DEF Solves, d
  <2> QED BY <1>3, <1>5
<1>7. f[Len(s)] \in Int
  <2>1. f[0] = 0 /\ \A k \in 1..Len(s) : f[k] = f[k - 1] + d[k]
    <3> HIDE DEF d, Solves
    <3> QED BY <1>2, <1>6
  <2>2. \A k \in 1..Len(s) : d[k] \in Int
    BY <1>2
  <2>3. \A k \in 0..Len(s) : f[k] \in Int
    <3> HIDE DEF Solves, d
    <3> QED BY <1>2, <2>1, <2>2, SumInt
  <2> QED BY <1>2, <2>3
<1> QED BY <1>2, <1>5, <1>7

-----------------------------------------------------------------------------
(* The stacks and the nodes                                                  *)

Decls == {"DECL_VAR", "DECL_LAB", "DECL_PAL"}
Inits == {"INIT_LAB", "INIT_PAL"}
OperatorTypes == Decls \cup Inits \cup {"INIT_VAR", "EXP", "GRP_Q", "GRP_MOD", "GRP_R_PARES"}
PendingTypes == {"ADD", "MUL", "ASSIGN", "CALLEE", "LPAR"}
NodeTypes == OperatorTypes \cup ExpressionTypes \cup
    {"Q", "MOD", "ID", "TYPE_VAR", "TYPE_PAL_VOID", "PARAM", "TYPE_PAL", "SCOPE_END", "SCOPE"}

Items(types) == [type : types, arity : Int, token : Nat]
Operator == Items(OperatorTypes)
Pending == Items(PendingTypes)
Written == Items(NodeTypes)
Frame == [type : {"SCOPE_0", "SCOPE"}, watermark : Nat, children : Nat, token : Nat]

LEMMA NodeType ==
    ASSUME NEW types, NEW type \in types, NEW arity \in Int, NEW p \in Nat
    PROVE  /\ Node(type, arity, p) \in Items(types)
           /\ Node(type, arity, p).type = type
           /\ Node(type, arity, p).arity = arity
           /\ Node(type, arity, p).token = p
           /\ Leaf(type, p) = Node(type, 0, p)
BY DEF Node, Leaf, Items

LEMMA ItemFields ==
    ASSUME NEW types, NEW x \in Items(types)
    PROVE  x.type \in types /\ x.arity \in Int /\ x.token \in Nat
BY DEF Items

LEMMA SubTypes ==
    /\ \A x \in Operator : x \in Written
    /\ \A x \in Pending : x \in Written
BY DEF Operator, Pending, Written, Items, NodeTypes, PendingTypes, ExpressionTypes, Node

LEMMA SetArity ==
    ASSUME NEW types, NEW x \in Items(types), NEW n \in Int
    PROVE  /\ [x EXCEPT !.arity = n] \in Items(types)
           /\ [x EXCEPT !.arity = n].type = x.type
           /\ [x EXCEPT !.arity = n].token = x.token
           /\ [x EXCEPT !.arity = n].arity = n
BY DEF Items

LEMMA SetChildren ==
    ASSUME NEW x \in Frame, NEW n \in Nat
    PROVE  /\ [x EXCEPT !.children = n] \in Frame
           /\ [x EXCEPT !.children = n].type = x.type
           /\ [x EXCEPT !.children = n].token = x.token
           /\ [x EXCEPT !.children = n].watermark = x.watermark
           /\ [x EXCEPT !.children = n].children = n
BY DEF Frame

LEMMA CountedFacts ==
    ASSUME NEW types, NEW ops \in Seq(Items(types)), NEW n \in Int
    PROVE  /\ Counted(ops, n) \in Seq(Items(types))
           /\ Len(Counted(ops, n)) = Len(ops)
           /\ \A x \in 1..Len(ops) :
                 /\ Counted(ops, n)[x].type = ops[x].type
                 /\ Counted(ops, n)[x].token = ops[x].token
                 /\ Counted(ops, n)[x].arity = IF x = Len(ops) THEN ops[x].arity + n
                                                                ELSE ops[x].arity
<1>1. CASE ops = <<>>
  BY <1>1, SMTT(30) DEF Counted
<1>2. CASE ops # <<>>
  <2> DEFINE l == Len(ops)
             r == [ops EXCEPT ![l].arity = @ + n]
  <2>1. l \in Nat /\ l >= 1 /\ DOMAIN ops = 1..l
    BY <1>2
  <2>2. Counted(ops, n) = r
    BY <1>2 DEF Counted
  <2>3. \A x \in 1..l : ops[x] \in Items(types)
    OBVIOUS
  <2>4. r[l] = [ops[l] EXCEPT !.arity = @ + n]
    BY <2>1
  <2>5. /\ r[l] \in Items(types)
        /\ r[l].type = ops[l].type /\ r[l].token = ops[l].token
        /\ r[l].arity = ops[l].arity + n
    <3>1. ops[l] \in Items(types)
      BY <2>1, <2>3
    <3>2. ops[l].arity \in Int
      BY <3>1, ItemFields
    <3>3. r[l] = [ops[l] EXCEPT !.arity = ops[l].arity + n]
      BY <2>4
    <3>4. ops[l].arity + n \in Int
      BY <3>2
    <3> HIDE DEF r, l
    <3> QED BY <3>1, <3>3, <3>4, SetArity
  <2>6. \A x \in 1..l : x # l => r[x] = ops[x]
    BY <2>1
  <2>7. r = [x \in 1..l |-> r[x]]
    BY <2>1
  <2>8. \A x \in 1..l : r[x] \in Items(types)
    <3> HIDE DEF r
    <3> QED BY <2>3, <2>5, <2>6
  <2>9. r \in Seq(Items(types)) /\ Len(r) = l
    <3> HIDE DEF r
    <3> QED BY <2>1, <2>7, <2>8
  <2> HIDE DEF r
  <2> QED BY <2>1, <2>2, <2>5, <2>6, <2>9
<1> QED BY <1>1, <1>2

LEMMA PushedFacts ==
    ASSUME NEW S, NEW s \in Seq(S), NEW x \in S, Len(s) <= StackSize
    PROVE  /\ Pushed(s, x) \in Seq(S)
           /\ Len(Pushed(s, x)) <= StackSize
           /\ Len(Pushed(s, x)) >= Len(s) + 1 \/ Len(Pushed(s, x)) >= 3
           /\ Pushed(s, x) # <<>> /\ Len(Pushed(s, x)) >= 1
           /\ ~Full(s) => /\ Len(Pushed(s, x)) = Len(s) + 1
                          /\ Pushed(s, x)[Len(s) + 1] = x
           /\ Full(s) => Pushed(s, x) = s /\ Len(s) >= 3
           /\ \A n \in 1..Len(s) : Pushed(s, x)[n] = s[n]
BY ParserAssumption DEF ParserAssumption, Pushed, Full

LEMMA RestFacts ==
    ASSUME NEW S, NEW s \in Seq(S)
    PROVE  /\ Rest(s) \in Seq(S)
           /\ Len(Rest(s)) = IF s = <<>> THEN 0 ELSE Len(s) - 1
           /\ s # <<>> => Top(s) \in S
           /\ \A n \in 1..Len(Rest(s)) : Rest(s)[n] = s[n]
<1>1. CASE s = <<>>
  <2>1. Rest(s) = <<>>
    BY <1>1 DEF Rest
  <2> QED BY <1>1, <2>1
<1>2. CASE s # <<>>
  <2>1. Len(s) \in Nat /\ Len(s) >= 1
    BY <1>2
  <2>2. Rest(s) = SubSeq(s, 1, Len(s) - 1) /\ Top(s) = s[Len(s)]
    BY DEF Rest, Top
  <2>3. Top(s) \in S
    BY <2>1, <2>2
  <2>4. Len(s) - 1 \in 0..Len(s)
    BY <2>1
  <2> DEFINE m == Len(s) - 1
  <2>5. m \in Nat /\ m <= Len(s)
    BY <2>1
  <2>6. SubSeq(s, 1, m) \in Seq(S)
    BY <2>5
  <2>7. Len(SubSeq(s, 1, m)) = m
    <3> HIDE DEF m
    <3> QED BY <2>5
  <2>8. \A n \in 1..m : SubSeq(s, 1, m)[n] = s[n]
    <3> HIDE DEF m
    <3> QED BY <2>5, SMTT(30)
  <2> QED BY <1>2, <2>2, <2>3, <2>6, <2>7, <2>8
<1> QED BY <1>1, <1>2

LEMMA ChildFacts ==
    ASSUME NEW c \in Seq(Frame), c # <<>>, NEW n \in Nat
    PROVE  /\ Child(c, n) \in Seq(Frame)
           /\ Len(Child(c, n)) = Len(c)
           /\ \A x \in 1..Len(c) :
                 /\ Child(c, n)[x].type = c[x].type
                 /\ Child(c, n)[x].watermark = c[x].watermark
                 /\ Child(c, n)[x].token = c[x].token
                 /\ Child(c, n)[x].children = IF x = Len(c) THEN c[x].children + n
                                                            ELSE c[x].children
<1> DEFINE l == Len(c)
           r == [c EXCEPT ![l].children = @ + n]
<1>1. l \in Nat /\ l >= 1 /\ DOMAIN c = 1..l
  OBVIOUS
<1>2. Child(c, n) = r
  BY DEF Child
<1>3. \A x \in 1..l : c[x] \in Frame
  OBVIOUS
<1>4. r[l] = [c[l] EXCEPT !.children = @ + n]
  BY <1>1
<1>5. /\ r[l] \in Frame
      /\ r[l].type = c[l].type /\ r[l].token = c[l].token /\ r[l].watermark = c[l].watermark
      /\ r[l].children = c[l].children + n
  <2>1. c[l] \in Frame
    BY <1>1, <1>3
  <2>2. c[l].children + n \in Nat
    BY <2>1 DEF Frame
  <2>3. r[l] = [c[l] EXCEPT !.children = c[l].children + n]
    BY <1>4
  <2> HIDE DEF r, l
  <2> QED BY <2>1, <2>2, <2>3, SetChildren
<1>6. \A x \in 1..l : x # l => r[x] = c[x]
  BY <1>1
<1>7. r = [x \in 1..l |-> r[x]]
  BY <1>1
<1>8. \A x \in 1..l : r[x] \in Frame
  <2> HIDE DEF r
  <2> QED BY <1>3, <1>5, <1>6
<1>9. r \in Seq(Frame) /\ Len(r) = l
  <2> HIDE DEF r
  <2> QED BY <1>1, <1>7, <1>8
<1> HIDE DEF r
<1> QED BY <1>1, <1>2, <1>5, <1>6, <1>9

(* What has to be known of the operators to flush them. *)
LEMMA FlushedFacts ==
    ASSUME operators \in Seq(Operator), contexts \in Seq(Frame), contexts # <<>>
    PROVE  LET w == Top(contexts).watermark
               over == IF w < Len(operators) THEN Len(operators) - w ELSE 0
           IN  /\ w \in Nat
               /\ Flushed \in Seq(Written) /\ Flushed \in Seq(Operator)
               /\ Len(Flushed) = over
               /\ \A x \in 1..over : Flushed[x] = operators[Len(operators) - x + 1]
               /\ Kept \in Seq(Operator)
               /\ Len(Kept) = Len(operators) - over
               /\ \A x \in 1..Len(Kept) : Kept[x] = operators[x]
<1> DEFINE w == Top(contexts).watermark
           l == Len(operators)
           over == IF w < l THEN l - w ELSE 0
           above == SubSeq(operators, w + 1, l)
<1>1. Top(contexts) \in Frame
  BY RestFacts
<1>2. w \in Nat /\ l \in Nat
  BY <1>1 DEF Frame
<1>3. over \in 0..l /\ (over > 0 => w + over = l)
  BY <1>2
<1>4. /\ above \in Seq(Operator) /\ Len(above) = over
      /\ \A x \in 1..over : above[x] = operators[w + x]
  <2>1. CASE w < l
    <3>1. w + 1 \in 1..l /\ l \in 1..l
      BY <1>2, <2>1
    <3>2. above \in Seq(Operator) /\ Len(above) = l - (w + 1) + 1
          /\ \A x \in 1..(l - (w + 1) + 1) : above[x] = operators[(w + 1) + x - 1]
      BY <1>2, <3>1
    <3>3. l - (w + 1) + 1 = over /\ \A x \in 1..over : (w + 1) + x - 1 = w + x
      BY <1>2, <2>1
    <3> HIDE DEF above, over
    <3> QED BY <3>2, <3>3
  <2>2. CASE ~(w < l)
    <3>1. above = <<>>
      BY <1>2, <2>2
    <3>2. over = 0
      BY <2>2
    <3> HIDE DEF above, over
    <3> QED BY <3>1, <3>2
  <2> QED BY <2>1, <2>2
<1>5. Flushed = [x \in 1..over |-> above[over - x + 1]]
  <2>1. DOMAIN above = 1..over
    <3> HIDE DEF above, over
    <3> QED BY <1>3, <1>4
  <2> QED BY <1>4, <2>1 DEF Flushed
<1>6. \A x \in 1..over : over - x + 1 \in 1..over
  BY <1>3
<1>7. \A x \in 1..over : above[over - x + 1] = operators[l - x + 1]
  <2> SUFFICES ASSUME NEW x \in 1..over PROVE above[over - x + 1] = operators[l - x + 1]
    OBVIOUS
  <2>1. above[over - x + 1] = operators[w + (over - x + 1)]
    <3> HIDE DEF above, over
    <3> QED BY <1>4, <1>6
  <2>2. w + (over - x + 1) = l - x + 1
    BY <1>2, <1>3
  <2> QED BY <2>1, <2>2
<1>8. \A x \in 1..over : above[over - x + 1] \in Operator
  <2> HIDE DEF above, over
  <2> QED BY <1>3, <1>4, <1>6
<1>9. /\ Flushed \in Seq(Operator) /\ Len(Flushed) = over
      /\ \A x \in 1..over : Flushed[x] = operators[l - x + 1]
  <2> HIDE DEF above, over
  <2> QED BY <1>3, <1>5, <1>7, <1>8
<1>10. Flushed \in Seq(Written)
  BY <1>9, SubTypes
<1>11. /\ Kept \in Seq(Operator) /\ Len(Kept) = l - over
       /\ \A x \in 1..(l - over) : Kept[x] = operators[x]
  <2>1. Kept = SubSeq(operators, 1, l - over)
    BY <1>9 DEF Kept
  <2>2. l - over \in 0..l
    BY <1>3
  <2> HIDE DEF over
  <2> QED BY <2>1, <2>2
<1> QED BY <1>2, <1>9, <1>10, <1>11

(* Behind the semicolons there is a token that is none, or the null token. *)
LEMMA SemicolonsEnd ==
    ASSUME tokens \in Seq(Token), i \in 1..Len(tokens), At(i) = "SEMI"
    PROVE  AfterSemicolons \in (i + 1)..(Len(tokens) + 1)
<1> DEFINE T == {p \in (i + 1)..(Len(tokens) + 1) : At(p) # "SEMI"}
<1>1. Len(tokens) \in Nat /\ DOMAIN tokens = 1..Len(tokens)
  OBVIOUS
<1>2. Len(tokens) + 1 \in T
  BY <1>1 DEF At
<1>3. PICK p \in T : \A y \in T : p <= y
  <2>1. T \in SUBSET Nat
    BY <1>1
  <2> HIDE DEF T
  <2> QED BY <1>2, <2>1, LeastNat
<1>4. \A p2 \in i..(p - 1) : At(p2) = "SEMI"
  <2> SUFFICES ASSUME NEW p2 \in i..(p - 1) PROVE At(p2) = "SEMI"
    OBVIOUS
  <2>1. p2 \in Int /\ p \in Int /\ p2 < p /\ (p2 = i \/ p2 \in (i + 1)..(Len(tokens) + 1))
    BY <1>1, <1>3
  <2>2. p2 \notin T
    BY <1>3, <2>1
  <2> QED BY <2>1, <2>2
<1>5. \E q \in (i + 1)..(Len(tokens) + 1) :
         At(q) # "SEMI" /\ \A p2 \in i..(q - 1) : At(p2) = "SEMI"
  BY <1>3, <1>4
<1> QED BY <1>5 DEF AfterSemicolons

LEMMA AtFacts ==
    ASSUME tokens \in Seq(Token), NEW p \in Int
    PROVE  /\ At(p) # "NO" => p \in 1..Len(tokens)
           /\ At(p) \in Kinds
<1>1. DOMAIN tokens = 1..Len(tokens)
  OBVIOUS
<1>2. CASE p \in 1..Len(tokens)
  <2>1. tokens[p] \in Token
    BY <1>2
  <2> QED BY <1>1, <1>2, <2>1 DEF At, Token
<1>3. CASE p \notin 1..Len(tokens)
  BY <1>1, <1>3 DEF At, Kinds
<1> QED BY <1>2, <1>3

LEMMA WriteFacts ==
    ASSUME nodes \in Seq(Written), NEW ns \in Seq(Written), NEW next, Write(ns, next),
           UNCHANGED length
    PROVE  /\ nodes' \in Seq(Written)
           /\ nodes' = nodes \o ns
           /\ Len(nodes') = Len(nodes) + Len(ns)
           /\ \A n \in 1..Len(nodes) : nodes'[n] = nodes[n]
           /\ \A n \in 1..Len(ns) : nodes'[Len(nodes) + n] = ns[n]
           /\ pc' \in {next, "aborted"}
           /\ pc' # "aborted" => Len(nodes') < length'
BY DEF Write

-----------------------------------------------------------------------------
(* Bounds: the first invariant                                               *)

InputOK == tokens \in Seq(Token) /\ length \in Nat
PlaceOK == pc \in Phases /\ i \in 1..(Len(tokens) + 1)
NodesOK == nodes \in Seq(Written) /\ (pc # "aborted" => Len(nodes) < length)
OpsOK(ops) == ops \in Seq(Operator) /\ Len(ops) <= StackSize
OperatorsOK == OpsOK(operators)
BufferOK == buffer \in Seq(Pending) /\ Len(buffer) <= StackSize

(* SCOPE_0 lies below all scopes and is never closed. *)
ContextsOK ==
    /\ contexts \in Seq(Frame) /\ Len(contexts) \in 1..StackSize
    /\ \A n \in 1..Len(contexts) : contexts[n].type = "SCOPE_0" <=> n = 1

(* What a phase finds on the stacks, even where a push was dropped: a push   *)
(* is dropped only by a stack that holds enough for the phase.               *)
PhaseOK ==
    /\ decl \in {"NO"} \cup Decls
    /\ buffer # <<>> => pc \in {"expression", "aborted"}
    /\ pc \in {"type", "typed", "init", "parameter", "close"} => decl \in Decls
    /\ pc \in {"type", "typed", "init", "expression"} => Len(operators) >= 1
    /\ pc \in {"parameter", "close"} => Len(operators) >= 2
    /\ pc = "expression" => decl \in {"NO", "DECL_VAR"}
    /\ pc = "expression" /\ decl # "NO" => Len(operators) >= 3
    /\ pc = "close" => At(i) = "TRPAR"
    /\ pc \in {"type", "typed", "parameter", "close"} =>
          \E n \in 1..Len(nodes) : nodes[n].type = "ID"
    /\ pc \in {"type", "typed", "init"} => At(i - 1) \in DeclarationEnds
    /\ pc = "undefined" => At(i) = "COM" /\ i = Len(tokens)

BoundsInv ==
    InputOK /\ PlaceOK /\ NodesOK /\ OperatorsOK /\ BufferOK /\ ContextsOK /\ PhaseOK

LEMMA InitBounds == Init => BoundsInv
<1> SUFFICES ASSUME Init PROVE BoundsInv
  OBVIOUS
<1>1. tokens \in Seq(Token)
  BY ParserAssumption DEF Init, ParserAssumption
<1>2. length \in Nat /\ length > 0
  BY <1>1, SourceNotEmpty, ParserAssumption DEF Init, Start, ParserAssumption
<1>3. Context("SCOPE_0", 0, 0) \in Frame /\ Context("SCOPE_0", 0, 0).type = "SCOPE_0"
  BY DEF Context, Frame
<1>4. contexts = <<Context("SCOPE_0", 0, 0)>>
  BY DEF Init, Start, Begin
<1>5. ContextsOK
  <2> DEFINE c == Context("SCOPE_0", 0, 0)
  <2>1. <<c>> \in Seq(Frame) /\ Len(<<c>>) = 1 /\ <<c>>[1] = c
    BY <1>3
  <2>2. \A n \in 1..1 : n = 1
    OBVIOUS
  <2> HIDE DEF c
  <2> QED BY <1>3, <1>4, <2>1, <2>2, ParserAssumption DEF ContextsOK, ParserAssumption, c
<1>6. nodes = <<>> /\ operators = <<>> /\ buffer = <<>> /\ decl = "NO" /\ i = 1 /\ pc = "instruction"
  BY DEF Init, Start, Begin
<1>7. NodesOK /\ OperatorsOK /\ BufferOK
  BY <1>2, <1>6, ParserAssumption DEF NodesOK, OperatorsOK, OpsOK, BufferOK, ParserAssumption
<1>8. PlaceOK /\ PhaseOK
  BY <1>1, <1>6 DEF PlaceOK, PhaseOK, Phases
<1> QED BY <1>1, <1>2, <1>5, <1>7, <1>8 DEF BoundsInv, InputOK

(* A handler that writes nodes: what follows for the nodes. *)
LEMMA WriteKeepsNodes ==
    ASSUME BoundsInv, NEW ns \in Seq(Written), NEW next \in Phases, Write(ns, next),
           UNCHANGED input
    PROVE  /\ NodesOK' /\ InputOK' /\ pc' \in {next, "aborted"} /\ pc' \in Phases
           /\ (\E n \in 1..Len(nodes) : nodes[n].type = "ID") =>
                 \E n \in 1..Len(nodes') : nodes'[n].type = "ID"
<1>1. nodes \in Seq(Written) /\ UNCHANGED length /\ UNCHANGED tokens
  BY DEF BoundsInv, NodesOK, input
<1>2. /\ nodes' \in Seq(Written) /\ Len(nodes') = Len(nodes) + Len(ns)
      /\ \A n \in 1..Len(nodes) : nodes'[n] = nodes[n]
      /\ pc' \in {next, "aborted"}
      /\ pc' # "aborted" => Len(nodes') < length'
  BY <1>1, WriteFacts
<1>3. \A n \in 1..Len(nodes) : n \in 1..Len(nodes')
  BY <1>1, <1>2
<1> QED BY <1>1, <1>2, <1>3 DEF NodesOK, InputOK, BoundsInv, Phases, Outcomes

(* A handler that writes none. *)
LEMMA NoNodes ==
    ASSUME BoundsInv, UNCHANGED <<nodes, input>>, pc # "aborted", pc' # "aborted"
    PROVE  NodesOK' /\ InputOK'
BY DEF BoundsInv, NodesOK, InputOK, input

LEMMA Position ==
    ASSUME BoundsInv
    PROVE  /\ i \in Nat /\ i >= 1 /\ Len(tokens) \in Nat
           /\ \A p \in Int : At(p) # "NO" => p \in 1..Len(tokens)
           /\ Len(operators) \in Nat /\ Len(buffer) \in Nat /\ Len(nodes) \in Nat
           /\ Len(contexts) \in Nat /\ Len(contexts) >= 1 /\ contexts # <<>>
           /\ StackSize \in Nat /\ StackSize >= 3
BY AtFacts, ParserAssumption DEF ParserAssumption, BoundsInv, InputOK, PlaceOK, OperatorsOK, OpsOK, BufferOK, ContextsOK, NodesOK

LEMMA DeclaredType == Declared \in Decls
BY DEF Declared, Decls

LEMMA LeafType ==
    ASSUME NEW type \in NodeTypes, NEW p \in Nat
    PROVE  /\ Leaf(type, p) \in Written /\ <<Leaf(type, p)>> \in Seq(Written)
           /\ Leaf(type, p).type = type /\ Leaf(type, p).token = p /\ Leaf(type, p).arity = 0
<1>1. Leaf(type, p) = [type |-> type, arity |-> 0, token |-> p]
  BY DEF Leaf, Node
<1>2. Leaf(type, p) \in Written
  BY <1>1 DEF Written, Items
<1> QED BY <1>1, <1>2

LEMMA Leaves ==
    ASSUME NEW n \in Nat, NEW type \in NodeTypes, NEW p \in Nat
    PROVE  /\ [x \in 1..n |-> Leaf(type, p + x)] \in Seq(Written)
           /\ Len([x \in 1..n |-> Leaf(type, p + x)]) = n
<1>1. \A x \in 1..n : Leaf(type, p + x) \in Written
  <2> SUFFICES ASSUME NEW x \in 1..n PROVE Leaf(type, p + x) \in Written
    OBVIOUS
  <2>1. p + x \in Nat
    OBVIOUS
  <2> QED BY <2>1 DEF Leaf, Node, Written, Items
<1> QED BY <1>1

LEMMA Concatenated ==
    ASSUME NEW S, NEW s \in Seq(S), NEW t \in Seq(S)
    PROVE  /\ s \o t \in Seq(S) /\ Len(s \o t) = Len(s) + Len(t)
           /\ \A n \in 1..Len(s) : (s \o t)[n] = s[n]
           /\ \A n \in 1..Len(t) : (s \o t)[Len(s) + n] = t[n]
OBVIOUS

LEMMA BoundsGroupQualifiers == ASSUME BoundsInv, GroupQualifiers PROVE BoundsInv'
<1>1. pc = "instruction" /\ i \in Nat /\ i >= 1 /\ Len(tokens) \in Nat
  BY Position DEF GroupQualifiers, Reading
<1>2. PICK last \in i..Len(tokens) :
         LET ops == Counted(Pushed(operators, Node("GRP_Q", 0, i)), last - i + 1)
         IN  /\ Write([x \in 1..(last - i + 1) |-> Leaf("Q", i + x - 1)] \o <<Top(ops)>>,
                      "instruction")
             /\ operators' = Rest(ops)
             /\ i' = last + 1
  BY DEF GroupQualifiers
<1> DEFINE new == Node("GRP_Q", 0, i)
           pushed == Pushed(operators, new)
           ops == Counted(pushed, last - i + 1)
           leaves == [x \in 1..(last - i + 1) |-> Leaf("Q", i + x - 1)]
<1>3. new \in Operator
  BY <1>1, NodeType DEF Operator, OperatorTypes
<1>4. pushed \in Seq(Operator) /\ Len(pushed) <= StackSize /\ Len(pushed) >= 1
  <2>1. operators \in Seq(Operator) /\ Len(operators) <= StackSize
    BY DEF BoundsInv, OperatorsOK, OpsOK
  <2> QED BY <1>3, <2>1, PushedFacts, Position
<1>5. ops \in Seq(Operator) /\ Len(ops) = Len(pushed)
  <2>1. last - i + 1 \in Int
    BY <1>1
  <2> HIDE DEF pushed
  <2> QED BY <1>4, <2>1, CountedFacts DEF Operator
<1>6. Top(ops) \in Operator /\ Rest(ops) \in Seq(Operator) /\ Len(Rest(ops)) <= StackSize
  <2>1. ops # <<>> /\ Len(ops) \in Nat
    BY <1>4, <1>5
  <2>2. StackSize \in Nat
    BY Position
  <2> HIDE DEF ops, pushed
  <2> QED BY <1>4, <1>5, <2>1, <2>2, RestFacts
<1>7. leaves \in Seq(Written)
  <2>1. last - i + 1 \in Nat /\ i - 1 \in Nat /\ "Q" \in NodeTypes
    BY <1>1 DEF NodeTypes
  <2>2. [x \in 1..(last - i + 1) |-> Leaf("Q", (i - 1) + x)] \in Seq(Written)
    BY <2>1, Leaves
  <2>3. \A x \in 1..(last - i + 1) : (i - 1) + x = i + x - 1
    BY <1>1
  <2>4. leaves = [x \in 1..(last - i + 1) |-> Leaf("Q", (i - 1) + x)]
    BY <2>3
  <2> QED BY <2>2, <2>4
<1>8. leaves \o <<Top(ops)>> \in Seq(Written)
  <2>1. <<Top(ops)>> \in Seq(Written)
    BY <1>6, SubTypes
  <2> HIDE DEF leaves, ops
  <2> QED BY <1>7, <2>1, Concatenated
<1>9. UNCHANGED <<input, buffer, decl>> /\ contexts' = Child(contexts, 1)
  BY DEF GroupQualifiers
<1>10. NodesOK' /\ InputOK' /\ pc' \in {"instruction", "aborted"} /\ pc' \in Phases
  <2>1. Write(leaves \o <<Top(ops)>>, "instruction")
    BY <1>2
  <2>2. "instruction" \in Phases
    BY DEF Phases
  <2> HIDE DEF leaves, ops
  <2> QED BY <1>8, <1>9, <2>1, <2>2, WriteKeepsNodes
<1>11. OperatorsOK'
  BY <1>2, <1>6 DEF OperatorsOK, OpsOK
<1>12. PlaceOK'
  BY <1>1, <1>2, <1>9, <1>10 DEF PlaceOK, input
<1>13. BufferOK' /\ buffer' = <<>>
  BY <1>1, <1>9 DEF BoundsInv, BufferOK, PhaseOK
<1>14. ContextsOK'
  <2>1. 1 \in Nat
    OBVIOUS
  <2> QED BY <1>9, <2>1, ChildFacts, Position DEF BoundsInv, ContextsOK
<1>15. PhaseOK'
  BY <1>9, <1>10, <1>13 DEF BoundsInv, PhaseOK
<1> QED BY <1>10, <1>11, <1>12, <1>13, <1>14, <1>15 DEF BoundsInv

LEMMA OpsPush ==
    ASSUME NEW ops, OpsOK(ops), NEW type \in OperatorTypes, NEW p \in Nat
    PROVE  LET r == Pushed(ops, Node(type, 0, p))
           IN  /\ OpsOK(r)
               /\ Len(r) >= Len(ops) + 1 \/ Len(r) >= 3
               /\ r # <<>> /\ Len(r) >= 1 /\ Len(r) \in Nat
<1>1. Node(type, 0, p) \in Operator
  BY NodeType DEF Operator
<1>2. ops \in Seq(Operator) /\ Len(ops) <= StackSize
  BY DEF OpsOK
<1> QED BY <1>1, <1>2, PushedFacts DEF OpsOK

LEMMA OpsCount ==
    ASSUME NEW ops, OpsOK(ops), NEW n \in Int
    PROVE  OpsOK(Counted(ops, n)) /\ Len(Counted(ops, n)) = Len(ops) /\ Len(ops) \in Nat
BY CountedFacts DEF OpsOK, Operator

LEMMA OpsRest ==
    ASSUME NEW ops, OpsOK(ops)
    PROVE  /\ OpsOK(Rest(ops)) /\ Len(ops) \in Nat
           /\ Len(ops) > 0 => Len(Rest(ops)) = Len(ops) - 1
           /\ Len(ops) > 0 => Top(ops) \in Operator /\ Top(ops) \in Written
<1>1. ops \in Seq(Operator) /\ Len(ops) <= StackSize /\ StackSize \in Nat
  BY ParserAssumption DEF OpsOK, ParserAssumption
<1>2. Rest(ops) \in Seq(Operator) /\ Len(Rest(ops)) = IF ops = <<>> THEN 0 ELSE Len(ops) - 1
  BY <1>1, RestFacts
<1>3. ops # <<>> => Top(ops) \in Operator
  BY <1>1, RestFacts
<1>4. Len(ops) > 0 => ops # <<>>
  BY <1>1
<1> QED BY <1>1, <1>2, <1>3, <1>4, SubTypes DEF OpsOK

(* The parts that an action leaves alone. *)
LEMMA Kept1 ==
    ASSUME BoundsInv
    PROVE  /\ UNCHANGED input => InputOK'
           /\ UNCHANGED operators => OperatorsOK'
           /\ UNCHANGED buffer => BufferOK'
           /\ UNCHANGED contexts => ContextsOK'
           /\ UNCHANGED nodes /\ UNCHANGED input /\ pc # "aborted" => NodesOK'
           /\ OpsOK(operators) /\ nodes \in Seq(Written)
           /\ buffer # <<>> => pc \in {"expression", "aborted"}
BY DEF BoundsInv, InputOK, OperatorsOK, OpsOK, BufferOK, ContextsOK, NodesOK, PhaseOK, input

LEMMA BoundsOpenScope == ASSUME BoundsInv, OpenScope PROVE BoundsInv'
<1>1. pc = "instruction" /\ i \in 1..Len(tokens)
  BY Position DEF OpenScope, Reading
<1> DEFINE new == Context("SCOPE", Len(operators), i)
<1>2. new \in Frame /\ new.type = "SCOPE"
  BY <1>1, Position DEF Context, Frame
<1>3. contexts' = Pushed(contexts, new) /\ i' = i + 1
      /\ UNCHANGED <<input, pc, nodes, operators, buffer, decl>>
  BY DEF OpenScope
<1>4. ContextsOK'
  <2>1. /\ contexts \in Seq(Frame) /\ Len(contexts) <= StackSize /\ Len(contexts) \in Nat
        /\ Len(contexts) >= 1 /\ StackSize \in Nat
        /\ \A n \in 1..Len(contexts) : contexts[n].type = "SCOPE_0" <=> n = 1
    BY Position DEF BoundsInv, ContextsOK
  <2> HIDE DEF new
  <2>2. CASE Full(contexts)
    BY <1>2, <1>3, <2>1, <2>2, PushedFacts DEF ContextsOK
  <2>3. CASE ~Full(contexts)
    <3>1. /\ contexts' \in Seq(Frame) /\ Len(contexts') <= StackSize
          /\ Len(contexts') = Len(contexts) + 1 /\ contexts'[Len(contexts) + 1] = new
          /\ \A n \in 1..Len(contexts) : contexts'[n] = contexts[n]
      <4> DEFINE r == Pushed(contexts, new)
      <4>1. /\ r \in Seq(Frame) /\ Len(r) <= StackSize
            /\ Len(r) = Len(contexts) + 1 /\ r[Len(contexts) + 1] = new
            /\ \A n \in 1..Len(contexts) : r[n] = contexts[n]
        BY <1>2, <2>1, <2>3, PushedFacts
      <4>2. contexts' = r
        BY <1>3
      <4> HIDE DEF r
      <4> QED BY <4>1, <4>2
    <3>2. \A n \in 1..Len(contexts') : contexts'[n].type = "SCOPE_0" <=> n = 1
      <4> SUFFICES ASSUME NEW n \in 1..Len(contexts')
                   PROVE  contexts'[n].type = "SCOPE_0" <=> n = 1
        OBVIOUS
      <4>1. CASE n \in 1..Len(contexts)
        BY <2>1, <3>1, <4>1
      <4>2. CASE n = Len(contexts) + 1
        BY <1>2, <2>1, <3>1, <4>2
      <4> QED BY <2>1, <3>1, <4>1, <4>2
    <3> QED BY <2>1, <3>1, <3>2 DEF ContextsOK
  <2> QED BY <2>2, <2>3
<1>5. PlaceOK'
  BY <1>1, <1>3, Position DEF BoundsInv, PlaceOK, input
<1>6. PhaseOK'
  BY <1>1, <1>3 DEF BoundsInv, PhaseOK
<1> QED BY <1>1, <1>3, <1>4, <1>5, <1>6, Kept1 DEF BoundsInv

LEMMA BoundsStartExpression == ASSUME BoundsInv, StartExpression PROVE BoundsInv'
<1>1. pc = "instruction" /\ i \in Nat
  BY Position DEF StartExpression, Reading
<1>2. /\ operators' = Pushed(operators, Node("EXP", 0, i))
      /\ decl' = "NO" /\ pc' = "expression"
      /\ UNCHANGED <<input, i, nodes, contexts, buffer>>
  BY DEF StartExpression
<1>3. OpsOK(operators') /\ Len(operators') >= 1
  BY <1>1, <1>2, Kept1, OpsPush DEF OperatorTypes
<1>4. PlaceOK'
  BY <1>1, <1>2 DEF BoundsInv, PlaceOK, input, Phases
<1>5. PhaseOK'
  BY <1>2, <1>3 DEF PhaseOK
<1> QED BY <1>1, <1>2, <1>3, <1>4, <1>5, Kept1 DEF BoundsInv, OpsOK, OperatorsOK

LEMMA BoundsImportModules == ASSUME BoundsInv, ImportModules PROVE BoundsInv'
<1>1. pc = "instruction" /\ i \in Nat /\ i >= 1 /\ Len(tokens) \in Nat
  BY Position DEF ImportModules, Reading
<1>2. PICK last \in i..Len(tokens) :
         /\ operators' = Counted(Pushed(operators, Node("GRP_MOD", 0, i)), last - i)
         /\ Write([x \in 1..(last - i) |-> Leaf("MOD", i + x)], "terminator")
         /\ i' = last + 1
  BY DEF ImportModules
<1>3. UNCHANGED <<input, contexts, buffer, decl>>
  BY DEF ImportModules
<1>4. last - i \in Nat /\ last - i \in Int
  BY <1>1
<1>5. OpsOK(operators')
  <2>1. OpsOK(Pushed(operators, Node("GRP_MOD", 0, i)))
    BY <1>1, Kept1, OpsPush DEF OperatorTypes
  <2> QED BY <1>2, <1>4, <2>1, OpsCount
<1>6. [x \in 1..(last - i) |-> Leaf("MOD", i + x)] \in Seq(Written)
  <2>1. "MOD" \in NodeTypes
    BY DEF NodeTypes
  <2> QED BY <1>1, <1>4, <2>1, Leaves
<1>7. NodesOK' /\ InputOK' /\ pc' \in {"terminator", "aborted"} /\ pc' \in Phases
  <2>1. "terminator" \in Phases
    BY DEF Phases
  <2> QED BY <1>2, <1>3, <1>6, <2>1, WriteKeepsNodes
<1>8. PlaceOK'
  BY <1>1, <1>2, <1>3, <1>7 DEF PlaceOK, input
<1>9. PhaseOK'
  BY <1>1, <1>3, <1>7, Kept1 DEF BoundsInv, PhaseOK
<1> QED BY <1>3, <1>5, <1>7, <1>8, <1>9, Kept1 DEF BoundsInv, OpsOK, OperatorsOK

LEMMA BoundsDeclare == ASSUME BoundsInv, Declare PROVE BoundsInv'
<1>1. pc = "instruction" /\ i \in Nat /\ i >= 1 /\ Len(tokens) \in Nat /\ i + 1 \in 1..Len(tokens)
  <2>1. At(i + 1) = "ID" /\ pc = "instruction"
    BY DEF Declare, Reading
  <2>2. i + 1 \in Int
    BY Position
  <2> QED BY <2>1, <2>2, Position
<1>2. /\ decl' = Declared
      /\ operators' = Counted(Pushed(operators, Node(Declared, 0, i)), 1)
      /\ Write(<<Leaf("ID", i + 1)>>, "type")
      /\ i' = i + 2
      /\ UNCHANGED <<input, contexts, buffer>>
  BY DEF Declare
<1>3. OpsOK(operators') /\ Len(operators') >= 1
  <2>1. Declared \in OperatorTypes
    BY DeclaredType DEF OperatorTypes
  <2>2. OpsOK(Pushed(operators, Node(Declared, 0, i)))
        /\ Len(Pushed(operators, Node(Declared, 0, i))) >= 1
    BY <1>1, <2>1, Kept1, OpsPush
  <2> QED BY <1>2, <2>2, OpsCount
<1>4. /\ Leaf("ID", i + 1) \in Written /\ Leaf("ID", i + 1).type = "ID"
  <2>1. i + 1 \in Nat /\ "ID" \in NodeTypes /\ 0 \in Int
    BY <1>1 DEF NodeTypes
  <2> QED BY <2>1, NodeType DEF Written
<1>5. <<Leaf("ID", i + 1)>> \in Seq(Written)
  BY <1>4
<1>6. NodesOK' /\ InputOK' /\ pc' \in {"type", "aborted"} /\ pc' \in Phases
  <2>1. "type" \in Phases
    BY DEF Phases
  <2> QED BY <1>2, <1>5, <2>1, WriteKeepsNodes
<1>7. \E n \in 1..Len(nodes') : nodes'[n].type = "ID"
  <2> DEFINE ns == <<Leaf("ID", i + 1)>>
  <2>1. Len(ns) = 1 /\ ns[1] = Leaf("ID", i + 1)
    OBVIOUS
  <2>2. UNCHANGED length
    BY <1>2 DEF input
  <2>3. 1 \in 1..Len(ns)
    BY <2>1
  <2>4. Len(nodes') = Len(nodes) + Len(ns) /\ nodes'[Len(nodes) + 1] = ns[1]
    <3> HIDE DEF ns
    <3>1. Write(ns, "type") /\ ns \in Seq(Written)
      BY <1>2, <1>5 DEF ns
    <3> QED BY <2>2, <2>3, <3>1, Kept1, WriteFacts
  <2>5. Len(nodes) + 1 \in 1..Len(nodes')
    <3> HIDE DEF ns
    <3> QED BY <2>1, <2>4, Position
  <2> QED BY <1>4, <2>1, <2>4, <2>5
<1>8. PlaceOK'
  BY <1>1, <1>2, <1>6 DEF PlaceOK, input
<1>9. At(i - 1)' \in DeclarationEnds
  <2>1. i' - 1 = i + 1 /\ UNCHANGED tokens
    BY <1>1, <1>2 DEF input
  <2> QED BY <2>1 DEF Declare, At, DeclarationEnds
<1>10. PhaseOK'
  BY <1>1, <1>2, <1>3, <1>6, <1>7, <1>9, Kept1, DeclaredType DEF PhaseOK
<1> QED BY <1>2, <1>3, <1>6, <1>8, <1>10, Kept1 DEF BoundsInv, OpsOK, OperatorsOK

LEMMA BoundsTypeVar == ASSUME BoundsInv, TypeVar PROVE BoundsInv'
<1>1. pc = "type" /\ i \in 1..Len(tokens)
  BY Position DEF TypeVar, Reading, Lock
<1>2. /\ operators' = Counted(operators, 1)
      /\ Write(<<Leaf("TYPE_VAR", i)>>, "typed")
      /\ i' = i + 1
      /\ UNCHANGED <<input, contexts, buffer, decl>>
  BY DEF TypeVar
<1>3. OpsOK(operators') /\ Len(operators') = Len(operators)
  BY <1>2, Kept1, OpsCount
<1>4. <<Leaf("TYPE_VAR", i)>> \in Seq(Written)
  <2>1. "TYPE_VAR" \in NodeTypes /\ i \in Nat
    BY <1>1 DEF NodeTypes
  <2> QED BY <2>1, LeafType
<1>5. /\ NodesOK' /\ InputOK' /\ pc' \in {"typed", "aborted"} /\ pc' \in Phases
      /\ \E n \in 1..Len(nodes') : nodes'[n].type = "ID"
  <2>1. "typed" \in Phases
    BY DEF Phases
  <2>2. \E n \in 1..Len(nodes) : nodes[n].type = "ID"
    BY <1>1 DEF BoundsInv, PhaseOK
  <2> QED BY <1>2, <1>4, <2>1, <2>2, WriteKeepsNodes
<1>6. PlaceOK'
  BY <1>1, <1>2, <1>5, Position DEF PlaceOK, input
<1>7. At(i - 1)' \in DeclarationEnds
  <2>1. i' - 1 = i /\ UNCHANGED tokens
    BY <1>1, <1>2 DEF input
  <2> QED BY <2>1 DEF TypeVar, Lock, At, DeclarationEnds
<1>8. PhaseOK'
  BY <1>1, <1>2, <1>3, <1>5, <1>7, Kept1 DEF BoundsInv, PhaseOK
<1> QED BY <1>2, <1>3, <1>5, <1>6, <1>8, Kept1 DEF BoundsInv, OpsOK, OperatorsOK

LEMMA BoundsEndType == ASSUME BoundsInv, EndType PROVE BoundsInv'
<1>1. /\ pc \in {"type", "typed"} /\ pc' = "init"
      /\ UNCHANGED <<input, i, nodes, contexts, operators, buffer, decl>>
  BY DEF EndType
<1>2. At(i - 1)' = At(i - 1)
  BY <1>1 DEF At, input
<1>3. PlaceOK' /\ PhaseOK'
  BY <1>1, <1>2 DEF BoundsInv, PlaceOK, PhaseOK, Phases, input
<1> QED BY <1>1, <1>3, Kept1 DEF BoundsInv

LEMMA BoundsOpenParameters == ASSUME BoundsInv, OpenParameters PROVE BoundsInv'
<1> DEFINE void == <<Leaf("TYPE_PAL_VOID", i)>>
           returned == IF pc = "type" THEN void ELSE <<>>
           empty == At(i + 1) = "TRPAR"
           counted == Counted(operators, Len(returned))
           group == Pushed(counted, Node("GRP_R_PARES", 0, i))
           written == returned \o IF empty THEN void ELSE <<>>
           next == IF empty THEN "close" ELSE "parameter"
<1>1. /\ pc \in {"type", "typed"} /\ At(i) = "TLPAR"
      /\ operators' = IF empty THEN Counted(group, 1) ELSE group
      /\ Write(written, next)
      /\ i' = i + 1
      /\ UNCHANGED <<input, contexts, buffer, decl>>
  BY DEF OpenParameters
<1>2. i \in 1..Len(tokens) /\ i \in Nat
  BY <1>1, Position
<1>3. void \in Seq(Written)
  <2>1. "TYPE_PAL_VOID" \in NodeTypes
    BY DEF NodeTypes
  <2> QED BY <1>2, <2>1, LeafType
<1>4. returned \in Seq(Written) /\ Len(returned) \in Int /\ written \in Seq(Written)
  <2>1. <<>> \in Seq(Written)
    OBVIOUS
  <2>2. returned \in Seq(Written) /\ (IF empty THEN void ELSE <<>>) \in Seq(Written)
    <3> HIDE DEF void, empty
    <3> QED BY <1>3, <2>1
  <2> HIDE DEF returned, void, empty
  <2> QED BY <2>2, Concatenated
<1>5. OpsOK(operators') /\ Len(operators') >= 2
  <2>1. Len(operators) >= 1 /\ OpsOK(operators)
    BY <1>1, Kept1 DEF BoundsInv, PhaseOK
  <2>2. OpsOK(counted) /\ Len(counted) >= 1 /\ Len(counted) \in Nat
    <3> HIDE DEF returned
    <3> QED BY <1>4, <2>1, OpsCount
  <2>3. OpsOK(group) /\ Len(group) >= 2 /\ Len(group) \in Nat
    <3> HIDE DEF counted
    <3>1. "GRP_R_PARES" \in OperatorTypes
      BY DEF OperatorTypes
    <3> QED BY <1>2, <2>2, <3>1, OpsPush
  <2>4. OpsOK(Counted(group, 1)) /\ Len(Counted(group, 1)) = Len(group)
    <3> HIDE DEF group
    <3> QED BY <2>3, OpsCount
  <2> HIDE DEF group
  <2> QED BY <1>1, <2>3, <2>4
<1>6. /\ NodesOK' /\ InputOK' /\ pc' \in {next, "aborted"} /\ pc' \in Phases
      /\ \E n \in 1..Len(nodes') : nodes'[n].type = "ID"
  <2>1. next \in Phases
    BY DEF Phases
  <2>2. \E n \in 1..Len(nodes) : nodes[n].type = "ID"
    BY <1>1 DEF BoundsInv, PhaseOK
  <2> HIDE DEF written, next
  <2> QED BY <1>1, <1>4, <2>1, <2>2, WriteKeepsNodes
<1>7. PlaceOK'
  <2> HIDE DEF next
  <2> QED BY <1>1, <1>2, <1>6, Position DEF PlaceOK, input
<1>8. At(i)' = At(i + 1)
  BY <1>1 DEF At, input
<1>9. buffer' = <<>> /\ decl \in Decls
  BY <1>1, Kept1 DEF BoundsInv, PhaseOK
<1>10. pc' \in {"close", "parameter", "aborted"} /\ (pc' = "close" => At(i)' = "TRPAR")
  BY <1>6, <1>8
<1>11. PhaseOK'
  BY <1>1, <1>5, <1>6, <1>9, <1>10 DEF PhaseOK
<1> QED BY <1>1, <1>5, <1>6, <1>7, <1>11, Kept1 DEF BoundsInv, OperatorsOK

LEMMA BoundsParameter == ASSUME BoundsInv, Parameter PROVE BoundsInv'
<1>1. /\ pc = "parameter" /\ At(i) = "KEY" /\ At(i + 1) \in {"TYPE", "TSCOPE"}
      /\ At(i + 2) \in {"TRPAR", "COMMA"}
      /\ i' = IF At(i + 2) = "COMMA" THEN i + 3 ELSE i + 2
      /\ operators' = Counted(operators, 2)
      /\ Write(<<Leaf("PARAM", i), Leaf("TYPE_VAR", i + 1)>>,
               IF At(i') = "TRPAR" THEN "close" ELSE "parameter")
      /\ UNCHANGED <<input, contexts, buffer, decl>>
  BY DEF Parameter, Reading, Lock
<1>2. i \in Nat /\ i >= 1 /\ i + 2 \in 1..Len(tokens) /\ Len(tokens) \in Nat
  <2>1. i + 2 \in Int
    BY Position
  <2> QED BY <1>1, <2>1, Position
<1>3. OpsOK(operators') /\ Len(operators') = Len(operators)
  BY <1>1, Kept1, OpsCount
<1>4. <<Leaf("PARAM", i), Leaf("TYPE_VAR", i + 1)>> \in Seq(Written)
  <2>1. "PARAM" \in NodeTypes /\ "TYPE_VAR" \in NodeTypes /\ i + 1 \in Nat
    BY <1>2 DEF NodeTypes
  <2>2. Leaf("PARAM", i) \in Written /\ Leaf("TYPE_VAR", i + 1) \in Written
    BY <1>2, <2>1, LeafType
  <2> QED BY <2>2
<1> DEFINE next == IF At(i') = "TRPAR" THEN "close" ELSE "parameter"
<1>5. /\ NodesOK' /\ InputOK' /\ pc' \in {next, "aborted"} /\ pc' \in Phases
      /\ \E n \in 1..Len(nodes') : nodes'[n].type = "ID"
  <2>1. next \in Phases
    BY DEF Phases
  <2>2. \E n \in 1..Len(nodes) : nodes[n].type = "ID"
    BY <1>1 DEF BoundsInv, PhaseOK
  <2>3. Write(<<Leaf("PARAM", i), Leaf("TYPE_VAR", i + 1)>>, next)
    BY <1>1
  <2> HIDE DEF next
  <2> QED BY <1>1, <1>4, <2>1, <2>2, <2>3, WriteKeepsNodes
<1>6. PlaceOK'
  <2>1. i' \in 1..(Len(tokens) + 1)
    BY <1>1, <1>2
  <2> HIDE DEF next
  <2> QED BY <1>1, <1>5, <2>1 DEF PlaceOK, input
<1>7. At(i)' = At(i')
  BY <1>1 DEF At, input
<1>8. pc' \in {"close", "parameter", "aborted"} /\ (pc' = "close" => At(i)' = "TRPAR")
  BY <1>5, <1>7
<1>9. PhaseOK'
  BY <1>1, <1>3, <1>5, <1>8, Kept1 DEF BoundsInv, PhaseOK
<1> QED BY <1>1, <1>3, <1>5, <1>6, <1>9, Kept1 DEF BoundsInv, OperatorsOK

LEMMA TypeStartType ==
    ASSUME nodes \in Seq(Written), \E n \in 1..Len(nodes) : nodes[n].type = "ID"
    PROVE  \E id \in 1..Len(nodes) :
              /\ nodes[id].type = "ID"
              /\ \A n \in (id + 1)..Len(nodes) : nodes[n].type # "ID"
              /\ TypeStart = nodes[id].token + 1 /\ TypeStart \in Nat
<1> DEFINE Ids == {n \in 1..Len(nodes) : nodes[n].type = "ID"}
           Behind == {Len(nodes) - n : n \in Ids}
           Is(id) == /\ nodes[id].type = "ID"
                     /\ \A n2 \in (id + 1)..Len(nodes) : nodes[n2].type # "ID"
<1>1. Len(nodes) \in Nat /\ DOMAIN nodes = 1..Len(nodes)
  OBVIOUS
<1>2. PICK b \in Behind : \A y \in Behind : b <= y
  <2>1. Behind \in SUBSET Nat
    BY <1>1
  <2>2. Behind # {}
    OBVIOUS
  <2> HIDE DEF Behind
  <2> QED BY <2>1, <2>2, LeastNat
<1>3. PICK m \in Ids : b = Len(nodes) - m
  BY <1>2
<1>4. m \in 1..Len(nodes) /\ nodes[m].type = "ID"
  BY <1>3
<1>5. \A n2 \in (m + 1)..Len(nodes) : nodes[n2].type # "ID"
  <2> SUFFICES ASSUME NEW n2 \in (m + 1)..Len(nodes), nodes[n2].type = "ID" PROVE FALSE
    OBVIOUS
  <2>1. n2 \in Ids /\ Len(nodes) - n2 < b
    BY <1>1, <1>3, <1>4
  <2>2. Len(nodes) - n2 \in Behind
    BY <2>1
  <2>3. b <= Len(nodes) - n2
    <3> HIDE DEF Behind
    <3> QED BY <1>2, <2>2
  <2>4. b \in Int /\ Len(nodes) - n2 \in Int
    BY <1>1, <1>3, <1>4
  <2> QED BY <2>1, <2>3, <2>4
<1>6. \E n \in DOMAIN nodes : Is(n)
  BY <1>1, <1>4, <1>5
<1>7. PICK id : id = (CHOOSE n \in DOMAIN nodes : Is(n))
  OBVIOUS
<1>8. id \in DOMAIN nodes /\ Is(id)
  <2> HIDE DEF Is
  <2> QED BY <1>6, <1>7
<1>9. TypeStart = nodes[id].token + 1
  BY <1>7 DEF TypeStart
<1>10. nodes[id].token \in Nat
  <2>1. nodes[id] \in Written
    BY <1>1, <1>8
  <2> QED BY <2>1, ItemFields DEF Written
<1> QED BY <1>1, <1>8, <1>9, <1>10

LEMMA BoundsCloseParameters == ASSUME BoundsInv, CloseParameters PROVE BoundsInv'
<1> DEFINE written == <<Top(operators), Node("TYPE_PAL", 2, TypeStart)>>
<1>1. /\ pc = "close"
      /\ operators' = Counted(Counted(Rest(operators), 1 - 2), 1)
      /\ Write(written, "init")
      /\ i' = i + 1
      /\ UNCHANGED <<input, contexts, buffer, decl>>
  BY DEF CloseParameters, Reading
<1>2. /\ At(i) = "TRPAR" /\ Len(operators) >= 2 /\ decl \in Decls /\ buffer = <<>>
      /\ \E n \in 1..Len(nodes) : nodes[n].type = "ID"
  BY <1>1, Kept1 DEF BoundsInv, PhaseOK
<1>3. i \in 1..Len(tokens) /\ Len(tokens) \in Nat
  BY <1>2, Position
<1>4. /\ OpsOK(Rest(operators)) /\ Len(Rest(operators)) = Len(operators) - 1
      /\ Top(operators) \in Written /\ Len(operators) \in Nat
  BY <1>2, Kept1, OpsRest
<1>5. OpsOK(operators') /\ Len(operators') >= 1
  <2>1. /\ OpsOK(Counted(Rest(operators), 1 - 2))
        /\ Len(Counted(Rest(operators), 1 - 2)) = Len(operators) - 1
    BY <1>4, OpsCount
  <2>2. OpsOK(operators') /\ Len(operators') = Len(operators) - 1
    BY <1>1, <2>1, OpsCount
  <2> QED BY <1>2, <1>4, <2>2
<1>6. written \in Seq(Written)
  <2>1. TypeStart \in Nat
    BY <1>2, Kept1, TypeStartType
  <2>2. "TYPE_PAL" \in NodeTypes /\ 2 \in Int
    BY DEF NodeTypes
  <2>3. Node("TYPE_PAL", 2, TypeStart) \in Written
    BY <2>1, <2>2, NodeType DEF Written
  <2> QED BY <1>4, <2>3
<1>7. NodesOK' /\ InputOK' /\ pc' \in {"init", "aborted"} /\ pc' \in Phases
  <2>1. "init" \in Phases
    BY DEF Phases
  <2> HIDE DEF written
  <2> QED BY <1>1, <1>6, <2>1, WriteKeepsNodes
<1>8. PlaceOK'
  BY <1>1, <1>3, <1>7 DEF PlaceOK, input
<1>9. At(i - 1)' \in DeclarationEnds
  <2>1. i' - 1 = i /\ UNCHANGED tokens
    BY <1>1, <1>3 DEF input
  <2> QED BY <1>2, <2>1 DEF At, DeclarationEnds
<1>10. PhaseOK'
  BY <1>1, <1>2, <1>5, <1>7, <1>9 DEF PhaseOK
<1> QED BY <1>1, <1>5, <1>7, <1>8, <1>10, Kept1 DEF BoundsInv, OperatorsOK

LEMMA InitializedPlace ==
    ASSUME BoundsInv
    PROVE  Initialized \in i..(Len(tokens) + 1) /\ Initialized \in Nat /\ Initialized \in 1..(Len(tokens) + 1)
           /\ Initialized >= i
BY Position DEF Initialized, BoundsInv, PlaceOK

LEMMA AfterDeclarationPhase == \A ops : AfterDeclaration(ops) \in {"instruction", "terminator"}
BY DEF AfterDeclaration

LEMMA BoundsInitializeVariable == ASSUME BoundsInv, InitializeVariable PROVE BoundsInv'
<1> DEFINE init == Pushed(operators, Node("INIT_VAR", 0, Initialized))
<1>1. /\ pc = "init" /\ decl = "DECL_VAR"
      /\ operators' = Pushed(init, Node("EXP", 0, Initialized))
      /\ i' = Initialized /\ pc' = "expression"
      /\ UNCHANGED <<input, nodes, contexts, buffer, decl>>
  BY DEF InitializeVariable, Reading
<1>2. Len(operators) >= 1 /\ Len(operators) \in Nat
  BY <1>1, Position DEF BoundsInv, PhaseOK
<1>3. "INIT_VAR" \in OperatorTypes /\ "EXP" \in OperatorTypes /\ Initialized \in Nat
  BY InitializedPlace DEF OperatorTypes
<1>7. OpsOK(init) /\ Len(init) >= 2 /\ Len(init) \in Nat
  BY <1>2, <1>3, Kept1, OpsPush
<1>4. OpsOK(operators') /\ Len(operators') >= 3
  <2> DEFINE r == Pushed(init, Node("EXP", 0, Initialized))
  <2>1. OpsOK(r) /\ Len(r) >= 3
    <3> HIDE DEF init
    <3> QED BY <1>3, <1>7, OpsPush
  <2>2. operators' = r
    BY <1>1
  <2> HIDE DEF r
  <2> QED BY <2>1, <2>2
<1>5. PlaceOK'
  BY <1>1, InitializedPlace DEF PlaceOK, Phases, input
<1>6. PhaseOK'
  BY <1>1, <1>4 DEF PhaseOK, Decls
<1> QED BY <1>1, <1>4, <1>5, <1>6, Kept1 DEF BoundsInv, OperatorsOK

LEMMA BoundsInitializeNothing == ASSUME BoundsInv, InitializeNothing PROVE BoundsInv'
<1>1. /\ pc = "init" /\ pc' \in {"instruction", "terminator"}
      /\ UNCHANGED <<input, i, nodes, contexts, operators, buffer, decl>>
  BY AfterDeclarationPhase DEF InitializeNothing, Reading
<1>2. PlaceOK'
  BY <1>1 DEF BoundsInv, PlaceOK, Phases, input
<1>3. PhaseOK'
  BY <1>1 DEF BoundsInv, PhaseOK
<1> QED BY <1>1, <1>2, <1>3, Kept1 DEF BoundsInv

LEMMA BoundsInitializeScope == ASSUME BoundsInv, InitializeScope PROVE BoundsInv'
<1> DEFINE init == IF decl = "DECL_LAB" THEN "INIT_LAB" ELSE "INIT_PAL"
           ops == Pushed(operators, Node(init, 0, Initialized))
<1>1. /\ pc = "init" /\ pc' \in {"instruction", "terminator"}
      /\ operators' = ops \/ UNCHANGED operators
      /\ i' = Initialized
      /\ UNCHANGED <<input, nodes, contexts, buffer, decl>>
  BY AfterDeclarationPhase DEF InitializeScope, Reading
<1>2. OpsOK(operators')
  <2>1. init \in OperatorTypes
    BY DEF OperatorTypes, Inits
  <2>2. OpsOK(ops)
    <3> HIDE DEF init
    <3> QED BY <2>1, Kept1, OpsPush, InitializedPlace
  <2> HIDE DEF ops
  <2> QED BY <1>1, <2>2, Kept1
<1>3. PlaceOK'
  BY <1>1, InitializedPlace DEF PlaceOK, Phases, input
<1>4. PhaseOK'
  BY <1>1 DEF BoundsInv, PhaseOK
<1> QED BY <1>1, <1>2, <1>3, <1>4, Kept1 DEF BoundsInv, OperatorsOK

LEMMA BoundsPushBuffer ==
    ASSUME BoundsInv, pc = "expression", At(i) # "NO", NEW x \in Pending, PushBuffer(x)
    PROVE  BoundsInv'
<1>1. /\ buffer' = Pushed(buffer, x) /\ i' = i + 1
      /\ UNCHANGED <<input, pc, nodes, contexts, operators, decl>>
  BY DEF PushBuffer
<1>2. i \in 1..Len(tokens)
  BY Position
<1>3. BufferOK'
  BY <1>1, PushedFacts DEF BoundsInv, BufferOK
<1>4. PlaceOK'
  BY <1>1, <1>2, Position DEF BoundsInv, PlaceOK, input
<1>5. PhaseOK'
  BY <1>1 DEF BoundsInv, PhaseOK
<1> QED BY <1>1, <1>3, <1>4, <1>5, Kept1 DEF BoundsInv

LEMMA BufferTop ==
    ASSUME BoundsInv, buffer # <<>>
    PROVE  /\ Len(buffer) \in Nat /\ Len(buffer) >= 1
           /\ Top(buffer) \in Pending
           /\ TopType = Top(buffer).type
           /\ TopType \in PendingTypes /\ Top(buffer).token \in Nat
           /\ Rest(buffer) \in Seq(Pending) /\ Len(Rest(buffer)) = Len(buffer) - 1
<1>1. buffer \in Seq(Pending)
  BY DEF BoundsInv, BufferOK
<1>2. Top(buffer) \in Pending /\ Rest(buffer) \in Seq(Pending) /\ Len(Rest(buffer)) = Len(buffer) - 1
  BY <1>1, RestFacts
<1>3. Top(buffer).type \in PendingTypes /\ Top(buffer).token \in Nat
  BY <1>2, ItemFields DEF Pending
<1>4. TopType = Top(buffer).type
  BY DEF TopType
<1> QED BY <1>1, <1>2, <1>3, <1>4

LEMMA TopNode ==
    ASSUME BoundsInv, buffer # <<>>
    PROVE  LET node == Node(TopType, 2, Top(buffer).token)
           IN  node \in Written /\ <<node>> \in Seq(Written)
<1>1. TopType \in NodeTypes /\ Top(buffer).token \in Nat
  BY BufferTop DEF PendingTypes, NodeTypes, ExpressionTypes
<1>2. Node(TopType, 2, Top(buffer).token) \in Written
  BY <1>1, NodeType DEF Written
<1> QED BY <1>2

LEMMA BoundsPopBuffer ==
    ASSUME BoundsInv, pc = "expression", buffer # <<>>, PopBuffer
    PROVE  BoundsInv'
<1> DEFINE node == Node(TopType, 2, Top(buffer).token)
           next == IF At(i) = "RPAR" /\ Len(buffer) = 1 THEN "rejected" ELSE "expression"
<1>1. /\ buffer' = Rest(buffer)
      /\ Write(<<node>>, next)
      /\ UNCHANGED <<input, i, contexts, operators, decl>>
  BY DEF PopBuffer
<1>2. NodesOK' /\ InputOK' /\ pc' \in {next, "aborted"} /\ pc' \in Phases
  <2>1. next \in Phases /\ <<node>> \in Seq(Written)
    BY TopNode DEF Phases, Outcomes
  <2> HIDE DEF node, next
  <2> QED BY <1>1, <2>1, WriteKeepsNodes
<1>3. BufferOK'
  BY <1>1, BufferTop, Position DEF BoundsInv, BufferOK
<1>4. buffer' # <<>> => pc' \in {"expression", "aborted"}
  <2>1. Len(buffer) = 1 => buffer' = <<>>
    BY <1>1, BufferTop
  <2> QED BY <1>2, <2>1
<1>5. pc' \in {"expression", "rejected", "aborted"}
  BY <1>2
<1>6. PlaceOK'
  BY <1>1, <1>2 DEF BoundsInv, PlaceOK, input
<1>7. PhaseOK'
  BY <1>1, <1>4, <1>5 DEF BoundsInv, PhaseOK
<1> QED BY <1>1, <1>2, <1>3, <1>6, <1>7, Kept1 DEF BoundsInv

LEMMA BoundsOperand == ASSUME BoundsInv, Operand PROVE BoundsInv'
<1>1. /\ pc = "expression" /\ At(i) \in {"KEY", "LIT"}
      /\ Write(<<Leaf(At(i), i)>>, "expression")
      /\ i' = i + 1
      /\ UNCHANGED <<input, contexts, operators, buffer, decl>>
  BY DEF Operand, Reading
<1>2. i \in 1..Len(tokens) /\ i \in Nat
  BY <1>1, Position
<1>3. <<Leaf(At(i), i)>> \in Seq(Written)
  <2>1. At(i) \in NodeTypes
    BY <1>1 DEF NodeTypes, ExpressionTypes
  <2> QED BY <1>2, <2>1, LeafType
<1>4. NodesOK' /\ InputOK' /\ pc' \in {"expression", "aborted"} /\ pc' \in Phases
  <2>1. "expression" \in Phases
    BY DEF Phases
  <2> QED BY <1>1, <1>3, <2>1, WriteKeepsNodes
<1>5. PlaceOK'
  BY <1>1, <1>2, <1>4, Position DEF PlaceOK, input
<1>6. PhaseOK'
  BY <1>1, <1>4 DEF BoundsInv, PhaseOK
<1> QED BY <1>1, <1>4, <1>5, <1>6, Kept1 DEF BoundsInv

LEMMA BoundsRunBelowBuffer == ASSUME BoundsInv, RunBelowBuffer PROVE BoundsInv'
<1>1. /\ pc = "expression" /\ pc' \in {"aborted", "rejected"}
      /\ buffer = <<>>
      /\ UNCHANGED <<input, i, nodes, contexts, operators, buffer, decl>>
  BY DEF RunBelowBuffer, Reading
<1>2. PlaceOK' /\ PhaseOK'
  BY <1>1 DEF BoundsInv, PlaceOK, PhaseOK, Phases, Outcomes, input
<1> QED BY <1>1, <1>2, Kept1 DEF BoundsInv

LEMMA BoundsSeparateArguments == ASSUME BoundsInv, SeparateArguments PROVE BoundsInv'
<1>1. /\ pc = "expression" /\ At(i) = "COMMA" /\ i' = i + 1
      /\ buffer' = Counted(buffer, 1)
      /\ UNCHANGED <<input, pc, nodes, contexts, operators, decl>>
  BY DEF SeparateArguments, Reading
<1>2. i \in 1..Len(tokens)
  BY <1>1, Position
<1>3. BufferOK'
  BY <1>1, CountedFacts DEF BoundsInv, BufferOK, Pending
<1>4. PlaceOK'
  BY <1>1, <1>2, Position DEF BoundsInv, PlaceOK, input
<1>5. PhaseOK'
  BY <1>1 DEF BoundsInv, PhaseOK
<1> QED BY <1>1, <1>3, <1>4, <1>5, Kept1 DEF BoundsInv

LEMMA BoundsCloseParenthesis == ASSUME BoundsInv, CloseParenthesis PROVE BoundsInv'
<1> DEFINE under == Rest(buffer)
           arity == IF At(i - 1) = "LPAR" THEN 0 ELSE Top(buffer).arity + 1
           callee == under # <<>> /\ Top(under).type = "CALLEE"
           node == Node("CALLEE", arity, Top(under).token)
<1>1. /\ pc = "expression" /\ At(i) = "RPAR" /\ TopType = "LPAR" /\ i' = i + 1
      /\ callee => Write(<<node>>, "expression") /\ buffer' = Rest(under)
      /\ ~callee => buffer' = under /\ UNCHANGED <<pc, nodes>>
      /\ UNCHANGED <<input, contexts, operators, decl>>
  BY DEF CloseParenthesis, Reading
<1>2. buffer # <<>> /\ i \in 1..Len(tokens)
  BY <1>1, Position DEF TopType
<1>3. /\ under \in Seq(Pending) /\ Len(under) = Len(buffer) - 1 /\ Len(buffer) \in Nat
      /\ Len(buffer) <= StackSize /\ StackSize \in Nat /\ Top(buffer) \in Pending
  BY <1>2, BufferTop, Position DEF BoundsInv, BufferOK
<1>4. arity \in Int
  <2>1. Top(buffer).arity \in Int
    BY <1>3, ItemFields DEF Pending
  <2> QED BY <2>1
<1>5. callee => <<node>> \in Seq(Written) /\ Rest(under) \in Seq(Pending)
                /\ Len(Rest(under)) = Len(under) - 1
  <2> SUFFICES ASSUME callee
               PROVE  /\ <<node>> \in Seq(Written) /\ Rest(under) \in Seq(Pending)
                      /\ Len(Rest(under)) = Len(under) - 1
    OBVIOUS
  <2>1. Top(under) \in Pending /\ Rest(under) \in Seq(Pending) /\ Len(Rest(under)) = Len(under) - 1
    <3> HIDE DEF under
    <3> QED BY <1>3, RestFacts
  <2>2. Top(under).token \in Nat
    <3> HIDE DEF under
    <3> QED BY <2>1, ItemFields DEF Pending
  <2>3. "CALLEE" \in NodeTypes
    BY DEF NodeTypes, ExpressionTypes
  <2>4. node \in Written
    <3> HIDE DEF under, arity
    <3> QED BY <1>4, <2>2, <2>3, NodeType DEF Written
  <2> HIDE DEF node
  <2> QED BY <2>1, <2>4
<1>6. NodesOK' /\ InputOK' /\ pc' \in {"expression", "aborted"} /\ pc' \in Phases
  <2>0. "expression" \in Phases
    BY DEF Phases
  <2>1. CASE callee
    <3>1. <<node>> \in Seq(Written) /\ Write(<<node>>, "expression")
      BY <1>1, <1>5, <2>1
    <3> HIDE DEF node, callee
    <3> QED BY <1>1, <2>0, <3>1, WriteKeepsNodes
  <2>2. CASE ~callee
    <3> HIDE DEF callee
    <3> QED BY <1>1, <2>0, <2>2, Kept1
  <2> QED BY <2>1, <2>2
<1>7. BufferOK'
  <2> HIDE DEF under, callee
  <2> QED BY <1>1, <1>3, <1>5 DEF BufferOK
<1>8. PlaceOK'
  BY <1>1, <1>2, <1>6, Position DEF PlaceOK, input
<1>9. PhaseOK'
  <2> HIDE DEF under, callee
  <2> QED BY <1>1, <1>6 DEF BoundsInv, PhaseOK
<1> QED BY <1>1, <1>6, <1>7, <1>8, <1>9, Kept1 DEF BoundsInv

LEMMA SetLastArity ==
    ASSUME NEW ops, OpsOK(ops), NEW n \in Int, ops # <<>>
    PROVE  LET r == [ops EXCEPT ![Len(ops)].arity = n]
           IN  /\ OpsOK(r) /\ Len(r) = Len(ops)
               /\ \A x \in 1..Len(ops) : /\ r[x].type = ops[x].type /\ r[x].token = ops[x].token
                                         /\ x # Len(ops) => r[x] = ops[x]
<1> DEFINE l == Len(ops)
           r == [ops EXCEPT ![l].arity = n]
<1>1. /\ ops \in Seq(Operator) /\ l \in Nat /\ l >= 1 /\ l <= StackSize /\ DOMAIN ops = 1..l
      /\ ops[l] \in Operator
  BY DEF OpsOK
<1>2. r[l] = [ops[l] EXCEPT !.arity = n]
  BY <1>1
<1>3. r[l] \in Operator /\ r[l].type = ops[l].type /\ r[l].token = ops[l].token
  <2> HIDE DEF r, l
  <2> QED BY <1>1, <1>2, SetArity DEF Operator
<1>4. \A x \in 1..l : x # l => r[x] = ops[x]
  BY <1>1
<1>5. r = [x \in 1..l |-> r[x]]
  BY <1>1
<1>6. \A x \in 1..l : r[x] \in Operator
  <2>1. \A x \in 1..l : ops[x] \in Operator
    BY <1>1
  <2> HIDE DEF r, l
  <2> QED BY <1>3, <1>4, <2>1
<1>7. r \in Seq(Operator) /\ Len(r) = l
  <2> HIDE DEF r
  <2> QED BY <1>1, <1>5, <1>6
<1> HIDE DEF r
<1> QED BY <1>1, <1>3, <1>4, <1>7 DEF OpsOK, r

LEMMA BoundsEndExpression == ASSUME BoundsInv, EndExpression PROVE BoundsInv'
<1> DEFINE ops == [operators EXCEPT ![Len(operators)].arity = 1]
           init == Counted(Rest(ops), 1)
           next == AfterDeclaration(Rest(init))
<1>1. /\ pc = "expression" /\ buffer = <<>>
      /\ decl = "NO" => /\ operators' = ops /\ pc' = "terminator"
                        /\ UNCHANGED nodes
      /\ decl # "NO" => /\ operators' = Counted(Rest(init), 1)
                        /\ Write(<<Top(ops), Top(init)>>, next)
      /\ UNCHANGED <<input, i, contexts, buffer, decl>>
  BY DEF EndExpression, ExpressionEnds, Reading
<1>2. Len(operators) >= 1 /\ operators # <<>> /\ (decl # "NO" => Len(operators) >= 3)
      /\ Len(operators) \in Nat
  BY <1>1, Position DEF BoundsInv, PhaseOK
<1>3. OpsOK(ops) /\ Len(ops) = Len(operators)
  BY <1>2, Kept1, SetLastArity
<1>4. decl # "NO" => /\ OpsOK(init) /\ Len(init) >= 2 /\ Len(init) \in Nat
                     /\ Top(ops) \in Written /\ Top(init) \in Written
                     /\ OpsOK(Counted(Rest(init), 1))
  <2> SUFFICES ASSUME decl # "NO"
               PROVE  /\ OpsOK(init) /\ Len(init) >= 2 /\ Len(init) \in Nat
                      /\ Top(ops) \in Written /\ Top(init) \in Written
                      /\ OpsOK(Counted(Rest(init), 1))
    OBVIOUS
  <2>1. OpsOK(Rest(ops)) /\ Len(Rest(ops)) >= 2 /\ Top(ops) \in Written
    <3> HIDE DEF ops
    <3> QED BY <1>2, <1>3, OpsRest
  <2>2. OpsOK(init) /\ Len(init) >= 2 /\ Len(init) \in Nat
    <3> HIDE DEF ops
    <3> QED BY <2>1, OpsCount
  <2>3. OpsOK(Rest(init)) /\ Top(init) \in Written
    <3> HIDE DEF init
    <3> QED BY <2>2, OpsRest
  <2>4. OpsOK(Counted(Rest(init), 1))
    <3> HIDE DEF init
    <3> QED BY <2>3, OpsCount
  <2> QED BY <2>1, <2>2, <2>3, <2>4
<1>5. OperatorsOK'
  <2> HIDE DEF init, ops
  <2> QED BY <1>1, <1>3, <1>4 DEF OperatorsOK
<1>6. NodesOK' /\ InputOK' /\ pc' \in {"instruction", "terminator", "aborted"} /\ pc' \in Phases
  <2>1. next \in {"instruction", "terminator"} /\ next \in Phases
    <3>1. next \in {"instruction", "terminator"}
      BY AfterDeclarationPhase
    <3> QED BY <3>1 DEF Phases
  <2>2. CASE decl = "NO"
    BY <1>1, <2>2, Kept1 DEF Phases
  <2>3. CASE decl # "NO"
    <3>1. <<Top(ops), Top(init)>> \in Seq(Written)
      <4> HIDE DEF ops, init
      <4> QED BY <1>4, <2>3
    <3>2. Write(<<Top(ops), Top(init)>>, next)
      BY <1>1, <2>3
    <3> HIDE DEF ops, init, next
    <3> QED BY <1>1, <2>1, <3>1, <3>2, WriteKeepsNodes
  <2> QED BY <2>2, <2>3
<1>7. PlaceOK'
  BY <1>1, <1>6 DEF BoundsInv, PlaceOK, input
<1>8. PhaseOK'
  BY <1>1, <1>6 DEF BoundsInv, PhaseOK
<1> QED BY <1>1, <1>5, <1>6, <1>7, <1>8, Kept1 DEF BoundsInv

LEMMA BoundsPushCallee == ASSUME BoundsInv, PushCallee PROVE BoundsInv'
<1>1. pc = "expression" /\ At(i) # "NO" /\ PushBuffer(Node("CALLEE", 0, i))
  BY DEF PushCallee, Reading, Callee
<1>2. Node("CALLEE", 0, i) \in Pending
  <2>1. "CALLEE" \in PendingTypes /\ i \in Nat
    BY Position DEF PendingTypes
  <2> QED BY <2>1, NodeType DEF Pending
<1> QED BY <1>1, <1>2, BoundsPushBuffer

LEMMA BoundsPushOperator == ASSUME BoundsInv, PushOperator PROVE BoundsInv'
<1>1. pc = "expression" /\ At(i) \in Algebraic /\ At(i) # "NO" /\ PushBuffer(Node(At(i), 0, i))
  BY DEF PushOperator, Reading, Algebraic
<1>2. Node(At(i), 0, i) \in Pending
  <2>1. At(i) \in PendingTypes
    BY <1>1 DEF Algebraic, PendingTypes
  <2> QED BY <2>1, Position, NodeType DEF Pending
<1> QED BY <1>1, <1>2, BoundsPushBuffer

LEMMA BoundsOpenParenthesis == ASSUME BoundsInv, OpenParenthesis PROVE BoundsInv'
<1>1. pc = "expression" /\ At(i) # "NO" /\ PushBuffer(Node("LPAR", 0, i))
  BY DEF OpenParenthesis, Reading
<1>2. Node("LPAR", 0, i) \in Pending
  <2>1. "LPAR" \in PendingTypes /\ i \in Nat
    BY Position DEF PendingTypes
  <2> QED BY <2>1, NodeType DEF Pending
<1> QED BY <1>1, <1>2, BoundsPushBuffer

(* An operator that binds more is there to be popped. *)
LEMMA BindsTop == ASSUME NEW type, Binds(TopType, type) PROVE buffer # <<>>
BY DEF Binds, TopType, Precedence

LEMMA BoundsPop ==
    ASSUME BoundsInv, PopForOperator \/ PopToParenthesis \/ PopRemaining
    PROVE  BoundsInv'
<1>1. pc = "expression" /\ PopBuffer
  BY DEF PopForOperator, PopToParenthesis, PopRemaining, ExpressionEnds, Reading
<1>2. buffer # <<>>
  BY BindsTop DEF PopForOperator, PopToParenthesis, PopRemaining
<1> QED BY <1>1, <1>2, BoundsPopBuffer

LEMMA BoundsEndInstruction == ASSUME BoundsInv, EndInstruction PROVE BoundsInv'
<1>1. /\ pc \in {"instruction", "terminator"} /\ At(i) = "SEMI"
      /\ Write(Flushed, "instruction")
      /\ operators' = Kept
      /\ contexts' = Child(contexts, Len(Flushed))
      /\ i' = AfterSemicolons
      /\ UNCHANGED <<input, buffer, decl>>
  BY DEF EndInstruction, Terminating, Reading
<1>2. /\ operators \in Seq(Operator) /\ contexts \in Seq(Frame) /\ contexts # <<>>
      /\ tokens \in Seq(Token) /\ i \in 1..Len(tokens) /\ Len(tokens) \in Nat
      /\ Len(operators) <= StackSize /\ Len(operators) \in Nat /\ StackSize \in Nat
  BY <1>1, Position DEF BoundsInv, InputOK, OperatorsOK, OpsOK, ContextsOK
<1>3. /\ Flushed \in Seq(Written) /\ Len(Flushed) \in Nat
      /\ Kept \in Seq(Operator) /\ Len(Kept) <= Len(operators)
  BY <1>2, FlushedFacts
<1>4. OperatorsOK'
  <2>1. Len(Kept) <= StackSize
    BY <1>2, <1>3
  <2> QED BY <1>1, <1>3, <2>1 DEF OperatorsOK, OpsOK
<1>5. NodesOK' /\ InputOK' /\ pc' \in {"instruction", "aborted"} /\ pc' \in Phases
  <2>1. "instruction" \in Phases
    BY DEF Phases
  <2> QED BY <1>1, <1>3, <2>1, WriteKeepsNodes
<1>6. ContextsOK'
  <2> DEFINE c == Child(contexts, Len(Flushed))
  <2>1. /\ c \in Seq(Frame) /\ Len(c) = Len(contexts)
        /\ \A n \in 1..Len(contexts) : c[n].type = contexts[n].type
    BY <1>2, <1>3, ChildFacts
  <2>2. contexts' = c
    BY <1>1
  <2> HIDE DEF c
  <2> QED BY <2>1, <2>2 DEF BoundsInv, ContextsOK
<1>7. PlaceOK'
  BY <1>1, <1>2, <1>5, SemicolonsEnd DEF PlaceOK, input
<1>8. PhaseOK'
  BY <1>1, <1>5, Kept1 DEF BoundsInv, PhaseOK
<1> QED BY <1>1, <1>4, <1>5, <1>6, <1>7, <1>8, Kept1 DEF BoundsInv

(* What a closed scope adds to the nodes before its declaration. *)
ScopeNodes ==
    LET scope == Top(contexts)
    IN  Flushed \o <<Leaf("SCOPE_END", scope.token),
                     Node("SCOPE", scope.children + Len(Flushed) + 1, scope.token)>>

LEMMA ScopeNodesFacts ==
    ASSUME BoundsInv
    PROVE  LET scope == Top(contexts)
               l == Len(Flushed)
           IN  /\ ScopeNodes \in Seq(Written) /\ Len(ScopeNodes) = l + 2 /\ l \in Nat
               /\ \A n \in 1..l : ScopeNodes[n] = Flushed[n]
               /\ ScopeNodes[l + 1] = Leaf("SCOPE_END", scope.token)
               /\ ScopeNodes[l + 2] = Node("SCOPE", scope.children + l + 1, scope.token)
<1> DEFINE scope == Top(contexts)
           l == Len(Flushed)
           end == Leaf("SCOPE_END", scope.token)
           node == Node("SCOPE", scope.children + l + 1, scope.token)
<1>1. /\ operators \in Seq(Operator) /\ contexts \in Seq(Frame) /\ contexts # <<>>
  BY Position DEF BoundsInv, OperatorsOK, OpsOK, ContextsOK
<1>2. Flushed \in Seq(Written) /\ l \in Nat
  BY <1>1, FlushedFacts
<1>3. scope.token \in Nat /\ scope.children \in Nat
  <2>1. scope \in Frame
    BY <1>1, RestFacts
  <2> QED BY <2>1 DEF Frame
<1>4. end \in Written
  <2>1. "SCOPE_END" \in NodeTypes
    BY DEF NodeTypes
  <2> QED BY <1>3, <2>1, LeafType
<1>5. node \in Written
  <2>1. "SCOPE" \in NodeTypes /\ scope.children + l + 1 \in Int
    BY <1>2, <1>3 DEF NodeTypes
  <2> QED BY <1>3, <2>1, NodeType DEF Written
<1>6. ScopeNodes = Flushed \o <<end, node>>
  BY DEF ScopeNodes
<1>7. <<end, node>> \in Seq(Written) /\ Len(<<end, node>>) = 2
      /\ <<end, node>>[1] = end /\ <<end, node>>[2] = node
  <2> HIDE DEF end, node
  <2> QED BY <1>4, <1>5
<1> DEFINE two == <<end, node>>
<1>8. /\ two \in Seq(Written) /\ Len(two) = 2 /\ two[1] = end /\ two[2] = node
      /\ ScopeNodes = Flushed \o two
  BY <1>6, <1>7
<1> HIDE DEF end, node, two
<1>9. /\ ScopeNodes \in Seq(Written) /\ Len(ScopeNodes) = l + 2
      /\ \A n \in 1..l : ScopeNodes[n] = Flushed[n]
      /\ \A n \in 1..2 : ScopeNodes[l + n] = two[n]
  <2> DEFINE all == Flushed \o two
  <2>1. /\ all \in Seq(Written) /\ Len(all) = l + Len(two)
        /\ \A n \in 1..l : all[n] = Flushed[n]
        /\ \A n \in 1..Len(two) : all[l + n] = two[n]
    <3>1. Flushed \in Seq(Written) /\ two \in Seq(Written)
      BY <1>2, <1>8
    <3> QED BY <3>1, Concatenated
  <2>2. ScopeNodes = all
    BY <1>8
  <2> HIDE DEF all
  <2> QED BY <1>8, <2>1, <2>2
<1>10. ScopeNodes[l + 1] = end /\ ScopeNodes[l + 2] = node
  BY <1>8, <1>9
<1> QED BY <1>2, <1>9, <1>10 DEF end, node

LEMMA BoundsCloseScope == ASSUME BoundsInv, CloseScope PROVE BoundsInv'
<1> DEFINE scope == Top(contexts)
           under == Counted(Kept, 1)
           init == Top(under)
           opsDecl == Counted(Rest(under), 1)
           declared == /\ Initializes(under, scope.token)
                       /\ opsDecl # <<>>
                       /\ Top(opsDecl).type = DeclOf[init.type]
           withInit == ScopeNodes \o <<Node(init.type, 1, init.token)>>
           ns == IF declared THEN withInit \o <<Top(opsDecl)>>
                 ELSE IF Initializes(under, scope.token) THEN withInit \o <<>> ELSE ScopeNodes
           next == IF Initializes(under, scope.token) /\ ~declared THEN "aborted" ELSE "instruction"
<1>1. /\ pc \in {"instruction", "terminator"} /\ At(i) = "PERIOD"
      /\ Top(contexts).type = "SCOPE"
      /\ contexts' = Child(Rest(contexts), 1)
      /\ i' = i + 1
      /\ UNCHANGED <<input, buffer, decl>>
  BY DEF CloseScope, Terminating, Reading
<1>2. /\ Write(ns, next)
      /\ operators' \in {under, opsDecl, Counted(Rest(opsDecl), 1)}
  <2>1. CASE declared
    <3>1. Write(withInit \o <<Top(opsDecl)>>, "instruction") /\ operators' = Counted(Rest(opsDecl), 1)
      BY <2>1 DEF CloseScope, ScopeNodes
    <3> QED BY <2>1, <3>1
  <2>2. CASE ~declared /\ Initializes(under, scope.token)
    <3>1. Write(withInit \o <<>>, "aborted") /\ operators' = opsDecl
      BY <2>2 DEF CloseScope, ScopeNodes
    <3> QED BY <2>2, <3>1
  <2>3. CASE ~Initializes(under, scope.token)
    <3>1. Write(ScopeNodes, "instruction") /\ operators' = under
      BY <2>3 DEF CloseScope, ScopeNodes
    <3> QED BY <2>3, <3>1
  <2> QED BY <2>1, <2>2, <2>3
<1>3. /\ operators \in Seq(Operator) /\ contexts \in Seq(Frame) /\ contexts # <<>>
      /\ Len(contexts) \in Nat /\ Len(contexts) >= 1 /\ Len(contexts) <= StackSize
      /\ \A n \in 1..Len(contexts) : contexts[n].type = "SCOPE_0" <=> n = 1
      /\ OpsOK(operators) /\ i \in 1..Len(tokens) /\ Len(operators) \in Nat
      /\ StackSize \in Nat /\ Len(tokens) \in Nat
  BY <1>1, Position DEF BoundsInv, OperatorsOK, OpsOK, ContextsOK
<1>4. OpsOK(under) /\ OpsOK(opsDecl) /\ OpsOK(Counted(Rest(opsDecl), 1))
  <2>1. Kept \in Seq(Operator) /\ Len(Kept) <= Len(operators) /\ Len(Kept) \in Nat
    BY <1>3, FlushedFacts
  <2>2. OpsOK(Kept)
    BY <1>3, <2>1 DEF OpsOK
  <2>3. OpsOK(under)
    BY <2>2, OpsCount
  <2>4. OpsOK(opsDecl)
    <3> HIDE DEF under
    <3> QED BY <2>3, OpsRest, OpsCount
  <2>5. OpsOK(Counted(Rest(opsDecl), 1))
    <3> HIDE DEF opsDecl
    <3> QED BY <2>4, OpsRest, OpsCount
  <2> QED BY <2>3, <2>4, <2>5
<1>5. ns \in Seq(Written)
  <2>1. ScopeNodes \in Seq(Written)
    BY ScopeNodesFacts
  <2>2. Initializes(under, scope.token) => withInit \in Seq(Written)
    <3> SUFFICES ASSUME Initializes(under, scope.token) PROVE withInit \in Seq(Written)
      OBVIOUS
    <3>1. under # <<>> /\ init.type \in {"INIT_LAB", "INIT_PAL"}
      <4> HIDE DEF under
      <4> QED BY DEF Initializes
    <3>2. init \in Operator
      <4> HIDE DEF under
      <4> QED BY <1>4, <3>1, RestFacts DEF OpsOK
    <3>3. init.token \in Nat /\ init.type \in NodeTypes
      <4> HIDE DEF init
      <4> QED BY <3>1, <3>2, ItemFields DEF Operator, NodeTypes, OperatorTypes, Inits
    <3> HIDE DEF init
    <3>4. Node(init.type, 1, init.token) \in Written
      BY <3>3, NodeType DEF Written
    <3> QED BY <2>1, <3>4, Concatenated
  <2>3. declared => Initializes(under, scope.token) /\ Top(opsDecl) \in Written
    <3> SUFFICES ASSUME declared PROVE Initializes(under, scope.token) /\ Top(opsDecl) \in Written
      OBVIOUS
    <3>1. Initializes(under, scope.token) /\ opsDecl # <<>>
      OBVIOUS
    <3> HIDE DEF opsDecl
    <3>2. Len(opsDecl) > 0
      BY <1>4, <3>1 DEF OpsOK
    <3> QED BY <1>4, <3>1, <3>2, OpsRest
  <2>4. <<>> \in Seq(Written)
    OBVIOUS
  <2> HIDE DEF withInit, opsDecl, under, declared
  <2>5. declared => withInit \o <<Top(opsDecl)>> \in Seq(Written)
    BY <2>2, <2>3, Concatenated
  <2>6. Initializes(under, scope.token) => withInit \o <<>> \in Seq(Written)
    BY <2>2, <2>4, Concatenated
  <2> QED BY <2>1, <2>5, <2>6
<1>6. OperatorsOK'
  <2> HIDE DEF under, opsDecl
  <2>1. OpsOK(operators')
    BY <1>2, <1>4
  <2> QED BY <2>1 DEF OperatorsOK, OpsOK
<1>7. NodesOK' /\ InputOK' /\ pc' \in {"instruction", "aborted"} /\ pc' \in Phases
  <2>1. next \in Phases /\ next \in {"instruction", "aborted"}
    BY DEF Phases, Outcomes
  <2> HIDE DEF ns, next
  <2> QED BY <1>1, <1>2, <1>5, <2>1, WriteKeepsNodes
<1>8. ContextsOK'
  <2> DEFINE r == Rest(contexts)
             c == Child(r, 1)
  <2>1. Len(contexts) >= 2
    <3>1. contexts[Len(contexts)].type # "SCOPE_0" /\ Len(contexts) \in 1..Len(contexts)
      BY <1>1, <1>3 DEF Top
    <3>2. Len(contexts) # 1
      BY <1>3, <3>1
    <3>3. Len(contexts) \in Nat /\ Len(contexts) >= 1
      BY Position
    <3> QED BY <3>2, <3>3
  <2>2. /\ r \in Seq(Frame) /\ Len(r) = Len(contexts) - 1 /\ r # <<>>
        /\ \A n \in 1..Len(r) : r[n] = contexts[n]
    <3>1. /\ r \in Seq(Frame) /\ Len(r) = Len(contexts) - 1
          /\ \A n \in 1..Len(r) : r[n] = contexts[n]
      BY <1>3, RestFacts
    <3>2. Len(r) >= 1
      <4> HIDE DEF r
      <4> QED BY <1>3, <2>1, <3>1
    <3> HIDE DEF r
    <3> QED BY <3>1, <3>2
  <2>3. /\ c \in Seq(Frame) /\ Len(c) = Len(contexts) - 1
        /\ \A n \in 1..Len(r) : c[n].type = contexts[n].type
    <3> HIDE DEF r
    <3>1. 1 \in Nat
      OBVIOUS
    <3>2. /\ Child(r, 1) \in Seq(Frame) /\ Len(Child(r, 1)) = Len(r)
          /\ \A n \in 1..Len(r) : Child(r, 1)[n].type = r[n].type
      BY <2>2, <3>1, ChildFacts
    <3> QED BY <2>2, <3>2
  <2>4. contexts' = c
    BY <1>1
  <2> HIDE DEF c, r
  <2>5. Len(c) \in 1..StackSize /\ \A n \in 1..Len(c) : n \in 1..Len(r) /\ n \in 1..Len(contexts)
    BY <1>3, <2>1, <2>2, <2>3
  <2> QED BY <1>3, <2>3, <2>4, <2>5 DEF ContextsOK
<1>9. PlaceOK'
  BY <1>1, <1>3, <1>7 DEF PlaceOK, input
<1>10. PhaseOK'
  BY <1>1, <1>7, Kept1 DEF BoundsInv, PhaseOK
<1> QED BY <1>1, <1>6, <1>7, <1>8, <1>9, <1>10, Kept1 DEF BoundsInv

LEMMA BoundsReturns == ASSUME BoundsInv, Reject \/ ReadBehindTokens \/ EndOfSource PROVE BoundsInv'
<1>1. /\ pc \in {"instruction", "type", "parameter", "terminator"}
      /\ pc' \in {"rejected", "undefined", "accepted"}
      /\ UNCHANGED <<input, i, nodes, contexts, operators, buffer, decl>>
  BY DEF Reject, Malformed, Terminating, Reading, ReadBehindTokens, EndOfSource
<1>2. pc' = "undefined" => At(i)' = "COM" /\ i' = Len(tokens')
  BY DEF Reject, ReadBehindTokens, EndOfSource, At, input
<1>3. PlaceOK' /\ PhaseOK'
  BY <1>1, <1>2, Kept1 DEF BoundsInv, PlaceOK, PhaseOK, Phases, Outcomes, input
<1> QED BY <1>1, <1>3, Kept1 DEF BoundsInv

LEMMA BoundsStutter == ASSUME BoundsInv, UNCHANGED vars PROVE BoundsInv'
BY DEF BoundsInv, vars, InputOK, PlaceOK, NodesOK, OperatorsOK, OpsOK, BufferOK, ContextsOK,
       PhaseOK, At

LEMMA NextBounds == ASSUME BoundsInv, [Next]_vars PROVE BoundsInv'
<1>1. CASE Returned \/ UNCHANGED vars
  BY <1>1, BoundsStutter DEF Returned
<1>2. CASE GroupQualifiers \/ OpenScope \/ StartExpression \/ ImportModules \/ Declare
  BY <1>2, BoundsGroupQualifiers, BoundsOpenScope, BoundsStartExpression, BoundsImportModules,
     BoundsDeclare
<1>3. CASE TypeVar \/ EndType \/ OpenParameters \/ Parameter \/ CloseParameters
  BY <1>3, BoundsTypeVar, BoundsEndType, BoundsOpenParameters, BoundsParameter,
     BoundsCloseParameters
<1>4. CASE InitializeVariable \/ InitializeNothing \/ InitializeScope
  BY <1>4, BoundsInitializeVariable, BoundsInitializeNothing, BoundsInitializeScope
<1>5. CASE PushCallee \/ Operand \/ PushOperator \/ OpenParenthesis \/ SeparateArguments
  BY <1>5, BoundsPushCallee, BoundsOperand, BoundsPushOperator, BoundsOpenParenthesis,
     BoundsSeparateArguments
<1>6. CASE PopForOperator \/ PopToParenthesis \/ PopRemaining
  BY <1>6, BoundsPop
<1>7. CASE CloseParenthesis \/ RunBelowBuffer \/ EndExpression
  BY <1>7, BoundsCloseParenthesis, BoundsRunBelowBuffer, BoundsEndExpression
<1>8. CASE EndInstruction \/ CloseScope \/ Reject \/ ReadBehindTokens \/ EndOfSource
  BY <1>8, BoundsEndInstruction, BoundsCloseScope, BoundsReturns
<1> QED BY <1>1, <1>2, <1>3, <1>4, <1>5, <1>6, <1>7, <1>8 DEF Next

(* Whatever the tokens are, and even when a push was dropped: the parser     *)
(* never moves past the null token, and only a command that is the last      *)
(* token makes it read behind that one (ReadBehindTokens); it writes no node *)
(* outside its array, pops no stack that is empty, and never closes SCOPE_0. *)
THEOREM BoundsKept == Spec => []BoundsInv
<1>1. BoundsInv /\ [Next]_vars => BoundsInv'
  BY NextBounds
<1> QED BY InitBounds, <1>1, PTL DEF Spec

-----------------------------------------------------------------------------
(* Who owns the operators: the second invariant                              *)

Watermark == Top(contexts).watermark

(* An INIT and its DECL wait for the scope that comes next. *)
Initializing ==
    /\ At(i) = "SCOPE"
    /\ Len(operators) = Watermark + 2
    /\ operators[Watermark + 2].type \in Inits /\ operators[Watermark + 2].token = i
    /\ operators[Watermark + 1].type = DeclOf[operators[Watermark + 2].type]
    /\ operators[Watermark + 1].token < i

(* The instruction being read owns the operators above the watermark.        *)
OwnedOK ==
    /\ pc = "instruction" => Len(operators) = Watermark \/ Initializing
    /\ pc \in {"type", "typed", "init"} => Len(operators) = Watermark + 1
    /\ pc \in {"parameter", "close"} =>
          Len(operators) = Watermark + 2 /\ operators[Watermark + 2].type = "GRP_R_PARES"
    /\ pc \in {"type", "typed", "init", "parameter", "close"} =>
          operators[Watermark + 1].type = decl
    /\ pc = "expression" /\ decl = "NO" =>
          Len(operators) = Watermark + 1 /\ operators[Watermark + 1].type = "EXP"
    /\ pc = "expression" /\ decl # "NO" =>
          /\ Len(operators) = Watermark + 3 /\ operators[Watermark + 1].type = "DECL_VAR"
          /\ operators[Watermark + 2].type = "INIT_VAR" /\ operators[Watermark + 3].type = "EXP"
    /\ pc = "terminator" =>
          /\ Len(operators) = Watermark + 1
          /\ operators[Watermark + 1].type \in Decls \cup {"EXP", "GRP_MOD"}
    /\ pc = "accepted" => operators = <<>>

(* Two open scopes, one in the other: the inner one is an instruction of the *)
(* outer one, or the scope of a declaration whose two operators wait.        *)
Linked(low, up) ==
    /\ low.token < up.token
    /\ \/ /\ up.watermark = low.watermark
          /\ up.watermark > 0 => /\ operators[up.watermark].type \in Inits
                                 /\ operators[up.watermark].token < up.token
       \/ /\ up.watermark = low.watermark + 2
          /\ operators[up.watermark].type \in Inits
          /\ operators[up.watermark].token = up.token
          /\ operators[up.watermark - 1].type = DeclOf[operators[up.watermark].type]
          /\ operators[up.watermark - 1].token > low.token
          /\ operators[up.watermark - 1].token < up.token

ScopesOK ==
    /\ contexts[1].watermark = 0 /\ contexts[1].token = 0
    /\ Watermark <= Len(operators)
    /\ \A n \in 2..Len(contexts) : Linked(contexts[n - 1], contexts[n])
    /\ \A n \in 1..Len(contexts), m \in 1..Len(contexts) :
          m <= n => contexts[m].watermark <= contexts[n].watermark

(* The tokens of the stacks were read in the order in which they lie there.  *)
TokensOK ==
    /\ \A n \in 1..Len(contexts) : contexts[n].token < i
    /\ \A n \in 1..Len(operators) : operators[n].token <= i
    /\ \A n \in 1..Len(operators) : n > Watermark => operators[n].token > Top(contexts).token
    /\ pc \in {"type", "typed", "init", "parameter", "close"}
       \/ (pc = "instruction" /\ Len(operators) = Watermark) =>
          \A n \in 1..Len(operators) : operators[n].token < i

StackOK == OwnedOK /\ ScopesOK /\ TokensOK
StackInv == ~dropped => StackOK

LEMMA StackTypes ==
    ASSUME BoundsInv
    PROVE  /\ Watermark \in Nat /\ Top(contexts) = contexts[Len(contexts)]
           /\ Top(contexts).token \in Nat /\ Top(contexts).children \in Nat
           /\ \A n \in 1..Len(contexts) : contexts[n].watermark \in Nat /\ contexts[n].token \in Nat
           /\ \A n \in 1..Len(operators) :
                 operators[n].token \in Nat /\ operators[n].type \in OperatorTypes
           /\ Len(operators) \in Nat /\ Len(contexts) \in Nat /\ Len(contexts) >= 1
           /\ i \in Nat /\ i >= 1
<1>1. contexts \in Seq(Frame) /\ operators \in Seq(Operator)
  BY DEF BoundsInv, ContextsOK, OperatorsOK, OpsOK
<1>2. \A n \in 1..Len(contexts) :
         contexts[n].watermark \in Nat /\ contexts[n].token \in Nat /\ contexts[n].children \in Nat
  <2> SUFFICES ASSUME NEW n \in 1..Len(contexts)
               PROVE  /\ contexts[n].watermark \in Nat /\ contexts[n].token \in Nat
                      /\ contexts[n].children \in Nat
    OBVIOUS
  <2>1. contexts[n] \in Frame
    BY <1>1
  <2> QED BY <2>1 DEF Frame
<1>3. \A n \in 1..Len(operators) :
         operators[n].token \in Nat /\ operators[n].type \in OperatorTypes
  <2> SUFFICES ASSUME NEW n \in 1..Len(operators)
               PROVE  operators[n].token \in Nat /\ operators[n].type \in OperatorTypes
    OBVIOUS
  <2>1. operators[n] \in Operator
    BY <1>1
  <2> QED BY <2>1, ItemFields DEF Operator
<1>4. Len(contexts) \in 1..Len(contexts)
  BY Position
<1>5. Top(contexts) = contexts[Len(contexts)]
  BY DEF Top
<1> QED BY <1>2, <1>3, <1>4, <1>5, Position DEF Watermark

OperatorTokens ==
    /\ \A n \in 1..Len(operators) : operators[n].token \in Nat
    /\ Len(operators) \in Nat /\ i \in Nat

LEMMA NextStackTypes == BoundsInv' => OperatorTokens'
<1>1. BoundsInv => OperatorTokens
  BY StackTypes DEF OperatorTokens
<1> QED BY <1>1, PTL

(* t keeps the first n operators of s, their arities aside. *)
Agree(s, t, n) == \A x \in 1..n : t[x].type = s[x].type /\ t[x].token = s[x].token

LEMMA OpsPushed ==
    ASSUME NEW ops, OpsOK(ops), NEW type \in OperatorTypes, NEW p \in Nat, ~Full(ops)
    PROVE  LET r == Pushed(ops, Node(type, 0, p))
           IN  /\ OpsOK(r) /\ Len(ops) \in Nat /\ Len(r) = Len(ops) + 1
               /\ Agree(ops, r, Len(ops))
               /\ r[Len(ops) + 1].type = type /\ r[Len(ops) + 1].token = p
<1> DEFINE x == Node(type, 0, p)
           r == Pushed(ops, x)
<1>1. x \in Operator /\ x.type = type /\ x.token = p
  BY NodeType DEF Operator
<1>2. ops \in Seq(Operator) /\ Len(ops) <= StackSize /\ Len(ops) \in Nat
  BY DEF OpsOK
<1> HIDE DEF x
<1>3. /\ r \in Seq(Operator) /\ Len(r) <= StackSize /\ Len(r) = Len(ops) + 1 /\ r[Len(ops) + 1] = x
      /\ \A n \in 1..Len(ops) : r[n] = ops[n]
  BY <1>1, <1>2, PushedFacts
<1> HIDE DEF r
<1>4. OpsOK(r) /\ Len(ops) \in Nat /\ Len(r) = Len(ops) + 1 /\ Agree(ops, r, Len(ops))
      /\ r[Len(ops) + 1].type = type /\ r[Len(ops) + 1].token = p
  BY <1>1, <1>2, <1>3 DEF OpsOK, Agree
<1> QED BY <1>4 DEF r, x

LEMMA OpsCounted ==
    ASSUME NEW ops, OpsOK(ops), NEW n \in Int
    PROVE  /\ OpsOK(Counted(ops, n)) /\ Len(ops) \in Nat /\ Len(Counted(ops, n)) = Len(ops)
           /\ Agree(ops, Counted(ops, n), Len(ops))
BY CountedFacts DEF OpsOK, Operator, Agree

LEMMA Agrees ==
    ASSUME NEW a, NEW b, NEW c, NEW n \in Nat, NEW m \in Nat, Agree(a, b, n), Agree(b, c, m),
           NEW k \in Nat, k <= n, k <= m
    PROVE  Agree(a, c, k)
BY DEF Agree

LEMMA OpsPushedCounted ==
    ASSUME NEW ops, OpsOK(ops), NEW type \in OperatorTypes, NEW p \in Nat, ~Full(ops), NEW n \in Int
    PROVE  LET r == Counted(Pushed(ops, Node(type, 0, p)), n)
           IN  /\ OpsOK(r) /\ Len(ops) \in Nat /\ Len(r) = Len(ops) + 1
               /\ Agree(ops, r, Len(ops))
               /\ r[Len(ops) + 1].type = type /\ r[Len(ops) + 1].token = p
<1> DEFINE q == Pushed(ops, Node(type, 0, p))
           r == Counted(q, n)
<1>1. /\ OpsOK(q) /\ Len(ops) \in Nat /\ Len(q) = Len(ops) + 1 /\ Agree(ops, q, Len(ops))
      /\ q[Len(ops) + 1].type = type /\ q[Len(ops) + 1].token = p
  BY OpsPushed
<1> HIDE DEF q
<1>2. OpsOK(r) /\ Len(r) = Len(q) /\ Agree(q, r, Len(q))
  BY <1>1, OpsCounted
<1> HIDE DEF r
<1>3. Agree(ops, r, Len(ops))
  BY <1>1, <1>2 DEF Agree
<1>4. r[Len(ops) + 1].type = type /\ r[Len(ops) + 1].token = p
  BY <1>1, <1>2 DEF Agree
<1> QED BY <1>1, <1>2, <1>3, <1>4 DEF r, q

LEMMA OpsRested ==
    ASSUME NEW ops, OpsOK(ops), Len(ops) >= 1
    PROVE  /\ OpsOK(Rest(ops)) /\ Len(ops) \in Nat /\ Len(Rest(ops)) = Len(ops) - 1
           /\ Agree(ops, Rest(ops), Len(ops) - 1)
           /\ Top(ops) = ops[Len(ops)]
<1>1. ops \in Seq(Operator) /\ Len(ops) \in Nat /\ ops # <<>>
  BY DEF OpsOK
<1>2. OpsOK(Rest(ops)) /\ Len(Rest(ops)) = Len(ops) - 1
  <2>1. Len(ops) > 0
    BY <1>1
  <2> QED BY <2>1, OpsRest
<1>3. \A n \in 1..Len(Rest(ops)) : Rest(ops)[n] = ops[n]
  BY <1>1, RestFacts
<1> QED BY <1>1, <1>2, <1>3 DEF Agree, Top

(* Handlers that open and close no scope: the scopes keep their operators.   *)
SameFrames ==
    /\ Len(contexts') = Len(contexts)
    /\ \A n \in 1..Len(contexts) : /\ contexts'[n].watermark = contexts[n].watermark
                                   /\ contexts'[n].token = contexts[n].token

LEMMA FramesSame ==
    ASSUME BoundsInv, UNCHANGED contexts \/ \E n \in Nat : contexts' = Child(contexts, n)
    PROVE  SameFrames
<1>1. CASE UNCHANGED contexts
  BY <1>1 DEF SameFrames
<1>2. ASSUME NEW n \in Nat, contexts' = Child(contexts, n) PROVE SameFrames
  <2>1. contexts \in Seq(Frame) /\ contexts # <<>>
    BY Position DEF BoundsInv, ContextsOK
  <2> QED BY <1>2, <2>1, ChildFacts DEF SameFrames
<1> QED BY <1>1, <1>2

(* The scopes that stay open keep what lies below the innermost of them.     *)
LEMMA ScopesBelow ==
    ASSUME BoundsInv, BoundsInv', ScopesOK,
           NEW l \in 1..Len(contexts), Len(contexts') = l,
           \A n \in 1..l : /\ contexts'[n].watermark = contexts[n].watermark
                          /\ contexts'[n].token = contexts[n].token,
           NEW w, w = contexts[l].watermark,
           Agree(operators, operators', w), w <= Len(operators')
    PROVE  /\ ScopesOK' /\ Watermark' = w /\ Top(contexts)'.token = contexts[l].token
<1>1. /\ Len(contexts) \in Nat /\ l \in Nat /\ l >= 1 /\ l <= Len(contexts) /\ w \in Nat
      /\ \A n \in 1..l : contexts[n].watermark \in Nat /\ contexts[n].token \in Nat
  <2>1. Len(contexts) \in Nat
    BY StackTypes
  <2>2. l \in Nat /\ l >= 1 /\ l <= Len(contexts)
    BY <2>1
  <2>3. \A n \in 1..l : n \in 1..Len(contexts)
    BY <2>1, <2>2
  <2> QED BY <2>1, <2>2, <2>3, StackTypes
<1>2. Top(contexts)' = contexts'[l] /\ Watermark' = Top(contexts)'.watermark
  BY DEF Top, Watermark
<1>3. Watermark' = w /\ Top(contexts)'.token = contexts[l].token
  <2>1. l \in 1..l
    BY <1>1
  <2> QED BY <1>2, <2>1
<1>4. ASSUME NEW n \in 2..l PROVE Linked(contexts[n - 1], contexts[n])'
  <2> DEFINE low == contexts[n - 1]
             up == contexts[n]
  <2>1. n \in 1..l /\ n - 1 \in 1..l /\ n \in 2..Len(contexts) /\ n \in 1..Len(contexts)
        /\ l \in 1..Len(contexts) /\ n <= l
    BY <1>1
  <2>2. /\ up.watermark \in Nat /\ low.watermark \in Nat /\ up.watermark <= w
        /\ Linked(low, up)
    <3>1. up.watermark \in Nat /\ low.watermark \in Nat
      BY <1>1, <2>1
    <3>2. Linked(low, up)
      BY <2>1 DEF ScopesOK
    <3>3. up.watermark <= w
      BY <2>1 DEF ScopesOK
    <3> QED BY <3>1, <3>2, <3>3
  <2>3. /\ contexts'[n].watermark = up.watermark /\ contexts'[n].token = up.token
        /\ contexts'[n - 1].watermark = low.watermark /\ contexts'[n - 1].token = low.token
    BY <2>1
  <2>4. \A x \in 1..up.watermark : /\ operators'[x].type = operators[x].type
                                   /\ operators'[x].token = operators[x].token
    BY <1>1, <2>2 DEF Agree
  <2>5. up.watermark > 0 => up.watermark \in 1..up.watermark
    BY <2>2
  <2>6. up.watermark = low.watermark + 2 =>
           up.watermark > 0 /\ up.watermark - 1 \in 1..up.watermark
    BY <2>2
  <2> HIDE DEF low, up
  <2>7. Linked(low, up)
    BY <2>2
  <2> QED BY <2>3, <2>4, <2>5, <2>6, <2>7 DEF Linked, low, up
<1>5. (Watermark <= Len(operators))'
  BY <1>3
<1>6. contexts'[1].watermark = 0 /\ contexts'[1].token = 0
  BY <1>1 DEF ScopesOK
<1>7. \A n \in 1..l, m \in 1..l : m <= n => contexts'[m].watermark <= contexts'[n].watermark
  <2>1. \A n \in 1..l : n \in 1..Len(contexts)
    BY <1>1
  <2> QED BY <2>1 DEF ScopesOK
<1> QED BY <1>3, <1>4, <1>5, <1>6, <1>7 DEF ScopesOK

LEMMA ScopesKept ==
    ASSUME BoundsInv, BoundsInv', ScopesOK, SameFrames,
           Agree(operators, operators', Watermark), Watermark <= Len(operators')
    PROVE  /\ ScopesOK' /\ Watermark' = Watermark
           /\ Top(contexts)'.token = Top(contexts).token
<1>1. /\ Len(contexts) \in 1..Len(contexts) /\ Top(contexts) = contexts[Len(contexts)]
      /\ Watermark = contexts[Len(contexts)].watermark
  BY StackTypes DEF Watermark
<1> QED BY <1>1, ScopesBelow DEF SameFrames

(* Up to k the operators stay, above it they were read since.                *)
LEMMA StackMoves ==
    ASSUME BoundsInv, BoundsInv', StackOK, SameFrames, i' >= i,
           NEW k \in Nat, k <= Len(operators), k <= Len(operators'), Watermark <= k,
           Agree(operators, operators', k),
           \A n \in 1..Len(operators') : n > k => i <= operators'[n].token /\ operators'[n].token <= i',
           i < i' \/ (\A n \in 1..k : operators[n].token < i)
                  \/ pc' \notin {"type", "typed", "init", "parameter", "close", "instruction"},
           pc' \in {"type", "typed", "init", "parameter", "close", "instruction"} =>
              \A n \in 1..Len(operators') : n > k /\ (pc' = "instruction" => n <= Watermark) =>
                  operators'[n].token < i'
    PROVE  /\ ScopesOK' /\ TokensOK' /\ Watermark' = Watermark
<1>1. /\ Watermark \in Nat /\ Len(contexts) \in Nat /\ Len(contexts) >= 1
      /\ Top(contexts) = contexts[Len(contexts)]
      /\ \A n \in 1..Len(contexts) : contexts[n].token \in Nat
      /\ \A n \in 1..Len(operators) : operators[n].token \in Nat
      /\ Len(operators) \in Nat /\ i \in Nat
  BY StackTypes
<1>2. /\ \A n \in 1..Len(operators') : operators'[n].token \in Nat
      /\ Len(operators') \in Nat /\ i' \in Nat
  BY NextStackTypes DEF OperatorTokens
<1>3. Agree(operators, operators', Watermark) /\ Watermark <= Len(operators')
  BY <1>1, <1>2 DEF Agree
<1>4. /\ ScopesOK' /\ Watermark' = Watermark /\ Top(contexts)'.token = Top(contexts).token
  BY <1>3, ScopesKept DEF StackOK
<1>5. \A n \in 1..Len(contexts') : contexts'[n].token < i'
  <2> SUFFICES ASSUME NEW n \in 1..Len(contexts) PROVE contexts[n].token < i'
    BY DEF SameFrames
  <2>1. contexts[n].token < i /\ contexts[n].token \in Nat
    BY <1>1 DEF StackOK, TokensOK
  <2> QED BY <1>1, <1>2, <2>1
<1>6. \A n \in 1..Len(operators') : n <= k => operators'[n].token = operators[n].token /\ n \in 1..Len(operators)
  BY <1>1, <1>2 DEF Agree
<1>7. \A n \in 1..Len(operators') : operators'[n].token <= i'
  <2> SUFFICES ASSUME NEW n \in 1..Len(operators') PROVE operators'[n].token <= i'
    OBVIOUS
  <2>1. CASE n <= k
    <3>1. operators'[n].token = operators[n].token /\ n \in 1..Len(operators)
      BY <1>6, <2>1
    <3>2. operators[n].token <= i /\ operators[n].token \in Nat
      BY <1>1, <3>1 DEF StackOK, TokensOK
    <3> QED BY <1>1, <1>2, <3>1, <3>2
  <2>2. CASE n > k
    BY <2>2
  <2> QED BY <1>2, <2>1, <2>2
<1>8. \A n \in 1..Len(operators') : n > Watermark => operators'[n].token > Top(contexts).token
  <2> SUFFICES ASSUME NEW n \in 1..Len(operators'), n > Watermark
               PROVE  operators'[n].token > Top(contexts).token
    OBVIOUS
  <2>1. CASE n <= k
    BY <1>6, <2>1 DEF StackOK, TokensOK
  <2>2. CASE n > k
    <3>1. Top(contexts).token < i /\ Top(contexts).token \in Nat
      BY <1>1 DEF StackOK, TokensOK
    <3> QED BY <1>1, <1>2, <2>2, <3>1
  <2> QED BY <1>2, <2>1, <2>2
<1>9. pc' \in {"type", "typed", "init", "parameter", "close"}
      \/ (pc' = "instruction" /\ Len(operators') = Watermark) =>
         \A n \in 1..Len(operators') : operators'[n].token < i'
  <2> SUFFICES ASSUME pc' \in {"type", "typed", "init", "parameter", "close"}
                      \/ (pc' = "instruction" /\ Len(operators') = Watermark),
                      NEW n \in 1..Len(operators')
               PROVE  operators'[n].token < i'
    OBVIOUS
  <2>1. CASE n <= k
    <3>1. operators'[n].token = operators[n].token /\ n \in 1..k /\ n \in 1..Len(operators)
      BY <1>2, <1>6, <2>1
    <3>2. operators[n].token <= i /\ operators[n].token \in Nat
      BY <1>1, <3>1 DEF StackOK, TokensOK
    <3> QED BY <1>1, <1>2, <3>1, <3>2
  <2>2. CASE n > k
    BY <1>1, <2>2
  <2> QED BY <1>2, <2>1, <2>2
<1> QED BY <1>4, <1>5, <1>7, <1>8, <1>9 DEF TokensOK

Calm == {"type", "typed", "init", "parameter", "close"}

(* Operators only go. *)
LEMMA StackStays ==
    ASSUME BoundsInv, BoundsInv', StackOK, SameFrames, i' >= i,
           Len(operators') <= Len(operators), Watermark <= Len(operators'),
           Agree(operators, operators', Len(operators')),
           i < i' \/ pc \in Calm \/ pc' \notin Calm \cup {"instruction"}
    PROVE  /\ ScopesOK' /\ TokensOK' /\ Watermark' = Watermark
<1> DEFINE k == Len(operators')
<1>1. k \in Nat /\ Len(operators) \in Nat
  BY NextStackTypes, StackTypes DEF OperatorTokens
<1>2. k <= Len(operators) /\ k <= Len(operators') /\ Watermark <= k
  BY <1>1
<1>3. \A n \in 1..Len(operators') : ~(n > k)
  BY <1>1
<1>4. pc \in Calm => \A n \in 1..k : operators[n].token < i
  BY <1>1 DEF Calm, StackOK, TokensOK
<1>5. \/ i < i' \/ \A n \in 1..k : operators[n].token < i
      \/ pc' \notin {"type", "typed", "init", "parameter", "close", "instruction"}
  BY <1>4 DEF Calm
<1>6. Agree(operators, operators', k)
  OBVIOUS
<1> HIDE DEF k
<1> QED BY <1>1, <1>2, <1>3, <1>5, <1>6, StackMoves

(* One operator is pushed. *)
LEMMA StackPushes ==
    ASSUME BoundsInv, BoundsInv', StackOK, SameFrames, i' >= i,
           Len(operators') = Len(operators) + 1,
           Agree(operators, operators', Len(operators)),
           operators'[Len(operators) + 1].token >= i,
           operators'[Len(operators) + 1].token <= i',
           operators'[Len(operators) + 1].token < i' \/ pc' \notin Calm,
           i < i' \/ pc \in Calm \/ pc' \notin Calm \cup {"instruction"}
    PROVE  /\ ScopesOK' /\ TokensOK' /\ Watermark' = Watermark
<1> DEFINE k == Len(operators)
<1>1. k \in Nat /\ k <= Len(operators') /\ Watermark <= k /\ Watermark \in Nat
  BY StackTypes DEF StackOK, ScopesOK
<1>2. \A n \in 1..Len(operators') : n > k => n = k + 1
  BY <1>1
<1>3. pc \in Calm => \A n \in 1..k : operators[n].token < i
  BY DEF Calm, StackOK, TokensOK
<1>4. \/ i < i' \/ \A n \in 1..k : operators[n].token < i
      \/ pc' \notin {"type", "typed", "init", "parameter", "close", "instruction"}
  BY <1>3 DEF Calm
<1>5. pc' \in {"type", "typed", "init", "parameter", "close", "instruction"} =>
         \A n \in 1..Len(operators') : n > k /\ (pc' = "instruction" => n <= Watermark) =>
             operators'[n].token < i'
  <2> SUFFICES ASSUME pc' \in {"type", "typed", "init", "parameter", "close", "instruction"},
                      NEW n \in 1..Len(operators'), n > k, pc' = "instruction" => n <= Watermark
               PROVE  operators'[n].token < i'
    OBVIOUS
  <2>1. n = k + 1 /\ pc' # "instruction"
    BY <1>1, <1>2
  <2> QED BY <2>1 DEF Calm
<1>6. \A n \in 1..Len(operators') : n > k => i <= operators'[n].token /\ operators'[n].token <= i'
  <2> SUFFICES ASSUME NEW n \in 1..Len(operators'), n > k
               PROVE  i <= operators'[n].token /\ operators'[n].token <= i'
    OBVIOUS
  <2>1. n = k + 1
    BY <1>2
  <2>2. operators'[n].token \in Nat /\ i \in Nat
    BY NextStackTypes, StackTypes DEF OperatorTokens
  <2> QED BY <2>1, <2>2
<1>7. Agree(operators, operators', k) /\ k <= Len(operators)
  BY <1>1
<1> HIDE DEF k
<1> QED BY <1>1, <1>4, <1>5, <1>6, <1>7, StackMoves

(* A handler of expressions leaves the operators of instructions alone.      *)
LEMMA StackExpression ==
    ASSUME BoundsInv, BoundsInv', StackOK, pc = "expression",
           pc' \in {"expression", "rejected", "aborted"},
           i' >= i, UNCHANGED <<contexts, operators, decl>>
    PROVE  StackOK'
<1>1. SameFrames
  BY FramesSame
<1>2. Len(operators') <= Len(operators) /\ Watermark <= Len(operators')
      /\ Agree(operators, operators', Len(operators'))
  BY StackTypes DEF StackOK, ScopesOK, Agree
<1>3. ScopesOK' /\ TokensOK' /\ Watermark' = Watermark
  BY <1>1, <1>2, StackStays DEF Calm
<1>4. OwnedOK'
  BY <1>3 DEF StackOK, OwnedOK
<1> QED BY <1>3, <1>4 DEF StackOK

LEMMA StackBuffer ==
    ASSUME BoundsInv, BoundsInv', StackOK,
           \/ PushCallee \/ Operand \/ PopForOperator \/ PushOperator \/ OpenParenthesis
           \/ SeparateArguments \/ CloseParenthesis \/ PopToParenthesis \/ RunBelowBuffer
           \/ PopRemaining
    PROVE  StackOK'
<1>1. i \in Nat
  BY StackTypes
<1>2. /\ pc = "expression" /\ UNCHANGED <<contexts, operators, decl>>
      /\ i' \in {i, i + 1} /\ pc' \in {"expression", "rejected", "aborted"}
  <2>1. CASE PushCallee \/ PushOperator \/ OpenParenthesis \/ SeparateArguments
    BY <2>1 DEF PushCallee, PushOperator, OpenParenthesis, SeparateArguments, PushBuffer, Reading
  <2>2. CASE Operand \/ CloseParenthesis \/ RunBelowBuffer
    BY <2>2 DEF Operand, CloseParenthesis, RunBelowBuffer, Reading, Write
  <2>3. CASE PopForOperator \/ PopToParenthesis \/ PopRemaining
    BY <2>3 DEF PopForOperator, PopToParenthesis, PopRemaining, PopBuffer, ExpressionEnds,
                Reading, Write
  <2> QED BY <2>1, <2>2, <2>3
<1>3. i' >= i
  BY <1>1, <1>2
<1> QED BY <1>2, <1>3, StackExpression

LEMMA StackReturns ==
    ASSUME BoundsInv, BoundsInv', StackOK, Reject \/ ReadBehindTokens \/ EndOfSource
    PROVE  StackOK'
<1>1. /\ pc' \in {"rejected", "undefined", "accepted"}
      /\ UNCHANGED <<input, i, contexts, operators, decl>>
      /\ pc' = "accepted" => /\ pc = "instruction" /\ i > Len(tokens)
                             /\ Top(contexts).type = "SCOPE_0"
  BY DEF Reject, ReadBehindTokens, EndOfSource
<1>2. SameFrames
  BY <1>1, FramesSame
<1>3. Len(operators') <= Len(operators) /\ Watermark <= Len(operators')
      /\ Agree(operators, operators', Len(operators')) /\ i' >= i
  BY <1>1, StackTypes DEF StackOK, ScopesOK, Agree
<1>4. ScopesOK' /\ TokensOK' /\ Watermark' = Watermark
  BY <1>1, <1>2, <1>3, StackStays DEF Calm
<1>5. pc' = "accepted" => operators' = <<>>
  <2> SUFFICES ASSUME pc' = "accepted" PROVE operators = <<>>
    BY <1>1
  <2>1. At(i) # "SCOPE"
    <3>1. DOMAIN tokens = 1..Len(tokens)
      BY DEF BoundsInv, InputOK
    <3>2. i \notin DOMAIN tokens
      BY <1>1, <3>1, Position
    <3> QED BY <3>2 DEF At
  <2>2. Len(operators) = Watermark
    BY <1>1, <2>1 DEF StackOK, OwnedOK, Initializing
  <2>3. Len(contexts) = 1
    <3>1. Len(contexts) \in 1..Len(contexts) /\ Top(contexts) = contexts[Len(contexts)]
      BY StackTypes
    <3> QED BY <1>1, <3>1 DEF BoundsInv, ContextsOK
  <2>4. Watermark = 0
    BY <2>3 DEF StackOK, ScopesOK, Watermark, Top
  <2> QED BY <2>2, <2>4 DEF BoundsInv, OperatorsOK, OpsOK
<1>6. OwnedOK'
  BY <1>1, <1>5 DEF OwnedOK
<1> QED BY <1>4, <1>6 DEF StackOK

LEMMA StackGroupQualifiers ==
    ASSUME BoundsInv, BoundsInv', StackOK, GroupQualifiers, ~dropped'
    PROVE  StackOK'
<1>1. PICK last \in i..Len(tokens) :
         /\ operators' = Rest(Counted(Pushed(operators, Node("GRP_Q", 0, i)), last - i + 1))
         /\ i' = last + 1
         /\ pc' \in {"instruction", "aborted"}
  BY DEF GroupQualifiers, Write
<1>2. /\ pc = "instruction" /\ At(i) = "Q" /\ contexts' = Child(contexts, 1)
      /\ UNCHANGED <<input, decl>> /\ ~Full(operators) /\ i < i' /\ i' >= i
  <2>1. i \in i..last /\ i < i' /\ i' >= i
    BY <1>1, StackTypes
  <2>2. At(i) = "Q"
    <3>1. i <= Len(tokens)
      BY DEF GroupQualifiers, Reading
    <3> QED BY <3>1, StackTypes, Position DEF GroupQualifiers
  <2> QED BY <2>1, <2>2 DEF GroupQualifiers, Reading
<1>3. SameFrames
  BY <1>2, FramesSame
<1>4. Len(operators') = Len(operators) /\ Agree(operators, operators', Len(operators'))
      /\ Len(operators) \in Nat
  <2> DEFINE c == Counted(Pushed(operators, Node("GRP_Q", 0, i)), last - i + 1)
  <2>1. OpsOK(c) /\ Len(c) = Len(operators) + 1 /\ Agree(operators, c, Len(operators))
        /\ Len(operators) \in Nat
    <3>1. last - i + 1 \in Int /\ "GRP_Q" \in OperatorTypes /\ i \in Nat
      BY StackTypes DEF OperatorTypes
    <3> QED BY <1>2, <3>1, Kept1, OpsPushedCounted
  <2>2. operators' = Rest(c)
    BY <1>1
  <2> HIDE DEF c
  <2>3. Len(c) >= 1
    BY <2>1
  <2>4. Len(operators') = Len(c) - 1 /\ Agree(c, operators', Len(c) - 1)
    BY <2>1, <2>2, <2>3, OpsRested
  <2>5. Len(operators') = Len(operators) /\ Len(c) - 1 = Len(operators)
    BY <2>1, <2>4
  <2> QED BY <2>1, <2>4, <2>5 DEF Agree
<1>5. Watermark <= Len(operators') /\ Len(operators') <= Len(operators) /\ i' >= i
  BY <1>2, <1>4, StackTypes DEF StackOK, ScopesOK
<1>6. ScopesOK' /\ TokensOK' /\ Watermark' = Watermark
  BY <1>2, <1>3, <1>4, <1>5, StackStays
<1>7. OwnedOK'
  BY <1>1, <1>2, <1>4, <1>6 DEF StackOK, OwnedOK, Initializing
<1> QED BY <1>6, <1>7 DEF StackOK

LEMMA StackStartExpression ==
    ASSUME BoundsInv, BoundsInv', StackOK, StartExpression, ~dropped'
    PROVE  StackOK'
<1>1. /\ pc = "instruction" /\ At(i) # "SCOPE" /\ ~Full(operators)
      /\ operators' = Pushed(operators, Node("EXP", 0, i))
      /\ decl' = "NO" /\ pc' = "expression" /\ UNCHANGED <<input, i, contexts>>
  BY DEF StartExpression, Reading, StartsExpression
<1>2. /\ Len(operators') = Len(operators) + 1 /\ Agree(operators, operators', Len(operators))
      /\ operators'[Len(operators) + 1].type = "EXP" /\ operators'[Len(operators) + 1].token = i
  <2>1. "EXP" \in OperatorTypes /\ i \in Nat
    BY StackTypes DEF OperatorTypes
  <2> QED BY <1>1, <2>1, Kept1, OpsPushed
<1>3. Len(operators) = Watermark /\ i' >= i /\ operators'[Len(operators) + 1].token >= i
      /\ operators'[Len(operators) + 1].token <= i'
  BY <1>1, <1>2, StackTypes DEF StackOK, OwnedOK, Initializing
<1>4. SameFrames
  BY <1>1, FramesSame
<1>5. ScopesOK' /\ TokensOK' /\ Watermark' = Watermark
  BY <1>1, <1>2, <1>3, <1>4, StackPushes DEF Calm
<1>6. OwnedOK'
  BY <1>1, <1>2, <1>3, <1>5 DEF OwnedOK
<1> QED BY <1>5, <1>6 DEF StackOK

LEMMA StackImportModules ==
    ASSUME BoundsInv, BoundsInv', StackOK, ImportModules, ~dropped'
    PROVE  StackOK'
<1>1. PICK last \in i..Len(tokens) :
         /\ operators' = Counted(Pushed(operators, Node("GRP_MOD", 0, i)), last - i)
         /\ i' = last + 1
         /\ pc' \in {"terminator", "aborted"}
  BY DEF ImportModules, Write
<1>2. /\ pc = "instruction" /\ At(i) = "MOD" /\ ~Full(operators)
      /\ UNCHANGED <<input, contexts, decl>>
  BY DEF ImportModules, Reading
<1>3. /\ Len(operators') = Len(operators) + 1 /\ Agree(operators, operators', Len(operators))
      /\ operators'[Len(operators) + 1].type = "GRP_MOD"
      /\ operators'[Len(operators) + 1].token = i
  <2>1. "GRP_MOD" \in OperatorTypes /\ i \in Nat /\ last - i \in Int
    BY StackTypes DEF OperatorTypes
  <2> QED BY <1>1, <1>2, <2>1, Kept1, OpsPushedCounted
<1>4. Len(operators) = Watermark /\ i' >= i /\ i < i'
      /\ operators'[Len(operators) + 1].token >= i /\ operators'[Len(operators) + 1].token <= i'
      /\ operators'[Len(operators) + 1].token < i'
  <2>1. Len(operators) = Watermark
    BY <1>2 DEF StackOK, OwnedOK, Initializing
  <2>2. i' >= i /\ i < i' /\ i >= i /\ i <= i'
    BY <1>1, StackTypes
  <2> QED BY <1>3, <2>1, <2>2
<1>5. SameFrames
  BY <1>2, FramesSame
<1>6. ScopesOK' /\ TokensOK' /\ Watermark' = Watermark
  BY <1>1, <1>3, <1>4, <1>5, StackPushes DEF Calm
<1>7. OwnedOK'
  BY <1>1, <1>2, <1>3, <1>4, <1>6 DEF OwnedOK
<1> QED BY <1>6, <1>7 DEF StackOK

LEMMA StackDeclare ==
    ASSUME BoundsInv, BoundsInv', StackOK, Declare, ~dropped'
    PROVE  StackOK'
<1>1. /\ pc = "instruction" /\ At(i) = "COM" /\ ~Full(operators)
      /\ decl' = Declared
      /\ operators' = Counted(Pushed(operators, Node(Declared, 0, i)), 1)
      /\ pc' \in {"type", "aborted"}
      /\ i' = i + 2
      /\ UNCHANGED <<input, contexts>>
  BY DEF Declare, Reading, Write
<1>2. /\ Len(operators') = Len(operators) + 1 /\ Agree(operators, operators', Len(operators))
      /\ operators'[Len(operators) + 1].type = decl'
      /\ operators'[Len(operators) + 1].token = i
  <2>1. Declared \in OperatorTypes /\ i \in Nat /\ 1 \in Int
    BY StackTypes, DeclaredType DEF OperatorTypes
  <2> QED BY <1>1, <2>1, Kept1, OpsPushedCounted
<1>3. Len(operators) = Watermark /\ i' >= i /\ i < i'
      /\ operators'[Len(operators) + 1].token >= i /\ operators'[Len(operators) + 1].token <= i'
      /\ operators'[Len(operators) + 1].token < i'
  <2>1. Len(operators) = Watermark
    BY <1>1 DEF StackOK, OwnedOK, Initializing
  <2>2. i' >= i /\ i < i' /\ i >= i /\ i <= i'
    BY <1>1, StackTypes
  <2> QED BY <1>2, <2>1, <2>2
<1>4. SameFrames
  BY <1>1, FramesSame
<1>5. ScopesOK' /\ TokensOK' /\ Watermark' = Watermark
  BY <1>2, <1>3, <1>4, StackPushes
<1>6. OwnedOK'
  BY <1>1, <1>2, <1>3, <1>5 DEF OwnedOK
<1> QED BY <1>5, <1>6 DEF StackOK

LEMMA StackTypeVar ==
    ASSUME BoundsInv, BoundsInv', StackOK, TypeVar \/ Parameter
    PROVE  StackOK'
<1>1. /\ \/ pc = "type" /\ pc' \in {"typed", "aborted"}
         \/ pc = "parameter" /\ pc' \in {"parameter", "close", "aborted"}
      /\ \E n \in Int : operators' = Counted(operators, n)
      /\ i' \in {i + 1, i + 2, i + 3}
      /\ UNCHANGED <<input, contexts, decl>>
  BY DEF TypeVar, Parameter, Reading, Write
<1>2. Len(operators') = Len(operators) /\ Agree(operators, operators', Len(operators'))
      /\ Len(operators) \in Nat
  BY <1>1, Kept1, OpsCounted
<1>3. SameFrames /\ i' >= i /\ i < i'
  BY <1>1, FramesSame, StackTypes
<1>4. Len(operators') <= Len(operators) /\ Watermark <= Len(operators') /\ Watermark \in Nat
  BY <1>2, StackTypes DEF StackOK, ScopesOK
<1>5. ScopesOK' /\ TokensOK' /\ Watermark' = Watermark
  BY <1>2, <1>3, <1>4, StackStays
<1>6. OwnedOK'
  BY <1>1, <1>2, <1>4, <1>5 DEF StackOK, OwnedOK, Agree
<1> QED BY <1>5, <1>6 DEF StackOK

LEMMA StackEndType ==
    ASSUME BoundsInv, BoundsInv', StackOK, EndType
    PROVE  StackOK'
<1>1. /\ pc \in {"type", "typed"} /\ pc' = "init" /\ UNCHANGED <<i, contexts, operators, decl>>
  BY DEF EndType
<1>2. SameFrames /\ i' >= i
  BY <1>1, FramesSame, StackTypes
<1>3. Len(operators') <= Len(operators) /\ Watermark <= Len(operators')
      /\ Agree(operators, operators', Len(operators'))
  BY <1>1, StackTypes DEF StackOK, ScopesOK, Agree
<1>4. ScopesOK' /\ TokensOK' /\ Watermark' = Watermark
  BY <1>1, <1>2, <1>3, StackStays DEF Calm
<1>5. OwnedOK'
  BY <1>1, <1>4 DEF StackOK, OwnedOK
<1> QED BY <1>4, <1>5 DEF StackOK

LEMMA StackOpenParameters ==
    ASSUME BoundsInv, BoundsInv', StackOK, OpenParameters, ~dropped'
    PROVE  StackOK'
<1> DEFINE n == IF pc = "type" THEN 1 ELSE 0
           base == Counted(operators, n)
           group == Pushed(base, Node("GRP_R_PARES", 0, i))
<1>1. /\ pc \in {"type", "typed"} /\ ~Full(operators)
      /\ operators' = Counted(group, 1) \/ operators' = group
      /\ pc' \in {"parameter", "close", "aborted"}
      /\ i' = i + 1
      /\ UNCHANGED <<input, contexts, decl>>
  BY DEF OpenParameters, Write
<1>2. /\ Len(operators') = Len(operators) + 1 /\ Agree(operators, operators', Len(operators))
      /\ operators'[Len(operators) + 1].type = "GRP_R_PARES"
      /\ operators'[Len(operators) + 1].token = i
      /\ Len(operators) \in Nat
  <2>1. OpsOK(base) /\ Len(base) = Len(operators) /\ Agree(operators, base, Len(operators))
        /\ Len(operators) \in Nat
    BY Kept1, OpsCounted
  <2>2. "GRP_R_PARES" \in OperatorTypes /\ i \in Nat /\ 1 \in Int /\ ~Full(base)
    BY <1>1, <2>1, StackTypes DEF OperatorTypes, Full
  <2>3. /\ OpsOK(group) /\ Len(group) = Len(base) + 1 /\ Agree(base, group, Len(base))
        /\ group[Len(base) + 1].type = "GRP_R_PARES" /\ group[Len(base) + 1].token = i
    <3> HIDE DEF base
    <3> QED BY <2>1, <2>2, OpsPushed
  <2>4. /\ Len(Counted(group, 1)) = Len(group) /\ Agree(group, Counted(group, 1), Len(group))
    <3> HIDE DEF group
    <3> QED BY <2>2, <2>3, OpsCounted
  <2> HIDE DEF group, base
  <2>5. Len(operators') = Len(group) /\ Agree(group, operators', Len(group))
    BY <1>1, <2>4 DEF Agree
  <2> QED BY <2>1, <2>3, <2>5 DEF Agree
<1>3. i' >= i /\ i < i' /\ operators'[Len(operators) + 1].token >= i
      /\ operators'[Len(operators) + 1].token <= i' /\ operators'[Len(operators) + 1].token < i'
  BY <1>1, <1>2, StackTypes
<1>4. SameFrames
  BY <1>1, FramesSame
<1>5. ScopesOK' /\ TokensOK' /\ Watermark' = Watermark
  BY <1>2, <1>3, <1>4, StackPushes
<1>6. Len(operators) = Watermark + 1 /\ operators[Watermark + 1].type = decl /\ Watermark \in Nat
  BY <1>1, StackTypes DEF StackOK, OwnedOK
<1>7. OwnedOK'
  BY <1>1, <1>2, <1>5, <1>6 DEF OwnedOK, Agree
<1> QED BY <1>5, <1>7 DEF StackOK

LEMMA StackCloseParameters ==
    ASSUME BoundsInv, BoundsInv', StackOK, CloseParameters
    PROVE  StackOK'
<1>1. /\ pc = "close" /\ operators' = Counted(Counted(Rest(operators), 1 - 2), 1)
      /\ pc' \in {"init", "aborted"} /\ i' = i + 1
      /\ UNCHANGED <<input, contexts, decl>>
  BY DEF CloseParameters, Reading, Write
<1>2. Len(operators) = Watermark + 2 /\ operators[Watermark + 1].type = decl /\ Watermark \in Nat
  BY <1>1, StackTypes DEF StackOK, OwnedOK
<1>3. Len(operators') = Watermark + 1 /\ Agree(operators, operators', Watermark + 1)
  <2> DEFINE r == Rest(operators)
             c == Counted(r, 1 - 2)
  <2>1. OpsOK(r) /\ Len(r) = Watermark + 1 /\ Agree(operators, r, Watermark + 1)
    <3>1. Len(operators) >= 1 /\ Len(operators) - 1 = Watermark + 1
      BY <1>2
    <3> QED BY <3>1, Kept1, OpsRested
  <2>2. OpsOK(c) /\ Len(c) = Len(r) /\ Agree(r, c, Len(r))
    <3> HIDE DEF r
    <3>1. 1 - 2 \in Int
      OBVIOUS
    <3> QED BY <2>1, <3>1, OpsCounted
  <2>3. Len(Counted(c, 1)) = Len(c) /\ Agree(c, Counted(c, 1), Len(c))
    <3> HIDE DEF c
    <3> QED BY <2>2, OpsCounted
  <2>4. operators' = Counted(c, 1)
    BY <1>1
  <2> HIDE DEF r, c
  <2> QED BY <2>1, <2>2, <2>3, <2>4 DEF Agree
<1>4. SameFrames /\ i' >= i /\ i < i'
  BY <1>1, FramesSame, StackTypes
<1>5. Len(operators') <= Len(operators) /\ Watermark <= Len(operators')
      /\ Agree(operators, operators', Len(operators'))
  BY <1>2, <1>3
<1>6. ScopesOK' /\ TokensOK' /\ Watermark' = Watermark
  BY <1>4, <1>5, StackStays
<1>7. OwnedOK'
  BY <1>1, <1>2, <1>3, <1>6 DEF OwnedOK, Agree
<1> QED BY <1>6, <1>7 DEF StackOK

LEMMA StackInitializeVariable ==
    ASSUME BoundsInv, BoundsInv', StackOK, InitializeVariable, ~dropped'
    PROVE  StackOK'
<1> DEFINE init == Pushed(operators, Node("INIT_VAR", 0, Initialized))
           k == Len(operators)
<1>1. /\ pc = "init" /\ decl = "DECL_VAR" /\ pc' = "expression" /\ ~Full(init)
      /\ operators' = Pushed(init, Node("EXP", 0, Initialized))
      /\ i' = Initialized /\ i' \in {i, i + 1}
      /\ UNCHANGED <<input, contexts, decl>>
  BY DEF InitializeVariable, Reading, Initialized
<1>2. /\ k = Watermark + 1 /\ operators[Watermark + 1].type = "DECL_VAR" /\ Watermark \in Nat
      /\ i \in Nat /\ k \in Nat
  BY <1>1, StackTypes DEF StackOK, OwnedOK
<1>3. /\ Len(operators') = k + 2 /\ Agree(operators, operators', k)
      /\ operators'[k + 1].type = "INIT_VAR" /\ operators'[k + 1].token = i'
      /\ operators'[k + 2].type = "EXP" /\ operators'[k + 2].token = i'
  <2>1. "INIT_VAR" \in OperatorTypes /\ "EXP" \in OperatorTypes /\ Initialized \in Nat
    BY InitializedPlace DEF OperatorTypes
  <2>2. ~Full(operators)
    <3>1. Full(operators) => init = operators
      <4>1. Len(operators) \in Nat /\ StackSize \in Nat
        BY Position
      <4> QED BY <4>1 DEF Full, Pushed
    <3> QED BY <1>1, <3>1
  <2>3. /\ OpsOK(init) /\ Len(init) = k + 1 /\ Agree(operators, init, k)
        /\ init[k + 1].type = "INIT_VAR" /\ init[k + 1].token = Initialized
    BY <2>1, <2>2, Kept1, OpsPushed
  <2> HIDE DEF init
  <2>4. /\ Len(operators') = Len(init) + 1 /\ Agree(init, operators', Len(init))
        /\ operators'[Len(init) + 1].type = "EXP" /\ operators'[Len(init) + 1].token = Initialized
    BY <1>1, <2>1, <2>3, OpsPushed
  <2> HIDE DEF k
  <2>5. Len(init) = k + 1 /\ Len(init) + 1 = k + 2
    BY <1>2, <2>3
  <2> QED BY <1>1, <1>2, <2>3, <2>4, <2>5 DEF Agree
<1>4. SameFrames /\ i' >= i
  BY <1>1, <1>2, FramesSame
<1>5. \A n \in 1..Len(operators') : n > k => i <= operators'[n].token /\ operators'[n].token <= i'
  <2> SUFFICES ASSUME NEW n \in 1..Len(operators'), n > k
               PROVE  i <= operators'[n].token /\ operators'[n].token <= i'
    OBVIOUS
  <2>1. n = k + 1 \/ n = k + 2
    BY <1>2, <1>3
  <2>2. operators'[n].token = i'
    BY <1>3, <2>1
  <2> QED BY <1>1, <1>2, <2>2
<1>6. k <= Len(operators) /\ k <= Len(operators') /\ Watermark <= k
  BY <1>2, <1>3
<1>7. ScopesOK' /\ TokensOK' /\ Watermark' = Watermark
  <2> HIDE DEF k
  <2> QED BY <1>1, <1>2, <1>3, <1>4, <1>5, <1>6, StackMoves
<1>8. OwnedOK'
  BY <1>1, <1>2, <1>3, <1>7 DEF OwnedOK, Agree
<1> QED BY <1>7, <1>8 DEF StackOK

LEMMA StackInitializeNothing ==
    ASSUME BoundsInv, BoundsInv', StackOK, InitializeNothing
    PROVE  StackOK'
<1>1. /\ pc = "init" /\ decl = "DECL_VAR" /\ pc' = AfterDeclaration(operators)
      /\ UNCHANGED <<i, contexts, operators, decl>>
  BY DEF InitializeNothing, Reading
<1>2. Len(operators) = Watermark + 1 /\ operators[Watermark + 1].type = decl
  BY <1>1 DEF StackOK, OwnedOK
<1>3. pc' = "terminator"
  BY <1>1, <1>2 DEF AfterDeclaration, Top
<1>4. SameFrames /\ i' >= i
  BY <1>1, FramesSame, StackTypes
<1>5. Len(operators') <= Len(operators) /\ Watermark <= Len(operators')
      /\ Agree(operators, operators', Len(operators'))
  BY <1>1, StackTypes DEF StackOK, ScopesOK, Agree
<1>6. ScopesOK' /\ TokensOK' /\ Watermark' = Watermark
  BY <1>3, <1>4, <1>5, StackStays DEF Calm
<1>7. OwnedOK'
  BY <1>1, <1>2, <1>3, <1>6 DEF OwnedOK, Decls
<1> QED BY <1>6, <1>7 DEF StackOK

LEMMA StackInitializeScope ==
    ASSUME BoundsInv, BoundsInv', StackOK, InitializeScope, ~dropped'
    PROVE  StackOK'
<1> DEFINE init == IF decl = "DECL_LAB" THEN "INIT_LAB" ELSE "INIT_PAL"
           ops == Pushed(operators, Node(init, 0, Initialized))
<1>1. /\ pc = "init" /\ decl \in {"DECL_LAB", "DECL_PAL"}
      /\ i' = Initialized /\ i' \in {i, i + 1} /\ At(i)' = At(Initialized)
      /\ UNCHANGED <<input, contexts, decl>>
  BY DEF InitializeScope, Reading, Initialized, At, input
<1>2. Len(operators) = Watermark + 1 /\ operators[Watermark + 1].type = decl
      /\ Watermark \in Nat /\ i \in Nat /\ Len(operators) \in Nat
  BY <1>1, StackTypes DEF StackOK, OwnedOK
<1>3. SameFrames /\ i' >= i
  BY <1>1, <1>2, FramesSame
<1>4. CASE At(Initialized) = "SCOPE"
  <2>1. operators' = ops /\ ~Full(operators) /\ pc' = AfterDeclaration(ops)
    BY <1>4 DEF InitializeScope
  <2>2. /\ Len(operators') = Len(operators) + 1 /\ Agree(operators, operators', Len(operators))
        /\ operators'[Len(operators) + 1].type = init /\ operators'[Len(operators) + 1].token = i'
    <3>1. init \in OperatorTypes /\ Initialized \in Nat
      BY InitializedPlace DEF OperatorTypes, Inits
    <3> HIDE DEF init
    <3> QED BY <1>1, <2>1, <3>1, Kept1, OpsPushed
  <2>3. pc' = "instruction"
    <3>1. Top(ops).type = init
      BY <1>2, <2>1, <2>2 DEF Top
    <3> QED BY <2>1, <3>1 DEF AfterDeclaration
  <2>4. operators'[Len(operators) + 1].token >= i /\ operators'[Len(operators) + 1].token <= i'
    BY <1>1, <1>2, <2>2
  <2>5. ScopesOK' /\ TokensOK' /\ Watermark' = Watermark
    BY <1>1, <1>3, <2>2, <2>3, <2>4, StackPushes DEF Calm
  <2>6. operators[Watermark + 1].token < i /\ operators[Watermark + 1].token \in Nat
    <3>1. Watermark + 1 \in 1..Len(operators)
      BY <1>2
    <3> QED BY <1>1, <3>1, StackTypes DEF StackOK, TokensOK
  <2>7. /\ operators'[Watermark + 1].type = decl
        /\ operators'[Watermark + 1].token = operators[Watermark + 1].token
        /\ operators'[Watermark + 2].type = init /\ operators'[Watermark + 2].token = i'
    BY <1>2, <2>2 DEF Agree
  <2>8. init \in Inits /\ DeclOf[init] = decl
    BY <1>1 DEF Inits, DeclOf
  <2>9. operators'[Watermark + 1].token < i'
    BY <1>1, <1>2, <2>6, <2>7
  <2>10. Initializing'
    <3> HIDE DEF init
    <3> QED BY <1>1, <1>2, <1>4, <2>2, <2>5, <2>7, <2>8, <2>9 DEF Initializing
  <2>11. OwnedOK'
    BY <2>3, <2>10 DEF OwnedOK
  <2> QED BY <2>5, <2>11 DEF StackOK
<1>5. CASE At(Initialized) # "SCOPE"
  <2>1. UNCHANGED operators /\ pc' = AfterDeclaration(operators)
    BY <1>5 DEF InitializeScope
  <2>2. pc' = "terminator"
    BY <1>1, <1>2, <2>1 DEF AfterDeclaration, Top
  <2>3. Len(operators') <= Len(operators) /\ Watermark <= Len(operators')
        /\ Agree(operators, operators', Len(operators'))
    BY <1>2, <2>1 DEF Agree
  <2>4. ScopesOK' /\ TokensOK' /\ Watermark' = Watermark
    BY <1>3, <2>2, <2>3, StackStays DEF Calm
  <2>5. OwnedOK'
    BY <1>1, <1>2, <2>1, <2>2, <2>4 DEF OwnedOK, Decls
  <2> QED BY <2>4, <2>5 DEF StackOK
<1> QED BY <1>4, <1>5

LEMMA StackEndExpression ==
    ASSUME BoundsInv, BoundsInv', StackOK, EndExpression
    PROVE  StackOK'
<1> DEFINE ops == [operators EXCEPT ![Len(operators)].arity = 1]
           r == Rest(ops)
           init == Counted(r, 1)
           r2 == Rest(init)
<1>1. /\ pc = "expression"
      /\ decl = "NO" => operators' = ops /\ pc' = "terminator"
      /\ decl # "NO" => operators' = Counted(r2, 1) /\ pc' \in {AfterDeclaration(r2), "aborted"}
      /\ UNCHANGED <<input, i, contexts, decl>>
  BY DEF EndExpression, ExpressionEnds, Reading, Write
<1>2. /\ Watermark \in Nat /\ Len(operators) >= 1 /\ operators # <<>>
      /\ decl = "NO" => /\ Len(operators) = Watermark + 1
                        /\ operators[Watermark + 1].type = "EXP"
      /\ decl # "NO" => /\ Len(operators) = Watermark + 3
                        /\ operators[Watermark + 1].type = "DECL_VAR"
  BY <1>1, StackTypes DEF StackOK, OwnedOK
<1>3. OpsOK(ops) /\ Len(ops) = Len(operators) /\ Agree(operators, ops, Len(operators))
  <2>1. /\ OpsOK(ops) /\ Len(ops) = Len(operators)
        /\ \A x \in 1..Len(operators) :
              /\ ops[x].type = operators[x].type /\ ops[x].token = operators[x].token
              /\ x # Len(operators) => ops[x] = operators[x]
    <3>1. OpsOK(operators) /\ operators # <<>> /\ 1 \in Int
      BY <1>2, Kept1
    <3> QED BY <3>1, SetLastArity
  <2> HIDE DEF ops
  <2> QED BY <2>1 DEF Agree
<1>4. decl # "NO" => /\ OpsOK(r2) /\ Len(r2) = Watermark + 1 /\ Agree(operators, r2, Watermark + 1)
  <2> SUFFICES ASSUME decl # "NO"
               PROVE  /\ OpsOK(r2) /\ Len(r2) = Watermark + 1 /\ Agree(operators, r2, Watermark + 1)
    OBVIOUS
  <2>1. Len(ops) = Watermark + 3 /\ Len(ops) >= 1
    BY <1>2, <1>3
  <2>2. OpsOK(r) /\ Len(r) = Len(ops) - 1 /\ Agree(ops, r, Len(ops) - 1)
    <3> HIDE DEF ops
    <3> QED BY <1>3, <2>1, OpsRested
  <2>3. OpsOK(init) /\ Len(init) = Len(r) /\ Agree(r, init, Len(r))
    <3> HIDE DEF r
    <3> QED BY <2>2, OpsCounted
  <2>4. OpsOK(r2) /\ Len(r2) = Len(init) - 1 /\ Agree(init, r2, Len(init) - 1)
    <3> HIDE DEF init, r
    <3>1. Len(init) >= 1
      BY <1>2, <2>1, <2>2, <2>3
    <3> QED BY <2>3, <3>1, OpsRested
  <2> HIDE DEF ops, r, init, r2
  <2>5. Len(r2) = Watermark + 1 /\ Len(ops) - 1 = Watermark + 2 /\ Len(r) = Watermark + 2
        /\ Len(init) - 1 = Watermark + 1 /\ Len(operators) = Watermark + 3
    BY <1>2, <1>3, <2>1, <2>2, <2>3, <2>4
  <2> QED BY <1>2, <1>3, <2>2, <2>3, <2>4, <2>5 DEF Agree
<1>5. Len(operators') = Watermark + 1 /\ Agree(operators, operators', Watermark + 1)
  <2>1. CASE decl = "NO"
    <3> HIDE DEF ops
    <3> QED BY <1>1, <1>2, <1>3, <2>1
  <2>2. CASE decl # "NO"
    <3>1. Len(Counted(r2, 1)) = Len(r2) /\ Agree(r2, Counted(r2, 1), Len(r2))
      <4> HIDE DEF r2
      <4> QED BY <1>4, <2>2, OpsCounted
    <3> HIDE DEF r2
    <3> QED BY <1>1, <1>4, <2>2, <3>1 DEF Agree
  <2> QED BY <2>1, <2>2
<1>6. pc' \in {"terminator", "aborted"}
  <2>1. CASE decl = "NO"
    BY <1>1, <2>1
  <2>2. CASE decl # "NO"
    <3>1. Top(r2).type = "DECL_VAR"
      <4> HIDE DEF r2
      <4>1. Watermark + 1 \in 1..(Watermark + 1)
        BY <1>2
      <4> QED BY <1>2, <1>4, <2>2, <4>1 DEF Top, Agree
    <3> HIDE DEF r2
    <3> QED BY <1>1, <2>2, <3>1 DEF AfterDeclaration
  <2> QED BY <2>1, <2>2
<1>7. SameFrames /\ i' >= i
  BY <1>1, FramesSame, StackTypes
<1>8. Len(operators') <= Len(operators) /\ Watermark <= Len(operators')
      /\ Agree(operators, operators', Len(operators'))
  BY <1>2, <1>5
<1>9. ScopesOK' /\ TokensOK' /\ Watermark' = Watermark
  BY <1>6, <1>7, <1>8, StackStays DEF Calm
<1>10. operators'[Watermark + 1].type \in Decls \cup {"EXP", "GRP_MOD"}
  <2>1. Watermark + 1 \in 1..(Watermark + 1)
    BY <1>2
  <2> QED BY <1>2, <1>5, <2>1 DEF Agree, Decls
<1>11. OwnedOK'
  BY <1>5, <1>6, <1>9, <1>10 DEF OwnedOK
<1> QED BY <1>9, <1>11 DEF StackOK

LEMMA StackEndInstruction ==
    ASSUME BoundsInv, BoundsInv', StackOK, EndInstruction
    PROVE  StackOK'
<1>1. /\ At(i) = "SEMI" /\ pc' \in {"instruction", "aborted"} /\ operators' = Kept
      /\ contexts' = Child(contexts, Len(Flushed)) /\ i' = AfterSemicolons
      /\ UNCHANGED <<input, decl>>
  BY DEF EndInstruction, Write
<1>2. /\ operators \in Seq(Operator) /\ contexts \in Seq(Frame) /\ contexts # <<>>
      /\ tokens \in Seq(Token) /\ i \in 1..Len(tokens)
  BY <1>1, Position DEF BoundsInv, InputOK, OperatorsOK, OpsOK, ContextsOK
<1>3. /\ Watermark \in Nat /\ Len(operators) \in Nat /\ Watermark <= Len(operators)
  BY StackTypes DEF StackOK, ScopesOK
<1>4. /\ Len(Flushed) = Len(operators) - Watermark /\ Len(Flushed) \in Nat
      /\ Len(Kept) = Watermark
      /\ \A x \in 1..Watermark : Kept[x] = operators[x]
  <2> DEFINE over == IF Watermark < Len(operators) THEN Len(operators) - Watermark ELSE 0
  <2>1. /\ Len(Flushed) = over /\ Len(Kept) = Len(operators) - over
        /\ \A x \in 1..Len(Kept) : Kept[x] = operators[x]
    BY <1>2, FlushedFacts DEF Watermark
  <2>2. over = Len(operators) - Watermark
    BY <1>3
  <2> HIDE DEF over
  <2> QED BY <1>3, <2>1, <2>2
<1>5. Len(operators') = Watermark /\ Agree(operators, operators', Watermark)
  BY <1>1, <1>4 DEF Agree
<1>6. SameFrames /\ i' >= i /\ i < i'
  <2>1. SameFrames
    BY <1>1, <1>4, FramesSame
  <2>2. i' >= i /\ i < i'
    BY <1>1, <1>2, SemicolonsEnd
  <2> QED BY <2>1, <2>2
<1>7. Len(operators') <= Len(operators) /\ Watermark <= Len(operators')
      /\ Agree(operators, operators', Len(operators'))
  BY <1>3, <1>5
<1>8. ScopesOK' /\ TokensOK' /\ Watermark' = Watermark
  BY <1>6, <1>7, StackStays
<1>9. OwnedOK'
  BY <1>1, <1>5, <1>8 DEF OwnedOK
<1> QED BY <1>8, <1>9 DEF StackOK

LEMMA StackOpenScope ==
    ASSUME BoundsInv, BoundsInv', StackOK, OpenScope, ~dropped'
    PROVE  StackOK'
<1> DEFINE l == Len(contexts)
           w == Len(operators)
           new == Context("SCOPE", w, i)
<1>1. /\ pc = "instruction" /\ ~Full(contexts) /\ contexts' = Pushed(contexts, new)
      /\ i' = i + 1 /\ UNCHANGED <<input, pc, operators, decl>>
  BY DEF OpenScope, Reading
<1>2. /\ Watermark \in Nat /\ Top(contexts) = contexts[l] /\ Top(contexts).token \in Nat
      /\ \A n \in 1..l : contexts[n].watermark \in Nat /\ contexts[n].token \in Nat
      /\ \A n \in 1..w : operators[n].token \in Nat
      /\ w \in Nat /\ l \in Nat /\ l >= 1 /\ i \in Nat
  BY StackTypes
<1>3. /\ Len(contexts') = l + 1 /\ contexts'[l + 1] = new
      /\ \A n \in 1..l : contexts'[n] = contexts[n]
  <2>1. new \in Frame
    BY <1>2 DEF Context, Frame
  <2>2. contexts \in Seq(Frame) /\ Len(contexts) <= StackSize
    BY DEF BoundsInv, ContextsOK
  <2> DEFINE r == Pushed(contexts, new)
  <2>3. /\ Len(r) = l + 1 /\ r[l + 1] = new
        /\ \A n \in 1..l : r[n] = contexts[n]
    <3> HIDE DEF new
    <3>1. ~Full(contexts)
      BY <1>1
    <3> QED BY <2>1, <2>2, <3>1, PushedFacts
  <2>4. contexts' = r
    BY <1>1
  <2> HIDE DEF r, l, new
  <2> QED BY <2>3, <2>4
<1>4. new.watermark = w /\ new.token = i
  BY DEF Context
<1>5. Watermark' = w /\ Top(contexts)'.token = i
  BY <1>3, <1>4 DEF Watermark, Top
<1>6. /\ \A n \in 1..l : contexts[n].token < i
      /\ \A n \in 1..w : operators[n].token <= i
      /\ \A n \in 1..w : n > Watermark => operators[n].token > Top(contexts).token
      /\ w = Watermark => \A n \in 1..w : operators[n].token < i
      /\ Watermark <= w
      /\ w = Watermark \/ Initializing
  BY <1>1 DEF StackOK, TokensOK, ScopesOK, OwnedOK
<1>7. TokensOK'
  <2>1. ASSUME NEW n \in 1..Len(contexts') PROVE contexts'[n].token < i'
    <3>1. CASE n \in 1..l
      BY <1>1, <1>2, <1>3, <1>6, <3>1
    <3>2. CASE n = l + 1
      BY <1>1, <1>2, <1>3, <1>4, <3>2
    <3> QED BY <1>2, <1>3, <3>1, <3>2
  <2>2. \A n \in 1..Len(operators') : operators'[n].token < i' /\ operators'[n].token <= i'
    <3> SUFFICES ASSUME NEW n \in 1..w PROVE operators[n].token < i + 1 /\ operators[n].token <= i + 1
      BY <1>1
    <3>1. operators[n].token \in Nat /\ operators[n].token <= i /\ i \in Nat
      BY <1>2, <1>6
    <3> QED BY <3>1
  <2>3. \A n \in 1..Len(operators') : ~(n > Watermark')
    BY <1>1, <1>2, <1>5
  <2> HIDE DEF l, w, new
  <2> QED BY <2>1, <2>2, <2>3 DEF TokensOK
<1>8. Linked(contexts[l], new)
  <2>1. contexts[l].token < i /\ contexts[l].watermark = Watermark
    <3>1. l \in 1..l
      BY <1>2
    <3> QED BY <1>2, <1>6, <3>1 DEF Watermark
  <2>2. CASE Initializing
    <3>1. /\ w = Watermark + 2 /\ operators[w].type \in Inits /\ operators[w].token = i
          /\ operators[w - 1].type = DeclOf[operators[w].type] /\ operators[w - 1].token < i
      <4>1. w = Watermark + 2
        BY <2>2 DEF Initializing
      <4>2. w - 1 = Watermark + 1
        BY <1>2, <4>1
      <4>3. /\ operators[Watermark + 2].type \in Inits /\ operators[Watermark + 2].token = i
            /\ operators[Watermark + 1].type = DeclOf[operators[Watermark + 2].type]
            /\ operators[Watermark + 1].token < i
        BY <2>2 DEF Initializing
      <4> HIDE DEF w
      <4> QED BY <4>1, <4>2, <4>3
    <3>2. operators[w - 1].token > Top(contexts).token
      <4>1. w - 1 \in 1..w /\ w - 1 > Watermark
        BY <1>2, <3>1
      <4> QED BY <1>6, <4>1
    <3> HIDE DEF w, l, new
    <3> QED BY <1>2, <1>4, <2>1, <3>1, <3>2 DEF Linked
  <2>3. CASE w = Watermark
    <3>1. ASSUME w > 0 PROVE operators[w].type \in Inits /\ operators[w].token < i
      <4>1. operators[w].token < i
        <5>1. w \in 1..w
          BY <1>2, <3>1
        <5> QED BY <1>6, <2>3, <5>1
      <4>2. l \in 2..l
        <5>1. l # 1
          <6>1. contexts[1].watermark = 0
            BY DEF StackOK, ScopesOK
          <6> HIDE DEF w, l
          <6> QED BY <2>1, <2>3, <3>1, <6>1
        <5> HIDE DEF l
        <5> QED BY <1>2, <5>1
      <4>3. Linked(contexts[l - 1], contexts[l])
        BY <4>2 DEF StackOK, ScopesOK
      <4>4. operators[w].type \in Inits
        <5> HIDE DEF w, l
        <5> QED BY <2>1, <2>3, <3>1, <4>3 DEF Linked
      <4> QED BY <4>1, <4>4
    <3> HIDE DEF w, l, new
    <3> QED BY <1>4, <2>1, <2>3, <3>1 DEF Linked
  <2> QED BY <1>6, <2>2, <2>3
<1>9. ScopesOK'
  <2>1. contexts'[1].watermark = 0 /\ contexts'[1].token = 0
    <3>1. 1 \in 1..l
      BY <1>2
    <3> QED BY <1>3, <3>1 DEF StackOK, ScopesOK
  <2>2. Watermark' <= Len(operators')
    BY <1>1, <1>2, <1>5
  <2>3. ASSUME NEW n \in 2..Len(contexts') PROVE Linked(contexts[n - 1], contexts[n])'
    <3>1. CASE n \in 2..l
      <4>1. n \in 1..l /\ n - 1 \in 1..l
        BY <1>2, <3>1
      <4>2. Linked(contexts[n - 1], contexts[n])
        BY <3>1 DEF StackOK, ScopesOK
      <4>3. contexts'[n - 1] = contexts[n - 1] /\ contexts'[n] = contexts[n]
        BY <1>3, <4>1
      <4> HIDE DEF w, l, new
      <4> QED BY <1>1, <4>2, <4>3 DEF Linked
    <3>2. CASE n = l + 1
      <4>1. contexts'[n] = new /\ contexts'[n - 1] = contexts[l]
        <5>1. n - 1 = l /\ l \in 1..l
          BY <1>2, <3>2
        <5> QED BY <1>3, <3>2, <5>1
      <4> HIDE DEF w, l, new
      <4> QED BY <1>1, <1>8, <4>1 DEF Linked
    <3> QED BY <1>2, <1>3, <3>1, <3>2
  <2>4. ASSUME NEW n \in 1..Len(contexts'), NEW m \in 1..Len(contexts'), m <= n
        PROVE  contexts'[m].watermark <= contexts'[n].watermark
    <3>1. CASE n \in 1..l
      <4>1. m \in 1..l
        BY <1>2, <3>1, <2>4
      <4> QED BY <1>3, <2>4, <3>1, <4>1 DEF StackOK, ScopesOK
    <3>2. CASE n = l + 1 /\ m \in 1..l
      <4>1. contexts[m].watermark <= Watermark
        <5>1. l \in 1..l /\ m <= l
          BY <1>2, <3>2
        <5> QED BY <1>2, <3>2, <5>1 DEF StackOK, ScopesOK, Watermark
      <4>2. contexts'[m] = contexts[m] /\ contexts'[n] = new
        BY <1>3, <3>2
      <4> HIDE DEF new, w, l
      <4> QED BY <1>2, <1>4, <1>6, <3>2, <4>1, <4>2
    <3>3. CASE n = l + 1 /\ m = l + 1
      BY <1>2, <1>3, <1>4, <3>3
    <3> QED BY <1>2, <1>3, <3>1, <3>2, <3>3
  <2> QED BY <2>1, <2>2, <2>3, <2>4 DEF ScopesOK
<1>10. OwnedOK'
  BY <1>1, <1>5 DEF OwnedOK
<1> QED BY <1>7, <1>9, <1>10 DEF StackOK

LEMMA StackCloseScope ==
    ASSUME BoundsInv, BoundsInv', StackOK, CloseScope
    PROVE  StackOK'
<1> DEFINE l == Len(contexts)
           w == Watermark
           low == contexts[l - 1]
           scope == Top(contexts)
           under == Counted(Kept, 1)
           init == Top(under)
           opsDecl == Counted(Rest(under), 1)
           rest == Counted(Rest(opsDecl), 1)
           declared == /\ Initializes(under, scope.token)
                       /\ opsDecl # <<>>
                       /\ Top(opsDecl).type = DeclOf[init.type]
<1>1. /\ scope.type = "SCOPE" /\ i' = i + 1 /\ contexts' = Child(Rest(contexts), 1)
      /\ declared => operators' = rest
      /\ ~Initializes(under, scope.token) => operators' = under
      /\ declared \/ ~Initializes(under, scope.token) => pc' \in {"instruction", "aborted"}
      /\ UNCHANGED <<input, decl>>
  BY DEF CloseScope, Write
<1>2. /\ w \in Nat /\ scope = contexts[l] /\ w = contexts[l].watermark
      /\ \A n \in 1..l : contexts[n].watermark \in Nat /\ contexts[n].token \in Nat
      /\ \A n \in 1..Len(operators) : operators[n].token \in Nat
      /\ Len(operators) \in Nat /\ l \in Nat /\ l >= 1 /\ i \in Nat /\ w <= Len(operators)
  BY StackTypes DEF Watermark, StackOK, ScopesOK
<1>3. l >= 2 /\ l - 1 \in 1..l /\ l \in 2..l /\ l \in 1..l
  <2>1. l # 1
    <3>1. contexts[l].type # "SCOPE_0" /\ l \in 1..l
      BY <1>1, <1>2
    <3> QED BY <3>1 DEF BoundsInv, ContextsOK
  <2> HIDE DEF l
  <2> QED BY <1>2, <2>1
<1>4. /\ low.watermark \in Nat /\ scope.token \in Nat /\ Linked(low, scope)
      /\ scope.watermark = w
  <2>1. Linked(contexts[l - 1], contexts[l])
    BY <1>3 DEF StackOK, ScopesOK
  <2> QED BY <1>2, <1>3, <2>1
<1>5. OpsOK(Kept) /\ Len(Kept) = w /\ Agree(operators, Kept, w)
  <2> DEFINE over == IF w < Len(operators) THEN Len(operators) - w ELSE 0
  <2>1. operators \in Seq(Operator) /\ contexts \in Seq(Frame) /\ contexts # <<>>
        /\ Len(operators) <= StackSize /\ StackSize \in Nat
    BY Position DEF BoundsInv, OperatorsOK, OpsOK, ContextsOK
  <2>2. /\ Kept \in Seq(Operator) /\ Len(Kept) = Len(operators) - over
        /\ \A x \in 1..Len(Kept) : Kept[x] = operators[x]
    BY <2>1, FlushedFacts DEF Watermark
  <2>3. over = Len(operators) - w
    BY <1>2
  <2> HIDE DEF over, w
  <2>4. Len(Kept) = w /\ w <= StackSize
    BY <1>2, <2>1, <2>2, <2>3
  <2> QED BY <2>2, <2>4 DEF OpsOK, Agree
<1>6. OpsOK(under) /\ Len(under) = w /\ Agree(operators, under, w)
  <2>1. OpsOK(under) /\ Len(under) = Len(Kept) /\ Agree(Kept, under, Len(Kept))
    BY <1>5, OpsCounted
  <2> HIDE DEF under, w
  <2> QED BY <1>5, <2>1 DEF Agree
<1>7. w > 0 => /\ under # <<>> /\ init.type = operators[w].type
               /\ init.token = operators[w].token
  <2> SUFFICES ASSUME w > 0
               PROVE  /\ under # <<>> /\ init.type = operators[w].type
                      /\ init.token = operators[w].token
    OBVIOUS
  <2>1. w \in 1..w
    BY <1>2
  <2> HIDE DEF under, w
  <2> QED BY <1>6, <2>1 DEF Top, Agree
<1>8. /\ Len(operators') = low.watermark /\ Agree(operators, operators', low.watermark)
      /\ pc' \in {"instruction", "aborted"} /\ low.watermark <= w
  <2>1. CASE w = low.watermark /\ (w > 0 => operators[w].token < scope.token)
    <3>1. ~Initializes(under, scope.token)
      <4> SUFFICES ASSUME Initializes(under, scope.token) PROVE FALSE
        OBVIOUS
      <4>1. under # <<>> /\ init.token = scope.token
        <5> HIDE DEF under, scope
        <5> QED BY DEF Initializes
      <4>2. w > 0
        <5> HIDE DEF under, w
        <5> QED BY <1>2, <1>6, <4>1 DEF OpsOK
      <4> HIDE DEF under, w, init, scope
      <4> QED BY <1>4, <1>7, <2>1, <4>1, <4>2
    <3> HIDE DEF under, w, low, declared
    <3> QED BY <1>1, <1>4, <1>6, <2>1, <3>1
  <2>2. CASE /\ w = low.watermark + 2
             /\ operators[w].type \in Inits /\ operators[w].token = scope.token
             /\ operators[w - 1].type = DeclOf[operators[w].type]
    <3>1. w > 0 /\ w >= 2 /\ w - 1 \in 1..w /\ w - 1 \in 1..(w - 1) /\ w - 2 = low.watermark
      <4> HIDE DEF w, low
      <4> QED BY <1>2, <1>4, <2>2
    <3>2. Initializes(under, scope.token)
      <4> HIDE DEF under, w, scope
      <4> QED BY <1>7, <2>2, <3>1 DEF Initializes, Inits
    <3>3. OpsOK(opsDecl) /\ Len(opsDecl) = w - 1 /\ Agree(operators, opsDecl, w - 1)
      <4> DEFINE r == Rest(under)
      <4>1. OpsOK(r) /\ Len(r) = Len(under) - 1 /\ Agree(under, r, Len(under) - 1)
        <5> HIDE DEF under
        <5>1. Len(under) >= 1
          BY <1>6, <3>1
        <5> QED BY <1>6, <5>1, OpsRested
      <4>2. OpsOK(opsDecl) /\ Len(opsDecl) = Len(r) /\ Agree(r, opsDecl, Len(r))
        <5> HIDE DEF under
        <5> QED BY <4>1, OpsCounted
      <4> HIDE DEF r, opsDecl, under, w
      <4>3. Len(r) = w - 1 /\ Len(under) - 1 = w - 1
        BY <1>6, <4>1
      <4> QED BY <1>2, <1>6, <3>1, <4>1, <4>2, <4>3 DEF Agree
    <3>4. declared
      <4>1. opsDecl # <<>> /\ Top(opsDecl).type = operators[w - 1].type
        <5> HIDE DEF opsDecl, w
        <5> QED BY <3>1, <3>3 DEF Top, Agree, OpsOK
      <4> HIDE DEF opsDecl, under, w, scope, init
      <4> QED BY <1>7, <2>2, <3>1, <3>2, <4>1
    <3>5. Len(rest) = w - 2 /\ Agree(operators, rest, w - 2)
      <4> DEFINE r == Rest(opsDecl)
      <4>1. OpsOK(r) /\ Len(r) = Len(opsDecl) - 1 /\ Agree(opsDecl, r, Len(opsDecl) - 1)
        <5> HIDE DEF opsDecl
        <5>1. Len(opsDecl) >= 1
          BY <1>2, <3>1, <3>3
        <5> QED BY <3>3, <5>1, OpsRested
      <4>2. Len(rest) = Len(r) /\ Agree(r, rest, Len(r))
        <5> HIDE DEF opsDecl
        <5> QED BY <4>1, OpsCounted
      <4> HIDE DEF r, rest, opsDecl, w
      <4>3. Len(r) = w - 2 /\ Len(opsDecl) - 1 = w - 2
        BY <1>2, <3>1, <3>3, <4>1
      <4> QED BY <1>2, <3>1, <3>3, <4>1, <4>2, <4>3 DEF Agree
    <3> HIDE DEF rest, w, low, declared
    <3> QED BY <1>1, <1>2, <1>4, <2>2, <3>1, <3>4, <3>5
  <2> HIDE DEF w, low, scope
  <2> QED BY <1>4, <2>1, <2>2 DEF Linked
<1>9. /\ Len(contexts') = l - 1
      /\ \A n \in 1..(l - 1) : /\ contexts'[n].watermark = contexts[n].watermark
                               /\ contexts'[n].token = contexts[n].token
  <2> DEFINE r == Rest(contexts)
             c == Child(r, 1)
  <2>1. /\ r \in Seq(Frame) /\ Len(r) = l - 1 /\ \A n \in 1..Len(r) : r[n] = contexts[n]
    <3>1. contexts \in Seq(Frame) /\ contexts # <<>>
      BY Position DEF BoundsInv, ContextsOK
    <3> QED BY <3>1, RestFacts
  <2>2. r # <<>>
    <3>1. Len(r) >= 1
      <4> HIDE DEF r, l
      <4> QED BY <1>2, <1>3, <2>1
    <3> HIDE DEF r
    <3> QED BY <2>1, <3>1
  <2>3. /\ Len(c) = Len(r)
        /\ \A n \in 1..Len(r) : c[n].watermark = r[n].watermark /\ c[n].token = r[n].token
    <3>1. 1 \in Nat
      OBVIOUS
    <3> HIDE DEF r
    <3> QED BY <2>1, <2>2, <3>1, ChildFacts
  <2>4. contexts' = c
    BY <1>1
  <2> HIDE DEF c, r, l
  <2> QED BY <2>1, <2>3, <2>4
<1>10. /\ ScopesOK' /\ Watermark' = low.watermark
  <2>1. l - 1 \in 1..Len(contexts) /\ low.watermark <= Len(operators')
    BY <1>3, <1>4, <1>8
  <2> HIDE DEF l
  <2> QED BY <1>8, <1>9, <2>1, ScopesBelow DEF StackOK
<1>11. OwnedOK'
  BY <1>8, <1>10 DEF OwnedOK
<1>12. \A n \in 1..Len(operators') : operators'[n].token < i'
  <2> SUFFICES ASSUME NEW n \in 1..Len(operators') PROVE operators'[n].token < i'
    OBVIOUS
  <2>1. n \in 1..low.watermark /\ n \in 1..Len(operators)
    <3> HIDE DEF low, w
    <3> QED BY <1>2, <1>4, <1>8
  <2>2. operators'[n].token = operators[n].token /\ operators[n].token <= i
        /\ operators[n].token \in Nat
    <3> HIDE DEF low
    <3> QED BY <1>2, <1>8, <2>1 DEF Agree, StackOK, TokensOK
  <2> QED BY <1>1, <1>2, <2>2
<1>13. TokensOK'
  <2>1. \A n \in 1..Len(contexts') : contexts'[n].token < i'
    <3> SUFFICES ASSUME NEW n \in 1..Len(contexts') PROVE contexts'[n].token < i'
      OBVIOUS
    <3>1. n \in 1..(l - 1) /\ n \in 1..l
      BY <1>2, <1>9
    <3>2. contexts'[n].token = contexts[n].token /\ contexts[n].token < i /\ contexts[n].token \in Nat
      BY <1>2, <1>9, <3>1 DEF StackOK, TokensOK
    <3> QED BY <1>1, <1>2, <3>2
  <2>2. \A n \in 1..Len(operators') : ~(n > Watermark') /\ operators'[n].token <= i'
    <3>1. i' \in Nat /\ \A n \in 1..Len(operators') : operators'[n].token \in Nat
      BY NextStackTypes DEF OperatorTokens
    <3> HIDE DEF low
    <3> QED BY <1>4, <1>8, <1>10, <1>12, <3>1
  <2> QED BY <1>12, <2>1, <2>2 DEF TokensOK
<1> QED BY <1>10, <1>11, <1>13 DEF StackOK

LEMMA InitStack == Init => StackOK
<1> SUFFICES ASSUME Init PROVE StackOK
  OBVIOUS
<1>1. contexts = <<Context("SCOPE_0", 0, 0)>> /\ operators = <<>> /\ i = 1 /\ pc = "instruction"
  BY DEF Init, Start, Begin
<1>2. /\ Len(contexts) = 1 /\ contexts[1].watermark = 0 /\ contexts[1].token = 0
      /\ Watermark = 0 /\ Len(operators) = 0
  BY <1>1 DEF Context, Watermark, Top
<1>3. OwnedOK
  BY <1>1, <1>2 DEF OwnedOK
<1>4. ScopesOK
  BY <1>2 DEF ScopesOK
<1>5. TokensOK
  BY <1>1, <1>2 DEF TokensOK
<1> QED BY <1>3, <1>4, <1>5 DEF StackOK

LEMMA StackStutter == ASSUME StackOK, UNCHANGED vars PROVE StackOK'
BY DEF StackOK, vars, OwnedOK, ScopesOK, TokensOK, Watermark, Initializing, Linked, At, Top

(* A dropped push is remembered. *)
LEMMA DroppedKept == ASSUME [Next]_vars, dropped PROVE dropped'
<1>1. CASE Returned \/ UNCHANGED vars
  BY <1>1 DEF Returned, vars
<1>2. CASE GroupQualifiers \/ OpenScope \/ StartExpression \/ ImportModules \/ Declare
  BY <1>2 DEF GroupQualifiers, OpenScope, StartExpression, ImportModules, Declare
<1>3. CASE TypeVar \/ EndType \/ OpenParameters \/ Parameter \/ CloseParameters
  BY <1>3 DEF TypeVar, EndType, OpenParameters, Parameter, CloseParameters
<1>4. CASE InitializeVariable \/ InitializeNothing \/ InitializeScope
  BY <1>4 DEF InitializeVariable, InitializeNothing, InitializeScope
<1>5. CASE PushCallee \/ Operand \/ PushOperator \/ OpenParenthesis \/ SeparateArguments
  BY <1>5 DEF PushCallee, Operand, PushOperator, OpenParenthesis, SeparateArguments, PushBuffer
<1>6. CASE PopForOperator \/ PopToParenthesis \/ PopRemaining
  BY <1>6 DEF PopForOperator, PopToParenthesis, PopRemaining, PopBuffer
<1>7. CASE CloseParenthesis \/ RunBelowBuffer \/ EndExpression
  BY <1>7 DEF CloseParenthesis, RunBelowBuffer, EndExpression
<1>8. CASE EndInstruction \/ CloseScope \/ Reject \/ ReadBehindTokens \/ EndOfSource
  BY <1>8 DEF EndInstruction, CloseScope, Reject, ReadBehindTokens, EndOfSource
<1> QED BY <1>1, <1>2, <1>3, <1>4, <1>5, <1>6, <1>7, <1>8 DEF Next

LEMMA NextStack ==
    ASSUME BoundsInv, BoundsInv', StackInv, [Next]_vars
    PROVE  StackInv'
<1> SUFFICES ASSUME ~dropped' PROVE StackOK'
  BY DEF StackInv
<1>0. StackOK
  BY DroppedKept DEF StackInv
<1>1. CASE Returned \/ UNCHANGED vars
  BY <1>0, <1>1, StackStutter DEF Returned
<1>2. CASE GroupQualifiers \/ OpenScope \/ StartExpression \/ ImportModules \/ Declare
  BY <1>0, <1>2, StackGroupQualifiers, StackOpenScope, StackStartExpression, StackImportModules,
     StackDeclare
<1>3. CASE TypeVar \/ EndType \/ OpenParameters \/ Parameter \/ CloseParameters
  BY <1>0, <1>3, StackTypeVar, StackEndType, StackOpenParameters, StackCloseParameters
<1>4. CASE InitializeVariable \/ InitializeNothing \/ InitializeScope
  BY <1>0, <1>4, StackInitializeVariable, StackInitializeNothing, StackInitializeScope
<1>5. CASE \/ PushCallee \/ Operand \/ PushOperator \/ OpenParenthesis \/ SeparateArguments
           \/ PopForOperator \/ PopToParenthesis \/ PopRemaining \/ CloseParenthesis
           \/ RunBelowBuffer
  BY <1>0, <1>5, StackBuffer
<1>6. CASE EndExpression \/ EndInstruction \/ CloseScope
  BY <1>0, <1>6, StackEndExpression, StackEndInstruction, StackCloseScope
<1>7. CASE Reject \/ ReadBehindTokens \/ EndOfSource
  BY <1>0, <1>7, StackReturns
<1> QED BY <1>1, <1>2, <1>3, <1>4, <1>5, <1>6, <1>7 DEF Next

(* What lies on the stacks is, in every phase, what the handler that runs    *)
(* next takes for granted: the operators above the watermark of the          *)
(* innermost scope are those of the instruction being read, those below it   *)
(* belong to the declarations that the open scopes initialize.               *)
THEOREM StacksOwned == Spec => [](BoundsInv /\ StackInv)
<1>1. Init => BoundsInv /\ StackInv
  BY InitBounds, InitStack DEF StackInv
<1>2. BoundsInv /\ StackInv /\ [Next]_vars => BoundsInv' /\ StackInv'
  BY NextBounds, NextStack
<1> QED BY <1>1, <1>2, PTL DEF Spec

LEMMA BoundsGiveType == BoundsInv /\ StackInv => TypeOK
<1> SUFFICES ASSUME BoundsInv, StackInv PROVE TypeOK
  OBVIOUS
<1>1. ~dropped => \A n \in DOMAIN contexts : contexts[n].watermark <= Len(operators)
  <2> SUFFICES ASSUME ~dropped, NEW n \in DOMAIN contexts
               PROVE  contexts[n].watermark <= Len(operators)
    OBVIOUS
  <2>1. n \in 1..Len(contexts) /\ Len(contexts) \in 1..Len(contexts) /\ n <= Len(contexts)
    BY StackTypes DEF BoundsInv, ContextsOK
  <2>2. contexts[n].watermark <= Watermark /\ Watermark <= Len(operators)
    BY <2>1 DEF StackInv, StackOK, ScopesOK, Watermark, Top
  <2> QED BY <2>1, <2>2, StackTypes
<1>2. 1 \in 1..Len(contexts)
  BY StackTypes
<1> QED BY <1>1, <1>2 DEF TypeOK, BoundsInv, PlaceOK, NodesOK, ContextsOK, OperatorsOK, OpsOK,
                          BufferOK, PhaseOK, Outcomes

(* The position never passes the sentinel, the nodes stay in their array,    *)
(* the stacks in theirs, SCOPE_0 is never closed, and while no push was      *)
(* dropped no open scope loses an operator below its watermark.              *)
THEOREM Typing == Spec => []TypeOK
BY StacksOwned, BoundsGiveType, PTL

Emptied == pc = "accepted" /\ ~dropped => operators = <<>> /\ buffer = <<>>

(* An accepted source leaves nothing on the stacks: every instruction was    *)
(* written to its end.                                                       *)
THEOREM StacksEmptied == Spec => []Emptied
<1>1. BoundsInv /\ StackInv => Emptied
  BY DEF BoundsInv, PhaseOK, StackInv, StackOK, OwnedOK, Emptied
<1> QED BY StacksOwned, <1>1, PTL

=============================================================================

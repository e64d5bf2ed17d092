------------------------- MODULE ParserForestProofs --------------------------
(***************************************************************************)
(* The forest Parser writes, for every list of tokens: the arities it      *)
(* counts on its stacks are those of trees that nest as the scopes do, and *)
(* every token that names something is in one node.                        *)
(***************************************************************************)
EXTENDS ParserProofs, FiniteSetTheorems

-----------------------------------------------------------------------------
(* The inductive invariant                                                   *)

(* The complete trees among the nodes that will be children of an operator   *)
(* on the stack: an EXP takes none into account, and an INIT that waits for   *)
(* its scope has none yet, whatever was counted on it.                        *)
Weight(op) == IF op.type \in {"EXP", "INIT_LAB", "INIT_PAL"} THEN 0 ELSE op.arity

(* Those of the operators between two watermarks: two have some at most.      *)
Waiting(ops, low, high) ==
    (IF low + 1 <= high THEN Weight(ops[low + 1]) ELSE 0)
    + (IF low + 2 <= high THEN Weight(ops[low + 2]) ELSE 0)

(* base[n] nodes were written when the n-th scope was opened.  The trees      *)
(* completed since are its children, what waits on the stack of operators,    *)
(* and what belongs to the scopes in it.                                      *)
Based(base) ==
    /\ base[1] = 0
    /\ \A n \in 1..Len(contexts), m \in 1..Len(nodes) :
          m <= base[n] <=> nodes[m].token < contexts[n].token
    /\ \A n \in 2..Len(contexts) :
          Trees(nodes)[base[n]] =
              Trees(nodes)[base[n - 1]] + contexts[n - 1].children
              + Waiting(operators, contexts[n - 1].watermark, contexts[n].watermark)
    /\ Trees(nodes)[Len(nodes)] =
           Trees(nodes)[base[Len(contexts)]] + Top(contexts).children
           + Waiting(operators, Watermark, Len(operators))

SharesOK == \E base \in [1..Len(contexts) -> 0..Len(nodes)] : Based(base)

(* Every node found its children. *)
Grown(n) == Trees(nodes)[n] >= 0 /\ (Trees(nodes)[n] >= 1 \/ nodes[n].type \in ExpressionTypes)
GrownOK == \A n \in 1..Len(nodes) : Grown(n)

(* A SCOPE is the root of what was written since its token was read.         *)
Closed(n) ==
    \E before \in 0..(n - 1) :
        /\ {m \in 1..n : nodes[m].token >= nodes[n].token} = (before + 1)..n
        /\ Trees(nodes)[n] = Trees(nodes)[before] + 1
ClosedOK == \A n \in 1..Len(nodes) : nodes[n].type = "SCOPE" => Closed(n)

(* The ID of a declaration is its first child.                               *)
WeightsOK ==
    /\ \A x \in 1..Len(operators) :
          /\ Weight(operators[x]) >= 0
          /\ operators[x].type \in Decls => operators[x].arity >= 1
    /\ pc = "expression" /\ decl # "NO" => operators[Watermark + 2].arity = 0

(* Nodes are written in the scope their tokens were read in.                 *)
PlacesOK ==
    /\ \A m \in 1..Len(nodes) : nodes[m].token <= i
    /\ pc \in Calm \cup {"instruction"} => \A m \in 1..Len(nodes) : nodes[m].token < i
    /\ \A b \in 1..Len(buffer) : Top(contexts).token < buffer[b].token /\ buffer[b].token < i
    /\ pc \in {"type", "typed", "parameter", "close"} =>
          \E m \in 1..Len(nodes) : nodes[m].type = "ID" /\ nodes[m].token > Top(contexts).token

ForestOK == SharesOK /\ GrownOK /\ ClosedOK /\ WeightsOK /\ PlacesOK

Failed == {"rejected", "aborted", "undefined"}
ForestInv == ~dropped /\ pc \notin Failed => ForestOK

-----------------------------------------------------------------------------
(* Counting trees                                                            *)

LEMMA GrowthInt == \A x \in Written : Growth(x) \in Int
BY DEF Growth, Written, Items

LEMMA TreesInt ==
    ASSUME BoundsInv
    PROVE  /\ Len(nodes) \in Nat /\ Trees(nodes)[0] = 0
           /\ \A n \in 0..Len(nodes) : Trees(nodes)[n] \in Int
BY GrowthInt, TreesFacts DEF BoundsInv, NodesOK

(* What is written later leaves the count, and adds to it one by one. *)
LEMMA TreesAppended ==
    ASSUME BoundsInv, NEW ns \in Seq(Written), nodes' = nodes \o ns
    PROVE  /\ nodes' \in Seq(Written)
           /\ Len(nodes) \in Nat /\ Len(ns) \in Nat /\ Len(nodes') = Len(nodes) + Len(ns)
           /\ \A n \in 1..Len(nodes) : nodes'[n] = nodes[n]
           /\ \A k \in 1..Len(ns) : nodes'[Len(nodes) + k] = ns[k]
           /\ \A n \in 0..Len(nodes') : Trees(nodes')[n] \in Int
           /\ \A n \in 0..Len(nodes) : Trees(nodes')[n] = Trees(nodes)[n]
           /\ \A k \in 1..Len(ns) :
                 Trees(nodes')[Len(nodes) + k] = Trees(nodes')[Len(nodes) + k - 1] + Growth(ns[k])
<1>1. nodes \in Seq(Written) /\ Len(nodes) \in Nat /\ Len(ns) \in Nat
  BY DEF BoundsInv, NodesOK
<1>2. /\ nodes' \in Seq(Written) /\ Len(nodes') = Len(nodes) + Len(ns)
      /\ \A n \in 1..Len(nodes) : nodes'[n] = nodes[n]
      /\ \A k \in 1..Len(ns) : nodes'[Len(nodes) + k] = ns[k]
  BY <1>1, Concatenated
<1>3. \A n \in 0..Len(nodes) : Trees(nodes')[n] = Trees(nodes)[n]
  <2>1. Len(nodes) <= Len(nodes')
    BY <1>1, <1>2
  <2> QED BY <1>1, <1>2, <2>1, GrowthInt, TreesPrefix
<1>4. /\ Trees(nodes') \in [0..Len(nodes') -> Int]
      /\ \A n \in 1..Len(nodes') : Trees(nodes')[n] = Trees(nodes')[n - 1] + Growth(nodes'[n])
  BY <1>2, GrowthInt, TreesFacts
<1>5. ASSUME NEW k \in 1..Len(ns)
      PROVE  Trees(nodes')[Len(nodes) + k] = Trees(nodes')[Len(nodes) + k - 1] + Growth(ns[k])
  <2>1. Len(nodes) + k \in 1..Len(nodes') /\ nodes'[Len(nodes) + k] = ns[k]
    BY <1>1, <1>2
  <2> QED BY <1>4, <2>1
<1> QED BY <1>1, <1>2, <1>3, <1>4, <1>5

(* Leaves are trees. *)
LEMMA LeavesGrow ==
    ASSUME BoundsInv, NEW ns \in Seq(Written), nodes' = nodes \o ns,
           NEW l \in 0..Len(ns), \A k \in 1..l : Growth(ns[k]) = 1
    PROVE  \A k \in 0..l : Trees(nodes')[Len(nodes) + k] = Trees(nodes)[Len(nodes)] + k
<1> DEFINE f(k) == Trees(nodes')[Len(nodes) + k]
           Bad == {k \in 0..l : f(k) # Trees(nodes)[Len(nodes)] + k}
<1> SUFFICES ASSUME Bad # {} PROVE FALSE
  OBVIOUS
<1>1. PICK k \in Bad : \A y \in Bad : k <= y
  <2>1. Bad \in SUBSET Nat
    OBVIOUS
  <2> HIDE DEF Bad
  <2> QED BY <2>1, LeastNat
<1>2. /\ k \in 0..l /\ f(k) # Trees(nodes)[Len(nodes)] + k
      /\ Len(nodes) \in Nat /\ l \in Nat /\ l <= Len(ns)
      /\ f(0) = Trees(nodes)[Len(nodes)] /\ f(0) \in Int
  <2>1. k \in 0..l /\ f(k) # Trees(nodes)[Len(nodes)] + k
    BY <1>1
  <2>2. Len(nodes) \in Nat /\ Len(nodes) + 0 = Len(nodes) /\ Len(nodes) \in 0..Len(nodes)
    BY TreesAppended
  <2>3. Trees(nodes')[Len(nodes)] = Trees(nodes)[Len(nodes)]
    BY <2>2, TreesAppended
  <2>4. Trees(nodes)[Len(nodes)] \in Int
    BY <2>2, TreesInt
  <2> QED BY <2>1, <2>2, <2>3, <2>4
<1>3. k # 0
  BY <1>2
<1>4. k - 1 \in 0..l /\ ~(k <= k - 1) /\ k \in 1..l /\ k \in 1..Len(ns)
  BY <1>2, <1>3
<1>5. f(k - 1) = Trees(nodes)[Len(nodes)] + (k - 1)
  BY <1>1, <1>4
<1>6. f(k) = f(k - 1) + 1
  <2>1. Trees(nodes')[Len(nodes) + k] = Trees(nodes')[Len(nodes) + k - 1] + Growth(ns[k])
    BY <1>4, TreesAppended
  <2>2. Len(nodes) + k - 1 = Len(nodes) + (k - 1)
    BY <1>2, <1>4
  <2> QED BY <1>4, <2>1, <2>2
<1> HIDE DEF f
<1> QED BY <1>2, <1>4, <1>5, <1>6
-----------------------------------------------------------------------------
(* What a handler does to the forest                                         *)

LEMMA WeightInt ==
    ASSUME BoundsInv
    PROVE  /\ \A x \in 1..Len(operators) : Weight(operators[x]) \in Int /\ operators[x].arity \in Int
           /\ \A low \in Nat, high \in Nat : high <= Len(operators) => Waiting(operators, low, high) \in Int
<1>1. \A x \in 1..Len(operators) : Weight(operators[x]) \in Int /\ operators[x].arity \in Int
  <2> SUFFICES ASSUME NEW x \in 1..Len(operators)
               PROVE  Weight(operators[x]) \in Int /\ operators[x].arity \in Int
    OBVIOUS
  <2>1. operators[x] \in Operator
    BY DEF BoundsInv, OperatorsOK, OpsOK
  <2>2. operators[x].arity \in Int
    BY <2>1, ItemFields DEF Operator
  <2> QED BY <2>2 DEF Weight
<1>2. ASSUME NEW low \in Nat, NEW high \in Nat, high <= Len(operators)
      PROVE  Waiting(operators, low, high) \in Int
  <2>1. Len(operators) \in Nat
    BY Position
  <2>2. /\ low + 1 <= high => low + 1 \in 1..Len(operators)
        /\ low + 2 <= high => low + 2 \in 1..Len(operators)
    BY <1>2, <2>1
  <2>3. /\ low + 1 <= high => Weight(operators[low + 1]) \in Int
        /\ low + 2 <= high => Weight(operators[low + 2]) \in Int
    BY <1>1, <2>2
  <2> QED BY <2>3 DEF Waiting
<1> QED BY <1>1, <1>2

LEMMA NextWeightInt ==
    BoundsInv' => /\ \A x \in 1..Len(operators') : Weight(operators'[x]) \in Int
                  /\ Waiting(operators, Watermark, Len(operators))' \in Int \/ ~(Watermark <= Len(operators))'
<1> DEFINE P == /\ \A x \in 1..Len(operators) : Weight(operators[x]) \in Int
                /\ Waiting(operators, Watermark, Len(operators)) \in Int \/ ~(Watermark <= Len(operators))
<1>1. BoundsInv => P
  <2> SUFFICES ASSUME BoundsInv PROVE P
    OBVIOUS
  <2>1. Watermark \in Nat /\ Len(operators) \in Nat /\ Len(operators) <= Len(operators)
    BY StackTypes
  <2> QED BY <2>1, WeightInt
<1>2. BoundsInv' => P'
  BY <1>1, PTL
<1> QED BY <1>2

(* What waits depends on weights only. *)
LEMMA WaitingSame ==
    ASSUME NEW w \in Nat, NEW low \in Nat, NEW high \in Nat, high <= w,
           \A x \in 1..w : Weight(operators'[x]) = Weight(operators[x])
    PROVE  Waiting(operators, low, high)' = Waiting(operators, low, high)
<1>1. /\ low + 1 <= high => low + 1 \in 1..w
      /\ low + 2 <= high => low + 2 \in 1..w
  OBVIOUS
<1>2. /\ low + 1 <= high => Weight(operators'[low + 1]) = Weight(operators[low + 1])
      /\ low + 2 <= high => Weight(operators'[low + 2]) = Weight(operators[low + 2])
  BY <1>1
<1>3. Waiting(operators, low, high)' =
         (IF low + 1 <= high THEN Weight(operators'[low + 1]) ELSE 0)
         + (IF low + 2 <= high THEN Weight(operators'[low + 2]) ELSE 0)
  BY DEF Waiting, Weight
<1>4. Waiting(operators, low, high) =
         (IF low + 1 <= high THEN Weight(operators[low + 1]) ELSE 0)
         + (IF low + 2 <= high THEN Weight(operators[low + 2]) ELSE 0)
  BY DEF Waiting
<1> QED BY <1>2, <1>3, <1>4

(* Scopes were opened in the order in which they lie on their stack.         *)
LEMMA ScopeTokens ==
    ASSUME BoundsInv, StackOK
    PROVE  \A n \in 1..Len(contexts) : contexts[n].token <= Top(contexts).token
<1> DEFINE l == Len(contexts)
           Bad == {n \in 1..l : ~(contexts[n].token <= Top(contexts).token)}
           Behind == {l - n : n \in Bad}
<1> SUFFICES ASSUME Bad # {} PROVE FALSE
  OBVIOUS
<1>1. /\ l \in Nat /\ l >= 1 /\ Top(contexts) = contexts[l]
      /\ \A n \in 1..l : contexts[n].token \in Nat
  BY StackTypes
<1>2. PICK b \in Behind : \A y \in Behind : b <= y
  <2>1. Behind \in SUBSET Nat
    BY <1>1
  <2>2. Behind # {}
    OBVIOUS
  <2> HIDE DEF Behind
  <2> QED BY <2>1, <2>2, LeastNat
<1>3. PICK n \in Bad : b = l - n
  BY <1>2
<1>4. n \in 1..l /\ ~(contexts[n].token <= contexts[l].token)
  BY <1>1, <1>3
<1>5. n # l
  BY <1>1, <1>4
<1>6. n + 1 \in 2..l /\ n + 1 \in 1..l /\ l - (n + 1) < b
  BY <1>1, <1>3, <1>4, <1>5
<1>7. n + 1 \notin Bad
  <2> SUFFICES ASSUME n + 1 \in Bad PROVE FALSE
    OBVIOUS
  <2>1. l - (n + 1) \in Behind
    OBVIOUS
  <2>2. b <= l - (n + 1)
    <3> HIDE DEF Behind
    <3> QED BY <1>2, <2>1
  <2>3. b \in Int /\ l - (n + 1) \in Int
    BY <1>1, <1>3, <1>4
  <2> HIDE DEF l
  <2> QED BY <1>6, <2>2, <2>3
<1>8. contexts[n + 1].token <= contexts[l].token
  BY <1>1, <1>6, <1>7
<1>9. contexts[n].token < contexts[n + 1].token
  <2>1. Linked(contexts[(n + 1) - 1], contexts[n + 1])
    BY <1>6 DEF StackOK, ScopesOK
  <2>2. (n + 1) - 1 = n
    BY <1>4
  <2> QED BY <2>1, <2>2 DEF Linked
<1> QED BY <1>1, <1>4, <1>6, <1>8, <1>9

(* A handler writes ns in the innermost scope and gives it c children more:  *)
(* the trees it completes are those children, or they wait.                  *)
Gains(c) ==
    /\ SameFrames
    /\ contexts'[Len(contexts)].children = contexts[Len(contexts)].children + c
    /\ \A n \in 1..Len(contexts) :
          n # Len(contexts) => contexts'[n].children = contexts[n].children

WeightsBelow ==
    /\ Watermark <= Len(operators')
    /\ \A x \in 1..Watermark : Weight(operators'[x]) = Weight(operators[x])

Balances(c) ==
    Trees(nodes')[Len(nodes')] + Waiting(operators, Watermark, Len(operators)) =
        Trees(nodes)[Len(nodes)] + c + Waiting(operators, Watermark, Len(operators))'

Planted(ns) ==
    \A k \in 1..Len(ns) :
        /\ ns[k].token > Top(contexts).token /\ ns[k].type # "SCOPE"
        /\ Trees(nodes')[Len(nodes) + k] >= 0
        /\ Trees(nodes')[Len(nodes) + k] >= 1 \/ ns[k].type \in ExpressionTypes

LEMMA ForestGrows ==
    ASSUME BoundsInv, BoundsInv', StackOK, SharesOK, GrownOK, ClosedOK,
           NEW ns \in Seq(Written), nodes' = nodes \o ns, Planted(ns),
           NEW c \in Int, Gains(c), WeightsBelow, Balances(c)
    PROVE  SharesOK' /\ GrownOK' /\ ClosedOK'
<1> DEFINE l == Len(contexts)
           N == Len(nodes)
           T == Trees(nodes)
           T2 == Trees(nodes')
<1>1. /\ l \in Nat /\ l >= 1 /\ Top(contexts) = contexts[l] /\ Watermark = contexts[l].watermark
      /\ \A n \in 1..l : /\ contexts[n].token \in Nat /\ contexts[n].watermark \in Nat
                         /\ contexts[n].token <= Top(contexts).token
                         /\ contexts[n].watermark <= Watermark
      /\ Watermark \in Nat /\ Watermark <= Len(operators)
      /\ Len(contexts') = l
  <2>1. l \in 1..l
    BY StackTypes
  <2>2. \A n \in 1..l : contexts[n].watermark <= contexts[l].watermark
    <3> SUFFICES ASSUME NEW n \in 1..l PROVE contexts[n].watermark <= contexts[l].watermark
      OBVIOUS
    <3>1. n <= l
      OBVIOUS
    <3> HIDE DEF l
    <3> QED BY <2>1, <3>1 DEF StackOK, ScopesOK, l
  <2> QED BY <2>2, StackTypes, ScopeTokens DEF Watermark, Gains, SameFrames, StackOK, ScopesOK
<1>2. Watermark' = Watermark /\ Top(contexts)' = contexts'[l]
  BY <1>1 DEF Watermark, Top, Gains, SameFrames
<1>3. /\ nodes' \in Seq(Written) /\ N \in Nat /\ Len(ns) \in Nat /\ Len(nodes') = N + Len(ns)
      /\ \A n \in 1..N : nodes'[n] = nodes[n]
      /\ \A k \in 1..Len(ns) : nodes'[N + k] = ns[k]
      /\ \A n \in 0..Len(nodes') : T2[n] \in Int
      /\ \A n \in 0..N : T2[n] = T[n] /\ T[n] \in Int
  BY TreesAppended, TreesInt
<1>4. ASSUME NEW m \in 1..Len(nodes'), m \notin 1..N
      PROVE  /\ m - N \in 1..Len(ns) /\ nodes'[m] = ns[m - N] /\ N + (m - N) = m
  BY <1>3, <1>4
<1>5. SharesOK'
  <2>1. PICK base \in [1..l -> 0..N] : Based(base)
    BY DEF SharesOK
  <2>2. base \in [1..Len(contexts') -> 0..Len(nodes')]
    BY <1>1, <1>3
  <2>3. base[1] = 0
    BY <2>1 DEF Based
  <2>4. ASSUME NEW n \in 1..l, NEW m \in 1..Len(nodes')
        PROVE  m <= base[n] <=> nodes'[m].token < contexts'[n].token
    <3>1. contexts'[n].token = contexts[n].token
      BY DEF Gains, SameFrames
    <3>2. CASE m \in 1..N
      BY <1>3, <2>1, <3>1, <3>2 DEF Based
    <3>3. CASE m \notin 1..N
      <4>1. nodes'[m].token > Top(contexts).token
        BY <1>4, <3>3 DEF Planted
      <4>2. nodes'[m].token \in Nat
        <5>1. nodes'[m] \in Written
          BY <1>3
        <5> QED BY <5>1, ItemFields DEF Written
      <4>3. ~(m <= base[n])
        <5>1. N \in Nat /\ Len(nodes') \in Nat
          BY <1>3
        <5>2. base[n] \in 0..N
          BY <2>1
        <5> HIDE DEF N
        <5> QED BY <3>3, <5>1, <5>2
      <4>4. contexts[n].token \in Nat /\ contexts[n].token <= Top(contexts).token
            /\ Top(contexts).token \in Nat
        BY <1>1, StackTypes
      <4> HIDE DEF l, N
      <4> QED BY <3>1, <4>1, <4>2, <4>3, <4>4
    <3> QED BY <3>2, <3>3
  <2>5. ASSUME NEW n \in 2..l
        PROVE  T2[base[n]] = T2[base[n - 1]] + contexts'[n - 1].children
                             + Waiting(operators, contexts[n - 1].watermark, contexts[n].watermark)'
    <3>1. n \in 1..l /\ n - 1 \in 1..l /\ n - 1 # l
      BY <1>1
    <3>2. T[base[n]] = T[base[n - 1]] + contexts[n - 1].children
                       + Waiting(operators, contexts[n - 1].watermark, contexts[n].watermark)
      BY <2>1 DEF Based
    <3>3. T2[base[n]] = T[base[n]] /\ T2[base[n - 1]] = T[base[n - 1]]
      BY <1>3, <2>1, <3>1
    <3>4. contexts'[n - 1].children = contexts[n - 1].children
      BY <3>1 DEF Gains
    <3>5. Waiting(operators, contexts[n - 1].watermark, contexts[n].watermark)' =
          Waiting(operators, contexts[n - 1].watermark, contexts[n].watermark)
      <4>1. PICK low \in Nat, high \in Nat :
               low = contexts[n - 1].watermark /\ high = contexts[n].watermark /\ high <= Watermark
        BY <1>1, <3>1
      <4>2. contexts'[n - 1].watermark = low /\ contexts'[n].watermark = high
        BY <3>1, <4>1 DEF Gains, SameFrames
      <4>3. Waiting(operators, low, high)' = Waiting(operators, low, high)
        BY <1>1, <4>1, WaitingSame DEF WeightsBelow
      <4> QED BY <4>1, <4>2, <4>3
    <3> QED BY <3>2, <3>3, <3>4, <3>5
  <2>6. T2[Len(nodes')] = T2[base[l]] + contexts'[l].children + Waiting(operators, Watermark, Len(operators))'
    <3>1. T[N] = T[base[l]] + contexts[l].children + Waiting(operators, Watermark, Len(operators))
      BY <1>1, <2>1 DEF Based
    <3>2. T2[base[l]] = T[base[l]] /\ T[base[l]] \in Int /\ T[N] \in Int
          /\ T2[Len(nodes')] \in Int
      BY <1>1, <1>3, <2>1
    <3>3. contexts[l].children \in Int
      BY <1>1, StackTypes
    <3>4. Waiting(operators, Watermark, Len(operators)) \in Int /\ Waiting(operators, Watermark, Len(operators))' \in Int
      <4>1. Len(operators) \in Nat /\ Len(operators) <= Len(operators)
        BY StackTypes
      <4>2. (Watermark <= Len(operators))'
        BY <1>2 DEF WeightsBelow
      <4> QED BY <1>1, <4>1, <4>2, WeightInt, NextWeightInt
    <3> DEFINE open == Waiting(operators, Watermark, Len(operators))
               open2 == Waiting(operators, Watermark, Len(operators))'
    <3>5. T2[Len(nodes')] + open = T[N] + c + open2
      BY DEF Balances
    <3>6. contexts'[l].children = contexts[l].children + c
      BY DEF Gains
    <3>7. T[N] = T[base[l]] + contexts[l].children + open /\ open \in Int /\ open2 \in Int
      BY <3>1, <3>4
    <3> HIDE DEF T, T2, l, N, open, open2
    <3>8. T2[Len(nodes')] = T2[base[l]] + contexts'[l].children + open2
      <4>1. PICK x1 \in Int, x2 \in Int, x3 \in Int :
               x1 = T[N] /\ x2 = T[base[l]] /\ x3 = contexts[l].children
        BY <3>2, <3>3
      <4>2. PICK y1 \in Int, y2 \in Int, y3 \in Int :
               y1 = T2[Len(nodes')] /\ y2 = open /\ y3 = open2
        BY <3>2, <3>7
      <4>3. y1 + y2 = x1 + c + y3 /\ x1 = x2 + x3 + y2
        BY <3>5, <3>7, <4>1, <4>2
      <4>4. y1 = x2 + (x3 + c) + y3
        BY <4>3
      <4> QED BY <3>2, <3>6, <4>1, <4>2, <4>4
    <3> QED BY <3>8 DEF open2
  <2>7. Based(base)'
    BY <1>1, <1>2, <2>3, <2>4, <2>5, <2>6 DEF Based
  <2> QED BY <2>2, <2>7 DEF SharesOK
<1>6. GrownOK'
  <2> SUFFICES ASSUME NEW n \in 1..Len(nodes') PROVE Grown(n)'
    BY DEF GrownOK
  <2>1. CASE n \in 1..N
    <3>1. Grown(n) /\ T2[n] = T[n] /\ nodes'[n] = nodes[n]
      BY <1>3, <2>1 DEF GrownOK
    <3> QED BY <3>1 DEF Grown
  <2>2. CASE n \notin 1..N
    <3>1. PICK k \in 1..Len(ns) : n = N + k /\ nodes'[n] = ns[k]
      BY <1>4, <2>2
    <3> QED BY <3>1 DEF Planted, Grown
  <2> QED BY <2>1, <2>2
<1>7. ClosedOK'
  <2> SUFFICES ASSUME NEW n \in 1..Len(nodes'), nodes'[n].type = "SCOPE" PROVE Closed(n)'
    BY DEF ClosedOK
  <2>1. n \in 1..N
    BY <1>4 DEF Planted
  <2>2. nodes[n].type = "SCOPE"
    BY <1>3, <2>1
  <2>3. PICK before \in 0..(n - 1) :
           /\ {m \in 1..n : nodes[m].token >= nodes[n].token} = (before + 1)..n
           /\ T[n] = T[before] + 1
    BY <2>1, <2>2 DEF ClosedOK, Closed
  <2>4. \A m \in 1..n : nodes'[m] = nodes[m]
    BY <1>3, <2>1
  <2>5. {m \in 1..n : nodes'[m].token >= nodes'[n].token} =
        {m \in 1..n : nodes[m].token >= nodes[n].token}
    BY <1>3, <2>1, <2>4
  <2>6. T2[n] = T[n] /\ T2[before] = T[before]
    BY <1>3, <2>1
  <2> QED BY <2>3, <2>5, <2>6 DEF Closed
<1> QED BY <1>5, <1>6, <1>7

(* The tokens of what was read and written stay in their scopes. *)
Tokened(ns) ==
    /\ i' >= i
    /\ \A k \in 1..Len(ns) : ns[k].token <= i'
    /\ pc' \in Calm \cup {"instruction"} =>
          /\ \A k \in 1..Len(ns) : ns[k].token < i'
          /\ i < i' \/ pc \in Calm \cup {"instruction"}
    /\ pc' \in {"type", "typed", "parameter", "close"} =>
          \/ pc \in {"type", "typed", "parameter", "close"}
          \/ \E k \in 1..Len(ns) : ns[k].type = "ID"

Buffered ==
    \A b \in 1..Len(buffer') : Top(contexts).token < buffer'[b].token /\ buffer'[b].token < i'

LEMMA NodeTokens ==
    ASSUME BoundsInv
    PROVE  /\ \A n \in 1..Len(nodes) : nodes[n].token \in Nat /\ nodes[n].type \in NodeTypes
           /\ \A b \in 1..Len(buffer) : buffer[b].token \in Nat /\ buffer[b].type \in PendingTypes
<1>1. ASSUME NEW n \in 1..Len(nodes) PROVE nodes[n].token \in Nat /\ nodes[n].type \in NodeTypes
  <2>1. nodes[n] \in Written
    BY DEF BoundsInv, NodesOK
  <2> QED BY <2>1, ItemFields DEF Written
<1>2. ASSUME NEW b \in 1..Len(buffer)
      PROVE  buffer[b].token \in Nat /\ buffer[b].type \in PendingTypes
  <2>1. buffer[b] \in Pending
    BY DEF BoundsInv, BufferOK
  <2> QED BY <2>1, ItemFields DEF Pending
<1> QED BY <1>1, <1>2

LEMMA SameTop ==
    ASSUME BoundsInv, SameFrames
    PROVE  /\ Top(contexts)'.token = Top(contexts).token /\ Watermark' = Watermark
           /\ Top(contexts).token \in Nat /\ Watermark \in Nat
<1>1. Len(contexts) \in 1..Len(contexts) /\ Top(contexts) = contexts[Len(contexts)]
      /\ Watermark = contexts[Len(contexts)].watermark
      /\ Top(contexts).token \in Nat /\ Watermark \in Nat
  BY StackTypes DEF Watermark
<1>2. Top(contexts)' = contexts'[Len(contexts)] /\ Watermark' = contexts'[Len(contexts)].watermark
  BY DEF SameFrames, Top, Watermark
<1> QED BY <1>1, <1>2 DEF SameFrames

LEMMA PlacesGrow ==
    ASSUME BoundsInv, BoundsInv', PlacesOK, SameFrames, Buffered,
           NEW ns \in Seq(Written), nodes' = nodes \o ns, Tokened(ns),
           \A k \in 1..Len(ns) : ns[k].token > Top(contexts).token
    PROVE  PlacesOK'
<1>1. /\ Len(nodes) \in Nat /\ Len(ns) \in Nat /\ Len(nodes') = Len(nodes) + Len(ns)
      /\ \A n \in 1..Len(nodes) : nodes'[n] = nodes[n]
      /\ \A k \in 1..Len(ns) : nodes'[Len(nodes) + k] = ns[k]
  BY TreesAppended
<1>2. /\ i \in Nat /\ i' \in Nat /\ i' >= i
      /\ \A n \in 1..Len(nodes) : nodes[n].token \in Nat
  BY StackTypes, NextStackTypes, NodeTokens DEF OperatorTokens, Tokened
<1>3. ASSUME NEW m \in 1..Len(nodes')
      PROVE  /\ nodes'[m].token <= i'
             /\ pc' \in Calm \cup {"instruction"} => nodes'[m].token < i'
  <2>1. CASE m \in 1..Len(nodes)
    <3>1. /\ nodes'[m] = nodes[m] /\ nodes[m].token <= i /\ nodes[m].token \in Nat
          /\ pc \in Calm \cup {"instruction"} => nodes[m].token < i
      BY <1>1, <1>2, <2>1 DEF PlacesOK
    <3>2. pc' \in Calm \cup {"instruction"} => i < i' \/ pc \in Calm \cup {"instruction"}
      BY DEF Tokened
    <3> QED BY <1>2, <3>1, <3>2
  <2>2. CASE m \notin 1..Len(nodes)
    <3>1. m - Len(nodes) \in 1..Len(ns) /\ Len(nodes) + (m - Len(nodes)) = m
      BY <1>1, <2>2
    <3>2. nodes'[m] = ns[m - Len(nodes)]
      BY <1>1, <3>1
    <3> QED BY <3>1, <3>2 DEF Tokened
  <2> QED BY <2>1, <2>2
<1>4. Top(contexts)'.token = Top(contexts).token
  BY SameTop
<1>5. ASSUME pc' \in {"type", "typed", "parameter", "close"}
      PROVE  \E m \in 1..Len(nodes') :
                nodes'[m].type = "ID" /\ nodes'[m].token > Top(contexts)'.token
  <2>1. CASE pc \in {"type", "typed", "parameter", "close"}
    <3>1. PICK m \in 1..Len(nodes) : nodes[m].type = "ID" /\ nodes[m].token > Top(contexts).token
      BY <2>1 DEF PlacesOK
    <3>2. m \in 1..Len(nodes') /\ nodes'[m] = nodes[m]
      BY <1>1
    <3> QED BY <1>4, <3>1, <3>2
  <2>2. CASE \E k \in 1..Len(ns) : ns[k].type = "ID"
    <3>1. PICK k \in 1..Len(ns) : ns[k].type = "ID"
      BY <2>2
    <3>2. Len(nodes) + k \in 1..Len(nodes') /\ nodes'[Len(nodes) + k] = ns[k]
      BY <1>1
    <3> QED BY <1>4, <3>1, <3>2
  <2>3. \/ pc \in {"type", "typed", "parameter", "close"}
        \/ \E k \in 1..Len(ns) : ns[k].type = "ID"
    BY <1>5 DEF Tokened
  <2> QED BY <2>1, <2>2, <2>3
<1> QED BY <1>3, <1>4, <1>5 DEF PlacesOK, Buffered

LEMMA ForestStep ==
    ASSUME BoundsInv, BoundsInv', StackOK, ForestOK, WeightsOK', Buffered,
           NEW ns \in Seq(Written), nodes' = nodes \o ns, Planted(ns), Tokened(ns),
           NEW c \in Int, Gains(c), WeightsBelow, Balances(c)
    PROVE  ForestOK'
<1>1. SharesOK' /\ GrownOK' /\ ClosedOK'
  BY ForestGrows DEF ForestOK
<1>2. PlacesOK'
  BY PlacesGrow DEF ForestOK, Planted, Gains
<1> QED BY <1>1, <1>2 DEF ForestOK

(* The trees completed so far suffice for what waits. *)
LEMMA TreesSuffice ==
    ASSUME BoundsInv, StackOK, ForestOK
    PROVE  /\ Trees(nodes)[Len(nodes)] \in Int
           /\ Waiting(operators, Watermark, Len(operators)) \in Int
           /\ Trees(nodes)[Len(nodes)] >= Waiting(operators, Watermark, Len(operators))
           /\ Waiting(operators, Watermark, Len(operators)) >= 0
           /\ \A x \in 1..Len(operators) : Weight(operators[x]) \in Int /\ Weight(operators[x]) >= 0
           /\ Trees(nodes)[Len(nodes)] >= 0
<1> DEFINE open == Waiting(operators, Watermark, Len(operators))
<1>1. PICK base \in [1..Len(contexts) -> 0..Len(nodes)] : Based(base)
  BY DEF ForestOK, SharesOK
<1>2. /\ Len(contexts) \in 1..Len(contexts) /\ Top(contexts).children \in Nat
      /\ Watermark \in Nat /\ Len(operators) \in Nat /\ Watermark <= Len(operators)
  BY StackTypes DEF StackOK, ScopesOK
<1>3. Trees(nodes)[Len(nodes)] = Trees(nodes)[base[Len(contexts)]] + Top(contexts).children + open
  BY <1>1 DEF Based
<1>4. base[Len(contexts)] \in 0..Len(nodes)
  BY <1>1, <1>2
<1>5. Trees(nodes)[base[Len(contexts)]] \in Int /\ Trees(nodes)[base[Len(contexts)]] >= 0
  <2>1. CASE base[Len(contexts)] = 0
    BY <2>1, TreesInt
  <2>2. CASE base[Len(contexts)] # 0
    <3>1. base[Len(contexts)] \in 1..Len(nodes)
      BY <1>4, <2>2, TreesInt
    <3>2. Grown(base[Len(contexts)])
      BY <3>1 DEF ForestOK, GrownOK
    <3> QED BY <1>4, <3>2, TreesInt DEF Grown
  <2> QED BY <2>1, <2>2
<1>6. \A x \in 1..Len(operators) : Weight(operators[x]) \in Int /\ Weight(operators[x]) >= 0
  BY WeightInt DEF ForestOK, WeightsOK
<1>7. open \in Int /\ open >= 0
  <2>1. open \in Int
    BY <1>2, WeightInt
  <2>2. /\ Watermark + 1 <= Len(operators) => Watermark + 1 \in 1..Len(operators)
        /\ Watermark + 2 <= Len(operators) => Watermark + 2 \in 1..Len(operators)
    BY <1>2
  <2>3. /\ Watermark + 1 <= Len(operators) =>
              Weight(operators[Watermark + 1]) \in Int /\ Weight(operators[Watermark + 1]) >= 0
        /\ Watermark + 2 <= Len(operators) =>
              Weight(operators[Watermark + 2]) \in Int /\ Weight(operators[Watermark + 2]) >= 0
    BY <1>6, <2>2
  <2> QED BY <2>1, <2>3 DEF Waiting
<1>8. Trees(nodes)[Len(nodes)] \in Int
  BY TreesInt
<1> HIDE DEF open
<1>9. Trees(nodes)[Len(nodes)] >= open /\ Trees(nodes)[Len(nodes)] >= 0
  BY <1>2, <1>3, <1>5, <1>7, <1>8
<1> QED BY <1>6, <1>7, <1>8, <1>9 DEF open

-----------------------------------------------------------------------------
(* The handlers                                                              *)

LEMMA WaitingIs ==
    ASSUME NEW ops, NEW w \in Nat,
           Weight(ops[w + 1]) \in Int
    PROVE  /\ Waiting(ops, w, w) = 0
           /\ Waiting(ops, w, w + 1) = Weight(ops[w + 1])
           /\ Waiting(ops, w, w + 2) = Weight(ops[w + 1]) + Weight(ops[w + 2])
           /\ Waiting(ops, w, w + 3) = Weight(ops[w + 1]) + Weight(ops[w + 2])
<1>1. /\ ~(w + 1 <= w) /\ ~(w + 2 <= w) /\ w + 1 <= w + 1 /\ ~(w + 2 <= w + 1)
      /\ w + 1 <= w + 2 /\ w + 2 <= w + 2 /\ w + 1 <= w + 3 /\ w + 2 <= w + 3
  OBVIOUS
<1> QED BY <1>1 DEF Waiting

LEMMA WaitingNone == ASSUME NEW ops, NEW w \in Nat PROVE Waiting(ops, w, w) = 0
<1>1. ~(w + 1 <= w) /\ ~(w + 2 <= w)
  OBVIOUS
<1> QED BY <1>1 DEF Waiting

(* The operators of the open scopes stay, those of the instruction wait for  *)
(* the trees that are complete.                                              *)
Raises(c) ==
    /\ Watermark <= Len(operators')
    /\ \A x \in 1..Watermark : operators'[x] = operators[x]
    /\ \A x \in 1..Len(operators') : x > Watermark =>
          /\ Weight(operators'[x]) >= 0
          /\ operators'[x].type \in Decls => operators'[x].arity >= 1
    /\ pc' = "expression" /\ decl' # "NO" => operators'[Watermark + 2].arity = 0
    /\ Trees(nodes')[Len(nodes')] + Waiting(operators, Watermark, Len(operators)) =
          Trees(nodes)[Len(nodes)] + c + Waiting(operators', Watermark, Len(operators'))

Moves(ns, c) ==
    /\ ns \in Seq(Written) /\ nodes' = nodes \o ns /\ c \in Int
    /\ Planted(ns) /\ Tokened(ns) /\ Buffered /\ Gains(c) /\ Raises(c)

LEMMA ForestMoves ==
    ASSUME BoundsInv, BoundsInv', StackOK, ForestOK, NEW ns, NEW c, Moves(ns, c)
    PROVE  ForestOK'
<1>0. /\ ns \in Seq(Written) /\ nodes' = nodes \o ns /\ c \in Int
      /\ Planted(ns) /\ Tokened(ns) /\ Buffered /\ Gains(c) /\ Raises(c)
  BY DEF Moves
<1>1. Watermark' = Watermark /\ Watermark \in Nat
  BY <1>0, SameTop DEF Gains
<1>2. Watermark <= Len(operators) /\ Len(operators) \in Nat /\ Len(operators') \in Nat
  BY StackTypes, NextStackTypes DEF StackOK, ScopesOK, OperatorTokens
<1>3. Balances(c)
  BY <1>0, <1>1 DEF Balances, Raises
<1>4. WeightsBelow
  BY <1>0 DEF Raises, WeightsBelow
<1>5. ASSUME NEW x \in 1..Len(operators')
      PROVE  /\ Weight(operators'[x]) >= 0
             /\ operators'[x].type \in Decls => operators'[x].arity >= 1
  <2>1. CASE x > Watermark
    BY <1>0, <2>1 DEF Raises
  <2>2. CASE ~(x > Watermark)
    <3>1. x \in 1..Watermark /\ x \in 1..Len(operators)
      BY <1>1, <1>2, <2>2
    <3>2. operators'[x] = operators[x]
      BY <1>0, <3>1 DEF Raises
    <3>3. /\ Weight(operators[x]) >= 0
          /\ operators[x].type \in Decls => operators[x].arity >= 1
      BY <3>1 DEF ForestOK, WeightsOK
    <3> QED BY <3>2, <3>3
  <2> QED BY <2>1, <2>2
<1>6. WeightsOK'
  <2>1. /\ pc' = "expression" /\ decl' # "NO" => operators'[Watermark' + 2].arity = 0
    BY <1>0, <1>1 DEF Raises
  <2>2. /\ \A x \in 1..Len(operators') :
              /\ Weight(operators[x])' >= 0
              /\ operators'[x].type \in Decls => operators'[x].arity >= 1
    BY <1>5 DEF Weight
  <2> QED BY <2>1, <2>2 DEF WeightsOK
<1> QED BY <1>0, <1>3, <1>4, <1>6, ForestStep

LEMMA Balanced ==
    \A t \in Int, t2 \in Int, g \in Int, a \in Int, c \in Int, v \in Int :
        t2 = t + g /\ g + a = c + v => t2 + a = t + c + v
OBVIOUS

(* One operator of the instruction is left. *)
LEMMA RaisesOne ==
    ASSUME BoundsInv, NEW v, Len(operators') = Watermark + 1,
           \A x \in 1..Watermark : operators'[x] = operators[x],
           Weight(operators'[Watermark + 1]) = v, v \in Int, v >= 0,
           operators'[Watermark + 1].type \in Decls => operators'[Watermark + 1].arity >= 1,
           pc' # "expression" \/ decl' = "NO",
           NEW a \in Int, Waiting(operators, Watermark, Len(operators)) = a,
           NEW g \in Int, Trees(nodes')[Len(nodes')] = Trees(nodes)[Len(nodes)] + g,
           NEW c \in Int, g + a = c + v
    PROVE  Raises(c)
<1>1. Watermark \in Nat
  BY StackTypes
<1>2. Waiting(operators', Watermark, Len(operators')) = v
  BY <1>1, WaitingIs
<1>3. \A x \in 1..Len(operators') : x > Watermark => x = Watermark + 1
  BY <1>1
<1>4. Watermark <= Len(operators')
  BY <1>1
<1>5. Trees(nodes')[Len(nodes')] + a = Trees(nodes)[Len(nodes)] + c + v
  <2>1. Trees(nodes)[Len(nodes)] \in Int
    BY TreesInt
  <2>2. Trees(nodes')[Len(nodes')] \in Int
    BY <2>1
  <2> DEFINE t == Trees(nodes)[Len(nodes)]
             t2 == Trees(nodes')[Len(nodes')]
  <2>3. t \in Int /\ t2 \in Int /\ t2 = t + g
    BY <2>1, <2>2
  <2> HIDE DEF t, t2
  <2>4. t2 + a = t + c + v
    BY <2>3, Balanced
  <2> QED BY <2>4 DEF t, t2
<1> QED BY <1>2, <1>3, <1>4, <1>5 DEF Raises

LEMMA GainsNothing == ASSUME BoundsInv, UNCHANGED contexts PROVE Gains(0)
<1>1. SameFrames
  BY FramesSame
<1>2. Len(contexts) \in 1..Len(contexts) /\ \A n \in 1..Len(contexts) : contexts[n].children \in Nat
  <2>1. \A n \in 1..Len(contexts) : contexts[n] \in Frame
    BY DEF BoundsInv, ContextsOK
  <2> QED BY <2>1, StackTypes DEF Frame
<1> QED BY <1>1, <1>2 DEF Gains

LEMMA GainsChildren ==
    ASSUME BoundsInv, NEW n \in Nat, contexts' = Child(contexts, n)
    PROVE  Gains(n)
<1>1. SameFrames
  BY FramesSame
<1>2. contexts \in Seq(Frame) /\ contexts # <<>> /\ Len(contexts) \in 1..Len(contexts)
  BY StackTypes DEF BoundsInv, ContextsOK
<1>3. \A x \in 1..Len(contexts) :
         contexts'[x].children = IF x = Len(contexts) THEN contexts[x].children + n
                                                      ELSE contexts[x].children
  BY <1>2, ChildFacts
<1> QED BY <1>1, <1>2, <1>3 DEF Gains

LEMMA NothingBuffered == ASSUME BoundsInv', pc' \notin {"expression", "aborted"} PROVE Buffered
<1>1. buffer' = <<>>
  BY DEF BoundsInv, PhaseOK
<1> QED BY <1>1 DEF Buffered

(* The scope was opened before. *)
LEMMA ScopeBefore ==
    ASSUME BoundsInv, StackOK
    PROVE  /\ Top(contexts).token \in Nat /\ i \in Nat /\ Top(contexts).token < i
           /\ \A x \in 1..Len(operators) : x > Watermark => operators[x].token > Top(contexts).token
<1>1. Len(contexts) \in 1..Len(contexts) /\ Top(contexts) = contexts[Len(contexts)]
  BY StackTypes
<1> QED BY <1>1, StackTypes DEF StackOK, TokensOK

(* Leaves of tokens that were read now. *)
LEMMA LeavesPlanted ==
    ASSUME BoundsInv, StackOK, ForestOK,
           NEW ns \in Seq(Written), nodes' = nodes \o ns,
           \A k \in 1..Len(ns) : Growth(ns[k]) = 1 /\ ns[k].token >= i /\ ns[k].type # "SCOPE"
    PROVE  /\ Planted(ns)
           /\ Trees(nodes')[Len(nodes')] = Trees(nodes)[Len(nodes)] + Len(ns)
<1>1. Trees(nodes)[Len(nodes)] \in Int /\ Trees(nodes)[Len(nodes)] >= 0
  BY TreesSuffice
<1>2. Len(ns) \in Nat /\ Len(nodes') = Len(nodes) + Len(ns)
  BY TreesAppended
<1>3. \A k \in 0..Len(ns) : Trees(nodes')[Len(nodes) + k] = Trees(nodes)[Len(nodes)] + k
  <2>1. Len(ns) \in 0..Len(ns)
    BY <1>2
  <2> QED BY <2>1, LeavesGrow
<1>4. Trees(nodes')[Len(nodes')] = Trees(nodes)[Len(nodes)] + Len(ns)
  <2>1. Len(ns) \in 0..Len(ns)
    BY <1>2
  <2> QED BY <1>2, <1>3, <2>1
<1>5. Planted(ns)
  <2> SUFFICES ASSUME NEW k \in 1..Len(ns)
               PROVE  /\ ns[k].token > Top(contexts).token /\ ns[k].type # "SCOPE"
                      /\ Trees(nodes')[Len(nodes) + k] >= 0
                      /\ Trees(nodes')[Len(nodes) + k] >= 1 \/ ns[k].type \in ExpressionTypes
    BY DEF Planted
  <2>1. k \in 0..Len(ns) /\ k >= 1
    BY <1>2
  <2>2. Trees(nodes')[Len(nodes) + k] = Trees(nodes)[Len(nodes)] + k
    BY <1>3, <2>1
  <2>3. Trees(nodes')[Len(nodes) + k] >= 1
    BY <1>1, <2>1, <2>2
  <2>4. ns[k].token \in Nat
    <3>1. ns[k] \in Written
      OBVIOUS
    <3> QED BY <3>1, ItemFields DEF Written
  <2>5. ns[k].token >= i /\ ns[k].type # "SCOPE"
    OBVIOUS
  <2>6. Trees(nodes')[Len(nodes) + k] \in Int
    BY <1>1, <2>1, <2>2
  <2> QED BY <2>3, <2>4, <2>5, <2>6, ScopeBefore
<1> QED BY <1>4, <1>5

LEMMA OpsPushedExactly ==
    ASSUME NEW ops, OpsOK(ops), NEW type \in OperatorTypes, NEW p \in Nat, ~Full(ops)
    PROVE  LET r == Pushed(ops, Node(type, 0, p))
           IN  /\ OpsOK(r) /\ Len(ops) \in Nat /\ Len(r) = Len(ops) + 1
               /\ \A x \in 1..Len(ops) : r[x] = ops[x]
               /\ r[Len(ops) + 1] = Node(type, 0, p)
               /\ r[Len(ops) + 1].type = type /\ r[Len(ops) + 1].arity = 0
               /\ r[Len(ops) + 1].token = p
<1> DEFINE x == Node(type, 0, p)
           r == Pushed(ops, x)
<1>1. x \in Operator /\ x.type = type /\ x.token = p /\ x.arity = 0
  BY NodeType DEF Operator
<1>2. ops \in Seq(Operator) /\ Len(ops) <= StackSize /\ Len(ops) \in Nat
  BY DEF OpsOK
<1> HIDE DEF x
<1>3. /\ r \in Seq(Operator) /\ Len(r) <= StackSize /\ Len(r) = Len(ops) + 1 /\ r[Len(ops) + 1] = x
      /\ \A n \in 1..Len(ops) : r[n] = ops[n]
  BY <1>1, <1>2, PushedFacts
<1> HIDE DEF r
<1>4. OpsOK(r)
  BY <1>3 DEF OpsOK
<1> QED BY <1>1, <1>2, <1>3, <1>4 DEF r, x

(* The operator on top has n children more. *)
LEMMA OpsCountedExactly ==
    ASSUME NEW ops, OpsOK(ops), NEW n \in Int, Len(ops) >= 1
    PROVE  LET r == Counted(ops, n)
               l == Len(ops)
           IN  /\ OpsOK(r) /\ l \in Nat /\ Len(r) = l
               /\ \A x \in 1..l : x # l => r[x] = ops[x]
               /\ r[l].type = ops[l].type /\ r[l].token = ops[l].token
               /\ r[l].arity = ops[l].arity + n
<1> DEFINE r == Counted(ops, n)
           l == Len(ops)
<1>1. ops \in Seq(Operator) /\ Len(ops) <= StackSize /\ l \in Nat /\ ops # <<>> /\ l \in 1..l
  BY DEF OpsOK
<1>2. OpsOK(r) /\ Len(r) = l
  BY OpsCounted
<1>3. /\ r[l].type = ops[l].type /\ r[l].token = ops[l].token
      /\ r[l].arity = ops[l].arity + n
  BY <1>1, CountedFacts DEF Operator
<1>4. \A x \in 1..l : x # l => r[x] = ops[x]
  BY <1>1 DEF Counted
<1> QED BY <1>1, <1>2, <1>3, <1>4

LEMMA OpsPushedCountedExactly ==
    ASSUME NEW ops, OpsOK(ops), NEW type \in OperatorTypes, NEW p \in Nat, ~Full(ops), NEW n \in Int
    PROVE  LET r == Counted(Pushed(ops, Node(type, 0, p)), n)
               l == Len(ops) + 1
           IN  /\ OpsOK(r) /\ Len(r) = l
               /\ \A x \in 1..Len(ops) : r[x] = ops[x]
               /\ r[l].type = type /\ r[l].token = p /\ r[l].arity = n
<1> DEFINE q == Pushed(ops, Node(type, 0, p))
           r == Counted(q, n)
           l == Len(q)
<1>1. /\ OpsOK(q) /\ Len(ops) \in Nat /\ l = Len(ops) + 1 /\ l >= 1
      /\ \A x \in 1..Len(ops) : q[x] = ops[x]
      /\ q[Len(ops) + 1].type = type /\ q[Len(ops) + 1].arity = 0
      /\ q[Len(ops) + 1].token = p
  BY OpsPushedExactly
<1> HIDE DEF q
<1>2. /\ OpsOK(r) /\ Len(r) = l
      /\ \A x \in 1..l : x # l => r[x] = q[x]
      /\ r[l].type = q[l].type /\ r[l].token = q[l].token
      /\ r[l].arity = q[l].arity + n
  BY <1>1, OpsCountedExactly
<1> HIDE DEF r, l
<1>3. \A x \in 1..Len(ops) : r[x] = ops[x]
  BY <1>1, <1>2
<1>4. r[l].type = type /\ r[l].token = p /\ r[l].arity = n
  BY <1>1, <1>2
<1>5. OpsOK(r) /\ Len(r) = Len(ops) + 1 /\ l = Len(ops) + 1
  BY <1>1, <1>2
<1> QED BY <1>3, <1>4, <1>5 DEF r, q

LEMMA LeafGrowth ==
    ASSUME NEW type \in NodeTypes \ (ExpressionTypes \cup {"EXP", "SCOPE"}), NEW p \in Nat
    PROVE  /\ Leaf(type, p) \in Written /\ Growth(Leaf(type, p)) = 1
           /\ Leaf(type, p).token = p /\ Leaf(type, p).type = type /\ type # "SCOPE"
<1>1. Leaf(type, p) \in Written /\ Leaf(type, p).type = type /\ Leaf(type, p).token = p
      /\ Leaf(type, p).arity = 0
  BY LeafType
<1> QED BY <1>1 DEF Growth

LEMMA LeafTypes ==
    {"Q", "MOD", "ID", "TYPE_VAR", "TYPE_PAL_VOID", "PARAM"} \subseteq
        NodeTypes \ (ExpressionTypes \cup {"EXP", "SCOPE"})
BY DEF NodeTypes, ExpressionTypes

LEMMA ForestDeclare ==
    ASSUME BoundsInv, BoundsInv', StackOK, ForestOK, Declare, ~dropped', pc' \notin Failed
    PROVE  ForestOK'
<1> DEFINE ns == <<Leaf("ID", i + 1)>>
<1>1. /\ pc = "instruction" /\ At(i) = "COM" /\ ~Full(operators)
      /\ operators' = Counted(Pushed(operators, Node(Declared, 0, i)), 1)
      /\ nodes' = nodes \o ns /\ pc' = "type" /\ i' = i + 2
      /\ UNCHANGED <<contexts, buffer>>
  BY DEF Declare, Reading, Write, Failed
<1>2. Len(operators) = Watermark /\ Watermark \in Nat /\ i \in Nat
  BY <1>1, StackTypes DEF StackOK, OwnedOK, Initializing
<1>3. /\ Len(operators') = Watermark + 1 /\ \A x \in 1..Watermark : operators'[x] = operators[x]
      /\ operators'[Watermark + 1].type \in Decls /\ operators'[Watermark + 1].arity = 1
      /\ Weight(operators'[Watermark + 1]) = 1
  <2>1. Declared \in OperatorTypes /\ OpsOK(operators) /\ 1 \in Int
    BY Kept1, DeclaredType DEF OperatorTypes
  <2>2. /\ Len(operators') = Watermark + 1 /\ \A x \in 1..Watermark : operators'[x] = operators[x]
        /\ operators'[Watermark + 1].type = Declared /\ operators'[Watermark + 1].arity = 1
    <3>1. ~Full(operators) /\ i \in Nat /\ Len(operators) = Watermark
          /\ operators' = Counted(Pushed(operators, Node(Declared, 0, i)), 1)
      BY <1>1, <1>2
    <3>2. /\ Len(operators') = Len(operators) + 1
          /\ \A x \in 1..Len(operators) : operators'[x] = operators[x]
          /\ operators'[Len(operators) + 1].type = Declared
          /\ operators'[Len(operators) + 1].arity = 1
      BY <2>1, <3>1, OpsPushedCountedExactly
    <3>3. Len(operators) = Watermark
      BY <1>2
    <3> QED BY <3>2, <3>3
  <2> QED BY <2>2, DeclaredType DEF Weight, Decls
<1>4. /\ ns \in Seq(Written) /\ Len(ns) = 1
      /\ \A k \in 1..Len(ns) : /\ Growth(ns[k]) = 1 /\ ns[k].token >= i /\ ns[k].type # "SCOPE"
                               /\ ns[k].token = i + 1 /\ ns[k].type = "ID"
  <2> DEFINE leaf == Leaf("ID", i + 1)
  <2>1. /\ leaf \in Written /\ Growth(leaf) = 1 /\ leaf.token = i + 1 /\ leaf.token >= i
        /\ leaf.type = "ID"
    BY <1>2, LeafGrowth, LeafTypes
  <2>2. ns = <<leaf>>
    OBVIOUS
  <2> HIDE DEF leaf, ns
  <2> QED BY <2>1, <2>2
<1> HIDE DEF ns
<1>5. Planted(ns) /\ Trees(nodes')[Len(nodes')] = Trees(nodes)[Len(nodes)] + 1
  BY <1>1, <1>4, LeavesPlanted
<1>6. Tokened(ns)
  BY <1>1, <1>2, <1>4 DEF Tokened, Calm
<1>7. Raises(0)
  <2>1. Waiting(operators, Watermark, Len(operators)) = 0
    BY <1>2, WaitingNone
  <2>2. 1 \in Int /\ 1 >= 0 /\ 0 \in Int /\ 1 + 0 = 0 + 1 /\ pc' # "expression"
    BY <1>1
  <2> QED BY <1>3, <1>5, <2>1, <2>2, RaisesOne
<1>8. Gains(0) /\ Buffered
  BY <1>1, GainsNothing, NothingBuffered
<1>9. Moves(ns, 0)
  BY <1>1, <1>4, <1>5, <1>6, <1>7, <1>8 DEF Moves
<1> QED BY <1>9, ForestMoves

(* A type, or a parameter with its type. *)
LEMMA ForestTypeVar ==
    ASSUME BoundsInv, BoundsInv', StackOK, ForestOK, TypeVar, pc' \notin Failed
    PROVE  ForestOK'
<1> DEFINE ns == <<Leaf("TYPE_VAR", i)>>
           w == Watermark + 1
<1>1. /\ pc = "type" /\ operators' = Counted(operators, 1)
      /\ nodes' = nodes \o ns /\ pc' = "typed" /\ i' = i + 1
      /\ UNCHANGED <<contexts, buffer, decl>>
  BY DEF TypeVar, Reading, Write, Failed
<1>2. /\ Len(operators) = w /\ Watermark \in Nat /\ i \in Nat /\ w \in 1..w
      /\ operators[w].type = decl /\ decl \in Decls
  BY <1>1, StackTypes DEF StackOK, OwnedOK, BoundsInv, PhaseOK
<1>3. /\ Len(operators') = w /\ \A x \in 1..Watermark : operators'[x] = operators[x]
      /\ operators'[w].type = operators[w].type
      /\ operators'[w].arity = operators[w].arity + 1
  <2>1. /\ Len(operators') = w /\ \A x \in 1..w : x # w => operators'[x] = operators[x]
        /\ operators'[w].type = operators[w].type
        /\ operators'[w].arity = operators[w].arity + 1
    <3>1. OpsOK(operators) /\ Len(operators) >= 1
      BY <1>2, Kept1
    <3>2. LET l == Len(operators)
          IN  /\ Len(operators') = l /\ \A x \in 1..l : x # l => operators'[x] = operators[x]
              /\ operators'[l].type = operators[l].type
              /\ operators'[l].arity = operators[l].arity + 1
      BY <1>1, <3>1, OpsCountedExactly
    <3> HIDE DEF w
    <3> QED BY <1>2, <3>2
  <2>2. \A x \in 1..Watermark : x \in 1..w /\ x # w
    BY <1>2
  <2> HIDE DEF w
  <2> QED BY <2>1, <2>2
<1>4. /\ Weight(operators[w]) = operators[w].arity /\ operators[w].arity \in Int
      /\ operators[w].arity >= 1
      /\ Weight(operators'[w]) = operators[w].arity + 1
  <2>1. operators[w].arity \in Int
    BY <1>2, WeightInt
  <2>2. operators[w].arity >= 1
    BY <1>2 DEF ForestOK, WeightsOK
  <2> HIDE DEF w
  <2> QED BY <1>2, <1>3, <2>1, <2>2 DEF Weight, Decls
<1>5. /\ ns \in Seq(Written) /\ Len(ns) = 1
      /\ \A k \in 1..Len(ns) : /\ Growth(ns[k]) = 1 /\ ns[k].token >= i /\ ns[k].type # "SCOPE"
                               /\ ns[k].token = i
  <2> DEFINE leaf == Leaf("TYPE_VAR", i)
  <2>1. /\ leaf \in Written /\ Growth(leaf) = 1 /\ leaf.token = i /\ leaf.type # "SCOPE"
    BY <1>2, LeafGrowth, LeafTypes
  <2>2. ns = <<leaf>>
    OBVIOUS
  <2> HIDE DEF leaf, ns
  <2> QED BY <1>2, <2>1, <2>2
<1> HIDE DEF ns
<1>6. Planted(ns) /\ Trees(nodes')[Len(nodes')] = Trees(nodes)[Len(nodes)] + 1
  BY <1>1, <1>5, LeavesPlanted
<1>7. Tokened(ns)
  BY <1>1, <1>2, <1>5 DEF Tokened, Calm
<1>8. Raises(0)
  <2>1. Waiting(operators, Watermark, Len(operators)) = operators[w].arity
    BY <1>2, <1>4, WaitingIs
  <2>2. operators[w].arity + 1 \in Int /\ operators[w].arity + 1 >= 1
        /\ 1 + operators[w].arity = 0 + (operators[w].arity + 1)
    BY <1>4
  <2> QED BY <1>1, <1>3, <1>4, <1>6, <2>1, <2>2, RaisesOne
<1>9. Gains(0) /\ Buffered
  BY <1>1, GainsNothing, NothingBuffered
<1>10. Moves(ns, 0)
  BY <1>1, <1>5, <1>6, <1>7, <1>8, <1>9 DEF Moves
<1> QED BY <1>10, ForestMoves

(* None is left. *)
LEMMA RaisesNone ==
    ASSUME BoundsInv, Len(operators') = Watermark,
           \A x \in 1..Watermark : operators'[x] = operators[x],
           pc' # "expression",
           NEW a \in Int, Waiting(operators, Watermark, Len(operators)) = a,
           NEW g \in Int, Trees(nodes')[Len(nodes')] = Trees(nodes)[Len(nodes)] + g,
           NEW c \in Int, g + a = c
    PROVE  Raises(c)
<1>1. Watermark \in Nat
  BY StackTypes
<1>2. Waiting(operators', Watermark, Len(operators')) = 0
  BY <1>1, WaitingNone
<1>3. \A x \in 1..Len(operators') : ~(x > Watermark)
  BY <1>1
<1>4. Watermark <= Len(operators')
  BY <1>1
<1>5. Trees(nodes')[Len(nodes')] + a = Trees(nodes)[Len(nodes)] + c + 0
  <2> DEFINE t == Trees(nodes)[Len(nodes)]
             t2 == Trees(nodes')[Len(nodes')]
  <2>1. t \in Int
    BY TreesInt
  <2>2. t2 \in Int /\ t2 = t + g /\ g + a = c + 0
    BY <2>1
  <2> HIDE DEF t, t2
  <2>3. t2 + a = t + c + 0
    BY <2>1, <2>2, Balanced
  <2> QED BY <2>3 DEF t, t2
<1> QED BY <1>2, <1>3, <1>4, <1>5 DEF Raises

(* Two are left, or three with the EXP on top. *)
LEMMA RaisesTwo ==
    ASSUME BoundsInv, NEW k \in {2, 3}, Len(operators') = Watermark + k,
           \A x \in 1..Watermark : operators'[x] = operators[x],
           NEW v1 \in Int, NEW v2 \in Int, v1 >= 0, v2 >= 0,
           Weight(operators'[Watermark + 1]) = v1, Weight(operators'[Watermark + 2]) = v2,
           operators'[Watermark + 1].type \in Decls => operators'[Watermark + 1].arity >= 1,
           operators'[Watermark + 2].type \notin Decls,
           k = 3 => operators'[Watermark + 3].type = "EXP",
           pc' = "expression" => operators'[Watermark + 2].arity = 0,
           NEW a \in Int, Waiting(operators, Watermark, Len(operators)) = a,
           NEW g \in Int, Trees(nodes')[Len(nodes')] = Trees(nodes)[Len(nodes)] + g,
           NEW c \in Int, g + a = c + (v1 + v2)
    PROVE  Raises(c)
<1>1. Watermark \in Nat
  BY StackTypes
<1>2. Waiting(operators', Watermark, Len(operators')) = v1 + v2
  <2>1. /\ Waiting(operators', Watermark, Watermark + 2) = v1 + v2
        /\ Waiting(operators', Watermark, Watermark + 3) = v1 + v2
    BY <1>1, WaitingIs
  <2> QED BY <2>1
<1>3. \A x \in 1..Len(operators') :
         x > Watermark => \/ x = Watermark + 1 \/ x = Watermark + 2
                          \/ k = 3 /\ x = Watermark + 3
  BY <1>1
<1>4. Watermark <= Len(operators')
  BY <1>1
<1>5. \A x \in 1..Len(operators') : x > Watermark =>
          /\ Weight(operators'[x]) >= 0
          /\ operators'[x].type \in Decls => operators'[x].arity >= 1
  <2> SUFFICES ASSUME NEW x \in 1..Len(operators'), x > Watermark
               PROVE  /\ Weight(operators'[x]) >= 0
                      /\ operators'[x].type \in Decls => operators'[x].arity >= 1
    OBVIOUS
  <2>1. CASE x = Watermark + 1 \/ x = Watermark + 2
    BY <2>1
  <2>2. CASE k = 3 /\ x = Watermark + 3
    <3>1. operators'[x].type = "EXP"
      BY <2>2
    <3> QED BY <3>1 DEF Weight, Decls
  <2> QED BY <1>3, <2>1, <2>2
<1>6. Trees(nodes')[Len(nodes')] + a = Trees(nodes)[Len(nodes)] + c + (v1 + v2)
  <2> DEFINE t == Trees(nodes)[Len(nodes)]
             t2 == Trees(nodes')[Len(nodes')]
  <2>1. t \in Int
    BY TreesInt
  <2>2. t2 \in Int /\ t2 = t + g /\ v1 + v2 \in Int /\ g + a = c + (v1 + v2)
    BY <2>1
  <2> HIDE DEF t, t2
  <2>3. t2 + a = t + c + (v1 + v2)
    BY <2>1, <2>2, Balanced
  <2> QED BY <2>3 DEF t, t2
<1> QED BY <1>2, <1>4, <1>5, <1>6 DEF Raises

(* All stay. *)
LEMMA RaisesUnchanged ==
    ASSUME BoundsInv, StackOK, ForestOK, UNCHANGED operators,
           pc' = "expression" /\ decl' # "NO" => pc = "expression" /\ decl # "NO",
           NEW c \in Int, Trees(nodes')[Len(nodes')] = Trees(nodes)[Len(nodes)] + c
    PROVE  Raises(c)
<1> DEFINE t == Trees(nodes)[Len(nodes)]
           t2 == Trees(nodes')[Len(nodes')]
           open == Waiting(operators, Watermark, Len(operators))
<1>1. Watermark \in Nat /\ Watermark <= Len(operators)
  BY StackTypes DEF StackOK, ScopesOK
<1>2. t \in Int /\ open \in Int
  BY TreesSuffice
<1>3. t2 + open = t + c + open
  <2>1. t2 = t + c
    OBVIOUS
  <2> HIDE DEF t, t2, open
  <2> QED BY <1>2, <2>1
<1>4. \A x \in 1..Len(operators) :
          /\ Weight(operators[x]) >= 0
          /\ operators[x].type \in Decls => operators[x].arity >= 1
  BY DEF ForestOK, WeightsOK
<1>5. pc' = "expression" /\ decl' # "NO" => operators[Watermark + 2].arity = 0
  BY DEF ForestOK, WeightsOK
<1> QED BY <1>1, <1>3, <1>4, <1>5 DEF Raises

(* Nothing is written. *)
LEMMA NothingWritten ==
    ASSUME BoundsInv, UNCHANGED nodes
    PROVE  /\ <<>> \in Seq(Written) /\ nodes' = nodes \o <<>> /\ Planted(<<>>)
           /\ Trees(nodes')[Len(nodes')] = Trees(nodes)[Len(nodes)] + 0
<1>1. nodes \in Seq(Written)
  BY DEF BoundsInv, NodesOK
<1>2. Trees(nodes)[Len(nodes)] \in Int
  BY TreesInt
<1> QED BY <1>1, <1>2 DEF Planted

LEMMA ForestEndType ==
    ASSUME BoundsInv, BoundsInv', StackOK, ForestOK, EndType \/ InitializeNothing,
           pc' \notin Failed
    PROVE  ForestOK'
<1>1. /\ pc \in Calm /\ pc' \in {"init", "instruction", "terminator"}
      /\ UNCHANGED <<input, i, nodes, contexts, operators, buffer, decl, dropped>>
  BY DEF EndType, InitializeNothing, Reading, Calm, AfterDeclaration
<1>2. Raises(0)
  BY <1>1, NothingWritten, RaisesUnchanged
<1>3. Tokened(<<>>)
  BY <1>1, StackTypes DEF Tokened
<1>4. Gains(0) /\ Buffered
  BY <1>1, GainsNothing, NothingBuffered
<1>5. Moves(<<>>, 0)
  BY <1>1, <1>2, <1>3, <1>4, NothingWritten DEF Moves
<1> QED BY <1>5, ForestMoves

LEMMA ForestParameter ==
    ASSUME BoundsInv, BoundsInv', StackOK, ForestOK, Parameter, pc' \notin Failed
    PROVE  ForestOK'
<1> DEFINE ns == <<Leaf("PARAM", i), Leaf("TYPE_VAR", i + 1)>>
           n1 == Weight(operators[Watermark + 1])
           n2 == operators[Watermark + 2].arity
<1>1. /\ pc = "parameter" /\ operators' = Counted(operators, 2)
      /\ nodes' = nodes \o ns /\ pc' \in {"parameter", "close"} /\ i' \in {i + 2, i + 3}
      /\ UNCHANGED <<contexts, buffer, decl>>
  BY DEF Parameter, Reading, Write, Failed
<1>2. /\ Len(operators) = Watermark + 2 /\ Watermark \in Nat /\ i \in Nat
      /\ operators[Watermark + 2].type = "GRP_R_PARES"
      /\ operators[Watermark + 1].type \in Decls
  BY <1>1, StackTypes DEF StackOK, OwnedOK, BoundsInv, PhaseOK
<1>3. /\ Len(operators') = Watermark + 2
      /\ \A x \in 1..Watermark : operators'[x] = operators[x]
      /\ operators'[Watermark + 1] = operators[Watermark + 1]
      /\ operators'[Watermark + 2].type = "GRP_R_PARES"
      /\ operators'[Watermark + 2].arity = n2 + 2
  <2>1. LET l == Len(operators)
        IN  /\ Len(operators') = l /\ \A x \in 1..l : x # l => operators'[x] = operators[x]
            /\ operators'[l].type = operators[l].type
            /\ operators'[l].arity = operators[l].arity + 2
    <3>1. OpsOK(operators) /\ Len(operators) >= 1
      BY <1>2, Kept1
    <3> QED BY <1>1, <3>1, OpsCountedExactly
  <2>2. \A x \in 1..(Watermark + 1) : x \in 1..(Watermark + 2) /\ x # Watermark + 2
    BY <1>2
  <2>3. \A x \in 1..(Watermark + 1) : operators'[x] = operators[x]
    BY <1>2, <2>1, <2>2
  <2>4. Watermark + 1 \in 1..(Watermark + 1) /\ \A x \in 1..Watermark : x \in 1..(Watermark + 1)
    BY <1>2
  <2> QED BY <1>2, <2>1, <2>3, <2>4
<1>4. /\ n1 \in Int /\ n1 >= 0 /\ n2 \in Int /\ n2 >= 0
      /\ Weight(operators[Watermark + 2]) = n2 /\ Weight(operators'[Watermark + 2]) = n2 + 2
      /\ operators[Watermark + 1].arity >= 1
  <2>1. Watermark + 1 \in 1..Len(operators) /\ Watermark + 2 \in 1..Len(operators)
    BY <1>2
  <2>2. Weight(operators[Watermark + 2]) = n2 /\ Weight(operators'[Watermark + 2]) = n2 + 2
    BY <1>2, <1>3 DEF Weight
  <2>3. operators[Watermark + 1].arity >= 1
    BY <1>2, <2>1 DEF ForestOK, WeightsOK
  <2> HIDE DEF n1, n2
  <2> QED BY <2>1, <2>2, <2>3, TreesSuffice DEF n1
<1>5. /\ ns \in Seq(Written) /\ Len(ns) = 2
      /\ \A k \in 1..Len(ns) : /\ Growth(ns[k]) = 1 /\ ns[k].token >= i /\ ns[k].type # "SCOPE"
                               /\ ns[k].token <= i + 1 /\ ns[k].token \in Nat
  <2> DEFINE leaf1 == Leaf("PARAM", i)
             leaf2 == Leaf("TYPE_VAR", i + 1)
  <2>1. /\ leaf1 \in Written /\ Growth(leaf1) = 1 /\ leaf1.token = i /\ leaf1.type # "SCOPE"
        /\ leaf2 \in Written /\ Growth(leaf2) = 1 /\ leaf2.token = i + 1 /\ leaf2.type # "SCOPE"
    BY <1>2, LeafGrowth, LeafTypes
  <2>2. ns = <<leaf1, leaf2>>
    OBVIOUS
  <2> HIDE DEF leaf1, leaf2, ns
  <2>3. ns \in Seq(Written) /\ Len(ns) = 2 /\ ns[1] = leaf1 /\ ns[2] = leaf2
    BY <2>1, <2>2
  <2>4. \A k \in 1..Len(ns) : k = 1 \/ k = 2
    BY <2>3
  <2> QED BY <1>2, <2>1, <2>3, <2>4
<1> HIDE DEF ns
<1>6. Planted(ns) /\ Trees(nodes')[Len(nodes')] = Trees(nodes)[Len(nodes)] + 2
  BY <1>1, <1>5, LeavesPlanted
<1>7. Tokened(ns)
  <2>1. \A k \in 1..Len(ns) : ns[k].token < i' /\ ns[k].token <= i'
    BY <1>1, <1>2, <1>5
  <2> QED BY <1>1, <1>2, <2>1 DEF Tokened
<1>8. Raises(0)
  <2>1. Waiting(operators, Watermark, Len(operators)) = n1 + n2
    BY <1>2, <1>4, WaitingIs
  <2>2. /\ n1 + n2 \in Int /\ n2 + 2 \in Int /\ n2 + 2 >= 0 /\ 2 \in {2, 3}
        /\ 2 + (n1 + n2) = 0 + (n1 + (n2 + 2))
    BY <1>4
  <2>3. operators'[Watermark + 2].type \notin Decls /\ Weight(operators'[Watermark + 1]) = n1
    BY <1>3 DEF Decls
  <2>4. /\ Len(operators') = Watermark + 2
        /\ \A x \in 1..Watermark : operators'[x] = operators[x]
        /\ n1 \in Int /\ n2 + 2 \in Int /\ n1 >= 0 /\ n2 + 2 >= 0
        /\ Weight(operators'[Watermark + 1]) = n1 /\ Weight(operators'[Watermark + 2]) = n2 + 2
        /\ operators'[Watermark + 1].type \in Decls => operators'[Watermark + 1].arity >= 1
        /\ operators'[Watermark + 2].type \notin Decls
        /\ pc' # "expression"
    BY <1>1, <1>3, <1>4, <2>2, <2>3
  <2>5. Trees(nodes')[Len(nodes')] = Trees(nodes)[Len(nodes)] + 2 /\ 2 \in Int /\ 0 \in Int
    BY <1>6
  <2> HIDE DEF n1, n2
  <2> QED BY <2>1, <2>2, <2>4, <2>5, RaisesTwo
<1>9. Gains(0) /\ Buffered
  BY <1>1, GainsNothing, NothingBuffered
<1>10. Moves(ns, 0)
  BY <1>1, <1>5, <1>6, <1>7, <1>8, <1>9 DEF Moves
<1> QED BY <1>10, ForestMoves

LEMMA ForestImportModules ==
    ASSUME BoundsInv, BoundsInv', StackOK, ForestOK, ImportModules, ~dropped', pc' \notin Failed
    PROVE  ForestOK'
<1>1. /\ pc = "instruction" /\ At(i) = "MOD" /\ ~Full(operators)
      /\ UNCHANGED <<contexts, buffer, decl>>
  BY DEF ImportModules, Reading
<1>2. PICK last \in i..Len(tokens) :
         /\ operators' = Counted(Pushed(operators, Node("GRP_MOD", 0, i)), last - i)
         /\ nodes' = nodes \o [x \in 1..(last - i) |-> Leaf("MOD", i + x)]
         /\ pc' = "terminator" /\ i' = last + 1
  BY DEF ImportModules, Write, Failed
<1> DEFINE n == last - i
           ns == [x \in 1..n |-> Leaf("MOD", i + x)]
<1>3. /\ Len(operators) = Watermark /\ Watermark \in Nat /\ i \in Nat /\ n \in Nat
      /\ last \in Nat /\ i' = i + n + 1
  <2>1. Len(operators) = Watermark
    BY <1>1 DEF StackOK, OwnedOK, Initializing
  <2> QED BY <1>2, <2>1, StackTypes
<1>4. /\ ns \in Seq(Written) /\ Len(ns) = n
      /\ \A k \in 1..n : /\ Growth(ns[k]) = 1 /\ ns[k].token = i + k /\ ns[k].type # "SCOPE"
  <2>1. "MOD" \in NodeTypes \ (ExpressionTypes \cup {"EXP", "SCOPE"}) /\ "MOD" \in NodeTypes
    BY LeafTypes DEF NodeTypes
  <2>2. ns \in Seq(Written) /\ Len(ns) = n
    BY <1>3, <2>1, Leaves
  <2>3. ASSUME NEW k \in 1..n
        PROVE  Growth(ns[k]) = 1 /\ ns[k].token = i + k /\ ns[k].type # "SCOPE"
    <3>1. i + k \in Nat /\ ns[k] = Leaf("MOD", i + k)
      BY <1>3
    <3> HIDE DEF ns
    <3> QED BY <2>1, <3>1, LeafGrowth
  <2> HIDE DEF ns
  <2> QED BY <2>2, <2>3
<1>5. nodes' = nodes \o ns
  BY <1>2
<1>6. operators' = Counted(Pushed(operators, Node("GRP_MOD", 0, i)), n)
  BY <1>2
<1> HIDE DEF n, ns
<1>7. /\ Len(operators') = Watermark + 1 /\ \A x \in 1..Watermark : operators'[x] = operators[x]
      /\ operators'[Watermark + 1].type = "GRP_MOD" /\ operators'[Watermark + 1].arity = n
  <2>1. "GRP_MOD" \in OperatorTypes /\ OpsOK(operators) /\ n \in Int
    BY <1>3, Kept1 DEF OperatorTypes
  <2> QED BY <1>1, <1>3, <1>6, <2>1, OpsPushedCountedExactly
<1>8. Weight(operators'[Watermark + 1]) = n
  BY <1>7 DEF Weight
<1>9. Planted(ns) /\ Trees(nodes')[Len(nodes')] = Trees(nodes)[Len(nodes)] + n
  <2>1. \A k \in 1..Len(ns) : Growth(ns[k]) = 1 /\ ns[k].token >= i /\ ns[k].type # "SCOPE"
    BY <1>3, <1>4
  <2> QED BY <1>4, <1>5, <2>1, LeavesPlanted
<1>10. Tokened(ns)
  <2>1. \A k \in 1..Len(ns) : ns[k].token <= i'
    BY <1>3, <1>4
  <2> QED BY <1>2, <1>3, <2>1 DEF Tokened, Calm
<1>11. Raises(0)
  <2>1. Waiting(operators, Watermark, Len(operators)) = 0
    BY <1>3, WaitingNone
  <2>2. n \in Int /\ n >= 0 /\ n + 0 = 0 + n /\ 0 \in Int
        /\ operators'[Watermark + 1].type \notin Decls /\ pc' # "expression"
    BY <1>2, <1>3, <1>7 DEF Decls
  <2> QED BY <1>7, <1>8, <1>9, <2>1, <2>2, RaisesOne
<1>12. Gains(0) /\ Buffered
  BY <1>1, <1>2, GainsNothing, NothingBuffered
<1>13. Moves(ns, 0)
  BY <1>4, <1>5, <1>9, <1>10, <1>11, <1>12 DEF Moves
<1> QED BY <1>13, ForestMoves

LEMMA ForestGroupQualifiers ==
    ASSUME BoundsInv, BoundsInv', StackOK, ForestOK, GroupQualifiers, ~dropped', pc' \notin Failed
    PROVE  ForestOK'
<1>1. PICK last \in i..Len(tokens) :
         LET ops == Counted(Pushed(operators, Node("GRP_Q", 0, i)), last - i + 1)
         IN  /\ nodes' = nodes \o ([x \in 1..(last - i + 1) |-> Leaf("Q", i + x - 1)] \o <<Top(ops)>>)
             /\ operators' = Rest(ops) /\ pc' = "instruction" /\ i' = last + 1
             /\ \A p \in i..last : At(p) = "Q"
  BY DEF GroupQualifiers, Write, Failed
<1>2. /\ pc = "instruction" /\ ~Full(operators) /\ contexts' = Child(contexts, 1)
      /\ UNCHANGED <<buffer, decl>>
  BY DEF GroupQualifiers, Reading
<1> DEFINE n == last - i + 1
           p0 == i - 1
           ops == Counted(Pushed(operators, Node("GRP_Q", 0, i)), n)
           leaves == [x \in 1..n |-> Leaf("Q", p0 + x)]
           ns == leaves \o <<Top(ops)>>
<1>3. /\ i \in Nat /\ n \in Nat /\ n >= 1 /\ p0 \in Nat /\ i' = i + n /\ p0 + 1 = i
      /\ Watermark \in Nat /\ last \in Nat /\ i' \in Nat
  BY <1>1, StackTypes
<1>4. Len(operators) = Watermark
  <2>1. At(i) = "Q"
    BY <1>1, <1>3
  <2> QED BY <1>2, <2>1 DEF StackOK, OwnedOK, Initializing
<1>5. nodes' = nodes \o ns /\ operators' = Rest(ops)
  <2>1. \A x \in 1..n : i + x - 1 = p0 + x
    BY <1>3
  <2>2. [x \in 1..n |-> Leaf("Q", i + x - 1)] = leaves
    BY <2>1
  <2> QED BY <1>1, <2>2
<1>6. /\ OpsOK(ops) /\ Len(ops) = Watermark + 1
      /\ \A x \in 1..Watermark : ops[x] = operators[x]
      /\ ops[Watermark + 1].type = "GRP_Q" /\ ops[Watermark + 1].arity = n
      /\ ops[Watermark + 1].token = i
  <2>1. "GRP_Q" \in OperatorTypes /\ OpsOK(operators) /\ n \in Int
    BY <1>3, Kept1 DEF OperatorTypes
  <2>2. ops = Counted(Pushed(operators, Node("GRP_Q", 0, i)), n)
    OBVIOUS
  <2>3. ~Full(operators) /\ i \in Nat
    BY <1>2, <1>3
  <2> HIDE DEF n, ops
  <2>4. /\ OpsOK(ops) /\ Len(ops) = Len(operators) + 1
        /\ \A x \in 1..Len(operators) : ops[x] = operators[x]
        /\ ops[Len(operators) + 1].type = "GRP_Q" /\ ops[Len(operators) + 1].arity = n
        /\ ops[Len(operators) + 1].token = i
    BY <2>1, <2>2, <2>3, OpsPushedCountedExactly
  <2> QED BY <1>4, <2>4
<1> HIDE DEF ops
<1>7. /\ Top(ops) \in Written /\ Growth(Top(ops)) = 1 - n
      /\ Top(ops).token = i /\ Top(ops).type = "GRP_Q"
  <2>1. Top(ops) = ops[Watermark + 1] /\ Len(ops) > 0
    BY <1>3, <1>6 DEF Top
  <2>2. Top(ops) \in Written
    BY <1>6, <2>1, OpsRest
  <2> HIDE DEF n
  <2> QED BY <1>6, <2>1, <2>2 DEF Growth, ExpressionTypes
<1>8. /\ Len(operators') = Watermark /\ \A x \in 1..Watermark : operators'[x] = operators[x]
  <2>1. ops \in Seq(Operator) /\ ops # <<>>
    BY <1>3, <1>6 DEF OpsOK
  <2>2. Len(operators') = Watermark /\ \A x \in 1..Len(operators') : operators'[x] = ops[x]
    <3>1. Len(Rest(ops)) = Len(ops) - 1 /\ \A x \in 1..Len(Rest(ops)) : Rest(ops)[x] = ops[x]
      BY <2>1, RestFacts
    <3> QED BY <1>3, <1>5, <1>6, <3>1
  <2> QED BY <1>6, <2>2
<1>9. /\ leaves \in Seq(Written) /\ Len(leaves) = n
      /\ \A k \in 1..n : /\ Growth(leaves[k]) = 1 /\ leaves[k].token = p0 + k
                         /\ leaves[k].type # "SCOPE"
  <2>1. "Q" \in NodeTypes \ (ExpressionTypes \cup {"EXP", "SCOPE"}) /\ "Q" \in NodeTypes
    BY LeafTypes DEF NodeTypes
  <2> HIDE DEF n, p0
  <2>2. leaves \in Seq(Written) /\ Len(leaves) = n
    BY <1>3, <2>1, Leaves
  <2>3. ASSUME NEW k \in 1..n
        PROVE  Growth(leaves[k]) = 1 /\ leaves[k].token = p0 + k /\ leaves[k].type # "SCOPE"
    <3>1. p0 + k \in Nat /\ leaves[k] = Leaf("Q", p0 + k)
      BY <1>3
    <3> HIDE DEF leaves
    <3> QED BY <2>1, <3>1, LeafGrowth
  <2> HIDE DEF leaves
  <2> QED BY <2>2, <2>3
<1>10. /\ ns \in Seq(Written) /\ Len(ns) = n + 1
       /\ \A k \in 1..n : /\ Growth(ns[k]) = 1 /\ ns[k].token = p0 + k /\ ns[k].type # "SCOPE"
       /\ ns[n + 1] = Top(ops)
  <2> DEFINE one == <<Top(ops)>>
  <2>1. one \in Seq(Written) /\ Len(one) = 1 /\ one[1] = Top(ops)
    BY <1>7
  <2> HIDE DEF one, leaves, n, p0
  <2>2. /\ leaves \o one \in Seq(Written) /\ Len(leaves \o one) = n + 1
        /\ \A k \in 1..n : (leaves \o one)[k] = leaves[k]
        /\ \A k \in 1..1 : (leaves \o one)[n + k] = one[k]
    <3>1. leaves \in Seq(Written) /\ Len(leaves) = n
      BY <1>9
    <3> DEFINE all == leaves \o one
    <3>2. /\ all \in Seq(Written) /\ Len(all) = Len(leaves) + Len(one)
          /\ \A k \in 1..Len(leaves) : all[k] = leaves[k]
          /\ \A k \in 1..Len(one) : all[Len(leaves) + k] = one[k]
      BY <2>1, <3>1, Concatenated
    <3> HIDE DEF all
    <3>3. /\ all \in Seq(Written) /\ Len(all) = n + 1
          /\ \A k \in 1..n : all[k] = leaves[k]
          /\ \A k \in 1..1 : all[n + k] = one[k]
      BY <2>1, <3>1, <3>2
    <3> QED BY <3>3 DEF all
  <2>3. (leaves \o one)[n + 1] = Top(ops)
    BY <2>1, <2>2
  <2> QED BY <1>9, <2>2, <2>3 DEF one
<1> HIDE DEF ns, leaves
<1> DEFINE t(k) == Trees(nodes')[Len(nodes) + k]
           T == Trees(nodes)[Len(nodes)]
<1>11. /\ T \in Int /\ T >= 0 /\ \A k \in 0..n : t(k) = T + k
       /\ t(n + 1) = T + 1 /\ t(n + 1) = Trees(nodes')[Len(nodes')]
  <2>1. n \in 0..Len(ns) /\ Len(nodes) \in Nat
    <3>1. n \in Nat /\ Len(nodes) \in Nat
      BY <1>3, Position
    <3>2. Len(ns) = n + 1
      BY <1>10
    <3> HIDE DEF n
    <3> QED BY <3>1, <3>2
  <2>2. \A k \in 0..n : t(k) = T + k
    <3> HIDE DEF n
    <3> QED BY <1>5, <1>10, <2>1, LeavesGrow
  <2>3. T \in Int /\ T >= 0
    BY TreesSuffice
  <2>4. t(n + 1) = t(n + 1 - 1) + Growth(ns[n + 1])
    <3>1. n + 1 \in 1..Len(ns)
      BY <1>3, <1>10
    <3>2. Len(nodes) + (n + 1) - 1 = Len(nodes) + (n + 1 - 1)
      BY <1>3, <2>1
    <3> HIDE DEF n
    <3>3. Trees(nodes')[Len(nodes) + (n + 1)] =
             Trees(nodes')[Len(nodes) + (n + 1) - 1] + Growth(ns[n + 1])
      BY <1>5, <1>10, <3>1, TreesAppended
    <3> QED BY <3>2, <3>3
  <2>5. t(n + 1 - 1) = T + n
    <3>1. n + 1 - 1 = n /\ n \in 0..n
      BY <1>3
    <3> HIDE DEF n, t
    <3> QED BY <2>2, <3>1
  <2>6. t(n + 1) = T + 1
    <3> HIDE DEF n, t, T
    <3> QED BY <1>3, <1>7, <1>10, <2>3, <2>4, <2>5
  <2>7. Len(nodes') = Len(nodes) + (n + 1)
    <3> HIDE DEF n
    <3> QED BY <1>5, <1>10, TreesAppended
  <2> QED BY <2>2, <2>3, <2>6, <2>7
<1> HIDE DEF n, p0
<1>12. \A k \in 1..Len(ns) : k \in 1..n \/ k = n + 1
  BY <1>3, <1>10
<1>13. Planted(ns)
  <2> SUFFICES ASSUME NEW k \in 1..Len(ns)
               PROVE  /\ ns[k].token > Top(contexts).token /\ ns[k].type # "SCOPE"
                      /\ t(k) >= 0 /\ t(k) >= 1
    BY DEF Planted
  <2> HIDE DEF t, T
  <2>1. CASE k \in 1..n
    <3>1. t(k) = T + k /\ k >= 1 /\ k \in Nat
      BY <1>3, <1>11, <2>1
    <3>2. t(k) >= 1 /\ t(k) >= 0
      BY <1>11, <3>1
    <3>3. ns[k].token = p0 + k /\ p0 + k >= i /\ ns[k].type # "SCOPE"
      BY <1>3, <1>10, <2>1, <3>1
    <3>4. ns[k].token > Top(contexts).token
      BY <1>3, <3>1, <3>3, ScopeBefore
    <3> QED BY <3>2, <3>3, <3>4
  <2>2. CASE k = n + 1
    <3>1. t(k) >= 1 /\ t(k) >= 0
      BY <1>11, <2>2
    <3>2. ns[k].token > Top(contexts).token /\ ns[k].type # "SCOPE"
      BY <1>7, <1>10, <2>2, ScopeBefore
    <3> QED BY <3>1, <3>2
  <2> QED BY <1>12, <2>1, <2>2
<1>14. Tokened(ns)
  <2>1. \A k \in 1..Len(ns) : ns[k].token < i' /\ ns[k].token <= i'
    <3> SUFFICES ASSUME NEW k \in 1..Len(ns) PROVE ns[k].token < i' /\ ns[k].token <= i'
      OBVIOUS
    <3>1. CASE k \in 1..n
      <4>1. ns[k].token = p0 + k /\ k <= n /\ k \in Nat
        BY <1>3, <1>10, <3>1
      <4> QED BY <1>3, <4>1
    <3>2. CASE k = n + 1
      BY <1>3, <1>7, <1>10, <3>2
    <3> QED BY <1>12, <3>1, <3>2
  <2> QED BY <1>1, <1>3, <2>1 DEF Tokened, Calm
<1>15. Raises(1)
  <2>1. Waiting(operators, Watermark, Len(operators)) = 0
    BY <1>3, <1>4, WaitingNone
  <2>2. Trees(nodes')[Len(nodes')] = Trees(nodes)[Len(nodes)] + 1 /\ pc' # "expression"
    BY <1>1, <1>11
  <2>3. 0 \in Int /\ 1 \in Int /\ 1 + 0 = 1
    OBVIOUS
  <2> QED BY <1>8, <2>1, <2>2, <2>3, RaisesNone
<1>16. Gains(1) /\ Buffered
  BY <1>1, <1>2, GainsChildren, NothingBuffered
<1>17. Moves(ns, 1)
  BY <1>5, <1>10, <1>13, <1>14, <1>15, <1>16 DEF Moves
<1> QED BY <1>17, ForestMoves

LEMMA ForestStartExpression ==
    ASSUME BoundsInv, BoundsInv', StackOK, ForestOK, StartExpression, ~dropped'
    PROVE  ForestOK'
<1>1. /\ pc = "instruction" /\ StartsExpression(i) /\ ~Full(operators)
      /\ operators' = Pushed(operators, Node("EXP", 0, i)) /\ decl' = "NO" /\ pc' = "expression"
      /\ UNCHANGED <<input, i, nodes, contexts, buffer>>
  BY DEF StartExpression, Reading
<1>2. Len(operators) = Watermark /\ Watermark \in Nat /\ i \in Nat
  BY <1>1, StackTypes DEF StackOK, OwnedOK, Initializing, StartsExpression
<1>3. /\ Len(operators') = Watermark + 1 /\ \A x \in 1..Watermark : operators'[x] = operators[x]
      /\ operators'[Watermark + 1].type = "EXP"
  <2>1. "EXP" \in OperatorTypes /\ OpsOK(operators)
    BY Kept1 DEF OperatorTypes
  <2> QED BY <1>1, <1>2, <2>1, OpsPushedExactly
<1>4. Raises(0)
  <2>1. Waiting(operators, Watermark, Len(operators)) = 0
    BY <1>2, WaitingNone
  <2>2. Weight(operators'[Watermark + 1]) = 0 /\ operators'[Watermark + 1].type \notin Decls
    BY <1>3 DEF Weight, Decls
  <2>3. Trees(nodes')[Len(nodes')] = Trees(nodes)[Len(nodes)] + 0
    BY <1>1, NothingWritten
  <2>4. 0 \in Int /\ 0 + 0 = 0 + 0 /\ 0 >= 0 /\ decl' = "NO"
    BY <1>1
  <2> QED BY <1>3, <2>1, <2>2, <2>3, <2>4, RaisesOne
<1>5. buffer' = <<>>
  BY <1>1 DEF BoundsInv, PhaseOK
<1>6. Buffered
  BY <1>5 DEF Buffered
<1>7. Tokened(<<>>)
  BY <1>1, <1>2 DEF Tokened, Calm
<1>8. Gains(0)
  BY <1>1, GainsNothing
<1>9. Moves(<<>>, 0)
  BY <1>1, <1>4, <1>6, <1>7, <1>8, NothingWritten DEF Moves
<1> QED BY <1>9, ForestMoves

(* The declaration waits, and with it what was counted on it. *)
LEMMA DeclarationWaits ==
    ASSUME BoundsInv, StackOK, ForestOK, Len(operators) >= Watermark + 1,
           operators[Watermark + 1].type \in Decls
    PROVE  LET a == operators[Watermark + 1].arity
           IN  /\ a \in Int /\ a >= 1 /\ Weight(operators[Watermark + 1]) = a
               /\ Watermark \in Nat
<1>1. Watermark \in Nat /\ Len(operators) \in Nat /\ Watermark + 1 \in 1..Len(operators)
  BY StackTypes
<1>2. operators[Watermark + 1].arity \in Int /\ operators[Watermark + 1].arity >= 1
  BY <1>1, WeightInt DEF ForestOK, WeightsOK
<1>3. Weight(operators[Watermark + 1]) = operators[Watermark + 1].arity
  BY DEF Weight, Decls
<1> QED BY <1>1, <1>2, <1>3

LEMMA ForestInitializeVariable ==
    ASSUME BoundsInv, BoundsInv', StackOK, ForestOK, InitializeVariable, ~dropped'
    PROVE  ForestOK'
<1> DEFINE init == Pushed(operators, Node("INIT_VAR", 0, Initialized))
           a == operators[Watermark + 1].arity
<1>1. /\ pc = "init" /\ decl = "DECL_VAR" /\ pc' = "expression" /\ ~Full(init)
      /\ operators' = Pushed(init, Node("EXP", 0, Initialized))
      /\ i' = Initialized /\ i' \in {i, i + 1}
      /\ UNCHANGED <<input, nodes, contexts, buffer, decl>>
  BY DEF InitializeVariable, Reading, Initialized
<1>2. /\ Len(operators) = Watermark + 1 /\ operators[Watermark + 1].type = "DECL_VAR"
      /\ Watermark \in Nat /\ i \in Nat
  BY <1>1, StackTypes DEF StackOK, OwnedOK
<1>3. a \in Int /\ a >= 1 /\ Weight(operators[Watermark + 1]) = a
  <2>1. operators[Watermark + 1].type \in Decls /\ Len(operators) >= Watermark + 1
    BY <1>2 DEF Decls
  <2> QED BY <2>1, DeclarationWaits
<1>4. /\ Len(operators') = Watermark + 3
      /\ \A x \in 1..(Watermark + 1) : operators'[x] = operators[x]
      /\ operators'[Watermark + 2].type = "INIT_VAR" /\ operators'[Watermark + 2].arity = 0
      /\ operators'[Watermark + 3].type = "EXP"
  <2>1. "INIT_VAR" \in OperatorTypes /\ "EXP" \in OperatorTypes /\ Initialized \in Nat
        /\ OpsOK(operators)
    BY InitializedPlace, Kept1 DEF OperatorTypes
  <2>2. ~Full(operators)
    <3>1. Full(operators) => init = operators
      <4>1. Len(operators) \in Nat /\ StackSize \in Nat
        BY Position
      <4> QED BY <4>1 DEF Full, Pushed
    <3> QED BY <1>1, <3>1
  <2>3. /\ OpsOK(init) /\ Len(init) = Len(operators) + 1
        /\ \A x \in 1..Len(operators) : init[x] = operators[x]
        /\ init[Len(operators) + 1].type = "INIT_VAR" /\ init[Len(operators) + 1].arity = 0
    BY <2>1, <2>2, OpsPushedExactly
  <2> HIDE DEF init
  <2>4. /\ Len(operators') = Len(init) + 1
        /\ \A x \in 1..Len(init) : operators'[x] = init[x]
        /\ operators'[Len(init) + 1].type = "EXP"
    BY <1>1, <2>1, <2>3, OpsPushedExactly
  <2>5. Len(init) = Watermark + 2 /\ Len(init) + 1 = Watermark + 3 /\ Len(operators) + 1 = Watermark + 2
        /\ Watermark + 2 \in 1..Len(init) /\ \A x \in 1..(Watermark + 1) : x \in 1..Len(init)
    BY <1>2, <2>3
  <2> QED BY <1>2, <2>3, <2>4, <2>5
<1>5. Raises(0)
  <2>1. Waiting(operators, Watermark, Len(operators)) = a
    BY <1>2, <1>3, WaitingIs
  <2>2. Trees(nodes')[Len(nodes')] = Trees(nodes)[Len(nodes)] + 0
    BY <1>1, NothingWritten
  <2>3. Watermark + 1 \in 1..(Watermark + 1) /\ \A x \in 1..Watermark : x \in 1..(Watermark + 1)
    BY <1>2
  <2>4. operators'[Watermark + 1] = operators[Watermark + 1]
        /\ \A x \in 1..Watermark : operators'[x] = operators[x]
    BY <1>4, <2>3
  <2> HIDE DEF a
  <2>5. /\ 3 \in {2, 3} /\ Len(operators') = Watermark + 3
        /\ \A x \in 1..Watermark : operators'[x] = operators[x]
        /\ a \in Int /\ 0 \in Int /\ a >= 0 /\ 0 >= 0
        /\ Weight(operators'[Watermark + 1]) = a /\ Weight(operators'[Watermark + 2]) = 0
        /\ operators'[Watermark + 1].type \in Decls => operators'[Watermark + 1].arity >= 1
        /\ operators'[Watermark + 2].type \notin Decls
        /\ operators'[Watermark + 3].type = "EXP" /\ operators'[Watermark + 2].arity = 0
        /\ 0 + a = 0 + (a + 0)
    BY <1>3, <1>4, <2>4 DEF Weight, Decls, a
  <2> QED BY <2>1, <2>2, <2>5, RaisesTwo
<1>6. buffer' = <<>>
  BY <1>1 DEF BoundsInv, PhaseOK
<1>7. Buffered
  BY <1>6 DEF Buffered
<1>8. Tokened(<<>>)
  BY <1>1, <1>2 DEF Tokened, Calm
<1>9. Gains(0)
  BY <1>1, GainsNothing
<1>10. Moves(<<>>, 0)
  BY <1>1, <1>5, <1>7, <1>8, <1>9, NothingWritten DEF Moves
<1> QED BY <1>10, ForestMoves

LEMMA ForestInitializeScope ==
    ASSUME BoundsInv, BoundsInv', StackOK, ForestOK, InitializeScope, ~dropped'
    PROVE  ForestOK'
<1> DEFINE init == IF decl = "DECL_LAB" THEN "INIT_LAB" ELSE "INIT_PAL"
           ops == Pushed(operators, Node(init, 0, Initialized))
           a == operators[Watermark + 1].arity
<1>1. /\ pc = "init" /\ decl \in {"DECL_LAB", "DECL_PAL"} /\ pc' \in {"instruction", "terminator"}
      /\ i' = Initialized /\ i' \in {i, i + 1}
      /\ (operators' = ops /\ ~Full(operators)) \/ UNCHANGED operators
      /\ UNCHANGED <<input, nodes, contexts, buffer, decl>>
  BY AfterDeclarationPhase DEF InitializeScope, Reading, Initialized
<1>2. /\ Len(operators) = Watermark + 1 /\ operators[Watermark + 1].type \in Decls
      /\ Watermark \in Nat /\ i \in Nat
  BY <1>1, StackTypes DEF StackOK, OwnedOK, Decls
<1>3. a \in Int /\ a >= 1 /\ Weight(operators[Watermark + 1]) = a
  BY <1>2, DeclarationWaits
<1>4. Trees(nodes')[Len(nodes')] = Trees(nodes)[Len(nodes)] + 0
  BY <1>1, NothingWritten
<1>5. Raises(0)
  <2>1. CASE UNCHANGED operators
    <3>1. pc' # "expression" /\ 0 \in Int
      BY <1>1
    <3> QED BY <1>4, <2>1, <3>1, RaisesUnchanged
  <2>2. CASE operators' = ops /\ ~Full(operators)
    <3>1. init \in OperatorTypes /\ Initialized \in Nat /\ init \in Inits /\ OpsOK(operators)
      BY InitializedPlace, Kept1 DEF OperatorTypes, Inits
    <3> HIDE DEF init
    <3>2. /\ Len(operators') = Len(operators) + 1
          /\ \A x \in 1..Len(operators) : operators'[x] = operators[x]
          /\ operators'[Len(operators) + 1].type = init
      BY <2>2, <3>1, OpsPushedExactly
    <3>3. /\ Len(operators') = Watermark + 2
          /\ \A x \in 1..Watermark : operators'[x] = operators[x]
          /\ operators'[Watermark + 1] = operators[Watermark + 1]
          /\ operators'[Watermark + 2].type \in Inits
      <4>1. Len(operators) + 1 = Watermark + 2 /\ Watermark + 1 \in 1..Len(operators)
            /\ \A x \in 1..Watermark : x \in 1..Len(operators)
        BY <1>2
      <4> QED BY <3>1, <3>2, <4>1
    <3>4. Waiting(operators, Watermark, Len(operators)) = a
      BY <1>2, <1>3, WaitingIs
    <3> HIDE DEF a
    <3>5. /\ 2 \in {2, 3} /\ Len(operators') = Watermark + 2
          /\ \A x \in 1..Watermark : operators'[x] = operators[x]
          /\ a \in Int /\ 0 \in Int /\ a >= 0 /\ 0 >= 0
          /\ Weight(operators'[Watermark + 1]) = a /\ Weight(operators'[Watermark + 2]) = 0
          /\ operators'[Watermark + 1].type \in Decls => operators'[Watermark + 1].arity >= 1
          /\ operators'[Watermark + 2].type \notin Decls
          /\ pc' # "expression"
          /\ 0 + a = 0 + (a + 0)
      BY <1>1, <1>3, <3>3 DEF Weight, Decls, Inits, a
    <3> QED BY <1>4, <3>4, <3>5, RaisesTwo
  <2> QED BY <1>1, <2>1, <2>2
<1>6. Gains(0) /\ Buffered
  BY <1>1, GainsNothing, NothingBuffered
<1>7. Tokened(<<>>)
  BY <1>1, <1>2 DEF Tokened, Calm
<1>8. Moves(<<>>, 0)
  BY <1>1, <1>5, <1>6, <1>7, NothingWritten DEF Moves
<1> QED BY <1>8, ForestMoves

(* One or two nodes are written. *)
LEMMA OneTree ==
    ASSUME BoundsInv, NEW x \in Written, nodes' = nodes \o <<x>>
    PROVE  /\ <<x>> \in Seq(Written) /\ Len(<<x>>) = 1 /\ <<x>>[1] = x
           /\ Trees(nodes)[Len(nodes)] \in Int /\ Growth(x) \in Int
           /\ Trees(nodes')[Len(nodes) + 1] = Trees(nodes)[Len(nodes)] + Growth(x)
           /\ Trees(nodes')[Len(nodes')] = Trees(nodes)[Len(nodes)] + Growth(x)
<1> DEFINE ns == <<x>>
<1>1. ns \in Seq(Written) /\ Len(ns) = 1 /\ ns[1] = x /\ nodes' = nodes \o ns
  OBVIOUS
<1> HIDE DEF ns
<1>2. /\ Len(nodes) \in Nat /\ Len(nodes') = Len(nodes) + 1
      /\ \A n \in 0..Len(nodes) : Trees(nodes')[n] = Trees(nodes)[n]
      /\ \A k \in 1..Len(ns) :
            Trees(nodes')[Len(nodes) + k] = Trees(nodes')[Len(nodes) + k - 1] + Growth(ns[k])
  BY <1>1, TreesAppended
<1>3. 1 \in 1..Len(ns) /\ Len(nodes) + 1 - 1 = Len(nodes) /\ Len(nodes) \in 0..Len(nodes)
  BY <1>1, <1>2
<1>4. Trees(nodes')[Len(nodes) + 1] = Trees(nodes)[Len(nodes)] + Growth(x)
  <2>1. Trees(nodes')[Len(nodes) + 1] = Trees(nodes')[Len(nodes) + 1 - 1] + Growth(ns[1])
    BY <1>2, <1>3
  <2> QED BY <1>1, <1>2, <1>3, <2>1
<1>5. Trees(nodes)[Len(nodes)] \in Int /\ Growth(x) \in Int
  BY <1>3, TreesInt, GrowthInt
<1> QED BY <1>1, <1>2, <1>4, <1>5 DEF ns

LEMMA TwoTrees ==
    ASSUME BoundsInv, NEW x \in Written, NEW y \in Written, nodes' = nodes \o <<x, y>>
    PROVE  /\ <<x, y>> \in Seq(Written) /\ Len(<<x, y>>) = 2
           /\ <<x, y>>[1] = x /\ <<x, y>>[2] = y
           /\ Trees(nodes)[Len(nodes)] \in Int /\ Growth(x) \in Int /\ Growth(y) \in Int
           /\ Trees(nodes')[Len(nodes) + 1] = Trees(nodes)[Len(nodes)] + Growth(x)
           /\ Trees(nodes')[Len(nodes) + 2] = Trees(nodes)[Len(nodes)] + Growth(x) + Growth(y)
           /\ Trees(nodes')[Len(nodes')] = Trees(nodes)[Len(nodes)] + (Growth(x) + Growth(y))
<1> DEFINE ns == <<x, y>>
<1>1. ns \in Seq(Written) /\ Len(ns) = 2 /\ ns[1] = x /\ ns[2] = y /\ nodes' = nodes \o ns
  OBVIOUS
<1> HIDE DEF ns
<1>2. /\ Len(nodes) \in Nat /\ Len(nodes') = Len(nodes) + 2
      /\ \A n \in 0..Len(nodes) : Trees(nodes')[n] = Trees(nodes)[n]
      /\ \A k \in 1..Len(ns) :
            Trees(nodes')[Len(nodes) + k] = Trees(nodes')[Len(nodes) + k - 1] + Growth(ns[k])
  BY <1>1, TreesAppended
<1>3. /\ 1 \in 1..Len(ns) /\ Len(nodes) + 1 - 1 = Len(nodes) /\ Len(nodes) \in 0..Len(nodes)
      /\ 2 \in 1..Len(ns) /\ Len(nodes) + 2 - 1 = Len(nodes) + 1
  BY <1>1, <1>2
<1>4. Trees(nodes')[Len(nodes) + 1] = Trees(nodes)[Len(nodes)] + Growth(x)
  <2>1. Trees(nodes')[Len(nodes) + 1] = Trees(nodes')[Len(nodes) + 1 - 1] + Growth(ns[1])
    BY <1>2, <1>3
  <2> QED BY <1>1, <1>2, <1>3, <2>1
<1>5. Trees(nodes)[Len(nodes)] \in Int /\ Growth(x) \in Int /\ Growth(y) \in Int
  BY <1>3, TreesInt, GrowthInt
<1>6. Trees(nodes')[Len(nodes) + 2] = Trees(nodes)[Len(nodes)] + Growth(x) + Growth(y)
  <2>1. Trees(nodes')[Len(nodes) + 2] = Trees(nodes')[Len(nodes) + 2 - 1] + Growth(ns[2])
    BY <1>2, <1>3
  <2> QED BY <1>1, <1>3, <1>4, <2>1
<1>7. Trees(nodes)[Len(nodes)] + Growth(x) + Growth(y) = Trees(nodes)[Len(nodes)] + (Growth(x) + Growth(y))
  BY <1>5
<1> QED BY <1>1, <1>2, <1>4, <1>5, <1>6, <1>7 DEF ns

LEMMA ForestOpenParameters ==
    ASSUME BoundsInv, BoundsInv', StackOK, ForestOK, OpenParameters, ~dropped', pc' \notin Failed
    PROVE  ForestOK'
<1> DEFINE leaf == Leaf("TYPE_PAL_VOID", i)
           empty == At(i + 1) = "TRPAR"
           returned == IF pc = "type" THEN <<leaf>> ELSE <<>>
           void == IF empty THEN <<leaf>> ELSE <<>>
           n1 == IF pc = "type" THEN 1 ELSE 0
           n2 == IF empty THEN 1 ELSE 0
           base == Counted(operators, n1)
           group == Pushed(base, Node("GRP_R_PARES", 0, i))
           ns == returned \o void
           a == operators[Watermark + 1].arity
<1>1. /\ pc \in {"type", "typed"} /\ ~Full(operators)
      /\ operators' = IF empty THEN Counted(group, 1) ELSE group
      /\ nodes' = nodes \o ns /\ pc' \in {"close", "parameter"}
      /\ i' = i + 1
      /\ UNCHANGED <<input, contexts, buffer, decl>>
  <2>1. Len(IF pc = "type" THEN <<leaf>> ELSE <<>>) = n1
    OBVIOUS
  <2> HIDE DEF leaf
  <2>2. operators' = IF empty THEN Counted(group, 1) ELSE group
    BY <2>1 DEF OpenParameters, leaf
  <2>3. Write(ns, IF empty THEN "close" ELSE "parameter")
    BY DEF OpenParameters, leaf
  <2>4. dropped' = (dropped \/ Full(operators)) /\ pc \in {"type", "typed"} /\ i' = i + 1
        /\ UNCHANGED <<input, contexts, buffer, decl>>
    BY DEF OpenParameters
  <2>5. nodes' = nodes \o ns /\ pc' \in {"close", "parameter"}
    BY <2>3 DEF Write, Failed
  <2> QED BY <2>2, <2>4, <2>5
<1>2. /\ Len(operators) = Watermark + 1 /\ Watermark \in Nat /\ i \in Nat
      /\ operators[Watermark + 1].type \in Decls
  BY <1>1, StackTypes DEF StackOK, OwnedOK, BoundsInv, PhaseOK
<1>3. a \in Int /\ a >= 1 /\ Weight(operators[Watermark + 1]) = a
  BY <1>2, DeclarationWaits
<1>4. n1 \in {0, 1} /\ n2 \in {0, 1} /\ (~empty => n2 = 0) /\ (empty => n2 = 1)
  OBVIOUS
<1>5. /\ OpsOK(base) /\ Len(base) = Watermark + 1
      /\ \A x \in 1..Watermark : base[x] = operators[x]
      /\ base[Watermark + 1].type = operators[Watermark + 1].type
      /\ base[Watermark + 1].arity = a + n1
  <2> HIDE DEF n1
  <2>1. LET l == Len(operators)
        IN  /\ OpsOK(base) /\ Len(base) = l
            /\ \A x \in 1..l : x # l => base[x] = operators[x]
            /\ base[l].type = operators[l].type /\ base[l].arity = operators[l].arity + n1
    <3>1. OpsOK(operators) /\ n1 \in Int /\ Len(operators) >= 1
      BY <1>2, <1>4, Kept1
    <3> QED BY <3>1, OpsCountedExactly
  <2>2. \A x \in 1..Watermark : x \in 1..(Watermark + 1) /\ x # Watermark + 1
    BY <1>2
  <2> HIDE DEF base
  <2> QED BY <1>2, <2>1, <2>2
<1>6. /\ OpsOK(group) /\ Len(group) = Watermark + 2
      /\ \A x \in 1..(Watermark + 1) : group[x] = base[x]
      /\ group[Watermark + 2].type = "GRP_R_PARES" /\ group[Watermark + 2].arity = 0
  <2>1. "GRP_R_PARES" \in OperatorTypes /\ i \in Nat /\ ~Full(base)
    BY <1>1, <1>2, <1>5 DEF OperatorTypes, Full
  <2> HIDE DEF base
  <2>2. /\ OpsOK(group) /\ Len(group) = Len(base) + 1
        /\ \A x \in 1..Len(base) : group[x] = base[x]
        /\ group[Len(base) + 1].type = "GRP_R_PARES" /\ group[Len(base) + 1].arity = 0
    BY <1>5, <2>1, OpsPushedExactly
  <2> HIDE DEF group
  <2>3. Len(base) = Watermark + 1 /\ Len(base) + 1 = Watermark + 2
    BY <1>2, <1>5
  <2> QED BY <2>2, <2>3
<1>7. /\ Len(operators') = Watermark + 2
      /\ \A x \in 1..(Watermark + 1) : operators'[x] = base[x]
      /\ operators'[Watermark + 2].type = "GRP_R_PARES" /\ operators'[Watermark + 2].arity = n2
  <2>1. CASE ~empty
    <3> HIDE DEF base, group, empty, n2
    <3> QED BY <1>1, <1>4, <1>6, <2>1
  <2>2. CASE empty
    <3> HIDE DEF base, group, empty, n2
    <3>1. LET l == Len(group)
              r == Counted(group, 1)
          IN  /\ Len(r) = l /\ \A x \in 1..l : x # l => r[x] = group[x]
              /\ r[l].type = group[l].type /\ r[l].arity = group[l].arity + 1
      <4>1. OpsOK(group) /\ 1 \in Int /\ Len(group) >= 1
        BY <1>2, <1>6
      <4> QED BY <4>1, OpsCountedExactly
    <3>2. \A x \in 1..(Watermark + 1) : x \in 1..(Watermark + 2) /\ x # Watermark + 2
      BY <1>2
    <3>3. operators' = Counted(group, 1) /\ Len(group) = Watermark + 2
      BY <1>1, <1>6, <2>2
    <3> QED BY <1>4, <1>6, <2>2, <3>1, <3>2, <3>3
  <2> QED BY <2>1, <2>2
<1>8. /\ Len(operators') = Watermark + 2
      /\ \A x \in 1..Watermark : operators'[x] = operators[x]
      /\ operators'[Watermark + 1].type \in Decls /\ operators'[Watermark + 1].arity = a + n1
      /\ operators'[Watermark + 2].type = "GRP_R_PARES" /\ operators'[Watermark + 2].arity = n2
  <2>1. Watermark + 1 \in 1..(Watermark + 1) /\ \A x \in 1..Watermark : x \in 1..(Watermark + 1)
    BY <1>2
  <2> HIDE DEF base, group, n1, n2, a
  <2> QED BY <1>2, <1>5, <1>7, <2>1
<1>9. /\ ns \in Seq(Written) /\ Len(ns) = n1 + n2
      /\ \A k \in 1..Len(ns) : /\ Growth(ns[k]) = 1 /\ ns[k].token >= i /\ ns[k].type # "SCOPE"
                               /\ ns[k].token = i
  <2>1. leaf \in Written /\ Growth(leaf) = 1 /\ leaf.token = i /\ leaf.type # "SCOPE"
    BY <1>2, LeafGrowth, LeafTypes
  <2> HIDE DEF leaf
  <2>2. /\ returned \in Seq(Written) /\ Len(returned) = n1
        /\ \A k \in 1..Len(returned) : returned[k] = leaf
    BY <2>1
  <2>3. /\ void \in Seq(Written) /\ Len(void) = n2
        /\ \A k \in 1..Len(void) : void[k] = leaf
    BY <2>1
  <2> HIDE DEF returned, void, n1, n2
  <2>4. /\ ns \in Seq(Written) /\ Len(ns) = Len(returned) + Len(void)
        /\ \A k \in 1..Len(returned) : ns[k] = returned[k]
        /\ \A k \in 1..Len(void) : ns[Len(returned) + k] = void[k]
    <3>1. returned \in Seq(Written) /\ void \in Seq(Written)
      BY <2>2, <2>3
    <3> QED BY <3>1, Concatenated
  <2> HIDE DEF ns
  <2>5. ASSUME NEW k \in 1..Len(ns) PROVE ns[k] = leaf
    <3>1. CASE k \in 1..Len(returned)
      BY <2>2, <2>4, <3>1
    <3>2. CASE k \notin 1..Len(returned)
      <4>1. k - n1 \in 1..Len(void) /\ n1 + (k - n1) = k
        BY <1>4, <2>2, <2>3, <2>4, <3>2
      <4>2. ns[n1 + (k - n1)] = void[k - n1]
        BY <2>2, <2>4, <4>1
      <4> QED BY <2>3, <4>1, <4>2
    <3> QED BY <3>1, <3>2
  <2> QED BY <1>2, <2>1, <2>2, <2>3, <2>4, <2>5
<1> HIDE DEF ns, n1, n2, base, group, a, empty
<1>10. Planted(ns) /\ Trees(nodes')[Len(nodes')] = Trees(nodes)[Len(nodes)] + (n1 + n2)
  BY <1>1, <1>9, LeavesPlanted
<1>11. Tokened(ns)
  BY <1>1, <1>2, <1>9 DEF Tokened
<1>12. Raises(0)
  <2>1. Waiting(operators, Watermark, Len(operators)) = a
    <3>1. Waiting(operators, Watermark, Watermark + 1) = Weight(operators[Watermark + 1])
      BY <1>2, <1>3, WaitingIs
    <3> QED BY <1>2, <1>3, <3>1
  <2>2. /\ 2 \in {2, 3} /\ Len(operators') = Watermark + 2
        /\ \A x \in 1..Watermark : operators'[x] = operators[x]
        /\ a + n1 \in Int /\ n2 \in Int /\ a + n1 >= 0 /\ n2 >= 0 /\ a + n1 >= 1
    BY <1>3, <1>4, <1>8
  <2>3. /\ Weight(operators'[Watermark + 1]) = a + n1 /\ Weight(operators'[Watermark + 2]) = n2
        /\ operators'[Watermark + 1].type \in Decls => operators'[Watermark + 1].arity >= 1
        /\ operators'[Watermark + 2].type \notin Decls
        /\ pc' # "expression"
    BY <1>1, <1>8, <2>2 DEF Weight, Decls
  <2>4. n1 + n2 \in Int /\ 0 \in Int /\ (n1 + n2) + a = 0 + ((a + n1) + n2)
    BY <1>3, <1>4
  <2> QED BY <1>3, <1>10, <2>1, <2>2, <2>3, <2>4, RaisesTwo
<1>13. Gains(0) /\ Buffered
  BY <1>1, GainsNothing, NothingBuffered
<1>14. Moves(ns, 0)
  BY <1>1, <1>9, <1>10, <1>11, <1>12, <1>13 DEF Moves
<1> QED BY <1>14, ForestMoves

(* The last ID was written in the scope. *)
LEMMA TypeStartsInScope ==
    ASSUME BoundsInv, StackOK, ForestOK, pc = "close"
    PROVE  TypeStart \in Nat /\ TypeStart <= i /\ TypeStart > Top(contexts).token
<1>1. PICK m \in 1..Len(nodes) : nodes[m].type = "ID" /\ nodes[m].token > Top(contexts).token
  BY DEF ForestOK, PlacesOK
<1>2. PICK id \in 1..Len(nodes) :
         /\ nodes[id].type = "ID"
         /\ \A n \in (id + 1)..Len(nodes) : nodes[n].type # "ID"
         /\ TypeStart = nodes[id].token + 1 /\ TypeStart \in Nat
  BY <1>1, TypeStartType DEF BoundsInv, NodesOK
<1>3. /\ Len(nodes) \in Nat /\ Len(contexts) \in 1..Len(contexts) /\ Top(contexts) = contexts[Len(contexts)]
      /\ Top(contexts).token \in Nat /\ i \in Nat
      /\ nodes[id].token \in Nat /\ nodes[m].token \in Nat
  BY Position, StackTypes, NodeTokens
<1>4. m <= id
  BY <1>1, <1>2, <1>3
<1>5. PICK base \in [1..Len(contexts) -> 0..Len(nodes)] : Based(base)
  BY DEF ForestOK, SharesOK
<1>6. base[Len(contexts)] \in 0..Len(nodes)
  BY <1>3, <1>5
<1>7. ~(m <= base[Len(contexts)])
  BY <1>1, <1>3, <1>5 DEF Based
<1>8. ~(id <= base[Len(contexts)])
  BY <1>3, <1>4, <1>6, <1>7
<1>9. ~(nodes[id].token < Top(contexts).token)
  BY <1>3, <1>5, <1>8 DEF Based
<1>10. nodes[id].token < i
  BY DEF ForestOK, PlacesOK, Calm
<1> QED BY <1>2, <1>3, <1>9, <1>10

LEMMA ForestCloseParameters ==
    ASSUME BoundsInv, BoundsInv', StackOK, ForestOK, CloseParameters, pc' \notin Failed
    PROVE  ForestOK'
<1> DEFINE x == Top(operators)
           y == Node("TYPE_PAL", 2, TypeStart)
           r == Rest(operators)
           c == Counted(r, 1 - 2)
           a == operators[Watermark + 1].arity
           n2 == operators[Watermark + 2].arity
           T == Trees(nodes)[Len(nodes)]
<1>1. /\ pc = "close" /\ operators' = Counted(c, 1) /\ nodes' = nodes \o <<x, y>>
      /\ pc' = "init" /\ i' = i + 1
      /\ UNCHANGED <<contexts, buffer, decl>>
  BY DEF CloseParameters, Reading, Write, Failed
<1>2. /\ Len(operators) = Watermark + 2 /\ Watermark \in Nat /\ i \in Nat
      /\ operators[Watermark + 2].type = "GRP_R_PARES"
      /\ operators[Watermark + 1].type \in Decls
  BY <1>1, StackTypes DEF StackOK, OwnedOK, BoundsInv, PhaseOK
<1>3. a \in Int /\ a >= 1 /\ Weight(operators[Watermark + 1]) = a
  <2>1. Len(operators) >= Watermark + 1
    BY <1>2
  <2> QED BY <1>2, <2>1, DeclarationWaits
<1>4. n2 \in Int /\ n2 >= 0 /\ Weight(operators[Watermark + 2]) = n2
  <2>1. Watermark + 2 \in 1..Len(operators)
    BY <1>2
  <2>2. Weight(operators[Watermark + 2]) = n2
    BY <1>2 DEF Weight
  <2> QED BY <2>1, <2>2, TreesSuffice
<1>5. Waiting(operators, Watermark, Len(operators)) = a + n2
  <2>1. Waiting(operators, Watermark, Watermark + 2)
           = Weight(operators[Watermark + 1]) + Weight(operators[Watermark + 2])
    BY <1>2, <1>3, WaitingIs
  <2> QED BY <1>2, <1>3, <1>4, <2>1
<1>6. /\ Len(operators') = Watermark + 1
      /\ \A n \in 1..Watermark : operators'[n] = operators[n]
      /\ operators'[Watermark + 1].type \in Decls /\ operators'[Watermark + 1].arity = a
  <2>1. /\ OpsOK(r) /\ Len(r) = Watermark + 1
        /\ \A n \in 1..(Watermark + 1) : r[n] = operators[n]
    <3>1. OpsOK(operators) /\ Len(operators) > 0 /\ operators # <<>> /\ operators \in Seq(Operator)
      BY <1>2, Kept1 DEF OpsOK
    <3>2. OpsOK(r)
      BY <3>1, OpsRest
    <3>3. Len(r) = Len(operators) - 1 /\ \A n \in 1..Len(r) : r[n] = operators[n]
      BY <3>1, RestFacts
    <3> HIDE DEF r
    <3>4. Len(r) = Watermark + 1
      BY <1>2, <3>3
    <3> QED BY <3>2, <3>3, <3>4
  <2> HIDE DEF r
  <2>2. LET l == Len(r)
        IN  /\ OpsOK(c) /\ Len(c) = l /\ \A n \in 1..l : n # l => c[n] = r[n]
            /\ c[l].type = r[l].type /\ c[l].arity = r[l].arity + (1 - 2)
    <3>1. OpsOK(r) /\ 1 - 2 \in Int /\ Len(r) >= 1
      BY <1>2, <2>1
    <3> QED BY <3>1, OpsCountedExactly
  <2> HIDE DEF c
  <2>3. LET l == Len(c)
        IN  /\ Len(operators') = l /\ \A n \in 1..l : n # l => operators'[n] = c[n]
            /\ operators'[l].type = c[l].type /\ operators'[l].arity = c[l].arity + 1
    <3>1. OpsOK(c) /\ 1 \in Int /\ Len(c) >= 1
      BY <1>2, <2>1, <2>2
    <3> QED BY <1>1, <3>1, OpsCountedExactly
  <2>4. Watermark + 1 \in 1..(Watermark + 1)
        /\ \A n \in 1..Watermark : n \in 1..(Watermark + 1) /\ n # Watermark + 1
    BY <1>2
  <2>5. Len(c) = Watermark + 1 /\ Len(r) = Watermark + 1
    BY <2>1, <2>2
  <2>6. \A n \in 1..Watermark : operators'[n] = operators[n]
    BY <2>1, <2>2, <2>3, <2>4, <2>5
  <2>7. operators'[Watermark + 1].type = operators[Watermark + 1].type
        /\ operators'[Watermark + 1].arity = (a + (1 - 2)) + 1
    BY <2>1, <2>2, <2>3, <2>4, <2>5
  <2>8. operators'[Watermark + 1].arity = a
    <3> HIDE DEF a
    <3> QED BY <1>3, <2>7
  <2> QED BY <1>2, <2>3, <2>5, <2>6, <2>7, <2>8
<1>7. /\ x \in Written /\ x.type = "GRP_R_PARES" /\ Growth(x) = 1 - n2
      /\ x.token > Top(contexts).token /\ x.token \in Nat /\ x.token <= i
  <2>1. x = operators[Watermark + 2] /\ Len(operators) > 0 /\ Watermark + 2 \in 1..Len(operators)
        /\ Watermark + 2 > Watermark /\ OpsOK(operators)
    BY <1>2, Kept1 DEF Top
  <2>2. x \in Written
    BY <2>1, OpsRest
  <2>3. x.token > Top(contexts).token /\ x.token \in Nat /\ x.token <= i
    BY <2>1, ScopeBefore, StackTypes DEF StackOK, TokensOK
  <2> HIDE DEF x
  <2> QED BY <1>2, <2>1, <2>2, <2>3 DEF Growth, ExpressionTypes
<1>8. /\ y \in Written /\ y.type = "TYPE_PAL" /\ Growth(y) = -1
      /\ y.token > Top(contexts).token /\ y.token \in Nat /\ y.token <= i
  <2>1. TypeStart \in Nat /\ TypeStart <= i /\ TypeStart > Top(contexts).token
    BY <1>1, TypeStartsInScope
  <2>2. "TYPE_PAL" \in NodeTypes /\ 2 \in Int
    BY DEF NodeTypes
  <2>3. y \in Written /\ y.type = "TYPE_PAL" /\ y.arity = 2 /\ y.token = TypeStart
    BY <2>1, <2>2, NodeType DEF Written
  <2> HIDE DEF y
  <2> QED BY <2>1, <2>3 DEF Growth, ExpressionTypes
<1> HIDE DEF x, y
<1>9. /\ <<x, y>> \in Seq(Written) /\ Len(<<x, y>>) = 2 /\ <<x, y>>[1] = x /\ <<x, y>>[2] = y
      /\ Trees(nodes')[Len(nodes) + 1] = T + Growth(x)
      /\ Trees(nodes')[Len(nodes) + 2] = T + Growth(x) + Growth(y)
      /\ Trees(nodes')[Len(nodes')] = T + (Growth(x) + Growth(y))
  BY <1>1, <1>7, <1>8, TwoTrees
<1>10. T \in Int /\ T >= a + n2
  BY <1>5, TreesSuffice
<1> DEFINE ns == <<x, y>>
<1>11. /\ ns \in Seq(Written) /\ Len(ns) = 2 /\ ns[1] = x /\ ns[2] = y /\ nodes' = nodes \o ns
       /\ \A k \in 1..Len(ns) : k = 1 \/ k = 2
  BY <1>1, <1>9
<1> HIDE DEF ns, a, n2
<1>12. Planted(ns)
  <2> DEFINE t(k) == Trees(nodes')[Len(nodes) + k]
  <2>1. t(1) = T + (1 - n2) /\ t(2) = T + (1 - n2) + (-1)
    BY <1>7, <1>8, <1>9
  <2> SUFFICES ASSUME NEW k \in 1..Len(ns)
               PROVE  /\ ns[k].token > Top(contexts).token /\ ns[k].type # "SCOPE"
                      /\ t(k) >= 0 /\ t(k) >= 1
    BY DEF Planted
  <2> HIDE DEF t, T
  <2>2. t(1) >= 1 /\ t(1) >= 0 /\ t(2) >= 1 /\ t(2) >= 0
    BY <1>3, <1>4, <1>10, <2>1
  <2> QED BY <1>7, <1>8, <1>11, <2>2
<1>13. Tokened(ns)
  <2>1. \A k \in 1..Len(ns) : ns[k].token < i' /\ ns[k].token <= i'
    BY <1>1, <1>2, <1>7, <1>8, <1>11
  <2> QED BY <1>1, <1>2, <2>1 DEF Tokened, Calm
<1>14. Raises(0)
  <2>1. /\ Weight(operators'[Watermark + 1]) = a /\ a >= 0
        /\ operators'[Watermark + 1].type \in Decls => operators'[Watermark + 1].arity >= 1
        /\ pc' # "expression"
    BY <1>1, <1>3, <1>6 DEF Weight, Decls
  <2>2. Trees(nodes')[Len(nodes')] = Trees(nodes)[Len(nodes)] + (1 - n2 + (-1))
    BY <1>7, <1>8, <1>9
  <2>3. a + n2 \in Int /\ 1 - n2 + (-1) \in Int /\ 0 \in Int /\ (1 - n2 + (-1)) + (a + n2) = 0 + a
    BY <1>3, <1>4
  <2> QED BY <1>3, <1>5, <1>6, <2>1, <2>2, <2>3, RaisesOne
<1>15. Gains(0) /\ Buffered
  BY <1>1, GainsNothing, NothingBuffered
<1>16. Moves(ns, 0)
  BY <1>11, <1>12, <1>13, <1>14, <1>15 DEF Moves
<1> QED BY <1>16, ForestMoves

(* The sequences of operators that Rest leaves. *)
LEMMA OpsRestedExactly ==
    ASSUME NEW ops, OpsOK(ops), NEW n \in Nat, Len(ops) = n + 1
    PROVE  /\ OpsOK(Rest(ops)) /\ Len(Rest(ops)) = n
           /\ \A x \in 1..n : Rest(ops)[x] = ops[x]
           /\ Top(ops) = ops[n + 1] /\ Top(ops) \in Written
<1>1. ops \in Seq(Operator) /\ Len(ops) > 0 /\ ops # <<>>
  BY DEF OpsOK
<1>2. OpsOK(Rest(ops)) /\ Top(ops) \in Written /\ Len(Rest(ops)) = Len(ops) - 1
  BY <1>1, OpsRest
<1>3. \A x \in 1..Len(Rest(ops)) : Rest(ops)[x] = ops[x]
  BY <1>1, RestFacts
<1>4. Len(Rest(ops)) = n
  BY <1>2
<1> QED BY <1>2, <1>3, <1>4 DEF Top

LEMMA OpsCountedTop ==
    ASSUME NEW ops, OpsOK(ops), NEW m \in Nat, Len(ops) = m + 1, NEW n \in Int
    PROVE  /\ OpsOK(Counted(ops, n)) /\ Len(Counted(ops, n)) = m + 1
           /\ \A x \in 1..m : Counted(ops, n)[x] = ops[x]
           /\ Counted(ops, n)[m + 1].type = ops[m + 1].type
           /\ Counted(ops, n)[m + 1].token = ops[m + 1].token
           /\ Counted(ops, n)[m + 1].arity = ops[m + 1].arity + n
<1> DEFINE r == Counted(ops, n)
           l == Len(ops)
<1>1. /\ OpsOK(r) /\ Len(r) = l /\ \A x \in 1..l : x # l => r[x] = ops[x]
      /\ r[l].type = ops[l].type /\ r[l].token = ops[l].token
      /\ r[l].arity = ops[l].arity + n
  <2>1. Len(ops) >= 1
    OBVIOUS
  <2> QED BY <2>1, OpsCountedExactly
<1>2. l = m + 1 /\ \A x \in 1..m : x \in 1..l /\ x # l
  OBVIOUS
<1> HIDE DEF r, l
<1>3. /\ OpsOK(r) /\ Len(r) = m + 1 /\ \A x \in 1..m : r[x] = ops[x]
      /\ r[m + 1].type = ops[m + 1].type /\ r[m + 1].token = ops[m + 1].token
      /\ r[m + 1].arity = ops[m + 1].arity + n
  BY <1>1, <1>2
<1> QED BY <1>3 DEF r

LEMMA ForestEndExpression ==
    ASSUME BoundsInv, BoundsInv', StackOK, ForestOK, EndExpression, pc' \notin Failed
    PROVE  ForestOK'
<1> DEFINE ops == [operators EXCEPT ![Len(operators)].arity = 1]
           r == Rest(ops)
           init == Counted(r, 1)
           r2 == Rest(init)
           x == Top(ops)
           y == Top(init)
           a == operators[Watermark + 1].arity
           T == Trees(nodes)[Len(nodes)]
<1>1. /\ pc = "expression" /\ buffer = <<>>
      /\ decl = "NO" => operators' = ops /\ pc' = "terminator" /\ UNCHANGED nodes
      /\ decl # "NO" => /\ operators' = Counted(r2, 1) /\ pc' = AfterDeclaration(r2)
                        /\ nodes' = nodes \o <<x, y>>
      /\ UNCHANGED <<input, i, contexts, buffer, decl>>
  BY DEF EndExpression, ExpressionEnds, Reading, Write, Failed
<1>2. /\ Watermark \in Nat /\ i \in Nat /\ Len(operators) \in Nat /\ operators # <<>>
      /\ decl = "NO" => /\ Len(operators) = Watermark + 1
                        /\ operators[Watermark + 1].type = "EXP"
      /\ decl # "NO" => /\ Len(operators) = Watermark + 3
                        /\ operators[Watermark + 1].type = "DECL_VAR"
                        /\ operators[Watermark + 2].type = "INIT_VAR"
                        /\ operators[Watermark + 3].type = "EXP"
                        /\ operators[Watermark + 2].arity = 0
  BY <1>1, StackTypes, Kept1 DEF StackOK, OwnedOK, ForestOK, WeightsOK
<1>3. /\ OpsOK(ops) /\ Len(ops) = Len(operators)
      /\ \A n \in 1..Len(operators) :
            /\ ops[n].type = operators[n].type /\ ops[n].token = operators[n].token
            /\ n # Len(operators) => ops[n] = operators[n]
  <2>1. OpsOK(operators) /\ operators # <<>> /\ 1 \in Int
    BY <1>2, Kept1
  <2> QED BY <2>1, SetLastArity
<1>4. Gains(0) /\ Buffered
  <2>1. buffer' = <<>>
    BY <1>1
  <2> QED BY <1>1, <2>1, GainsNothing DEF Buffered
<1>5. CASE decl = "NO"
  <2>1. operators' = ops /\ pc' = "terminator" /\ UNCHANGED nodes
    BY <1>1, <1>5
  <2> HIDE DEF ops
  <2>2. /\ Len(operators') = Watermark + 1
        /\ \A n \in 1..Watermark : operators'[n] = operators[n]
        /\ operators'[Watermark + 1].type = "EXP"
    <3>1. \A n \in 1..Watermark : n \in 1..Len(operators) /\ n # Len(operators)
      BY <1>2, <1>5
    <3>2. Watermark + 1 \in 1..Len(operators)
      BY <1>2, <1>5
    <3> QED BY <1>2, <1>3, <1>5, <2>1, <3>1, <3>2
  <2>3. Waiting(operators, Watermark, Len(operators)) = 0
    <3>1. Weight(operators[Watermark + 1]) = 0 /\ Weight(operators[Watermark + 1]) \in Int
      BY <1>2, <1>5 DEF Weight
    <3>2. Waiting(operators, Watermark, Watermark + 1) = Weight(operators[Watermark + 1])
      BY <1>2, <3>1, WaitingIs
    <3> QED BY <1>2, <1>5, <3>1, <3>2
  <2>4. Weight(operators'[Watermark + 1]) = 0 /\ operators'[Watermark + 1].type \notin Decls
    BY <2>2 DEF Weight, Decls
  <2>5. Raises(0)
    <3>1. Trees(nodes')[Len(nodes')] = Trees(nodes)[Len(nodes)] + 0
      BY <2>1, NothingWritten
    <3>2. 0 \in Int /\ 0 + 0 = 0 + 0 /\ 0 >= 0 /\ pc' # "expression"
      BY <2>1
    <3> QED BY <2>2, <2>3, <2>4, <3>1, <3>2, RaisesOne
  <2>6. Tokened(<<>>)
    BY <1>1, <1>2, <2>1 DEF Tokened, Calm
  <2>7. Moves(<<>>, 0)
    BY <1>4, <2>1, <2>5, <2>6, NothingWritten DEF Moves
  <2> QED BY <2>7, ForestMoves
<1>6. CASE decl # "NO"
  <2>1. operators' = Counted(r2, 1) /\ pc' = AfterDeclaration(r2) /\ nodes' = nodes \o <<x, y>>
    BY <1>1, <1>6
  <2>2. a \in Int /\ a >= 1 /\ Weight(operators[Watermark + 1]) = a
    <3>1. Len(operators) >= Watermark + 1 /\ operators[Watermark + 1].type \in Decls
      BY <1>2, <1>6 DEF Decls
    <3> QED BY <3>1, DeclarationWaits
  <2>3. /\ Len(ops) = (Watermark + 2) + 1 /\ Watermark + 2 \in Nat /\ Watermark + 1 \in Nat
        /\ \A n \in 1..(Watermark + 2) : ops[n] = operators[n]
        /\ ops[(Watermark + 2) + 1].type = "EXP"
        /\ ops[(Watermark + 2) + 1].token = operators[Watermark + 3].token
    <3>1. \A n \in 1..(Watermark + 2) : n \in 1..Len(operators) /\ n # Len(operators)
      BY <1>2, <1>6
    <3>2. Watermark + 3 \in 1..Len(operators) /\ (Watermark + 2) + 1 = Watermark + 3
          /\ Watermark + 2 \in Nat /\ Watermark + 1 \in Nat
      BY <1>2, <1>6
    <3>3. (Watermark + 2) + 1 = Len(operators)
      BY <1>2, <1>6
    <3> HIDE DEF ops
    <3> QED BY <1>2, <1>3, <1>6, <3>1, <3>2, <3>3
  <2>4. /\ OpsOK(r) /\ Len(r) = Watermark + 2 /\ \A n \in 1..(Watermark + 2) : r[n] = ops[n]
        /\ x = ops[(Watermark + 2) + 1] /\ x \in Written
    <3> HIDE DEF ops
    <3> QED BY <1>3, <2>3, OpsRestedExactly
  <2>5. /\ OpsOK(init) /\ Len(init) = (Watermark + 1) + 1
        /\ \A n \in 1..(Watermark + 1) : init[n] = r[n]
        /\ init[(Watermark + 1) + 1].type = r[(Watermark + 1) + 1].type
        /\ init[(Watermark + 1) + 1].token = r[(Watermark + 1) + 1].token
        /\ init[(Watermark + 1) + 1].arity = r[(Watermark + 1) + 1].arity + 1
    <3>1. Len(r) = (Watermark + 1) + 1 /\ 1 \in Int
      BY <1>2, <2>4
    <3> HIDE DEF r
    <3> QED BY <2>3, <2>4, <3>1, OpsCountedTop
  <2>6. /\ OpsOK(r2) /\ Len(r2) = Watermark + 1 /\ \A n \in 1..(Watermark + 1) : r2[n] = init[n]
        /\ y = init[(Watermark + 1) + 1] /\ y \in Written
    <3> HIDE DEF init
    <3> QED BY <2>3, <2>5, OpsRestedExactly
  <2>7. /\ Len(operators') = Watermark + 1
        /\ \A n \in 1..Watermark : operators'[n] = r2[n]
        /\ operators'[Watermark + 1].type = r2[Watermark + 1].type
        /\ operators'[Watermark + 1].arity = r2[Watermark + 1].arity + 1
    <3>1. 1 \in Int
      OBVIOUS
    <3> HIDE DEF r2
    <3> QED BY <1>2, <2>1, <2>6, <3>1, OpsCountedTop
  <2>8. Top(r2) = r2[Watermark + 1]
    BY <2>6 DEF Top
  <2> HIDE DEF ops, r, init, r2, x, y
  <2>9. /\ \A n \in 1..(Watermark + 1) : n \in 1..(Watermark + 2)
        /\ \A n \in 1..Watermark : n \in 1..(Watermark + 1)
        /\ Watermark + 1 \in 1..(Watermark + 1) /\ (Watermark + 1) + 1 = Watermark + 2
        /\ Watermark + 2 \in 1..(Watermark + 2)
    BY <1>2
  <2>10. \A n \in 1..(Watermark + 1) : r2[n] = operators[n]
    BY <2>3, <2>4, <2>5, <2>6, <2>9
  <2>11. /\ Len(operators') = Watermark + 1
         /\ \A n \in 1..Watermark : operators'[n] = operators[n]
         /\ operators'[Watermark + 1].type = "DECL_VAR"
         /\ operators'[Watermark + 1].arity = a + 1
         /\ Top(r2).type = "DECL_VAR"
    BY <1>2, <1>6, <2>7, <2>8, <2>9, <2>10
  <2>12. pc' = "terminator"
    BY <2>1, <2>11 DEF AfterDeclaration
  <2>13. /\ x.type = "EXP" /\ x.token = operators[Watermark + 3].token
         /\ y.type = "INIT_VAR" /\ y.token = operators[Watermark + 2].token /\ y.arity = 1
    <3>1. r[Watermark + 2] = operators[Watermark + 2]
      BY <2>3, <2>4, <2>9
    <3>2. y.arity = 0 + 1
      BY <1>2, <1>6, <2>5, <2>6, <2>9, <3>1
    <3>3. y = init[Watermark + 2] /\ init[Watermark + 2].type = "INIT_VAR"
          /\ init[Watermark + 2].token = operators[Watermark + 2].token
      BY <1>2, <1>6, <2>5, <2>6, <2>9, <3>1
    <3>4. x.type = "EXP" /\ x.token = operators[Watermark + 3].token
      <4>1. x = ops[(Watermark + 2) + 1]
        BY <2>4
      <4>2. /\ ops[(Watermark + 2) + 1].type = "EXP"
            /\ ops[(Watermark + 2) + 1].token = operators[Watermark + 3].token
        BY <2>3
      <4> QED BY <4>1, <4>2, Zenon
    <3> QED BY <3>2, <3>3, <3>4
  <2>14. /\ x.token > Top(contexts).token /\ x.token <= i /\ x.token \in Nat
         /\ y.token > Top(contexts).token /\ y.token <= i /\ y.token \in Nat
    <3>1. Watermark + 3 \in 1..Len(operators) /\ Watermark + 2 \in 1..Len(operators)
          /\ Watermark + 3 > Watermark /\ Watermark + 2 > Watermark
      BY <1>2, <1>6
    <3> QED BY <2>13, <3>1, ScopeBefore, StackTypes DEF StackOK, TokensOK
  <2>15. Growth(x) = 1 /\ Growth(y) = 0
    BY <2>13 DEF Growth, ExpressionTypes
  <2>16. /\ <<x, y>> \in Seq(Written) /\ Len(<<x, y>>) = 2 /\ <<x, y>>[1] = x /\ <<x, y>>[2] = y
         /\ Trees(nodes')[Len(nodes) + 1] = T + 1 /\ Trees(nodes')[Len(nodes) + 2] = T + 1 + 0
         /\ Trees(nodes')[Len(nodes')] = T + (1 + 0) /\ T \in Int /\ T >= 0
    <3>1. /\ <<x, y>> \in Seq(Written) /\ Len(<<x, y>>) = 2 /\ <<x, y>>[1] = x /\ <<x, y>>[2] = y
          /\ Trees(nodes')[Len(nodes) + 1] = T + Growth(x)
          /\ Trees(nodes')[Len(nodes) + 2] = T + Growth(x) + Growth(y)
          /\ Trees(nodes')[Len(nodes')] = T + (Growth(x) + Growth(y))
      BY <2>1, <2>4, <2>6, TwoTrees
    <3> QED BY <2>15, <3>1, TreesSuffice
  <2> DEFINE ns == <<x, y>>
  <2>17. /\ ns \in Seq(Written) /\ Len(ns) = 2 /\ ns[1] = x /\ ns[2] = y /\ nodes' = nodes \o ns
         /\ \A k \in 1..Len(ns) : k = 1 \/ k = 2
    BY <2>1, <2>16
  <2> HIDE DEF ns
  <2>18. Planted(ns)
    <3> DEFINE t(k) == Trees(nodes')[Len(nodes) + k]
    <3> SUFFICES ASSUME NEW k \in 1..Len(ns)
                 PROVE  /\ ns[k].token > Top(contexts).token /\ ns[k].type # "SCOPE"
                        /\ t(k) >= 0 /\ t(k) >= 1
      BY DEF Planted
    <3>1. t(1) = T + 1 /\ t(2) = T + 1 + 0
      BY <2>16
    <3> HIDE DEF t, T
    <3>2. t(1) >= 1 /\ t(1) >= 0 /\ t(2) >= 1 /\ t(2) >= 0
      BY <2>16, <3>1
    <3> QED BY <2>13, <2>14, <2>17, <3>2
  <2>19. Tokened(ns)
    <3>1. \A k \in 1..Len(ns) : ns[k].token <= i'
      BY <1>1, <1>2, <2>14, <2>17
    <3> QED BY <1>1, <1>2, <2>12, <3>1 DEF Tokened, Calm
  <2>20. Waiting(operators, Watermark, Len(operators)) = a
    <3>1. Weight(operators[Watermark + 2]) = 0
      BY <1>2, <1>6 DEF Weight
    <3>2. Waiting(operators, Watermark, Watermark + 3)
             = Weight(operators[Watermark + 1]) + Weight(operators[Watermark + 2])
      BY <1>2, <2>2, WaitingIs
    <3>3. Waiting(operators, Watermark, Watermark + 3) = a + 0
      BY <2>2, <3>1, <3>2
    <3> HIDE DEF a
    <3> QED BY <1>2, <1>6, <2>2, <3>3
  <2> HIDE DEF a
  <2>21. Raises(0)
    <3>1. /\ Weight(operators'[Watermark + 1]) = a + 1 /\ a + 1 >= 0 /\ a + 1 \in Int /\ a + 1 >= 1
          /\ pc' # "expression"
      BY <2>2, <2>11, <2>12 DEF Weight
    <3>2. Trees(nodes')[Len(nodes')] = Trees(nodes)[Len(nodes)] + 1
      BY <2>16
    <3>3. 1 \in Int /\ 0 \in Int /\ 1 + a = 0 + (a + 1)
      BY <2>2
    <3> QED BY <2>2, <2>11, <2>20, <3>1, <3>2, <3>3, RaisesOne
  <2>22. Moves(ns, 0)
    BY <1>4, <2>17, <2>18, <2>19, <2>21 DEF Moves
  <2> QED BY <2>22, ForestMoves
<1> QED BY <1>5, <1>6

(* At the end of an instruction one operator waits at most, for the trees    *)
(* that are complete.                                                        *)
LEMMA FlushedForest ==
    ASSUME BoundsInv, StackOK, ForestOK, Terminating, At(i) # "SCOPE"
    PROVE  LET f == Len(Flushed)
               a == Waiting(operators, Watermark, Len(operators))
           IN  /\ Flushed \in Seq(Written) /\ f \in {0, 1} /\ f = Len(operators) - Watermark
               /\ Len(operators) = Watermark + f /\ Watermark \in Nat
               /\ a \in Int /\ a >= 0 /\ (f = 0 => a = 0)
               /\ Len(Kept) = Watermark /\ \A n \in 1..Watermark : Kept[n] = operators[n]
               /\ OpsOK(Kept)
               /\ f = 1 => /\ Growth(Flushed[1]) = 1 - a /\ Flushed[1].type # "SCOPE"
                           /\ Flushed[1].token > Top(contexts).token /\ Flushed[1].token <= i
                           /\ Flushed[1].token \in Nat
                           /\ Flushed[1].type \notin ExpressionTypes
<1> DEFINE f == Len(Flushed)
           a == Waiting(operators, Watermark, Len(operators))
           over == IF Watermark < Len(operators) THEN Len(operators) - Watermark ELSE 0
<1>1. /\ operators \in Seq(Operator) /\ contexts \in Seq(Frame) /\ contexts # <<>>
      /\ Len(operators) <= StackSize /\ StackSize \in Nat
  BY Position DEF BoundsInv, OperatorsOK, OpsOK, ContextsOK
<1>2. /\ Watermark \in Nat /\ Len(operators) \in Nat
      /\ Len(operators) \in {Watermark, Watermark + 1}
      /\ Len(operators) = Watermark + 1 =>
            operators[Watermark + 1].type \in Decls \cup {"EXP", "GRP_MOD"}
  <2>1. Watermark \in Nat /\ Len(operators) \in Nat
    BY StackTypes
  <2>2. CASE pc = "terminator"
    BY <2>1, <2>2 DEF StackOK, OwnedOK
  <2>3. CASE pc = "instruction"
    <3>1. Len(operators) = Watermark
      BY <2>3 DEF StackOK, OwnedOK, Initializing
    <3> QED BY <2>1, <3>1
  <2> QED BY <2>2, <2>3 DEF Terminating, Reading
<1>3. /\ Flushed \in Seq(Written) /\ f = over
      /\ \A x \in 1..over : Flushed[x] = operators[Len(operators) - x + 1]
      /\ Kept \in Seq(Operator) /\ Len(Kept) = Len(operators) - over
      /\ \A x \in 1..Len(Kept) : Kept[x] = operators[x]
  BY <1>1, FlushedFacts DEF Watermark
<1>4. over = Len(operators) - Watermark /\ over \in {0, 1} /\ Len(operators) = Watermark + over
      /\ Len(operators) - over = Watermark
  BY <1>2
<1> HIDE DEF over
<1>5. OpsOK(Kept) /\ Len(Kept) = Watermark /\ \A n \in 1..Watermark : Kept[n] = operators[n]
  <2>1. Len(Kept) = Watermark
    BY <1>3, <1>4
  <2>2. Len(Kept) <= StackSize
    BY <1>1, <1>2, <2>1
  <2> QED BY <1>3, <2>1, <2>2 DEF OpsOK
<1>6. a \in Int /\ a >= 0
  BY TreesSuffice
<1>7. f = 0 => a = 0
  <2> SUFFICES ASSUME f = 0 PROVE a = 0
    OBVIOUS
  <2>1. Len(operators) = Watermark
    BY <1>2, <1>3, <1>4
  <2> QED BY <1>2, <2>1, WaitingNone
<1>8. ASSUME f = 1
      PROVE  /\ Growth(Flushed[1]) = 1 - a /\ Flushed[1].type # "SCOPE"
             /\ Flushed[1].token > Top(contexts).token /\ Flushed[1].token <= i
             /\ Flushed[1].token \in Nat
             /\ Flushed[1].type \notin ExpressionTypes
  <2> DEFINE op == operators[Watermark + 1]
  <2>1. Len(operators) = Watermark + 1
    BY <1>3, <1>4, <1>8
  <2>2. Flushed[1] = op
    <3>1. 1 \in 1..over /\ Len(operators) - 1 + 1 = Watermark + 1
      BY <1>2, <1>3, <1>8, <2>1
    <3> QED BY <1>3, <3>1
  <2>3. Watermark + 1 \in 1..Len(operators) /\ Watermark + 1 > Watermark
    BY <1>2, <2>1
  <2>4. op.token > Top(contexts).token /\ op.token <= i /\ op.token \in Nat
    BY <2>3, ScopeBefore, StackTypes DEF StackOK, TokensOK
  <2>5. Weight(op) \in Int /\ op.arity \in Int
    BY <2>3, WeightInt
  <2>6. a = Weight(op)
    <3>1. Waiting(operators, Watermark, Watermark + 1) = Weight(op)
      BY <1>2, <2>5, WaitingIs
    <3> QED BY <2>1, <3>1
  <2>7. op.type \in Decls \cup {"EXP", "GRP_MOD"}
    BY <1>2, <2>1
  <2> HIDE DEF op, a, f
  <2>8. Growth(op) = 1 - Weight(op) /\ op.type # "SCOPE" /\ op.type \notin ExpressionTypes
    BY <2>5, <2>7 DEF Growth, Weight, Decls, ExpressionTypes
  <2> QED BY <2>2, <2>4, <2>6, <2>8
<1>9. f \in {0, 1} /\ f = Len(operators) - Watermark /\ Len(operators) = Watermark + f
  BY <1>3, <1>4
<1> QED BY <1>2, <1>3, <1>5, <1>6, <1>7, <1>8, <1>9

LEMMA FlushedTrees ==
    ASSUME BoundsInv, StackOK, ForestOK, Terminating, At(i) # "SCOPE",
           NEW ns \in Seq(Written), nodes' = nodes \o ns, Len(ns) >= Len(Flushed),
           \A n \in 1..Len(Flushed) : ns[n] = Flushed[n]
    PROVE  LET f == Len(Flushed)
               a == Waiting(operators, Watermark, Len(operators))
               T == Trees(nodes)[Len(nodes)]
           IN  /\ Trees(nodes')[Len(nodes) + f] = T + (f - a)
               /\ T \in Int /\ T >= a
               /\ \A k \in 1..f : Trees(nodes')[Len(nodes) + k] >= 1
<1> DEFINE f == Len(Flushed)
           a == Waiting(operators, Watermark, Len(operators))
           T == Trees(nodes)[Len(nodes)]
<1>1. /\ f \in {0, 1} /\ a \in Int /\ a >= 0 /\ (f = 0 => a = 0)
      /\ f = 1 => Growth(Flushed[1]) = 1 - a
  BY FlushedForest
<1>2. T \in Int /\ T >= a
  BY TreesSuffice
<1>3. /\ Len(nodes) \in Nat /\ \A n \in 0..Len(nodes) : Trees(nodes')[n] = Trees(nodes)[n]
      /\ \A k \in 1..Len(ns) :
            Trees(nodes')[Len(nodes) + k] = Trees(nodes')[Len(nodes) + k - 1] + Growth(ns[k])
  BY TreesAppended
<1>4. CASE f = 0
  <2>1. Len(nodes) + f = Len(nodes) /\ Len(nodes) \in 0..Len(nodes)
    BY <1>3, <1>4
  <2>2. Trees(nodes')[Len(nodes) + f] = T
    BY <1>3, <2>1
  <2>3. T + (f - a) = T
    <3> HIDE DEF T, f, a
    <3> QED BY <1>1, <1>2, <1>4
  <2>4. \A k \in 1..f : FALSE
    BY <1>4
  <2> QED BY <1>2, <2>2, <2>3, <2>4
<1>5. CASE f = 1
  <2>1. 1 \in 1..Len(ns) /\ ns[1] = Flushed[1] /\ Len(nodes) + 1 - 1 = Len(nodes)
        /\ Len(nodes) \in 0..Len(nodes) /\ Len(nodes) + f = Len(nodes) + 1
    <3>1. Len(ns) \in Nat /\ Len(ns) >= 1
      BY <1>5
    <3> QED BY <1>3, <1>5, <3>1
  <2>2. Trees(nodes')[Len(nodes) + 1] = Trees(nodes')[Len(nodes) + 1 - 1] + Growth(ns[1])
    BY <1>3, <2>1
  <2>3. Trees(nodes')[Len(nodes) + 1] = T + (1 - a)
    BY <1>1, <1>3, <1>5, <2>1, <2>2
  <2>4. T + (1 - a) >= 1
    <3> HIDE DEF T, f, a
    <3> QED BY <1>1, <1>2
  <2>5. \A k \in 1..f : k = 1
    BY <1>5
  <2> DEFINE t(k) == Trees(nodes')[Len(nodes) + k]
  <2>6. t(1) = T + (1 - a)
    BY <2>3
  <2> HIDE DEF T, a, t, f
  <2>7. t(f) = T + (f - a) /\ \A k \in 1..f : t(k) >= 1
    BY <1>5, <2>4, <2>5, <2>6
  <2> QED BY <1>2, <2>7 DEF t, T, a, f
<1> QED BY <1>1, <1>4, <1>5

LEMMA ForestEndInstruction ==
    ASSUME BoundsInv, BoundsInv', StackOK, ForestOK, EndInstruction, pc' \notin Failed
    PROVE  ForestOK'
<1> DEFINE f == Len(Flushed)
           a == Waiting(operators, Watermark, Len(operators))
<1>1. /\ Terminating /\ At(i) = "SEMI" /\ At(i) # "SCOPE"
      /\ nodes' = nodes \o Flushed /\ pc' = "instruction" /\ operators' = Kept
      /\ contexts' = Child(contexts, f) /\ i' = AfterSemicolons
      /\ UNCHANGED <<buffer, decl>>
  BY DEF EndInstruction, Write, Failed
<1>2. /\ Flushed \in Seq(Written) /\ f \in {0, 1} /\ f \in Nat
      /\ Len(operators) = Watermark + f /\ Watermark \in Nat
      /\ a \in Int /\ a >= 0
      /\ Len(Kept) = Watermark /\ \A n \in 1..Watermark : Kept[n] = operators[n]
      /\ f = 1 => /\ Flushed[1].type # "SCOPE" /\ Flushed[1].token <= i /\ Flushed[1].token \in Nat
                  /\ Flushed[1].token > Top(contexts).token
  BY <1>1, FlushedForest
<1>3. /\ Trees(nodes')[Len(nodes) + f] = Trees(nodes)[Len(nodes)] + (f - a)
      /\ \A k \in 1..f : Trees(nodes')[Len(nodes) + k] >= 1
  <2>1. f >= f
    BY <1>2
  <2> QED BY <1>1, <1>2, <2>1, FlushedTrees
<1>4. Len(nodes') = Len(nodes) + f
  <2>1. nodes' = nodes \o Flushed /\ Flushed \in Seq(Written)
    BY <1>1, <1>2
  <2> QED BY <2>1, TreesAppended
<1>5. \A k \in 1..f : k = 1 /\ f = 1
  <2> HIDE DEF f
  <2>1. f = 0 \/ f = 1
    BY <1>2
  <2> QED BY <2>1
<1>6. i \in Nat /\ i' > i /\ i' \in Nat
  <2>1. i \in 1..Len(tokens) /\ tokens \in Seq(Token) /\ i \in Nat /\ Len(tokens) \in Nat
    BY <1>1, Position DEF BoundsInv, InputOK
  <2>2. AfterSemicolons \in (i + 1)..(Len(tokens) + 1)
    BY <1>1, <2>1, SemicolonsEnd
  <2> QED BY <1>1, <2>1, <2>2
<1> HIDE DEF f, a
<1>7. Planted(Flushed)
  <2> SUFFICES ASSUME NEW k \in 1..f
               PROVE  /\ Flushed[k].token > Top(contexts).token /\ Flushed[k].type # "SCOPE"
                      /\ Trees(nodes')[Len(nodes) + k] >= 0
                      /\ Trees(nodes')[Len(nodes) + k] >= 1
    BY DEF Planted, f
  <2>1. k = 1 /\ f = 1
    BY <1>5
  <2>2. Trees(nodes')[Len(nodes) + k] >= 1
    BY <1>3
  <2>3. Trees(nodes')[Len(nodes) + k] \in Int
    <3>1. Len(nodes) + k \in 0..Len(nodes')
      BY <1>4, <2>1, Position
    <3> QED BY <1>1, <1>2, <3>1, TreesAppended
  <2> QED BY <1>2, <2>1, <2>2, <2>3
<1>8. Tokened(Flushed)
  <2>1. \A k \in 1..Len(Flushed) : Flushed[k].token < i' /\ Flushed[k].token <= i'
    BY <1>2, <1>5, <1>6 DEF f
  <2> QED BY <1>1, <1>6, <2>1 DEF Tokened
<1>9. Raises(f)
  <2>1. Len(operators') = Watermark /\ \A n \in 1..Watermark : operators'[n] = operators[n]
    BY <1>1, <1>2
  <2>2. Trees(nodes')[Len(nodes')] = Trees(nodes)[Len(nodes)] + (f - a)
    BY <1>3, <1>4
  <2>3. f \in Int /\ f - a \in Int /\ (f - a) + a = f /\ pc' # "expression"
    BY <1>1, <1>2
  <2>4. Waiting(operators, Watermark, Len(operators)) = a
    BY DEF a
  <2> QED BY <1>2, <2>1, <2>2, <2>3, <2>4, RaisesNone
<1>10. Gains(f) /\ Buffered
  BY <1>1, <1>2, GainsChildren, NothingBuffered DEF f
<1>11. Moves(Flushed, f)
  BY <1>1, <1>2, <1>7, <1>8, <1>9, <1>10 DEF Moves
<1> QED BY <1>11, ForestMoves

(* The handlers of expressions leave the instruction alone, and what they    *)
(* write adds no tree to those counted.                                      *)
Calculates ==
    /\ pc = "expression" /\ pc' = "expression" /\ i' >= i
    /\ UNCHANGED <<contexts, operators, decl>> /\ Buffered

LEMMA ForestCalculates ==
    ASSUME BoundsInv, BoundsInv', StackOK, ForestOK, Calculates, UNCHANGED nodes
    PROVE  ForestOK'
<1>1. /\ pc = "expression" /\ pc' = "expression" /\ i' >= i /\ Buffered
      /\ UNCHANGED <<contexts, operators, decl>>
  BY DEF Calculates
<1>2. Raises(0)
  <2>1. Trees(nodes')[Len(nodes')] = Trees(nodes)[Len(nodes)] + 0 /\ 0 \in Int
    BY NothingWritten
  <2> QED BY <1>1, <2>1, RaisesUnchanged
<1>3. Tokened(<<>>)
  BY <1>1 DEF Tokened, Calm
<1>4. Gains(0)
  BY <1>1, GainsNothing
<1>5. Moves(<<>>, 0)
  BY <1>1, <1>2, <1>3, <1>4, NothingWritten DEF Moves
<1> QED BY <1>5, ForestMoves

LEMMA ForestWritesOperand ==
    ASSUME BoundsInv, BoundsInv', StackOK, ForestOK, Calculates,
           NEW x \in Written, nodes' = nodes \o <<x>>, x.type \in ExpressionTypes,
           x.token > Top(contexts).token, x.token <= i'
    PROVE  ForestOK'
<1> DEFINE ns == <<x>>
           T == Trees(nodes)[Len(nodes)]
<1>1. /\ pc = "expression" /\ pc' = "expression" /\ i' >= i /\ Buffered
      /\ UNCHANGED <<contexts, operators, decl>>
  BY DEF Calculates
<1>2. Growth(x) = 0 /\ x.type # "SCOPE"
  BY DEF Growth, ExpressionTypes
<1>3. /\ ns \in Seq(Written) /\ Len(ns) = 1 /\ ns[1] = x /\ nodes' = nodes \o ns
      /\ \A k \in 1..Len(ns) : k = 1
      /\ Trees(nodes')[Len(nodes) + 1] = T + 0 /\ Trees(nodes')[Len(nodes')] = T + 0
      /\ T \in Int /\ T >= 0
  <2>1. /\ <<x>> \in Seq(Written) /\ Len(<<x>>) = 1 /\ <<x>>[1] = x
        /\ Trees(nodes')[Len(nodes) + 1] = T + Growth(x)
        /\ Trees(nodes')[Len(nodes')] = T + Growth(x)
    BY OneTree
  <2>2. T \in Int /\ T >= 0
    BY TreesSuffice
  <2> QED BY <1>2, <2>1, <2>2
<1> HIDE DEF ns
<1>4. Planted(ns)
  <2> SUFFICES ASSUME NEW k \in 1..Len(ns)
               PROVE  /\ ns[k].token > Top(contexts).token /\ ns[k].type # "SCOPE"
                      /\ Trees(nodes')[Len(nodes) + k] >= 0
                      /\ ns[k].type \in ExpressionTypes
    BY DEF Planted
  <2>1. k = 1 /\ T + 0 >= 0
    <3> HIDE DEF T
    <3> QED BY <1>3
  <2> HIDE DEF T
  <2> QED BY <1>2, <1>3, <2>1
<1>5. Tokened(ns)
  <2>1. \A k \in 1..Len(ns) : ns[k].token <= i'
    BY <1>3
  <2> QED BY <1>1, <2>1 DEF Tokened, Calm
<1>6. Raises(0)
  <2>1. Trees(nodes')[Len(nodes')] = Trees(nodes)[Len(nodes)] + 0 /\ 0 \in Int
    BY <1>3
  <2> QED BY <1>1, <2>1, RaisesUnchanged
<1>7. Gains(0)
  BY <1>1, GainsNothing
<1>8. Moves(ns, 0)
  BY <1>1, <1>3, <1>4, <1>5, <1>6, <1>7 DEF Moves
<1> QED BY <1>8, ForestMoves

(* The buffer holds tokens of the expression. *)
LEMMA BufferTokens ==
    ASSUME BoundsInv, StackOK, ForestOK
    PROVE  /\ Top(contexts).token \in Nat /\ i \in Nat /\ Top(contexts).token < i
           /\ \A b \in 1..Len(buffer) :
                 /\ buffer[b].token \in Nat
                 /\ Top(contexts).token < buffer[b].token /\ buffer[b].token < i
<1>1. \A b \in 1..Len(buffer) : Top(contexts).token < buffer[b].token /\ buffer[b].token < i
  BY DEF ForestOK, PlacesOK
<1> QED BY <1>1, ScopeBefore, NodeTokens

LEMMA ForestPushes ==
    ASSUME BoundsInv, BoundsInv', StackOK, ForestOK, PushCallee \/ PushOperator \/ OpenParenthesis
    PROVE  ForestOK'
<1>1. PICK type \in PendingTypes : pc = "expression" /\ PushBuffer(Node(type, 0, i))
  <2>1. CASE PushCallee
    <3>1. "CALLEE" \in PendingTypes
      BY DEF PendingTypes
    <3> QED BY <2>1, <3>1 DEF PushCallee, Reading
  <2>2. CASE PushOperator
    <3>1. At(i) \in PendingTypes
      BY <2>2 DEF PushOperator, Algebraic, PendingTypes
    <3> QED BY <2>2, <3>1 DEF PushOperator, Reading
  <2>3. CASE OpenParenthesis
    <3>1. "LPAR" \in PendingTypes
      BY DEF PendingTypes
    <3> QED BY <2>3, <3>1 DEF OpenParenthesis, Reading
  <2> QED BY <2>1, <2>2, <2>3
<1> DEFINE x == Node(type, 0, i)
<1>2. /\ pc = "expression" /\ buffer' = Pushed(buffer, x) /\ i' = i + 1
      /\ UNCHANGED <<input, pc, nodes, contexts, operators, decl>>
  BY <1>1 DEF PushBuffer
<1>3. /\ Top(contexts).token \in Nat /\ i \in Nat /\ Top(contexts).token < i
      /\ \A b \in 1..Len(buffer) :
            /\ buffer[b].token \in Nat
            /\ Top(contexts).token < buffer[b].token /\ buffer[b].token < i
  BY BufferTokens
<1>4. x \in Pending /\ x.token = i
  <2>1. type \in PendingTypes /\ 0 \in Int /\ i \in Nat
    BY <1>1, <1>3
  <2>2. Node(type, 0, i) \in Items(PendingTypes) /\ Node(type, 0, i).token = i
    BY <2>1, NodeType
  <2> QED BY <2>2 DEF Pending
<1> HIDE DEF x
<1>5. Buffered
  <2>1. buffer \in Seq(Pending) /\ Len(buffer) <= StackSize /\ Len(buffer) \in Nat
    BY DEF BoundsInv, BufferOK
  <2>2. /\ ~Full(buffer) => Len(buffer') = Len(buffer) + 1 /\ buffer'[Len(buffer) + 1] = x
        /\ Full(buffer) => buffer' = buffer
        /\ \A n \in 1..Len(buffer) : buffer'[n] = buffer[n]
    BY <1>2, <1>4, <2>1, PushedFacts
  <2> SUFFICES ASSUME NEW b \in 1..Len(buffer')
               PROVE  Top(contexts).token < buffer'[b].token /\ buffer'[b].token < i'
    BY DEF Buffered
  <2>3. CASE b \in 1..Len(buffer)
    <3>1. buffer'[b] = buffer[b]
      BY <2>2, <2>3
    <3> QED BY <1>2, <1>3, <2>3, <3>1
  <2>4. CASE b \notin 1..Len(buffer)
    <3>1. ~Full(buffer)
      BY <2>2, <2>4
    <3>2. b = Len(buffer) + 1
      BY <2>1, <2>2, <2>4, <3>1
    <3>3. buffer'[b] = x
      BY <2>2, <3>1, <3>2
    <3> QED BY <1>2, <1>3, <1>4, <3>3
  <2> QED BY <2>3, <2>4
<1>6. Calculates
  BY <1>2, <1>3, <1>5 DEF Calculates
<1> QED BY <1>2, <1>6, ForestCalculates

LEMMA ForestOperand ==
    ASSUME BoundsInv, BoundsInv', StackOK, ForestOK, Operand, pc' \notin Failed
    PROVE  ForestOK'
<1> DEFINE x == Leaf(At(i), i)
<1>1. /\ pc = "expression" /\ pc' = "expression" /\ At(i) \in {"KEY", "LIT"}
      /\ nodes' = nodes \o <<x>> /\ i' = i + 1
      /\ UNCHANGED <<contexts, operators, buffer, decl>>
  BY DEF Operand, Reading, Write, Failed
<1>2. /\ Top(contexts).token \in Nat /\ i \in Nat /\ Top(contexts).token < i
      /\ \A b \in 1..Len(buffer) :
            /\ buffer[b].token \in Nat
            /\ Top(contexts).token < buffer[b].token /\ buffer[b].token < i
  BY BufferTokens
<1>3. x \in Written /\ x.token = i /\ x.type \in ExpressionTypes
  <2>1. At(i) \in NodeTypes /\ At(i) \in ExpressionTypes
    BY <1>1 DEF NodeTypes, ExpressionTypes
  <2> QED BY <1>2, <2>1, LeafType
<1> HIDE DEF x
<1>4. Calculates
  <2>1. \A b \in 1..Len(buffer') : Top(contexts).token < buffer'[b].token /\ buffer'[b].token < i'
    BY <1>1, <1>2
  <2> QED BY <1>1, <1>2, <2>1 DEF Calculates, Buffered
<1>5. x.token > Top(contexts).token /\ x.token <= i'
  BY <1>1, <1>2, <1>3
<1> QED BY <1>1, <1>3, <1>4, <1>5, ForestWritesOperand

(* What remains of the buffer. *)
LEMMA RestBuffered ==
    ASSUME BoundsInv, StackOK, ForestOK, NEW rest, Len(rest) <= Len(buffer), Len(rest) \in Nat,
           \A b \in 1..Len(rest) : rest[b] = buffer[b], buffer' = rest, i' >= i, i' \in Nat
    PROVE  Buffered
<1>1. Len(buffer) \in Nat
  BY Position
<1> SUFFICES ASSUME NEW b \in 1..Len(rest)
             PROVE  Top(contexts).token < buffer'[b].token /\ buffer'[b].token < i'
  BY DEF Buffered
<1>2. b \in 1..Len(buffer) /\ buffer'[b] = buffer[b]
  BY <1>1
<1> QED BY <1>2, BufferTokens

LEMMA ForestPops ==
    ASSUME BoundsInv, BoundsInv', StackOK, ForestOK,
           PopForOperator \/ PopToParenthesis \/ PopRemaining, pc' \notin Failed
    PROVE  ForestOK'
<1> DEFINE x == Node(TopType, 2, Top(buffer).token)
<1>1. pc = "expression" /\ PopBuffer /\ buffer # <<>>
  BY BindsTop DEF PopForOperator, PopToParenthesis, PopRemaining, ExpressionEnds, Reading
<1>2. /\ pc' = "expression" /\ buffer' = Rest(buffer) /\ nodes' = nodes \o <<x>>
      /\ UNCHANGED <<i, contexts, operators, decl>>
  BY <1>1 DEF PopBuffer, Write, Failed
<1>3. Len(buffer) \in Nat /\ Len(buffer) >= 1 /\ i \in Nat
  BY <1>1, BufferTop, Position
<1>4. x \in Written /\ x.type = TopType /\ x.token = Top(buffer).token /\ TopType \in ExpressionTypes
  <2>1. TopType \in PendingTypes /\ Top(buffer).token \in Nat
    BY <1>1, BufferTop
  <2>2. TopType \in NodeTypes /\ TopType \in ExpressionTypes /\ 2 \in Int
    BY <2>1 DEF PendingTypes, NodeTypes, ExpressionTypes
  <2> QED BY <2>1, <2>2, NodeType DEF Written
<1> HIDE DEF x
<1>5. x.token > Top(contexts).token /\ x.token <= i'
  <2>1. Top(buffer) = buffer[Len(buffer)] /\ Len(buffer) \in 1..Len(buffer)
    BY <1>3 DEF Top
  <2> QED BY <1>2, <1>4, <2>1, BufferTokens
<1>6. Calculates
  <2>1. Len(Rest(buffer)) = Len(buffer) - 1 /\ \A b \in 1..Len(Rest(buffer)) : Rest(buffer)[b] = buffer[b]
    BY <1>1, RestFacts DEF BoundsInv, BufferOK
  <2>2. Len(buffer') <= Len(buffer) /\ Len(buffer') \in Nat
        /\ \A b \in 1..Len(buffer') : buffer'[b] = buffer[b]
    BY <1>2, <1>3, <2>1
  <2>3. Buffered
    BY <1>2, <1>3, <2>2, RestBuffered
  <2> QED BY <1>1, <1>2, <1>3, <2>3 DEF Calculates
<1> QED BY <1>2, <1>4, <1>5, <1>6, ForestWritesOperand

LEMMA ForestSeparateArguments ==
    ASSUME BoundsInv, BoundsInv', StackOK, ForestOK, SeparateArguments
    PROVE  ForestOK'
<1>1. /\ pc = "expression" /\ pc' = "expression" /\ buffer' = Counted(buffer, 1) /\ i' = i + 1
      /\ UNCHANGED <<nodes, contexts, operators, decl>>
  BY DEF SeparateArguments, Reading
<1>2. buffer \in Seq(Pending) /\ Len(buffer') = Len(buffer)
      /\ \A b \in 1..Len(buffer) : buffer'[b].token = buffer[b].token
  <2>1. buffer \in Seq(Pending) /\ 1 \in Int
    BY DEF BoundsInv, BufferOK
  <2> QED BY <1>1, <2>1, CountedFacts DEF Pending
<1>3. \A b \in 1..Len(buffer') : Top(contexts).token < buffer'[b].token /\ buffer'[b].token < i'
  BY <1>1, <1>2, BufferTokens
<1>4. Calculates
  BY <1>1, <1>3, BufferTokens DEF Calculates, Buffered
<1> QED BY <1>1, <1>4, ForestCalculates

LEMMA ForestCloseParenthesis ==
    ASSUME BoundsInv, BoundsInv', StackOK, ForestOK, CloseParenthesis, pc' \notin Failed
    PROVE  ForestOK'
<1> DEFINE under == Rest(buffer)
           arity == IF At(i - 1) = "LPAR" THEN 0 ELSE Top(buffer).arity + 1
           callee == under # <<>> /\ Top(under).type = "CALLEE"
           x == Node("CALLEE", arity, Top(under).token)
<1>1. /\ pc = "expression" /\ pc' = "expression" /\ TopType = "LPAR" /\ i' = i + 1
      /\ callee => nodes' = nodes \o <<x>> /\ buffer' = Rest(under)
      /\ ~callee => buffer' = under /\ UNCHANGED nodes
      /\ UNCHANGED <<contexts, operators, decl>>
  BY DEF CloseParenthesis, Reading, Write, Failed
<1>2. buffer # <<>> /\ i \in Nat
  BY <1>1, Position DEF TopType
<1>3. /\ Len(buffer) \in Nat /\ Len(buffer) >= 1 /\ Top(buffer) \in Pending
      /\ under \in Seq(Pending) /\ Len(under) = Len(buffer) - 1
      /\ \A b \in 1..Len(under) : under[b] = buffer[b]
  BY <1>2, BufferTop, RestFacts DEF BoundsInv, BufferOK
<1>4. CASE callee
  <2>1. nodes' = nodes \o <<x>> /\ buffer' = Rest(under) /\ under # <<>>
    BY <1>1, <1>4
  <2> HIDE DEF under
  <2>2. /\ Len(under) \in Nat /\ Len(under) >= 1 /\ Top(under) = under[Len(under)]
        /\ Len(Rest(under)) = Len(under) - 1
        /\ \A b \in 1..Len(Rest(under)) : Rest(under)[b] = under[b]
    BY <1>3, <2>1, RestFacts DEF Top
  <2>3. Top(under) = buffer[Len(under)] /\ Len(under) \in 1..Len(buffer)
    BY <1>3, <2>2
  <2>4. Top(under).token > Top(contexts).token /\ Top(under).token <= i' /\ Top(under).token \in Nat
    BY <1>1, <2>3, BufferTokens
  <2>5. arity \in Int
    <3>1. Top(buffer).arity \in Int
      BY <1>3, ItemFields DEF Pending
    <3> QED BY <3>1
  <2> HIDE DEF arity
  <2>6. x \in Written /\ x.token = Top(under).token /\ x.type \in ExpressionTypes
    <3>1. "CALLEE" \in NodeTypes /\ "CALLEE" \in ExpressionTypes
      BY DEF NodeTypes, ExpressionTypes
    <3>2. /\ Node("CALLEE", arity, Top(under).token) \in Items(NodeTypes)
          /\ Node("CALLEE", arity, Top(under).token).token = Top(under).token
          /\ Node("CALLEE", arity, Top(under).token).type = "CALLEE"
      BY <2>4, <2>5, <3>1, NodeType
    <3> QED BY <3>1, <3>2 DEF Written
  <2> HIDE DEF x
  <2>7. Calculates
    <3>1. Len(buffer') <= Len(buffer) /\ Len(buffer') \in Nat
          /\ \A b \in 1..Len(buffer') : buffer'[b] = buffer[b]
      BY <1>3, <2>1, <2>2
    <3>2. Buffered
      BY <1>1, <1>2, <3>1, RestBuffered
    <3> QED BY <1>1, <1>2, <3>2 DEF Calculates
  <2> QED BY <2>1, <2>4, <2>6, <2>7, ForestWritesOperand
<1>5. CASE ~callee
  <2>1. buffer' = under /\ UNCHANGED nodes
    BY <1>1, <1>5
  <2> HIDE DEF under
  <2>2. Buffered
    <3>1. Len(buffer') <= Len(buffer) /\ Len(buffer') \in Nat
          /\ \A b \in 1..Len(buffer') : buffer'[b] = buffer[b]
      BY <1>3, <2>1
    <3> QED BY <1>1, <1>2, <3>1, RestBuffered
  <2>3. Calculates
    BY <1>1, <1>2, <2>2 DEF Calculates
  <2> QED BY <2>1, <2>3, ForestCalculates
<1> QED BY <1>4, <1>5

-----------------------------------------------------------------------------
(* The scopes                                                                *)

LEMMA FramePushed ==
    ASSUME NEW s \in Seq(Frame), NEW x \in Frame, Len(s) <= StackSize, ~Full(s)
    PROVE  /\ Len(Pushed(s, x)) = Len(s) + 1 /\ Pushed(s, x)[Len(s) + 1] = x
           /\ \A n \in 1..Len(s) : Pushed(s, x)[n] = s[n]
<1>1. Pushed(s, x) = Append(s, x)
  <2>1. Len(s) < StackSize
    BY ParserAssumption DEF Full, ParserAssumption
  <2> QED BY <2>1 DEF Pushed
<1> QED BY <1>1

LEMMA ContextsPushed ==
    ASSUME BoundsInv, OpenScope, ~dropped'
    PROVE  LET l == Len(contexts)
           IN  /\ Len(contexts') = l + 1 /\ l \in Nat /\ l >= 1
               /\ \A n \in 1..l : contexts'[n] = contexts[n]
               /\ contexts'[l + 1].token = i
               /\ contexts'[l + 1].watermark = Len(operators)
               /\ contexts'[l + 1].children = 0
               /\ Top(contexts)' = contexts'[l + 1]
<1> DEFINE l == Len(contexts)
           new == Context("SCOPE", Len(operators), i)
           r == Pushed(contexts, new)
<1>1. ~Full(contexts) /\ contexts' = r
  BY DEF OpenScope
<1>2. l \in Nat /\ l >= 1 /\ Len(operators) \in Nat /\ i \in Nat
  BY StackTypes
<1>3. /\ new \in Frame /\ new.token = i /\ new.watermark = Len(operators) /\ new.children = 0
  BY <1>2 DEF Context, Frame
<1>4. contexts \in Seq(Frame) /\ Len(contexts) <= StackSize
  BY DEF BoundsInv, ContextsOK
<1> HIDE DEF new
<1>5. Len(r) = l + 1 /\ r[l + 1] = new /\ \A n \in 1..l : r[n] = contexts[n]
  <2>1. ~Full(contexts) /\ new \in Frame
    BY <1>1, <1>3
  <2>2. /\ Len(Pushed(contexts, new)) = Len(contexts) + 1
        /\ Pushed(contexts, new)[Len(contexts) + 1] = new
        /\ \A n \in 1..Len(contexts) : Pushed(contexts, new)[n] = contexts[n]
    BY <1>4, <2>1, FramePushed
  <2> QED BY <2>2
<1> HIDE DEF r, l
<1>6. /\ Len(contexts') = l + 1 /\ \A n \in 1..l : contexts'[n] = contexts[n]
      /\ contexts'[l + 1] = new
  BY <1>1, <1>5
<1>7. Top(contexts)' = contexts'[l + 1]
  BY <1>6 DEF Top
<1> QED BY <1>2, <1>3, <1>6, <1>7 DEF l

LEMMA ForestOpenScope ==
    ASSUME BoundsInv, BoundsInv', StackOK, ForestOK, OpenScope, ~dropped'
    PROVE  ForestOK'
<1> DEFINE l == Len(contexts)
           N == Len(nodes)
           T == Trees(nodes)
           w == Len(operators)
<1>1. /\ pc = "instruction" /\ pc' = pc /\ i' = i + 1
      /\ UNCHANGED <<nodes, operators, buffer, decl>>
  BY DEF OpenScope, Reading
<1>2. /\ Len(contexts') = l + 1 /\ l \in Nat /\ l >= 1
      /\ \A n \in 1..l : contexts'[n] = contexts[n]
      /\ contexts'[l + 1].token = i /\ contexts'[l + 1].watermark = w
      /\ contexts'[l + 1].children = 0 /\ Top(contexts)' = contexts'[l + 1]
  BY ContextsPushed
<1>3. /\ N \in Nat /\ w \in Nat /\ i \in Nat /\ T[N] \in Int /\ Top(contexts) = contexts[l]
      /\ \A m \in 1..N : nodes[m].token \in Nat /\ nodes[m].token < i
  BY <1>1, TreesInt, StackTypes, NodeTokens DEF ForestOK, PlacesOK
<1>4. Watermark' = w
  BY <1>2 DEF Watermark
<1>5. SharesOK'
  <2>1. PICK base \in [1..l -> 0..N] : Based(base)
    BY DEF ForestOK, SharesOK
  <2>2. PICK base2 : base2 = [n \in 1..(l + 1) |-> IF n = l + 1 THEN N ELSE base[n]]
    OBVIOUS
  <2>3. /\ base2 \in [1..(l + 1) -> 0..N] /\ base2[l + 1] = N
        /\ \A n \in 1..l : base2[n] = base[n]
    <3> HIDE DEF N, l
    <3> QED BY <1>2, <1>3, <2>1, <2>2
  <2>4. base2[1] = 0
    <3>1. 1 \in 1..l
      BY <1>2
    <3> QED BY <2>1, <2>3, <3>1 DEF Based
  <2>5. ASSUME NEW n \in 1..(l + 1), NEW m \in 1..N
        PROVE  m <= base2[n] <=> nodes[m].token < contexts'[n].token
    <3>1. CASE n \in 1..l
      BY <1>2, <2>1, <2>3, <3>1 DEF Based
    <3>2. CASE n = l + 1
      <4>1. m <= N /\ nodes[m].token < i
        BY <1>3
      <4> QED BY <1>2, <2>3, <3>2, <4>1
    <3> QED BY <1>2, <3>1, <3>2
  <2>6. ASSUME NEW n \in 2..(l + 1)
        PROVE  T[base2[n]] =
                   T[base2[n - 1]] + contexts'[n - 1].children
                   + Waiting(operators, contexts'[n - 1].watermark, contexts'[n].watermark)
    <3>1. CASE n \in 2..l
      <4>1. n \in 1..l /\ n - 1 \in 1..l
        BY <1>2, <3>1
      <4> QED BY <1>2, <2>1, <2>3, <3>1, <4>1 DEF Based
    <3>2. CASE n = l + 1
      <4>1. n - 1 = l /\ l \in 1..l
        BY <1>2, <3>2
      <4>2. T[N] = T[base[l]] + contexts[l].children + Waiting(operators, contexts[l].watermark, w)
        BY <1>3, <2>1 DEF Based, Watermark
      <4> QED BY <1>2, <2>3, <3>2, <4>1, <4>2
    <3> QED BY <1>2, <3>1, <3>2
  <2>7. T[N] = T[base2[l + 1]] + contexts'[l + 1].children + Waiting(operators, w, w)
    <3>1. Waiting(operators, w, w) = 0
      BY <1>3, WaitingNone
    <3>2. T[base2[l + 1]] = T[N] /\ contexts'[l + 1].children = 0
      BY <1>2, <2>3
    <3> HIDE DEF T, N, w
    <3> QED BY <1>3, <3>1, <3>2
  <2>8. Based(base2)'
    BY <1>1, <1>2, <1>4, <2>4, <2>5, <2>6, <2>7 DEF Based
  <2>9. base2 \in [1..Len(contexts') -> 0..Len(nodes')]
    BY <1>1, <1>2, <2>3
  <2> QED BY <2>8, <2>9 DEF SharesOK
<1>6. GrownOK' /\ ClosedOK'
  BY <1>1 DEF ForestOK, GrownOK, Grown, ClosedOK, Closed
<1>7. WeightsOK'
  BY <1>1 DEF ForestOK, WeightsOK, Weight
<1>8. PlacesOK'
  <2>1. buffer' = <<>>
    BY <1>1 DEF BoundsInv, PhaseOK
  <2>2. \A m \in 1..N : nodes[m].token <= i + 1 /\ nodes[m].token < i + 1
    <3> SUFFICES ASSUME NEW m \in 1..N PROVE nodes[m].token <= i + 1 /\ nodes[m].token < i + 1
      OBVIOUS
    <3>1. nodes[m].token \in Nat /\ nodes[m].token < i
      BY <1>3
    <3> QED BY <1>3, <3>1
  <2> QED BY <1>1, <2>1, <2>2 DEF PlacesOK
<1> QED BY <1>5, <1>6, <1>7, <1>8 DEF ForestOK

(* What the scopes' bases mark are counts of complete trees. *)
LEMMA BaseTrees ==
    ASSUME BoundsInv, ForestOK, NEW base \in [1..Len(contexts) -> 0..Len(nodes)]
    PROVE  \A n \in 1..Len(contexts) :
               /\ base[n] \in 0..Len(nodes) /\ base[n] \in Nat
               /\ Trees(nodes)[base[n]] \in Int /\ Trees(nodes)[base[n]] >= 0
<1> SUFFICES ASSUME NEW n \in 1..Len(contexts)
             PROVE  /\ base[n] \in 0..Len(nodes) /\ base[n] \in Nat
                    /\ Trees(nodes)[base[n]] \in Int /\ Trees(nodes)[base[n]] >= 0
  OBVIOUS
<1>1. base[n] \in 0..Len(nodes) /\ Len(nodes) \in Nat /\ base[n] \in Nat
  BY TreesInt
<1>2. Trees(nodes)[base[n]] \in Int
  BY <1>1, TreesInt
<1>3. CASE base[n] = 0
  BY <1>1, <1>3, TreesInt
<1>4. CASE base[n] # 0
  <2>1. base[n] \in 1..Len(nodes)
    BY <1>1, <1>4
  <2>2. Grown(base[n])
    BY <2>1 DEF ForestOK, GrownOK
  <2> QED BY <1>1, <1>2, <2>2 DEF Grown
<1> QED BY <1>3, <1>4

LEMMA ContextsRested ==
    ASSUME BoundsInv, NEW l \in Nat, Len(contexts) = l + 1, l >= 1,
           contexts' = Child(Rest(contexts), 1)
    PROVE  /\ Len(contexts') = l
           /\ \A n \in 1..l : /\ contexts'[n].watermark = contexts[n].watermark
                              /\ contexts'[n].token = contexts[n].token
           /\ \A n \in 1..l : n # l => contexts'[n].children = contexts[n].children
           /\ contexts'[l].children = contexts[l].children + 1
           /\ Top(contexts)' = contexts'[l] /\ Watermark' = contexts[l].watermark
<1> DEFINE r == Rest(contexts)
           c == Child(r, 1)
<1>1. r \in Seq(Frame) /\ Len(r) = l /\ \A n \in 1..l : r[n] = contexts[n]
  <2>1. contexts \in Seq(Frame) /\ contexts # <<>>
    BY DEF BoundsInv, ContextsOK
  <2>2. Len(r) = Len(contexts) - 1 /\ Len(contexts) - 1 = l
    BY <2>1, RestFacts
  <2> QED BY <2>1, <2>2, RestFacts
<1>2. /\ Len(c) = l
      /\ \A n \in 1..l : /\ c[n].watermark = r[n].watermark /\ c[n].token = r[n].token
                         /\ c[n].children = IF n = l THEN r[n].children + 1 ELSE r[n].children
  <2>1. r # <<>> /\ 1 \in Nat
    <3> HIDE DEF r
    <3> QED BY <1>1
  <2> HIDE DEF r
  <2> QED BY <1>1, <2>1, ChildFacts
<1>3. contexts' = c /\ l \in 1..l
  OBVIOUS
<1> HIDE DEF c, r
<1>4. /\ Len(contexts') = l
      /\ \A n \in 1..l : /\ contexts'[n].watermark = contexts[n].watermark
                         /\ contexts'[n].token = contexts[n].token
      /\ \A n \in 1..l : n # l => contexts'[n].children = contexts[n].children
      /\ contexts'[l].children = contexts[l].children + 1
  BY <1>1, <1>2, <1>3
<1>5. Top(contexts)' = contexts'[l] /\ Watermark' = contexts[l].watermark
  BY <1>3, <1>4 DEF Top, Watermark
<1> QED BY <1>4, <1>5

(* Under a scope lies an INIT, if anything. *)
LEMMA ScopeInits ==
    ASSUME BoundsInv, StackOK, NEW n \in 1..Len(contexts), contexts[n].watermark > 0
    PROVE  operators[contexts[n].watermark].type \in Inits
<1>1. n # 1
  BY DEF StackOK, ScopesOK
<1>2. n \in 2..Len(contexts)
  BY <1>1, StackTypes
<1>3. Linked(contexts[n - 1], contexts[n])
  BY <1>2 DEF StackOK, ScopesOK
<1> QED BY <1>3 DEF Linked

ScopesOrdered ==
    /\ \A n \in 1..Len(contexts) : contexts[n].token <= Top(contexts).token
    /\ Top(contexts).token \in Nat

LEMMA NextScopesOrdered == BoundsInv' /\ StackOK' => ScopesOrdered'
<1>1. BoundsInv /\ StackOK => ScopesOrdered
  BY ScopeTokens, StackTypes DEF ScopesOrdered
<1> QED BY <1>1, PTL

(* The innermost scope, opened when base[l + 1] nodes were written, is closed *)
(* with ns: one more child of the scope around it.                           *)
Shuts(ns, base, l) ==
    /\ l \in Nat /\ l >= 1 /\ Len(contexts) = l + 1 /\ contexts' = Child(Rest(contexts), 1)
    /\ base \in [1..Len(contexts) -> 0..Len(nodes)] /\ Based(base)
    /\ ns \in Seq(Written) /\ nodes' = nodes \o ns
    /\ \A k \in 1..Len(ns) :
          /\ ns[k].token > contexts[l].token /\ ns[k].token <= i /\ ns[k].token \in Nat
          /\ Trees(nodes')[Len(nodes) + k] >= 1
    /\ \A n \in 1..Len(nodes') : n > Len(nodes) /\ nodes'[n].type = "SCOPE" => Closed(n)'
    /\ Trees(nodes')[Len(nodes')] = Trees(nodes)[base[l]] + contexts[l].children + 1
    /\ Len(operators') = contexts[l].watermark
    /\ \A x \in 1..contexts[l].watermark :
          /\ Weight(operators'[x]) = Weight(operators[x])
          /\ operators'[x].type = operators[x].type
          /\ operators[x].type \in Decls => operators'[x].arity = operators[x].arity
    /\ i' = i + 1 /\ pc' = "instruction" /\ buffer' = <<>>

LEMMA ForestShuts ==
    ASSUME BoundsInv, BoundsInv', StackOK, StackOK', ForestOK,
           NEW ns, NEW base, NEW l, Shuts(ns, base, l)
    PROVE  ForestOK'
<1> DEFINE N == Len(nodes)
           T == Trees(nodes)
           T2 == Trees(nodes')
           v == contexts[l].watermark
<1>1. /\ l \in Nat /\ l >= 1 /\ Len(contexts) = l + 1 /\ contexts' = Child(Rest(contexts), 1)
      /\ base \in [1..Len(contexts) -> 0..N] /\ Based(base)
      /\ ns \in Seq(Written) /\ nodes' = nodes \o ns
      /\ Len(operators') = v /\ i' = i + 1 /\ pc' = "instruction" /\ buffer' = <<>>
  BY DEF Shuts
<1>2. /\ Len(contexts') = l
      /\ \A n \in 1..l : /\ contexts'[n].watermark = contexts[n].watermark
                         /\ contexts'[n].token = contexts[n].token
      /\ \A n \in 1..l : n # l => contexts'[n].children = contexts[n].children
      /\ contexts'[l].children = contexts[l].children + 1
      /\ Top(contexts)' = contexts'[l] /\ Watermark' = v
  BY <1>1, ContextsRested
<1>3. /\ nodes' \in Seq(Written) /\ N \in Nat /\ Len(ns) \in Nat /\ Len(nodes') = N + Len(ns)
      /\ \A n \in 1..N : nodes'[n] = nodes[n]
      /\ \A k \in 1..Len(ns) : nodes'[N + k] = ns[k]
      /\ \A n \in 0..Len(nodes') : T2[n] \in Int
      /\ \A n \in 0..N : T2[n] = T[n] /\ T[n] \in Int
  BY <1>1, TreesAppended, TreesInt
<1>4. ASSUME NEW m \in 1..Len(nodes'), m \notin 1..N
      PROVE  m - N \in 1..Len(ns) /\ nodes'[m] = ns[m - N] /\ N + (m - N) = m
  BY <1>3, <1>4
<1>5. /\ i \in Nat /\ Len(operators) \in Nat /\ v \in Nat
      /\ l \in 1..l /\ l \in 1..Len(contexts)
      /\ \A n \in 1..l : /\ n \in 1..Len(contexts)
                         /\ contexts[n].watermark \in Nat /\ contexts[n].token \in Nat
                         /\ contexts[n].watermark <= v
      /\ v <= Len(operators)
  <2>1. /\ l \in 1..l /\ l \in 1..Len(contexts) /\ Len(contexts) \in 1..Len(contexts)
        /\ l <= Len(contexts) /\ \A n \in 1..l : n \in 1..Len(contexts) /\ n <= l
    BY <1>1
  <2>2. v <= Watermark /\ Watermark <= Len(operators)
    BY <2>1 DEF StackOK, ScopesOK, Watermark, Top
  <2>3. \A n \in 1..l : contexts[n].watermark <= v
    BY <2>1 DEF StackOK, ScopesOK
  <2> QED BY <2>1, <2>2, <2>3, StackTypes
<1>6. /\ \A n \in 1..l : contexts[n].token <= contexts[l].token
      /\ contexts[l].token \in Nat
  BY <1>2, <1>5, NextScopesOrdered DEF ScopesOrdered
<1>7. /\ \A k \in 1..Len(ns) :
            /\ ns[k].token > contexts[l].token /\ ns[k].token <= i /\ ns[k].token \in Nat
            /\ T2[N + k] >= 1
      /\ \A n \in 1..Len(nodes') : n > N /\ nodes'[n].type = "SCOPE" => Closed(n)'
      /\ T2[Len(nodes')] = T[base[l]] + contexts[l].children + 1
      /\ \A x \in 1..v :
            /\ Weight(operators'[x]) = Weight(operators[x])
            /\ operators'[x].type = operators[x].type
            /\ operators[x].type \in Decls => operators'[x].arity = operators[x].arity
  BY DEF Shuts
<1>8. SharesOK'
  <2>1. PICK base2 : base2 = [n \in 1..l |-> base[n]]
    OBVIOUS
  <2>2. /\ base2 \in [1..l -> 0..Len(nodes')]
        /\ \A n \in 1..l : base2[n] = base[n] /\ base2[n] \in 0..N
    <3>1. \A n \in 1..l : base[n] \in 0..N /\ base[n] \in 0..Len(nodes')
      BY <1>1, <1>3, <1>5
    <3> HIDE DEF N
    <3> QED BY <2>1, <3>1
  <2>3. base2[1] = 0
    <3>1. 1 \in 1..l
      BY <1>1
    <3> QED BY <1>1, <2>2, <3>1 DEF Based
  <2>4. ASSUME NEW n \in 1..l, NEW m \in 1..Len(nodes')
        PROVE  m <= base2[n] <=> nodes'[m].token < contexts'[n].token
    <3>1. contexts'[n].token = contexts[n].token /\ base2[n] = base[n] /\ base[n] \in 0..N
      BY <1>2, <2>2
    <3>2. CASE m \in 1..N
      BY <1>1, <1>3, <1>5, <3>1, <3>2 DEF Based
    <3>3. CASE m \notin 1..N
      <4>1. nodes'[m].token > contexts[l].token /\ nodes'[m].token \in Nat
        BY <1>4, <1>7, <3>3
      <4>2. ~(m <= base[n])
        <5>1. N \in Nat /\ Len(nodes') \in Nat
          BY <1>3
        <5> HIDE DEF N
        <5> QED BY <3>1, <3>3, <5>1
      <4>3. ~(nodes'[m].token < contexts[n].token)
        <5>1. contexts[n].token <= contexts[l].token /\ contexts[n].token \in Nat
              /\ contexts[l].token \in Nat
          BY <1>5, <1>6
        <5> QED BY <4>1, <5>1
      <4> QED BY <3>1, <4>2, <4>3
    <3> QED BY <3>2, <3>3
  <2>5. ASSUME NEW n \in 2..l
        PROVE  T2[base2[n]] =
                   T2[base2[n - 1]] + contexts'[n - 1].children
                   + Waiting(operators', contexts'[n - 1].watermark, contexts'[n].watermark)
    <3>1. n \in 1..l /\ n - 1 \in 1..l /\ n - 1 # l /\ n \in 2..Len(contexts)
      BY <1>1
    <3>2. T[base[n]] = T[base[n - 1]] + contexts[n - 1].children
                       + Waiting(operators, contexts[n - 1].watermark, contexts[n].watermark)
      BY <1>1, <3>1 DEF Based
    <3>3. T2[base2[n]] = T[base[n]] /\ T2[base2[n - 1]] = T[base[n - 1]]
      BY <1>3, <2>2, <3>1
    <3>4. contexts'[n - 1].children = contexts[n - 1].children
      BY <1>2, <3>1
    <3>5. Waiting(operators', contexts'[n - 1].watermark, contexts'[n].watermark) =
          Waiting(operators, contexts[n - 1].watermark, contexts[n].watermark)
      <4>1. PICK low \in Nat, high \in Nat :
               low = contexts[n - 1].watermark /\ high = contexts[n].watermark /\ high <= v
        BY <1>5, <3>1
      <4>2. contexts'[n - 1].watermark = low /\ contexts'[n].watermark = high
        BY <1>2, <3>1, <4>1
      <4>3. Waiting(operators, low, high)' = Waiting(operators, low, high)
        BY <1>5, <1>7, <4>1, WaitingSame
      <4> QED BY <4>1, <4>2, <4>3
    <3> QED BY <3>2, <3>3, <3>4, <3>5
  <2>6. T2[Len(nodes')] =
            T2[base2[l]] + contexts'[l].children + Waiting(operators', v, v)
    <3>1. Waiting(operators', v, v) = 0
      BY <1>5, WaitingNone
    <3>2. T2[base2[l]] = T[base[l]] /\ T[base[l]] \in Int
      BY <1>3, <1>5, <2>2
    <3>3. contexts'[l].children = contexts[l].children + 1 /\ contexts[l].children \in Int
      <4>1. contexts[l] \in Frame
        BY <1>5 DEF BoundsInv, ContextsOK
      <4> QED BY <1>2, <4>1 DEF Frame
    <3>4. T2[Len(nodes')] = T[base[l]] + contexts[l].children + 1
      BY <1>7
    <3> HIDE DEF T, T2, v
    <3> QED BY <3>1, <3>2, <3>3, <3>4
  <2>7. Based(base2)'
    BY <1>1, <1>2, <2>3, <2>4, <2>5, <2>6 DEF Based
  <2> QED BY <1>2, <2>2, <2>7 DEF SharesOK
<1>9. GrownOK'
  <2> SUFFICES ASSUME NEW n \in 1..Len(nodes') PROVE Grown(n)'
    BY DEF GrownOK
  <2>1. CASE n \in 1..N
    <3>1. Grown(n) /\ T2[n] = T[n] /\ nodes'[n] = nodes[n]
      BY <1>3, <2>1 DEF ForestOK, GrownOK
    <3> QED BY <3>1 DEF Grown
  <2>2. CASE n \notin 1..N
    <3>1. T2[n] >= 1
      BY <1>4, <1>7, <2>2
    <3>2. T2[n] \in Int
      BY <1>3
    <3>3. T2[n] >= 0
      <4> HIDE DEF T2
      <4> QED BY <3>1, <3>2
    <3> QED BY <3>1, <3>3 DEF Grown
  <2> QED BY <2>1, <2>2
<1>10. ClosedOK'
  <2> SUFFICES ASSUME NEW n \in 1..Len(nodes'), nodes'[n].type = "SCOPE" PROVE Closed(n)'
    BY DEF ClosedOK
  <2>1. CASE n \notin 1..N
    <3>1. n > N
      BY <1>3, <2>1
    <3> QED BY <1>7, <3>1
  <2>2. CASE n \in 1..N
    <3>1. nodes[n].type = "SCOPE"
      BY <1>3, <2>2
    <3>2. PICK before \in 0..(n - 1) :
             /\ {m \in 1..n : nodes[m].token >= nodes[n].token} = (before + 1)..n
             /\ T[n] = T[before] + 1
      BY <2>2, <3>1 DEF ForestOK, ClosedOK, Closed
    <3>3. \A m \in 1..n : nodes'[m] = nodes[m]
      BY <1>3, <2>2
    <3>4. {m \in 1..n : nodes'[m].token >= nodes'[n].token} =
          {m \in 1..n : nodes[m].token >= nodes[n].token}
      BY <1>3, <2>2, <3>3
    <3>5. T2[n] = T[n] /\ T2[before] = T[before]
      BY <1>3, <2>2
    <3> QED BY <3>2, <3>4, <3>5 DEF Closed
  <2> QED BY <2>1, <2>2
<1>11. WeightsOK'
  <2>1. ASSUME NEW x \in 1..Len(operators')
        PROVE  /\ Weight(operators'[x]) >= 0
               /\ operators'[x].type \in Decls => operators'[x].arity >= 1
    <3>1. x \in 1..v /\ x \in 1..Len(operators)
      BY <1>1, <1>5
    <3>2. /\ Weight(operators[x]) >= 0
          /\ operators[x].type \in Decls => operators[x].arity >= 1
      BY <3>1 DEF ForestOK, WeightsOK
    <3> QED BY <1>7, <3>1, <3>2
  <2>2. \A x \in 1..Len(operators') :
           Weight(operators[x])' >= 0 /\ (operators'[x].type \in Decls => operators'[x].arity >= 1)
    BY <2>1 DEF Weight
  <2> QED BY <1>1, <2>2 DEF WeightsOK
<1>12. PlacesOK'
  <2>1. \A m \in 1..Len(nodes') : nodes'[m].token <= i' /\ nodes'[m].token < i'
    <3> SUFFICES ASSUME NEW m \in 1..Len(nodes')
                 PROVE  nodes'[m].token <= i' /\ nodes'[m].token < i'
      OBVIOUS
    <3>1. nodes'[m].token <= i /\ nodes'[m].token \in Nat
      <4>1. CASE m \in 1..N
        BY <1>3, <4>1, NodeTokens DEF ForestOK, PlacesOK
      <4>2. CASE m \notin 1..N
        BY <1>4, <1>7, <4>2
      <4> QED BY <4>1, <4>2
    <3>2. i' = i + 1 /\ i \in Nat
      BY <1>1, <1>5
    <3> QED BY <3>1, <3>2
  <2> QED BY <1>1, <2>1 DEF PlacesOK, Calm
<1> QED BY <1>8, <1>9, <1>10, <1>11, <1>12 DEF ForestOK

(* What is flushed, SCOPE_END and SCOPE: the tree of the scope, the next one  *)
(* after those complete when it was opened.                                  *)
LEMMA ScopeTree ==
    ASSUME BoundsInv, StackOK, ForestOK, Terminating, At(i) # "SCOPE",
           NEW base \in [1..Len(contexts) -> 0..Len(nodes)], Based(base),
           NEW ns \in Seq(Written), nodes' = nodes \o ns,
           NEW f, f = Len(Flushed), Len(ns) >= f + 2,
           \A k \in 1..(f + 2) : ns[k] = ScopeNodes[k]
    PROVE  LET b == base[Len(contexts)]
               N == Len(nodes)
           IN  /\ f \in Nat
               /\ Trees(nodes')[N + (f + 2)] = Trees(nodes)[b] + 1
               /\ \A k \in 1..(f + 2) :
                     /\ ns[k].token >= Top(contexts).token /\ ns[k].token <= i
                     /\ ns[k].token \in Nat
                     /\ Trees(nodes')[N + k] >= 1
               /\ \A n \in 1..(N + (f + 2)) :
                     n > N /\ nodes'[n].type = "SCOPE" => n = N + (f + 2) /\ Closed(n)'
<1> DEFINE l == Len(contexts)
           N == Len(nodes)
           T == Trees(nodes)
           T2 == Trees(nodes')
           a == Waiting(operators, Watermark, Len(operators))
           b == base[l]
           scope == Top(contexts)
           c == scope.children
<1>1. /\ Flushed \in Seq(Written) /\ f \in {0, 1} /\ f \in Nat
      /\ a \in Int /\ a >= 0
      /\ f = 1 => /\ Flushed[1].type # "SCOPE" /\ Flushed[1].token <= i /\ Flushed[1].token \in Nat
                  /\ Flushed[1].token > scope.token
  BY FlushedForest
<1>2. /\ ScopeNodes \in Seq(Written) /\ Len(ScopeNodes) = f + 2
      /\ \A n \in 1..f : ScopeNodes[n] = Flushed[n]
      /\ ScopeNodes[f + 1] = Leaf("SCOPE_END", scope.token)
      /\ ScopeNodes[f + 2] = Node("SCOPE", c + f + 1, scope.token)
  BY ScopeNodesFacts
<1>3. /\ N \in Nat /\ Len(ns) \in Nat /\ Len(nodes') = N + Len(ns)
      /\ \A n \in 1..N : nodes'[n] = nodes[n]
      /\ \A k \in 1..Len(ns) : nodes'[N + k] = ns[k]
      /\ \A n \in 0..Len(nodes') : T2[n] \in Int
      /\ \A n \in 0..N : T2[n] = T[n]
      /\ \A k \in 1..Len(ns) : T2[N + k] = T2[N + k - 1] + Growth(ns[k])
  BY TreesAppended
<1>4. /\ l \in 1..l /\ scope = contexts[l] /\ scope.token \in Nat /\ c \in Nat
      /\ scope.token < i /\ i \in Nat
  BY StackTypes, ScopeBefore
<1>5. /\ b \in 0..N /\ b \in Nat /\ T[b] \in Int /\ T[b] >= 0 /\ T2[b] = T[b]
  <2>1. /\ b \in 0..N /\ b \in Nat /\ T[b] \in Int /\ T[b] >= 0
    BY <1>4, BaseTrees
  <2> QED BY <1>3, <2>1
<1>6. /\ T2[N + f] = T[N] + (f - a) /\ T[N] \in Int
      /\ \A k \in 1..f : T2[N + k] >= 1
  <2>1. /\ Len(ns) >= Len(Flushed) /\ \A n \in 1..Len(Flushed) : ns[n] = Flushed[n]
    <3>1. \A n \in 1..f : n \in 1..(f + 2)
      BY <1>1
    <3>2. Len(ns) >= f
      BY <1>1, <1>3
    <3> QED BY <1>2, <3>1, <3>2
  <2> QED BY <2>1, FlushedTrees
<1>7. T[N] = T[b] + c + a
  BY DEF Based
<1>8. /\ f + 1 \in 1..(f + 2) /\ f + 2 \in 1..(f + 2)
      /\ f + 1 \in 1..Len(ns) /\ f + 2 \in 1..Len(ns)
      /\ N + (f + 1) - 1 = N + f /\ N + (f + 2) - 1 = N + (f + 1)
  BY <1>1, <1>3
<1>9. /\ Growth(ns[f + 1]) = 1 /\ ns[f + 1].token = scope.token /\ ns[f + 1].type = "SCOPE_END"
      /\ Growth(ns[f + 2]) = 1 - (c + f + 1) /\ ns[f + 2].token = scope.token
      /\ ns[f + 2].type = "SCOPE"
  <2>1. ns[f + 1] = Leaf("SCOPE_END", scope.token) /\ ns[f + 2] = Node("SCOPE", c + f + 1, scope.token)
    BY <1>2, <1>8
  <2>2. "SCOPE_END" \notin ExpressionTypes /\ "SCOPE" \notin ExpressionTypes
    BY DEF ExpressionTypes
  <2> HIDE DEF scope, c
  <2> QED BY <2>1, <2>2 DEF Growth, Leaf, Node
<1>10. T2[N + (f + 1)] = T[b] + c + f + 1 /\ T2[N + (f + 2)] = T[b] + 1
  <2>1. T2[N + (f + 1)] = T2[N + f] + 1
    BY <1>3, <1>8, <1>9
  <2>2. T2[N + (f + 2)] = T2[N + (f + 1)] + (1 - (c + f + 1))
    BY <1>3, <1>8, <1>9
  <2> DEFINE t(n) == T[n]
             t2(n) == T2[n]
  <2>3. /\ f \in Nat /\ a \in Int /\ c \in Nat /\ t(b) \in Int /\ t(N) \in Int
        /\ t2(N + f) = t(N) + (f - a) /\ t(N) = t(b) + c + a
        /\ t2(N + (f + 1)) = t2(N + f) + 1
        /\ t2(N + (f + 2)) = t2(N + (f + 1)) + (1 - (c + f + 1))
    BY <1>1, <1>4, <1>5, <1>6, <1>7, <2>1, <2>2
  <2>4. t2(N + (f + 1)) = t(b) + c + f + 1 /\ t2(N + (f + 2)) = t(b) + 1
    <3> HIDE DEF T, T2, a, b, c, N, t, t2
    <3>1. \A x \in Int :
             /\ ((x + c + a) + (f - a)) + 1 = x + c + f + 1
             /\ (((x + c + a) + (f - a)) + 1) + (1 - (c + f + 1)) = x + 1
      BY <2>3
    <3>2. t2(N + (f + 1)) = ((t(b) + c + a) + (f - a)) + 1
      BY <2>3
    <3>3. t2(N + (f + 2)) = (((t(b) + c + a) + (f - a)) + 1) + (1 - (c + f + 1))
      BY <2>3, <3>2
    <3>4. t(b) \in Int
      BY <2>3
    <3> QED BY <3>1, <3>2, <3>3, <3>4
  <2> QED BY <2>4
<1>11. ASSUME NEW k \in 1..(f + 2) PROVE k \in 1..f \/ k = f + 1 \/ k = f + 2
  BY <1>1
<1>12. ASSUME NEW k \in 1..f
       PROVE  /\ ns[k] = Flushed[1] /\ k \in 1..(f + 2)
              /\ ns[k].token > scope.token /\ ns[k].token <= i /\ ns[k].token \in Nat
              /\ ns[k].type # "SCOPE"
  <2>1. k = 1 /\ f = 1 /\ k \in 1..(f + 2)
    <3>1. f = 0 \/ f = 1
      BY <1>1
    <3> QED BY <3>1
  <2>2. ns[k] = Flushed[1]
    BY <1>2, <2>1
  <2> QED BY <1>1, <2>1, <2>2
<1>13. ASSUME NEW k \in 1..(f + 2)
       PROVE  ns[k].token >= scope.token /\ ns[k].token <= i /\ ns[k].token \in Nat
  <2>1. CASE k \in 1..f
    BY <1>4, <1>12, <2>1
  <2>2. CASE k = f + 1 \/ k = f + 2
    BY <1>4, <1>9, <2>2
  <2> QED BY <1>11, <2>1, <2>2
<1>14. ASSUME NEW k \in 1..(f + 2) PROVE T2[N + k] >= 1
  <2>1. CASE k \in 1..f
    BY <1>6, <2>1
  <2>2. CASE k = f + 1
    <3>1. T[b] + c + f + 1 >= 1
      <4> HIDE DEF T, b, c
      <4> QED BY <1>1, <1>4, <1>5
    <3> QED BY <1>10, <2>2, <3>1
  <2>3. CASE k = f + 2
    <3>1. T[b] + 1 >= 1
      <4> HIDE DEF T, b
      <4> QED BY <1>5
    <3> QED BY <1>10, <2>3, <3>1
  <2> QED BY <1>11, <2>1, <2>2, <2>3
<1>15. ASSUME NEW n \in 1..(N + (f + 2)), n > N, nodes'[n].type = "SCOPE"
       PROVE  n = N + (f + 2) /\ Closed(n)'
  <2>1. n = N + (f + 2)
    <3>1. n - N \in 1..(f + 2) /\ n - N \in 1..Len(ns) /\ N + (n - N) = n
      <4>1. n \in Nat /\ n <= N + (f + 2)
        BY <1>1, <1>3
      <4>2. f \in Nat /\ N \in Nat /\ Len(ns) \in Nat /\ n > N
        BY <1>1, <1>3, <1>15
      <4> HIDE DEF N
      <4> QED BY <4>1, <4>2
    <3>2. ns[n - N].type = "SCOPE"
      BY <1>3, <1>15, <3>1
    <3>3. n - N = f + 2
      BY <1>9, <1>11, <1>12, <3>1, <3>2
    <3> HIDE DEF N
    <3> QED BY <3>1, <3>3
  <2> DEFINE s == N + (f + 2)
  <2>2. nodes'[s].token = scope.token /\ s \in Nat /\ s \in 1..Len(nodes')
    <3>1. nodes'[s] = ns[f + 2]
      BY <1>3, <1>8
    <3> QED BY <1>1, <1>3, <1>8, <1>9, <3>1
  <2>3. b \in 0..(s - 1)
    <3> HIDE DEF b, N
    <3> QED BY <1>1, <1>3, <1>5
  <2>4. ASSUME NEW m \in 1..s
        PROVE  nodes'[m].token >= nodes'[s].token <=> m \in (b + 1)..s
    <3>1. CASE m \in 1..N
      <4>1. nodes'[m] = nodes[m] /\ nodes[m].token \in Nat
        BY <1>3, <3>1, NodeTokens
      <4>2. m <= b <=> nodes[m].token < scope.token
        BY <1>4, <3>1 DEF Based
      <4>3. m \in Nat /\ m <= s
        OBVIOUS
      <4>4. /\ nodes'[m].token = nodes[m].token /\ nodes'[s].token = scope.token
            /\ scope.token \in Nat /\ nodes[m].token \in Nat
            /\ b \in Nat /\ s \in Nat
        BY <1>4, <1>5, <2>2, <4>1
      <4>5. m \in (b + 1)..s <=> ~(m <= b)
        <5> HIDE DEF b, s
        <5> QED BY <4>3, <4>4
      <4>6. nodes'[m].token >= nodes'[s].token <=> ~(nodes[m].token < scope.token)
        <5> HIDE DEF scope, s
        <5> QED BY <4>4
      <4> QED BY <4>2, <4>5, <4>6
    <3>2. CASE m \notin 1..N
      <4>1. m - N \in 1..(f + 2) /\ m - N \in 1..Len(ns) /\ N + (m - N) = m /\ ~(m <= b)
        <5>1. m \in Nat /\ m >= 1 /\ m <= N + (f + 2) /\ N \in Nat /\ b \in Nat /\ b <= N
              /\ Len(ns) \in Nat
          BY <1>1, <1>3, <1>5
        <5> HIDE DEF N, b, s
        <5> QED BY <1>1, <3>2, <5>1
      <4>2. nodes'[m] = ns[m - N]
        BY <1>3, <4>1
      <4>3. nodes'[m].token >= scope.token
        BY <1>13, <4>1, <4>2
      <4>4. m \in Nat /\ m <= s
        OBVIOUS
      <4> HIDE DEF b, s
      <4> QED BY <1>5, <2>2, <4>1, <4>3, <4>4
    <3> QED BY <3>1, <3>2
  <2>5. {m \in 1..s : nodes'[m].token >= nodes'[s].token} = (b + 1)..s
    <3>1. (b + 1)..s \subseteq 1..s
      <4> HIDE DEF b, s
      <4> QED BY <1>5, <2>2
    <3> HIDE DEF b, s
    <3> QED BY <2>4, <3>1
  <2>6. T2[s] = T2[b] + 1
    BY <1>5, <1>10
  <2>7. Closed(n)'
    <3>1. /\ n = s /\ b \in 0..(n - 1) /\ T2[n] = T2[b] + 1
          /\ {m \in 1..n : nodes'[m].token >= nodes'[n].token} = (b + 1)..n
      BY <2>1, <2>3, <2>5, <2>6
    <3> HIDE DEF b
    <3> QED BY <3>1 DEF Closed
  <2> QED BY <2>1, <2>7
<1> QED BY <1>1, <1>10, <1>13, <1>14, <1>15

LEMMA OpsCountedAny ==
    ASSUME NEW ops, OpsOK(ops), NEW v \in Nat, Len(ops) = v
    PROVE  LET r == Counted(ops, 1)
           IN  /\ OpsOK(r) /\ Len(r) = v
               /\ \A x \in 1..v : /\ r[x].type = ops[x].type /\ r[x].token = ops[x].token
                                  /\ x # v => r[x] = ops[x]
               /\ v > 0 => r[v].arity = ops[v].arity + 1
<1> DEFINE r == Counted(ops, 1)
<1>1. CASE v = 0
  <2>1. OpsOK(r) /\ Len(r) = v
    BY OpsCounted
  <2>2. \A x \in 1..v : FALSE
    BY <1>1
  <2> QED BY <1>1, <2>1, <2>2
<1>2. CASE v # 0
  <2>1. Len(ops) >= 1 /\ v \in 1..v
    BY <1>2
  <2>2. /\ OpsOK(r) /\ Len(r) = Len(ops)
        /\ \A x \in 1..Len(ops) : x # Len(ops) => r[x] = ops[x]
        /\ r[Len(ops)].type = ops[Len(ops)].type /\ r[Len(ops)].token = ops[Len(ops)].token
        /\ r[Len(ops)].arity = ops[Len(ops)].arity + 1
    BY <2>1, OpsCountedExactly
  <2>3. /\ OpsOK(r) /\ Len(r) = v
        /\ \A x \in 1..v : /\ r[x].type = ops[x].type /\ r[x].token = ops[x].token
                           /\ x # v => r[x] = ops[x]
        /\ v > 0 => r[v].arity = ops[v].arity + 1
    <3> HIDE DEF r
    <3> QED BY <2>1, <2>2
  <2> QED BY <2>3
<1> QED BY <1>1, <1>2

(* The operators below a closed scope: only an INIT counts the new child.    *)
LEMMA WeightsUnderScope ==
    ASSUME BoundsInv, NEW v \in Nat, v > 0 => operators[v].type \in Inits,
           NEW ops, \A x \in 1..v : ops[x].type = operators[x].type /\ (x # v => ops[x] = operators[x])
    PROVE  \A x \in 1..v : /\ Weight(ops[x]) = Weight(operators[x])
                           /\ ops[x].type = operators[x].type
                           /\ operators[x].type \in Decls => ops[x].arity = operators[x].arity
<1> SUFFICES ASSUME NEW x \in 1..v
             PROVE  /\ Weight(ops[x]) = Weight(operators[x])
                    /\ ops[x].type = operators[x].type
                    /\ operators[x].type \in Decls => ops[x].arity = operators[x].arity
  OBVIOUS
<1>1. CASE x # v
  BY <1>1
<1>2. CASE x = v
  <2>1. operators[x].type \in Inits /\ ops[x].type = operators[x].type
    BY <1>2
  <2> QED BY <2>1 DEF Weight, Inits, Decls
<1> QED BY <1>1, <1>2

(* What CloseScope does where it does not abort. *)
Closes(ns, ops, l) ==
    /\ l \in Nat /\ l >= 1 /\ Len(contexts) = l + 1 /\ contexts' = Child(Rest(contexts), 1)
    /\ Terminating /\ At(i) # "SCOPE"
    /\ ns \in Seq(Written) /\ nodes' = nodes \o ns /\ operators' = ops
    /\ i' = i + 1 /\ pc' \in {"instruction", "aborted"} /\ buffer' = <<>>
    /\ pc' = "aborted" => ~(Len(nodes) + Len(ns) < length)

LEMMA ForestClosesInstruction ==
    ASSUME BoundsInv, BoundsInv', StackOK, StackOK', ForestOK, pc' \notin Failed, NEW l,
           Closes(ScopeNodes, Counted(Kept, 1), l),
           Watermark = contexts[l].watermark
    PROVE  ForestOK'
<1> DEFINE f == Len(Flushed)
           N == Len(nodes)
           v == contexts[l].watermark
           ops == Counted(Kept, 1)
<1>1. /\ l \in Nat /\ l >= 1 /\ Len(contexts) = l + 1 /\ contexts' = Child(Rest(contexts), 1)
      /\ Terminating /\ At(i) # "SCOPE"
      /\ ScopeNodes \in Seq(Written) /\ nodes' = nodes \o ScopeNodes /\ operators' = ops
      /\ i' = i + 1 /\ pc' = "instruction" /\ buffer' = <<>>
  BY DEF Closes, Failed
<1>2. /\ v \in Nat /\ l \in 1..Len(contexts) /\ Len(contexts) \in 2..Len(contexts)
      /\ Len(contexts) - 1 = l /\ Top(contexts) = contexts[Len(contexts)]
      /\ contexts[l].token \in Nat /\ contexts[l].token < Top(contexts).token
      /\ Top(contexts).token \in Nat /\ i \in Nat
  <2>1. /\ l \in 1..Len(contexts) /\ Len(contexts) \in 2..Len(contexts) /\ Len(contexts) - 1 = l
    BY <1>1
  <2>2. Linked(contexts[Len(contexts) - 1], contexts[Len(contexts)])
    BY <2>1 DEF StackOK, ScopesOK
  <2>3. /\ v \in Nat /\ contexts[l].token \in Nat /\ Top(contexts) = contexts[Len(contexts)]
        /\ Top(contexts).token \in Nat /\ i \in Nat
    BY <2>1, StackTypes
  <2> QED BY <2>1, <2>2, <2>3 DEF Linked
<1>3. /\ f \in Nat /\ Len(Kept) = v /\ OpsOK(Kept)
      /\ \A n \in 1..v : Kept[n] = operators[n]
  <2>1. f \in {0, 1} /\ Len(Kept) = Watermark /\ OpsOK(Kept)
        /\ \A n \in 1..Watermark : Kept[n] = operators[n]
    BY <1>1, FlushedForest
  <2> QED BY <2>1
<1>4. /\ Len(ops) = v /\ \A x \in 1..v : ops[x].type = operators[x].type
                                         /\ (x # v => ops[x] = operators[x])
  <2>1. /\ Len(ops) = v
        /\ \A x \in 1..v : ops[x].type = Kept[x].type /\ (x # v => ops[x] = Kept[x])
    BY <1>2, <1>3, OpsCountedAny
  <2> HIDE DEF ops
  <2> QED BY <1>3, <2>1
<1>5. \A x \in 1..v : /\ Weight(ops[x]) = Weight(operators[x])
                      /\ ops[x].type = operators[x].type
                      /\ operators[x].type \in Decls => ops[x].arity = operators[x].arity
  <2>1. v > 0 => operators[v].type \in Inits
    BY <1>2, ScopeInits
  <2> HIDE DEF ops, v
  <2> QED BY <1>2, <1>4, <2>1, WeightsUnderScope, SMTT(30)
<1>6. PICK base \in [1..Len(contexts) -> 0..N] : Based(base)
  BY DEF ForestOK, SharesOK
<1>7. Len(ScopeNodes) = f + 2
  BY ScopeNodesFacts
<1>8. /\ Trees(nodes')[N + (f + 2)] = Trees(nodes)[base[Len(contexts)]] + 1
      /\ \A k \in 1..(f + 2) :
            /\ ScopeNodes[k].token >= Top(contexts).token /\ ScopeNodes[k].token <= i
            /\ ScopeNodes[k].token \in Nat
            /\ Trees(nodes')[N + k] >= 1
      /\ \A n \in 1..(N + (f + 2)) :
            n > N /\ nodes'[n].type = "SCOPE" => n = N + (f + 2) /\ Closed(n)'
  <2>1. Len(ScopeNodes) >= f + 2 /\ \A k \in 1..(f + 2) : ScopeNodes[k] = ScopeNodes[k]
    BY <1>3, <1>7
  <2> QED BY <1>1, <1>6, <2>1, ScopeTree
<1>9. Len(nodes') = N + (f + 2)
  <2>1. Len(nodes') = N + Len(ScopeNodes)
    BY <1>1, TreesAppended
  <2> QED BY <1>7, <2>1
<1>10. Trees(nodes')[Len(nodes')] = Trees(nodes)[base[l]] + contexts[l].children + 1
  <2>1. Trees(nodes)[base[Len(contexts)]] =
            Trees(nodes)[base[l]] + contexts[l].children
            + Waiting(operators, contexts[l].watermark, contexts[Len(contexts)].watermark)
    BY <1>2, <1>6 DEF Based
  <2>2. contexts[Len(contexts)].watermark = v
    BY <1>2 DEF Watermark
  <2>3. Waiting(operators, v, v) = 0
    BY <1>2, WaitingNone
  <2>4. Trees(nodes)[base[l]] \in Int /\ contexts[l].children \in Int
    <3>1. contexts[l] \in Frame
      BY <1>2 DEF BoundsInv, ContextsOK
    <3> QED BY <1>2, <1>6, <3>1, BaseTrees DEF Frame
  <2> DEFINE t == Trees(nodes)[base[l]]
             c == contexts[l].children
  <2>5. Trees(nodes)[base[Len(contexts)]] = t + c + 0 /\ t \in Int /\ c \in Int
    BY <2>1, <2>2, <2>3, <2>4
  <2>6. t + c + 0 = t + c
    <3> HIDE DEF t, c
    <3> QED BY <2>5
  <2> QED BY <1>8, <1>9, <2>5, <2>6
<1>11. \A k \in 1..Len(ScopeNodes) :
          /\ ScopeNodes[k].token > contexts[l].token /\ ScopeNodes[k].token <= i
          /\ ScopeNodes[k].token \in Nat
          /\ Trees(nodes')[N + k] >= 1
  <2> SUFFICES ASSUME NEW k \in 1..(f + 2)
               PROVE  /\ ScopeNodes[k].token > contexts[l].token /\ ScopeNodes[k].token <= i
                      /\ ScopeNodes[k].token \in Nat
                      /\ Trees(nodes')[N + k] >= 1
    BY <1>7
  <2>1. /\ ScopeNodes[k].token >= Top(contexts).token /\ ScopeNodes[k].token <= i
        /\ ScopeNodes[k].token \in Nat
        /\ Trees(nodes')[N + k] >= 1
    BY <1>8
  <2>2. ScopeNodes[k].token > contexts[l].token
    BY <1>2, <2>1
  <2> QED BY <2>1, <2>2
<1>12. \A n \in 1..Len(nodes') : n > N /\ nodes'[n].type = "SCOPE" => Closed(n)'
  BY <1>8, <1>9
<1>13. Shuts(ScopeNodes, base, l)
  <2> HIDE DEF ops
  <2> QED BY <1>1, <1>4, <1>5, <1>6, <1>10, <1>11, <1>12 DEF Shuts
<1> QED BY <1>13, ForestShuts

(* It closes the scope of a declaration with y, its INIT, and z, its DECL. *)
Declares(ns, ops, l, y, z, f) ==
    /\ Closes(ns, ops, l)
    /\ Watermark = contexts[l].watermark + 2
    /\ operators[Watermark].type \in Inits /\ operators[Watermark - 1].type \in Decls
    /\ operators[Watermark - 1].token > contexts[l].token
    /\ operators[Watermark - 1].token < Top(contexts).token
    /\ y.type \in Inits /\ y.arity = 1 /\ y.token = Top(contexts).token
    /\ z.type = operators[Watermark - 1].type /\ z.arity = operators[Watermark - 1].arity + 1
    /\ z.token = operators[Watermark - 1].token /\ z.type = DeclOf[y.type]
    /\ f = Len(Flushed) /\ Len(ns) = f + 4 /\ ns[f + 3] = y /\ ns[f + 4] = z
    /\ \A k \in 1..(f + 2) : ns[k] = ScopeNodes[k]
    /\ Len(ops) = contexts[l].watermark
    /\ \A x \in 1..contexts[l].watermark :
          /\ ops[x].type = operators[x].type
          /\ x # contexts[l].watermark => ops[x] = operators[x]

LEMMA ForestClosesDeclaration ==
    ASSUME BoundsInv, BoundsInv', StackOK, StackOK', ForestOK, pc' \notin Failed,
           NEW l, NEW ns, NEW ops, NEW y, NEW z, NEW f, Declares(ns, ops, l, y, z, f)
    PROVE  ForestOK'
<1> DEFINE N == Len(nodes)
           v == contexts[l].watermark
           d == operators[Watermark - 1].arity
           T == Trees(nodes)
           T2 == Trees(nodes')
<1>1. /\ l \in Nat /\ l >= 1 /\ Len(contexts) = l + 1 /\ contexts' = Child(Rest(contexts), 1)
      /\ Terminating /\ At(i) # "SCOPE"
      /\ ns \in Seq(Written) /\ nodes' = nodes \o ns /\ operators' = ops
      /\ i' = i + 1 /\ pc' = "instruction" /\ buffer' = <<>>
  BY DEF Declares, Closes, Failed
<1>a. /\ Watermark = v + 2
      /\ operators[Watermark].type \in Inits /\ operators[Watermark - 1].type \in Decls
      /\ operators[Watermark - 1].token > contexts[l].token
      /\ operators[Watermark - 1].token < Top(contexts).token
  BY DEF Declares
<1>b. /\ y.type \in Inits /\ y.arity = 1 /\ y.token = Top(contexts).token
      /\ z.type = operators[Watermark - 1].type /\ z.arity = d + 1
      /\ z.token = operators[Watermark - 1].token
  BY DEF Declares
<1>c. /\ f = Len(Flushed) /\ Len(ns) = f + 4 /\ ns[f + 3] = y /\ ns[f + 4] = z
      /\ \A k \in 1..(f + 2) : ns[k] = ScopeNodes[k]
  BY DEF Declares
<1>d. Len(ops) = v /\ \A x \in 1..v : ops[x].type = operators[x].type
                                     /\ (x # v => ops[x] = operators[x])
  BY DEF Declares
<1>2. /\ v \in Nat /\ l \in 1..Len(contexts) /\ Len(contexts) \in 2..Len(contexts)
      /\ Len(contexts) - 1 = l /\ Top(contexts) = contexts[Len(contexts)]
      /\ contexts[l].token \in Nat /\ contexts[l].token < Top(contexts).token
      /\ Top(contexts).token \in Nat /\ i \in Nat /\ Top(contexts).token < i
  <2>1. /\ l \in 1..Len(contexts) /\ Len(contexts) \in 2..Len(contexts) /\ Len(contexts) - 1 = l
    BY <1>1
  <2>2. Linked(contexts[Len(contexts) - 1], contexts[Len(contexts)])
    BY <2>1 DEF StackOK, ScopesOK
  <2>3. /\ v \in Nat /\ contexts[l].token \in Nat /\ Top(contexts) = contexts[Len(contexts)]
        /\ Top(contexts).token \in Nat /\ i \in Nat /\ Top(contexts).token < i
    BY <2>1, StackTypes, ScopeBefore
  <2> QED BY <2>1, <2>2, <2>3 DEF Linked
<1>3. /\ Watermark - 1 = v + 1 /\ Watermark = v + 2
      /\ v + 1 \in 1..Len(operators) /\ v + 2 \in 1..Len(operators)
  <2>1. Watermark <= Len(operators) /\ Len(operators) \in Nat
    BY StackTypes DEF StackOK, ScopesOK
  <2> HIDE DEF v
  <2> QED BY <1>2, <1>a, <2>1
<1>4. /\ d \in Int /\ d >= 1 /\ operators[v + 1].token \in Nat
      /\ Weight(operators[v + 1]) = d /\ Weight(operators[v + 2]) = 0
  <2>1. d >= 1 /\ operators[v + 1].arity = d /\ operators[v + 1].type \in Decls
        /\ operators[v + 2].type \in Inits
    BY <1>3, <1>a DEF ForestOK, WeightsOK
  <2>2. d \in Int /\ operators[v + 1].token \in Nat
    BY <1>3, WeightInt, StackTypes
  <2> HIDE DEF d, v
  <2> QED BY <2>1, <2>2 DEF Weight, Decls, Inits
<1>5. \A x \in 1..v : /\ Weight(ops[x]) = Weight(operators[x])
                      /\ ops[x].type = operators[x].type
                      /\ operators[x].type \in Decls => ops[x].arity = operators[x].arity
  <2>1. v > 0 => operators[v].type \in Inits
    BY <1>2, ScopeInits
  <2> HIDE DEF v
  <2> QED BY <1>2, <1>d, <2>1, WeightsUnderScope
<1>6. PICK base \in [1..Len(contexts) -> 0..N] : Based(base)
  BY DEF ForestOK, SharesOK
<1>7. /\ f \in Nat
      /\ T2[N + (f + 2)] = T[base[Len(contexts)]] + 1
      /\ \A k \in 1..(f + 2) :
            /\ ns[k].token >= Top(contexts).token /\ ns[k].token <= i
            /\ ns[k].token \in Nat
            /\ T2[N + k] >= 1
      /\ \A n \in 1..(N + (f + 2)) :
            n > N /\ nodes'[n].type = "SCOPE" => n = N + (f + 2) /\ Closed(n)'
  <2>1. f \in {0, 1}
    BY <1>1, <1>c, FlushedForest
  <2>2. Len(ns) >= f + 2
    BY <1>c, <2>1
  <2> QED BY <1>1, <1>6, <1>c, <2>1, <2>2, ScopeTree
<1>8. /\ N \in Nat /\ Len(nodes') = N + (f + 4)
      /\ \A k \in 1..Len(ns) : nodes'[N + k] = ns[k]
      /\ \A k \in 1..Len(ns) : T2[N + k] = T2[N + k - 1] + Growth(ns[k])
  <2>1. Len(nodes') = N + Len(ns)
    BY <1>1, TreesAppended
  <2> QED BY <1>1, <1>c, <2>1, TreesAppended
<1>9. /\ f + 3 \in 1..Len(ns) /\ f + 4 \in 1..Len(ns)
      /\ N + (f + 3) - 1 = N + (f + 2) /\ N + (f + 4) - 1 = N + (f + 3)
  <2> HIDE DEF N
  <2> QED BY <1>7, <1>8, <1>c
<1>10. Growth(y) = 0 /\ Growth(z) = 1 - (d + 1) /\ y.type # "SCOPE" /\ z.type # "SCOPE"
  <2>1. /\ Growth(y) = 1 - 1 /\ Growth(z) = 1 - (d + 1)
        /\ y.type # "SCOPE" /\ z.type # "SCOPE"
    <3> HIDE DEF d
    <3> QED BY <1>a, <1>b DEF Growth, Inits, Decls, ExpressionTypes
  <2> QED BY <2>1
<1> DEFINE t == T[base[l]]
           c == contexts[l].children
<1>11. /\ T[base[Len(contexts)]] = t + c + d
       /\ t \in Int /\ t >= 0 /\ c \in Nat
  <2>1. T[base[Len(contexts)]] =
            T[base[l]] + contexts[l].children
            + Waiting(operators, contexts[l].watermark, contexts[Len(contexts)].watermark)
    BY <1>2, <1>6 DEF Based
  <2>2. contexts[Len(contexts)].watermark = v + 2
    BY <1>2, <1>3 DEF Watermark
  <2>3. Waiting(operators, v, v + 2) = Weight(operators[v + 1]) + Weight(operators[v + 2])
    <3>1. Weight(operators[v + 1]) \in Int
      BY <1>4
    <3> QED BY <1>2, <3>1, WaitingIs
  <2>4. Waiting(operators, v, v + 2) = d
    <3>1. d + 0 = d
      BY <1>4
    <3> QED BY <1>4, <2>3, <3>1
  <2>5. t \in Int /\ t >= 0
    BY <1>2, <1>6, BaseTrees
  <2>6. c \in Nat
    <3>1. contexts[l] \in Frame
      BY <1>2 DEF BoundsInv, ContextsOK
    <3> QED BY <3>1 DEF Frame
  <2> QED BY <2>1, <2>2, <2>4, <2>5, <2>6
<1>12. T2[N + (f + 3)] = t + c + d + 1 /\ T2[N + (f + 4)] = t + c + 1
  <2>1. T2[N + (f + 2)] = t + c + d + 1
    BY <1>7, <1>11
  <2>2. T2[N + (f + 3)] = T2[N + (f + 2)] + 0
    BY <1>8, <1>9, <1>10, <1>c, SMTT(30)
  <2>3. T2[N + (f + 4)] = T2[N + (f + 3)] + (1 - (d + 1))
    BY <1>8, <1>9, <1>10, <1>c
  <2> HIDE DEF t, c, d
  <2>4. (t + c + d + 1) + 0 = t + c + d + 1 /\ (t + c + d + 1) + (1 - (d + 1)) = t + c + 1
    BY <1>4, <1>11
  <2> QED BY <2>1, <2>2, <2>3, <2>4
<1>13. t + c + d + 1 >= 1 /\ t + c + 1 >= 1
  <2> HIDE DEF t, c, d
  <2> QED BY <1>4, <1>11
<1>14. ASSUME NEW k \in 1..Len(ns) PROVE k \in 1..(f + 2) \/ k = f + 3 \/ k = f + 4
  BY <1>7, <1>c
<1>15. ASSUME NEW k \in 1..Len(ns)
       PROVE  /\ ns[k].token > contexts[l].token /\ ns[k].token <= i /\ ns[k].token \in Nat
              /\ T2[N + k] >= 1
  <2>1. CASE k \in 1..(f + 2)
    <3>1. /\ ns[k].token >= Top(contexts).token /\ ns[k].token <= i
          /\ ns[k].token \in Nat /\ T2[N + k] >= 1
      BY <1>7, <2>1
    <3>2. \A x1 \in Nat, x2 \in Nat, x3 \in Nat : x1 < x2 /\ x3 >= x2 => x3 > x1
      OBVIOUS
    <3>3. ns[k].token > contexts[l].token
      BY <1>2, <3>1, <3>2
    <3> QED BY <3>1, <3>3
  <2>2. CASE k = f + 3
    <3>1. ns[k].token = Top(contexts).token
      BY <1>b, <1>c, <2>2
    <3>2. T2[N + k] >= 1
      BY <1>12, <1>13, <2>2
    <3> QED BY <1>2, <3>1, <3>2
  <2>3. CASE k = f + 4
    <3>1. ns[k].token = operators[v + 1].token /\ operators[v + 1].token > contexts[l].token
          /\ operators[v + 1].token < Top(contexts).token
      BY <1>3, <1>a, <1>b, <1>c, <2>3
    <3>2. T2[N + k] >= 1
      BY <1>12, <1>13, <2>3
    <3>3. operators[v + 1].token <= i
      BY <1>2, <1>4, <3>1, SMTT(30)
    <3> QED BY <1>4, <3>1, <3>2, <3>3
  <2> QED BY <1>14, <2>1, <2>2, <2>3
<1>16. ASSUME NEW n \in 1..Len(nodes'), n > N, nodes'[n].type = "SCOPE" PROVE Closed(n)'
  <2>1. n - N \in 1..Len(ns) /\ N + (n - N) = n
    <3>1. n \in Nat /\ n <= N + (f + 4) /\ N \in Nat /\ f \in Nat /\ n > N
      BY <1>7, <1>8, <1>16
    <3> HIDE DEF N
    <3> QED BY <1>c, <3>1
  <2>2. nodes'[n] = ns[n - N]
    BY <1>8, <2>1
  <2>3. n - N \in 1..(f + 2)
    <3>1. n - N # f + 3 /\ n - N # f + 4
      BY <1>10, <1>16, <1>c, <2>2
    <3> QED BY <1>14, <2>1, <3>1
  <2>4. n \in 1..(N + (f + 2))
    <3> HIDE DEF N
    <3> QED BY <1>7, <1>8, <2>1, <2>3
  <2> QED BY <1>7, <1>16, <2>4
<1>17. Trees(nodes')[Len(nodes')] = Trees(nodes)[base[l]] + contexts[l].children + 1
  BY <1>8, <1>12
<1>18. Shuts(ns, base, l)
  BY <1>1, <1>d, <1>5, <1>6, <1>15, <1>16, <1>17 DEF Shuts
<1> QED BY <1>18, ForestShuts

(* A scope that is closed is that of an instruction or of a declaration, and *)
(* then it finds the operators of that.                                      *)
LEMMA ScopeCloses ==
    ASSUME BoundsInv, StackOK, ForestOK, CloseScope
    PROVE  \E l : \/ /\ Closes(ScopeNodes, Counted(Kept, 1), l)
                     /\ Watermark = contexts[l].watermark
                  \/ \E ns, ops, y, z, f : Declares(ns, ops, l, y, z, f)
<1> DEFINE scope == Top(contexts)
           w == Watermark
           f == Len(Flushed)
           under == Counted(Kept, 1)
           init == Top(under)
           opsDecl == Counted(Rest(under), 1)
           rest == Counted(Rest(opsDecl), 1)
           declared == /\ Initializes(under, scope.token)
                       /\ opsDecl # <<>>
                       /\ Top(opsDecl).type = DeclOf[init.type]
           y == Node(init.type, 1, init.token)
           z == Top(opsDecl)
           ns == (ScopeNodes \o <<y>>) \o <<z>>
<1>1. /\ Terminating /\ At(i) # "SCOPE" /\ scope.type = "SCOPE"
      /\ contexts' = Child(Rest(contexts), 1) /\ i' = i + 1
      /\ declared => Write(ns, "instruction") /\ operators' = rest
      /\ ~Initializes(under, scope.token) => Write(ScopeNodes, "instruction") /\ operators' = under
      /\ buffer' = buffer
  BY DEF CloseScope, ScopeNodes
<1>2. PICK l \in Nat : l >= 1 /\ Len(contexts) = l + 1
  <2>1. Len(contexts) \in Nat /\ Len(contexts) >= 1 /\ scope = contexts[Len(contexts)]
    BY StackTypes
  <2>2. Len(contexts) # 1
    <3>1. contexts[Len(contexts)].type # "SCOPE_0" /\ Len(contexts) \in 1..Len(contexts)
      BY <1>1, <2>1
    <3> QED BY <3>1 DEF BoundsInv, ContextsOK
  <2>3. \A n \in Nat : n >= 1 /\ n # 1 => n - 1 \in Nat /\ n - 1 >= 1 /\ n = (n - 1) + 1
    OBVIOUS
  <2> QED BY <2>1, <2>2, <2>3
<1> DEFINE v == contexts[l].watermark
<1>3. /\ w \in Nat /\ v \in Nat /\ w = contexts[l + 1].watermark /\ scope = contexts[l + 1]
      /\ contexts[l].token \in Nat /\ scope.token \in Nat
  <2>1. l \in 1..Len(contexts)
    BY <1>2
  <2> QED BY <1>2, <2>1, StackTypes DEF Watermark
<1>4. Linked(contexts[l], scope)
  <2>1. l + 1 \in 2..Len(contexts) /\ (l + 1) - 1 = l
    BY <1>2
  <2>2. Linked(contexts[(l + 1) - 1], contexts[l + 1])
    BY <2>1 DEF StackOK, ScopesOK
  <2> QED BY <1>3, <2>1, <2>2
<1>5. /\ f \in Nat /\ OpsOK(Kept) /\ Len(Kept) = w
      /\ \A x \in 1..w : Kept[x] = operators[x]
  <2>1. f \in {0, 1} /\ OpsOK(Kept) /\ Len(Kept) = w /\ \A x \in 1..w : Kept[x] = operators[x]
    BY <1>1, FlushedForest
  <2> QED BY <2>1
<1>6. /\ OpsOK(under) /\ Len(under) = w
      /\ \A x \in 1..w : /\ under[x].type = operators[x].type
                         /\ under[x].token = operators[x].token
                         /\ x # w => under[x] = operators[x]
  <2>1. /\ OpsOK(under) /\ Len(under) = w
        /\ \A x \in 1..w : /\ under[x].type = Kept[x].type /\ under[x].token = Kept[x].token
                           /\ x # w => under[x] = Kept[x]
    BY <1>3, <1>5, OpsCountedAny
  <2> HIDE DEF under, w
  <2> QED BY <1>5, <2>1
<1>7. w > 0 => /\ under # <<>> /\ init.type = operators[w].type
               /\ init.token = operators[w].token
  <2> SUFFICES ASSUME w > 0
               PROVE  /\ under # <<>> /\ init.type = operators[w].type
                      /\ init.token = operators[w].token
    OBVIOUS
  <2>1. w \in 1..w
    BY <1>3
  <2> HIDE DEF under, w
  <2> QED BY <1>6, <2>1 DEF Top
<1>8. buffer' = <<>>
  BY <1>1 DEF BoundsInv, PhaseOK, Terminating, Reading
<1>9. ScopeNodes \in Seq(Written) /\ Len(ScopeNodes) = f + 2
  BY ScopeNodesFacts
<1>10. CASE w = v /\ (w > 0 => operators[w].token < scope.token)
  <2>1. ~Initializes(under, scope.token)
    <3> SUFFICES ASSUME Initializes(under, scope.token) PROVE FALSE
      OBVIOUS
    <3>1. under # <<>> /\ init.token = scope.token
      <4> HIDE DEF under, scope
      <4> QED BY DEF Initializes
    <3>2. w > 0
      <4> HIDE DEF under, w
      <4> QED BY <1>3, <1>6, <3>1 DEF OpsOK
    <3>3. operators[w].token < scope.token /\ operators[w].token = scope.token
      <4> HIDE DEF under, w, init, scope
      <4> QED BY <1>7, <1>10, <3>1, <3>2
    <3> HIDE DEF w, scope
    <3> QED BY <1>3, <3>3
  <2>2. Closes(ScopeNodes, under, l)
    <3> HIDE DEF under, scope, declared, ns
    <3> QED BY <1>1, <1>2, <1>8, <1>9, <2>1 DEF Closes, Write
  <2>3. Watermark = contexts[l].watermark
    BY <1>10
  <2> HIDE DEF v, ns, declared
  <2> QED BY <2>2, <2>3
<1>11. CASE /\ w = v + 2
            /\ operators[w].type \in Inits /\ operators[w].token = scope.token
            /\ operators[w - 1].type = DeclOf[operators[w].type]
            /\ operators[w - 1].token > contexts[l].token /\ operators[w - 1].token < scope.token
  <2>1. /\ w > 0 /\ w - 1 = v + 1 /\ v + 1 \in 1..w /\ v + 1 # w /\ v + 1 \in Nat
        /\ w = (v + 1) + 1
    <3> HIDE DEF w, v
    <3> QED BY <1>3, <1>11
  <2>2. Initializes(under, scope.token) /\ init.type = operators[w].type
        /\ init.token = scope.token
    <3> HIDE DEF under, w, scope
    <3> QED BY <1>7, <1>11, <2>1 DEF Initializes, Inits
  <2> DEFINE r == Rest(under)
             r2 == Rest(opsDecl)
  <2>3. OpsOK(r) /\ Len(r) = v + 1 /\ \A x \in 1..(v + 1) : r[x] = under[x]
    <3> HIDE DEF under, w, v
    <3> QED BY <1>6, <2>1, OpsRestedExactly
  <2>4. /\ OpsOK(opsDecl) /\ Len(opsDecl) = v + 1
        /\ \A x \in 1..(v + 1) : /\ opsDecl[x].type = r[x].type /\ opsDecl[x].token = r[x].token
                                 /\ x # v + 1 => opsDecl[x] = r[x]
        /\ opsDecl[v + 1].arity = r[v + 1].arity + 1
    <3>1. v + 1 > 0
      BY <1>3
    <3> HIDE DEF under, v
    <3> QED BY <2>1, <2>3, <3>1, OpsCountedAny
  <2>5. \A x \in 1..(v + 1) : r[x] = operators[x] /\ x \in 1..w /\ x # w
    <3>1. ASSUME NEW x \in 1..(v + 1) PROVE x \in 1..w /\ x # w
      <4> HIDE DEF v, w
      <4> QED BY <1>3, <2>1
    <3> HIDE DEF under, r, v, w
    <3> QED BY <1>6, <2>3, <3>1
  <2>6. /\ OpsOK(r2) /\ Len(r2) = v /\ \A x \in 1..v : r2[x] = opsDecl[x]
        /\ z = opsDecl[v + 1] /\ z \in Written
    <3> HIDE DEF opsDecl, v
    <3> QED BY <1>3, <2>4, OpsRestedExactly
  <2>7. /\ Len(rest) = v
        /\ \A x \in 1..v : rest[x].type = r2[x].type /\ (x # v => rest[x] = r2[x])
    <3>1. rest = Counted(r2, 1)
      OBVIOUS
    <3> HIDE DEF rest, r2, v, opsDecl
    <3>2. OpsOK(r2) /\ Len(r2) = v /\ v \in Nat
      BY <1>3, <2>6
    <3>3. /\ Len(Counted(r2, 1)) = v
          /\ \A x \in 1..v : /\ Counted(r2, 1)[x].type = r2[x].type
                             /\ x # v => Counted(r2, 1)[x] = r2[x]
      BY <3>2, OpsCountedAny
    <3> QED BY <3>1, <3>3
  <2>8. \A x \in 1..v : rest[x].type = operators[x].type /\ (x # v => rest[x] = operators[x])
    <3>1. \A x \in 1..v : x \in 1..(v + 1) /\ x # v + 1
      BY <1>3
    <3> HIDE DEF rest, r2, r, opsDecl, v
    <3> QED BY <2>4, <2>5, <2>6, <2>7, <3>1
  <2>9. /\ z.type = operators[w - 1].type /\ z.token = operators[w - 1].token
        /\ z.arity = operators[w - 1].arity + 1
    <3>1. v + 1 \in 1..(v + 1)
      BY <1>3
    <3> HIDE DEF r, opsDecl, v, w
    <3> QED BY <2>1, <2>4, <2>5, <2>6, <3>1
  <2>10. declared
    <3>1. opsDecl # <<>>
      <4> HIDE DEF opsDecl, v
      <4> QED BY <1>3, <2>4
    <3> HIDE DEF opsDecl, under, w, scope, init
    <3> QED BY <1>11, <2>2, <2>9, <3>1
  <2>11. y \in Written /\ y.type = init.type /\ y.arity = 1 /\ y.token = init.token
    <3>1. init.type \in NodeTypes /\ init.token \in Nat
      <4>1. init.type \in Inits
        BY <1>11, <2>2
      <4> HIDE DEF init
      <4> QED BY <1>3, <2>2, <4>1 DEF Inits, NodeTypes, OperatorTypes
    <3> HIDE DEF init
    <3>2. /\ Node(init.type, 1, init.token) \in Items(NodeTypes)
          /\ Node(init.type, 1, init.token).type = init.type
          /\ Node(init.type, 1, init.token).arity = 1
          /\ Node(init.type, 1, init.token).token = init.token
      BY <3>1, NodeType
    <3> QED BY <3>2 DEF Written
  <2>12. /\ ns \in Seq(Written) /\ Len(ns) = f + 4 /\ ns[f + 3] = y /\ ns[f + 4] = z
         /\ \A k \in 1..(f + 2) : ns[k] = ScopeNodes[k]
    <3> HIDE DEF y, z, f
    <3> DEFINE one == ScopeNodes \o <<y>>
    <3>1. <<y>> \in Seq(Written) /\ Len(<<y>>) = 1 /\ <<y>>[1] = y
          /\ <<z>> \in Seq(Written) /\ Len(<<z>>) = 1 /\ <<z>>[1] = z
      BY <2>6, <2>11
    <3>2. /\ one \in Seq(Written) /\ Len(one) = Len(ScopeNodes) + Len(<<y>>)
          /\ \A n \in 1..Len(ScopeNodes) : one[n] = ScopeNodes[n]
          /\ \A n \in 1..Len(<<y>>) : one[Len(ScopeNodes) + n] = <<y>>[n]
      BY <1>9, <3>1, Concatenated
    <3>3. /\ Len(one) = f + 3 /\ one[f + 3] = y
          /\ \A n \in 1..(f + 2) : one[n] = ScopeNodes[n]
      <4>1. (f + 2) + 1 = f + 3 /\ 1 \in 1..1
        BY <1>5
      <4> HIDE DEF one
      <4> QED BY <1>9, <3>1, <3>2, <4>1
    <3>4. /\ one \o <<z>> \in Seq(Written) /\ Len(one \o <<z>>) = Len(one) + Len(<<z>>)
          /\ \A n \in 1..Len(one) : (one \o <<z>>)[n] = one[n]
          /\ \A n \in 1..Len(<<z>>) : (one \o <<z>>)[Len(one) + n] = <<z>>[n]
      <4>1. one \in Seq(Written)
        BY <3>2
      <4> HIDE DEF one
      <4> QED BY <3>1, <4>1, Concatenated
    <3> DEFINE all == one \o <<z>>
    <3>5. ns = all
      OBVIOUS
    <3>6. /\ all \in Seq(Written) /\ Len(all) = Len(one) + 1 /\ all[Len(one) + 1] = z
          /\ \A n \in 1..Len(one) : all[n] = one[n]
      <4>1. 1 \in 1..1
        OBVIOUS
      <4> HIDE DEF one
      <4> QED BY <3>1, <3>4, <4>1
    <3>7. (f + 3) + 1 = f + 4 /\ f + 3 \in 1..(f + 3) /\ \A k \in 1..(f + 2) : k \in 1..(f + 3)
      BY <1>5
    <3> HIDE DEF all, one, ns
    <3> QED BY <3>3, <3>5, <3>6, <3>7
  <2>13. Closes(ns, rest, l)
    <3> HIDE DEF ns, rest, declared, under, scope
    <3> QED BY <1>1, <1>2, <1>8, <2>10, <2>12 DEF Closes, Write
  <2>14. operators[w - 1].type \in Decls
    <3> HIDE DEF w
    <3> QED BY <1>11 DEF Inits, Decls, DeclOf
  <2>15. Declares(ns, rest, l, y, z, f)
    <3>1. y.type \in Inits /\ y.token = scope.token /\ y.arity = 1 /\ z.type = DeclOf[y.type]
      <4> HIDE DEF y, z, init, scope, w
      <4> QED BY <1>11, <2>2, <2>9, <2>11
    <3> HIDE DEF ns, rest, y, z, declared, under, init, opsDecl, r, r2
    <3> QED BY <1>11, <2>7, <2>8, <2>9, <2>12, <2>13, <2>14, <3>1 DEF Declares
  <2> HIDE DEF ns, rest, y, z, f
  <2> QED BY <2>15
<1> HIDE DEF w, v, scope, under, ns, rest, declared
<1>12. scope.watermark = w
  BY <1>3
<1> QED BY <1>4, <1>10, <1>11, <1>12 DEF Linked, v

LEMMA ForestCloseScope ==
    ASSUME BoundsInv, BoundsInv', StackOK, StackOK', ForestOK, CloseScope, pc' \notin Failed
    PROVE  ForestOK'
BY ScopeCloses, ForestClosesInstruction, ForestClosesDeclaration

-----------------------------------------------------------------------------
(* The theorem                                                               *)

LEMMA ForestEndOfSource ==
    ASSUME BoundsInv, BoundsInv', ForestOK, EndOfSource
    PROVE  ForestOK'
<1>1. /\ pc = "instruction" /\ pc' \in {"accepted", "rejected"}
      /\ UNCHANGED <<i, nodes, contexts, operators, buffer, decl>>
  BY DEF EndOfSource
<1>2. SharesOK' /\ GrownOK' /\ ClosedOK'
  BY <1>1 DEF ForestOK, SharesOK, Based, Watermark, Top, Waiting, Weight, GrownOK, Grown,
              ClosedOK, Closed
<1>3. WeightsOK'
  BY <1>1 DEF ForestOK, WeightsOK, Weight
<1>4. PlacesOK'
  BY <1>1 DEF ForestOK, PlacesOK, Calm, Top
<1> QED BY <1>2, <1>3, <1>4 DEF ForestOK

LEMMA ForestStutter == ASSUME ForestOK, UNCHANGED vars PROVE ForestOK'
BY DEF ForestOK, vars, SharesOK, Based, Watermark, Top, Waiting, Weight, GrownOK, Grown,
       ClosedOK, Closed, WeightsOK, PlacesOK

LEMMA InitForest == Init => ForestOK
<1> SUFFICES ASSUME Init PROVE ForestOK
  OBVIOUS
<1>1. /\ contexts = <<Context("SCOPE_0", 0, 0)>> /\ operators = <<>> /\ nodes = <<>>
      /\ buffer = <<>> /\ i = 1 /\ pc = "instruction"
  BY DEF Init, Start, Begin
<1>2. /\ Len(contexts) = 1 /\ contexts[1].watermark = 0 /\ contexts[1].children = 0
      /\ Top(contexts) = contexts[1] /\ Watermark = 0
      /\ Len(operators) = 0 /\ Len(nodes) = 0 /\ Len(buffer) = 0
  BY <1>1 DEF Context, Watermark, Top
<1>3. SharesOK
  <2>1. PICK base : base = [n \in 1..1 |-> 0]
    OBVIOUS
  <2>2. base \in [1..Len(contexts) -> 0..Len(nodes)] /\ base[1] = 0
    BY <1>2, <2>1
  <2>3. Waiting(operators, 0, 0) = 0
    BY WaitingNone
  <2>4. Trees(nodes)[0] = 0
    BY InitBounds, TreesInt
  <2>5. /\ \A n \in 1..Len(contexts), m \in 1..Len(nodes) : FALSE
        /\ \A n \in 2..Len(contexts) : FALSE
    BY <1>2
  <2>6. Trees(nodes)[Len(nodes)] = Trees(nodes)[base[Len(contexts)]] + Top(contexts).children
            + Waiting(operators, Watermark, Len(operators))
    BY <1>2, <2>2, <2>3, <2>4
  <2> QED BY <2>2, <2>5, <2>6 DEF SharesOK, Based
<1>4. /\ \A n \in 1..Len(nodes) : FALSE
      /\ \A n \in 1..Len(operators) : FALSE
      /\ \A n \in 1..Len(buffer) : FALSE
  BY <1>2
<1>5. GrownOK /\ ClosedOK /\ WeightsOK /\ PlacesOK
  BY <1>1, <1>4 DEF GrownOK, ClosedOK, WeightsOK, PlacesOK
<1> QED BY <1>3, <1>5 DEF ForestOK

LEMMA NextForest ==
    ASSUME BoundsInv, BoundsInv', StackInv, StackInv', ForestInv, [Next]_vars
    PROVE  ForestInv'
<1> SUFFICES ASSUME ~dropped', pc' \notin Failed PROVE ForestOK'
  BY DEF ForestInv
<1>1. ~dropped /\ StackOK /\ StackOK'
  BY DroppedKept DEF StackInv
<1>2. CASE Returned \/ UNCHANGED vars
  <2>1. UNCHANGED vars
    BY <1>2 DEF Returned
  <2>2. pc \notin Failed
    BY <2>1 DEF vars
  <2> QED BY <1>1, <2>1, <2>2, ForestStutter DEF ForestInv
<1>3. CASE ~(Returned \/ UNCHANGED vars)
  <2>1. CASE Reject \/ ReadBehindTokens \/ RunBelowBuffer
    BY <2>1 DEF Reject, ReadBehindTokens, RunBelowBuffer, Failed
  <2>2. CASE EndOfSource
    <3>1. pc = "instruction"
      BY <2>2 DEF EndOfSource
    <3>2. ForestOK
      BY <1>1, <3>1 DEF ForestInv, Failed
    <3> QED BY <2>2, <3>2, ForestEndOfSource
  <2>3. CASE GroupQualifiers \/ OpenScope \/ StartExpression \/ ImportModules \/ Declare
    <3>1. pc = "instruction"
      BY <2>3 DEF GroupQualifiers, OpenScope, StartExpression, ImportModules, Declare, Reading
    <3>2. ForestOK
      BY <1>1, <3>1 DEF ForestInv, Failed
    <3> QED BY <1>1, <2>3, <3>2, ForestGroupQualifiers, ForestOpenScope, ForestStartExpression,
               ForestImportModules, ForestDeclare
  <2>4. CASE TypeVar \/ EndType \/ OpenParameters \/ Parameter \/ CloseParameters
    <3>1. pc \in Calm
      BY <2>4 DEF TypeVar, EndType, OpenParameters, Parameter, CloseParameters, Calm, Reading
    <3>2. ForestOK
      BY <1>1, <3>1 DEF ForestInv, Failed, Calm
    <3> QED BY <1>1, <2>4, <3>2, ForestTypeVar, ForestEndType, ForestOpenParameters,
               ForestParameter, ForestCloseParameters
  <2>5. CASE InitializeVariable \/ InitializeNothing \/ InitializeScope
    <3>1. pc = "init"
      BY <2>5 DEF InitializeVariable, InitializeNothing, InitializeScope, Reading
    <3>2. ForestOK
      BY <1>1, <3>1 DEF ForestInv, Failed
    <3> QED BY <1>1, <2>5, <3>2, ForestInitializeVariable, ForestEndType, ForestInitializeScope
  <2>6. CASE \/ PushCallee \/ Operand \/ PushOperator \/ OpenParenthesis \/ SeparateArguments
             \/ PopForOperator \/ PopToParenthesis \/ PopRemaining \/ CloseParenthesis
    <3>1. pc = "expression"
      BY <2>6 DEF PushCallee, Operand, PushOperator, OpenParenthesis, SeparateArguments,
         PopForOperator, PopToParenthesis, PopRemaining, CloseParenthesis, ExpressionEnds, Reading
    <3>2. ForestOK
      BY <1>1, <3>1 DEF ForestInv, Failed
    <3> QED BY <1>1, <2>6, <3>2, ForestPushes, ForestOperand, ForestPops, ForestSeparateArguments,
               ForestCloseParenthesis
  <2>7. CASE EndExpression \/ EndInstruction \/ CloseScope
    <3>1. pc \in {"expression", "instruction", "terminator"}
      BY <2>7 DEF EndExpression, EndInstruction, CloseScope, ExpressionEnds, Terminating, Reading
    <3>2. ForestOK
      BY <1>1, <3>1 DEF ForestInv, Failed
    <3> QED BY <1>1, <2>7, <3>2, ForestEndExpression, ForestEndInstruction, ForestCloseScope
  <2> QED BY <1>3, <2>1, <2>2, <2>3, <2>4, <2>5, <2>6, <2>7 DEF Next
<1> QED BY <1>2, <1>3

-----------------------------------------------------------------------------
(* The accepted forest                                                       *)

(* Only the end of the source is accepted.                                   *)
LEMMA AcceptedAtEnd ==
    ASSUME BoundsInv, [Next]_vars, pc' = "accepted"
    PROVE  UNCHANGED vars \/ (EndOfSource /\ Top(contexts).type = "SCOPE_0")
<1>1. CASE Returned \/ UNCHANGED vars
  BY <1>1 DEF Returned
<1>2. CASE GroupQualifiers \/ OpenScope \/ StartExpression \/ ImportModules \/ Declare
  BY <1>2 DEF GroupQualifiers, OpenScope, StartExpression, ImportModules, Declare, Write, Reading
<1>3. CASE TypeVar \/ EndType \/ OpenParameters \/ Parameter \/ CloseParameters
  BY <1>3 DEF TypeVar, EndType, OpenParameters, Parameter, CloseParameters, Write
<1>4. CASE InitializeVariable \/ InitializeNothing \/ InitializeScope
  BY <1>4 DEF InitializeVariable, InitializeNothing, InitializeScope, AfterDeclaration
<1>5. CASE PushCallee \/ Operand \/ PushOperator \/ OpenParenthesis \/ SeparateArguments
  BY <1>5 DEF PushCallee, Operand, PushOperator, OpenParenthesis, SeparateArguments, PushBuffer,
              Write, Reading
<1>6. CASE PopForOperator \/ PopToParenthesis \/ PopRemaining
  BY <1>6 DEF PopForOperator, PopToParenthesis, PopRemaining, PopBuffer, Write
<1>7. CASE CloseParenthesis \/ RunBelowBuffer \/ EndExpression
  BY <1>7 DEF CloseParenthesis, RunBelowBuffer, EndExpression, Write, AfterDeclaration, Reading
<1>8. CASE EndInstruction \/ CloseScope \/ Reject \/ ReadBehindTokens
  BY <1>8 DEF EndInstruction, CloseScope, Reject, ReadBehindTokens, Write
<1>9. CASE EndOfSource
  BY <1>9 DEF EndOfSource
<1> QED BY <1>1, <1>2, <1>3, <1>4, <1>5, <1>6, <1>7, <1>8, <1>9 DEF Next

(* Then all scopes are closed.                                               *)
ScopesClosed == pc = "accepted" => Len(contexts) = 1

LEMMA NextScopesClosed == ASSUME BoundsInv, ScopesClosed, [Next]_vars PROVE ScopesClosed'
<1> SUFFICES ASSUME pc' = "accepted" PROVE Len(contexts') = 1
  BY DEF ScopesClosed
<1>1. CASE UNCHANGED vars
  BY <1>1 DEF vars, ScopesClosed
<1>2. CASE EndOfSource /\ Top(contexts).type = "SCOPE_0"
  <2>1. contexts' = contexts /\ contexts[Len(contexts)].type = "SCOPE_0"
    BY <1>2 DEF EndOfSource, Top
  <2>2. /\ Len(contexts) \in 1..Len(contexts)
        /\ \A n \in 1..Len(contexts) : contexts[n].type = "SCOPE_0" <=> n = 1
    BY DEF BoundsInv, ContextsOK
  <2> QED BY <2>1, <2>2
<1> QED BY <1>1, <1>2, AcceptedAtEnd

LEMMA ForestGivesNested ==
    BoundsInv /\ StackInv /\ ForestInv /\ ScopesClosed =>
        (pc = "accepted" /\ ~dropped => NestedForest)
<1> SUFFICES ASSUME BoundsInv, StackInv, ForestInv, ScopesClosed, pc = "accepted", ~dropped
             PROVE  NestedForest
  OBVIOUS
<1>1. StackOK /\ ForestOK
  BY DEF StackInv, ForestInv, Failed
<1>2. DOMAIN nodes = 1..Len(nodes)
  BY DEF BoundsInv, NodesOK
<1>3. Len(contexts) = 1 /\ operators = <<>>
  BY <1>1 DEF ScopesClosed, StackOK, OwnedOK
<1>4. \A n \in DOMAIN nodes : Trees(nodes)[n] >= 1 \/ nodes[n].type \in ExpressionTypes
  BY <1>1, <1>2 DEF ForestOK, GrownOK, Grown
<1>5. \A n \in DOMAIN nodes : nodes[n].type = "SCOPE" =>
          \E before \in 0..(n - 1) :
              /\ {m \in 1..n : nodes[m].token >= nodes[n].token} = (before + 1)..n
              /\ Trees(nodes)[n] = Trees(nodes)[before] + 1
  BY <1>1, <1>2 DEF ForestOK, ClosedOK, Closed
<1>6. Trees(nodes)[Len(nodes)] = contexts[1].children
  <2>1. PICK base \in [1..Len(contexts) -> 0..Len(nodes)] : Based(base)
    BY <1>1 DEF ForestOK, SharesOK
  <2>2. /\ base[1] = 0
        /\ Trees(nodes)[Len(nodes)] = Trees(nodes)[base[1]] + contexts[1].children
               + Waiting(operators, Watermark, Len(operators))
    BY <1>3, <2>1 DEF Based, Top
  <2>3. Watermark = 0 /\ Len(operators) = 0
    <3>1. Watermark = contexts[1].watermark
      BY <1>3 DEF Watermark, Top
    <3>2. contexts[1].watermark = 0
      BY <1>1 DEF StackOK, ScopesOK
    <3> QED BY <1>3, <3>1, <3>2
  <2>4. Waiting(operators, Watermark, Len(operators)) = 0
    BY <2>3, WaitingNone
  <2>5. Trees(nodes)[0] = 0
    BY TreesInt
  <2>6. contexts[1].children \in Nat
    <3>1. contexts \in Seq(Frame) /\ 1 \in 1..Len(contexts)
      BY <1>3 DEF BoundsInv, ContextsOK
    <3>2. contexts[1] \in Frame
      BY <3>1
    <3> QED BY <3>2 DEF Frame
  <2> QED BY <2>2, <2>4, <2>5, <2>6
<1> QED BY <1>4, <1>5, <1>6 DEF NestedForest

Nested == pc = "accepted" /\ ~dropped => NestedForest

(* Whatever the tokens are: when the parser accepts them and no push was     *)
(* dropped, every node it wrote finds its children among the complete trees  *)
(* before it, the children of a SCOPE are all that was written since its     *)
(* token was read, and SCOPE_0 has counted the rest.                         *)
THEOREM ForestNested == Spec => []Nested
<1> DEFINE Inv == BoundsInv /\ StackInv /\ ForestInv /\ ScopesClosed
<1>1. Init => Inv
  BY InitBounds, InitStack, InitForest DEF StackInv, ForestInv, ScopesClosed, Init, Start, Begin
<1>2. Inv /\ [Next]_vars => Inv'
  BY NextBounds, NextStack, NextForest, NextScopesClosed
<1>3. Inv => Nested
  BY ForestGivesNested DEF Nested
<1> QED BY <1>1, <1>2, <1>3, PTL DEF Spec

-----------------------------------------------------------------------------
(* Parentheses                                                               *)

(* The parentheses before a token, those of parameters counted with those of *)
(* expressions, as lexer_error.c counts them.                                *)
Opening(p) == {q \in 1..(p - 1) : tokens[q].kind \in {"LPAR", "TLPAR"}}
Closing(p) == {q \in 1..(p - 1) : tokens[q].kind \in {"RPAR", "TRPAR"}}
Parentheses == {"LPAR", "TLPAR", "RPAR", "TRPAR"}

(* The lexer accepts only sources with as many of the one as of the other.   *)
ParenthesesMatch == Cardinality(Opening(Len(tokens) + 1)) = Cardinality(Closing(Len(tokens) + 1))

(* The parentheses among the operators that wait, and among the nodes.       *)
Unclosed(s) == {n \in 1..Len(s) : s[n].type = "LPAR"}

(* One not yet closed waits, has been written, or opened the parameters      *)
(* being read.                                                               *)
Signature == IF pc \in {"parameter", "close"} THEN 1 ELSE 0
ParenthesesOK ==
    Cardinality(Opening(i)) =
        Cardinality(Closing(i)) + Cardinality(Unclosed(buffer)) + Cardinality(Unclosed(nodes))
        + Signature
ParenthesesInv == ~dropped /\ pc \notin Failed => ParenthesesOK

(* All the nodes but those for parentheses.                                  *)
CleanTypes == NodeTypes \ {"LPAR"}
Clean == Items(CleanTypes)

LEMMA FiniteParentheses ==
    ASSUME BoundsInv
    PROVE  /\ \A p \in Int : IsFiniteSet(Opening(p)) /\ IsFiniteSet(Closing(p))
           /\ IsFiniteSet(Unclosed(buffer)) /\ IsFiniteSet(Unclosed(nodes))
<1>1. ASSUME NEW T, NEW n \in Int, T \subseteq 1..n PROVE IsFiniteSet(T)
  <2>1. IsFiniteSet(1..n)
    BY FS_Interval
  <2> QED BY <1>1, <2>1, FS_Subset
<1>2. \A p \in Int : /\ p - 1 \in Int
                     /\ Opening(p) \subseteq 1..(p - 1) /\ Closing(p) \subseteq 1..(p - 1)
  BY DEF Opening, Closing
<1>3. /\ Unclosed(buffer) \subseteq 1..Len(buffer) /\ Len(buffer) \in Int
      /\ Unclosed(nodes) \subseteq 1..Len(nodes) /\ Len(nodes) \in Int
  BY Position DEF Unclosed
<1> QED BY <1>1, <1>2, <1>3

LEMMA Counts ==
    ASSUME BoundsInv
    PROVE  /\ \A p \in Int : Cardinality(Opening(p)) \in Nat /\ Cardinality(Closing(p)) \in Nat
           /\ Cardinality(Unclosed(buffer)) \in Nat /\ Cardinality(Unclosed(nodes)) \in Nat
BY FiniteParentheses, FS_CardinalityType

(* What a step does to the two counts of tokens.                             *)
LEMMA PassedOver ==
    ASSUME BoundsInv, NEW q \in Int, q >= i,
           \A p \in i..(q - 1) : tokens[p].kind \notin Parentheses
    PROVE  Opening(q) = Opening(i) /\ Closing(q) = Closing(i)
<1>1. i \in Int
  BY Position
<1>2. \A p \in 1..(q - 1) : p \in 1..(i - 1) \/ p \in i..(q - 1)
  BY <1>1
<1>3. \A p \in 1..(i - 1) : p \in 1..(q - 1)
  BY <1>1
<1> QED BY <1>1, <1>2, <1>3 DEF Opening, Closing, Parentheses

LEMMA PassedOne ==
    ASSUME BoundsInv
    PROVE  /\ At(i) \in {"LPAR", "TLPAR"} =>
                 /\ Cardinality(Opening(i + 1)) = Cardinality(Opening(i)) + 1
                 /\ Closing(i + 1) = Closing(i)
           /\ At(i) \in {"RPAR", "TRPAR"} =>
                 /\ Cardinality(Closing(i + 1)) = Cardinality(Closing(i)) + 1
                 /\ Opening(i + 1) = Opening(i)
<1>1. i \in Int /\ i >= 1 /\ i + 1 \in Int /\ \A p : p \in 1..((i + 1) - 1) <=> p \in 1..(i - 1) \/ p = i
  BY Position
<1>2. At(i) \in Parentheses => At(i) = tokens[i].kind
  BY DEF At, Parentheses
<1>3. i \notin Opening(i) /\ i \notin Closing(i)
  BY <1>1 DEF Opening, Closing
<1>4. IsFiniteSet(Opening(i)) /\ IsFiniteSet(Closing(i))
  BY <1>1, FiniteParentheses
<1>5. CASE At(i) \in {"LPAR", "TLPAR"}
  <2>1. Opening(i + 1) = Opening(i) \cup {i} /\ Closing(i + 1) = Closing(i)
    BY <1>1, <1>2, <1>5 DEF Opening, Closing, Parentheses
  <2>2. Cardinality(Opening(i) \cup {i}) = Cardinality(Opening(i)) + 1
    BY <1>3, <1>4, FS_AddElement
  <2> QED BY <1>5, <2>1, <2>2
<1>6. CASE At(i) \in {"RPAR", "TRPAR"}
  <2>1. Closing(i + 1) = Closing(i) \cup {i} /\ Opening(i + 1) = Opening(i)
    BY <1>1, <1>2, <1>6 DEF Opening, Closing, Parentheses
  <2>2. Cardinality(Closing(i) \cup {i}) = Cardinality(Closing(i)) + 1
    BY <1>3, <1>4, FS_AddElement
  <2> QED BY <1>6, <2>1, <2>2
<1> QED BY <1>5, <1>6

(* What it does to a list.                                                   *)
LEMMA Extended ==
    ASSUME NEW S, NEW s \in Seq(S), NEW x, NEW t, Len(t) = Len(s) + 1,
           \A n \in 1..Len(s) : t[n] = s[n], t[Len(s) + 1] = x
    PROVE  /\ x.type # "LPAR" => Unclosed(t) = Unclosed(s)
           /\ x.type = "LPAR" => Cardinality(Unclosed(t)) = Cardinality(Unclosed(s)) + 1
<1>1. Len(s) \in Nat /\ \A n : n \in 1..Len(t) <=> n \in 1..Len(s) \/ n = Len(s) + 1
  OBVIOUS
<1>2. x.type # "LPAR" => Unclosed(t) = Unclosed(s)
  BY <1>1 DEF Unclosed
<1>3. x.type = "LPAR" => Unclosed(t) = Unclosed(s) \cup {Len(s) + 1}
  BY <1>1 DEF Unclosed
<1>4. Len(s) + 1 \notin Unclosed(s) /\ Unclosed(s) \subseteq 1..Len(s)
  BY <1>1 DEF Unclosed
<1>5. IsFiniteSet(Unclosed(s))
  <2>1. IsFiniteSet(1..Len(s))
    BY <1>1, FS_Interval
  <2> QED BY <1>4, <2>1, FS_Subset
<1>6. Cardinality(Unclosed(s) \cup {Len(s) + 1}) = Cardinality(Unclosed(s)) + 1
  BY <1>4, <1>5, FS_AddElement
<1> QED BY <1>2, <1>3, <1>6

LEMMA CleanWritten ==
    ASSUME BoundsInv, NEW ns \in Seq(Clean), nodes' = nodes \o ns
    PROVE  Unclosed(nodes') = Unclosed(nodes)
<1>1. /\ nodes \in Seq(Written) /\ Len(nodes) \in Nat /\ Len(ns) \in Nat
  BY DEF BoundsInv, NodesOK
<1>2. \A x \in Clean : x.type # "LPAR"
  BY ItemFields DEF Clean, CleanTypes
<1>3. /\ Len(nodes') = Len(nodes) + Len(ns)
      /\ \A n \in 1..Len(nodes) : nodes'[n] = nodes[n]
      /\ \A k \in 1..Len(ns) : nodes'[Len(nodes) + k] = ns[k]
  BY <1>1
<1>4. \A k \in 1..Len(ns) : ns[k].type # "LPAR"
  BY <1>1, <1>2
<1>5. \A n \in 1..Len(nodes') : n \in 1..Len(nodes) \/ nodes'[n].type # "LPAR"
  <2> SUFFICES ASSUME NEW n \in 1..Len(nodes'), n \notin 1..Len(nodes)
               PROVE  nodes'[n].type # "LPAR"
    OBVIOUS
  <2>1. n - Len(nodes) \in 1..Len(ns) /\ Len(nodes) + (n - Len(nodes)) = n
    BY <1>1, <1>3
  <2>2. nodes'[Len(nodes) + (n - Len(nodes))].type # "LPAR"
    BY <1>3, <1>4, <2>1
  <2> QED BY <2>1, <2>2
<1>6. \A n \in 1..Len(nodes) : n \in 1..Len(nodes')
  BY <1>1, <1>3
<1> QED BY <1>3, <1>5, <1>6 DEF Unclosed

(* The handlers that neither read nor write a parenthesis.                   *)
Passing ==
    /\ tokens' = tokens /\ buffer' = buffer
    /\ i' \in Int /\ i' >= i
    /\ \A p \in i..(i' - 1) : tokens[p].kind \notin Parentheses
    /\ \E ns \in Seq(Clean) : nodes' = nodes \o ns
    /\ pc' \in Failed \/ (pc' \in {"parameter", "close"} <=> pc \in {"parameter", "close"})

LEMMA ParenthesesPassed ==
    ASSUME BoundsInv, ParenthesesOK, Passing, pc' \notin Failed
    PROVE  ParenthesesOK'
<1>1. Opening(i') = Opening(i) /\ Closing(i') = Closing(i)
  BY PassedOver DEF Passing
<1>2. Opening(i)' = Opening(i') /\ Closing(i)' = Closing(i')
  BY DEF Opening, Closing, Passing
<1>3. Unclosed(nodes') = Unclosed(nodes)
  BY CleanWritten DEF Passing
<1>4. Unclosed(buffer') = Unclosed(buffer)
  BY DEF Passing
<1>5. Signature' = Signature
  BY DEF Passing, Signature
<1>6. /\ Unclosed(buffer)' = Unclosed(buffer') /\ Unclosed(nodes)' = Unclosed(nodes')
  BY DEF Unclosed
<1> QED BY <1>1, <1>2, <1>3, <1>4, <1>5, <1>6 DEF ParenthesesOK

LEMMA CleanTypesAre ==
    /\ \A x \in Operator : x \in Clean
    /\ \A type \in CleanTypes, p \in Nat : Leaf(type, p) \in Clean /\ <<Leaf(type, p)>> \in Seq(Clean)
    /\ \A type \in CleanTypes, p \in Nat, a \in Int :
          Node(type, a, p) \in Clean /\ <<Node(type, a, p)>> \in Seq(Clean)
    /\ {"Q", "MOD", "ID", "TYPE_VAR", "TYPE_PAL_VOID", "PARAM", "TYPE_PAL", "SCOPE_END", "SCOPE",
        "KEY", "LIT", "CALLEE"} \subseteq CleanTypes
    /\ OperatorTypes \subseteq CleanTypes
<1>1. /\ {"Q", "MOD", "ID", "TYPE_VAR", "TYPE_PAL_VOID", "PARAM", "TYPE_PAL", "SCOPE_END", "SCOPE",
          "KEY", "LIT", "CALLEE"} \subseteq CleanTypes
      /\ OperatorTypes \subseteq CleanTypes
  BY DEF CleanTypes, NodeTypes, OperatorTypes, ExpressionTypes, Decls, Inits
<1>2. \A x \in Operator : x \in Clean
  BY <1>1 DEF Operator, Clean, Items
<1>3. \A type \in CleanTypes, p \in Nat, a \in Int : Node(type, a, p) \in Clean
  BY DEF Clean, Items, Node
<1>4. \A type \in CleanTypes, p \in Nat : Leaf(type, p) \in Clean
  BY <1>3 DEF Leaf
<1>5. \A x \in Clean : <<x>> \in Seq(Clean)
  OBVIOUS
<1> QED BY <1>1, <1>2, <1>3, <1>4, <1>5

(* Types of nodes that name no token. *)
MuteTypes == CleanTypes \ Naming
Mute == Items(MuteTypes)

LEMMA MuteTypesAre ==
    /\ \A x \in Operator : x \in Mute
    /\ \A type \in MuteTypes, p \in Nat : Leaf(type, p) \in Mute /\ <<Leaf(type, p)>> \in Seq(Mute)
    /\ \A type \in MuteTypes, p \in Nat, a \in Int :
          Node(type, a, p) \in Mute /\ <<Node(type, a, p)>> \in Seq(Mute)
    /\ {"TYPE_PAL_VOID", "TYPE_PAL", "SCOPE_END", "SCOPE"} \subseteq MuteTypes
    /\ OperatorTypes \subseteq MuteTypes
<1>1. /\ {"TYPE_PAL_VOID", "TYPE_PAL", "SCOPE_END", "SCOPE"} \subseteq MuteTypes
      /\ OperatorTypes \subseteq MuteTypes
  BY DEF MuteTypes, CleanTypes, Naming, NodeTypes, OperatorTypes, ExpressionTypes, Decls, Inits
<1>2. \A x \in Operator : x \in Mute
  BY <1>1 DEF Operator, Mute, Items
<1>3. \A type \in MuteTypes, p \in Nat, a \in Int : Node(type, a, p) \in Mute
  BY DEF Mute, Items, Node
<1>4. \A type \in MuteTypes, p \in Nat : Leaf(type, p) \in Mute
  BY <1>3 DEF Leaf
<1>5. \A x \in Mute : <<x>> \in Seq(Mute)
  OBVIOUS
<1> QED BY <1>1, <1>2, <1>3, <1>4, <1>5

LEMMA MuteClean ==
    /\ \A s \in Seq(Mute) : s \in Seq(Clean) /\ s \in Seq(Written)
    /\ <<>> \in Seq(Mute)
<1>1. \A x \in Mute : x \in Clean /\ x \in Written
  BY DEF Mute, MuteTypes, Clean, CleanTypes, Written, Items
<1> QED BY <1>1

(* What is written names no token. *)
WritesMute == \E ns \in Seq(Mute) : nodes' = nodes \o ns

LEMMA MuteWritten == ASSUME BoundsInv, WritesMute PROVE Unclosed(nodes') = Unclosed(nodes)
<1>1. PICK ns \in Seq(Mute) : nodes' = nodes \o ns
  BY DEF WritesMute
<1>2. ns \in Seq(Clean)
  BY MuteClean
<1> QED BY <1>1, <1>2, CleanWritten

(* A token read is none. *)
LEMMA ReadKinds ==
    ASSUME NEW p, At(p) \notin Parentheses, At(p) # "NO"
    PROVE  tokens[p].kind \notin Parentheses
BY DEF At

(* The position moves over a token that is no parenthesis, or stays. *)
Moved == i' \in Int /\ i' >= i /\ \A p \in i..(i' - 1) : tokens[p].kind \notin Parentheses

LEMMA MovedOne ==
    ASSUME BoundsInv, At(i) \notin Parentheses, At(i) # "NO", i' = i + 1
    PROVE  Moved
<1>1. \A p \in i..(i' - 1) : p = i
  BY Position
<1>2. i' \in Int /\ i' >= i
  BY Position
<1> QED BY <1>1, <1>2, ReadKinds DEF Moved

LEMMA MovedNone == ASSUME BoundsInv, i' = i PROVE Moved
<1>1. \A p \in i..(i' - 1) : FALSE
  BY Position
<1> QED BY <1>1, Position DEF Moved

LEMMA PassesNothing ==
    ASSUME BoundsInv, UNCHANGED <<tokens, i, nodes, buffer>>,
           pc' \notin {"parameter", "close"}, pc \notin {"parameter", "close"}
    PROVE  Passing
<1>2. Moved
  BY MovedNone
<1>3. \E ns \in Seq(Clean) : nodes' = nodes \o ns
  <2>1. <<>> \in Seq(Clean) /\ nodes' = nodes \o <<>>
    BY DEF BoundsInv, NodesOK
  <2> QED BY <2>1, Zenon
<1> QED BY <1>2, <1>3 DEF Passing, Moved

LEMMA PassesOpenScope == ASSUME BoundsInv, OpenScope PROVE Passing
<1>1. /\ At(i) = "SCOPE" /\ i' = i + 1 /\ UNCHANGED <<tokens, pc, nodes, buffer>>
  BY DEF OpenScope, input
<1>2. At(i) \notin Parentheses /\ At(i) # "NO"
  BY <1>1 DEF Parentheses
<1>3. Moved
  BY <1>1, <1>2, MovedOne
<1>4. \E ns \in Seq(Clean) : nodes' = nodes \o ns
  <2>1. <<>> \in Seq(Clean) /\ nodes' = nodes \o <<>>
    BY <1>1 DEF BoundsInv, NodesOK
  <2> QED BY <2>1, Zenon
<1> QED BY <1>1, <1>3, <1>4 DEF Passing, Moved

LEMMA PassesOneLeaf ==
    ASSUME BoundsInv, TypeVar \/ Operand
    PROVE  Passing
<1>1. CASE TypeVar
  <2>1. /\ pc = "type" /\ At(i) \in {"TYPE", "TSCOPE"} /\ i' = i + 1
        /\ UNCHANGED <<tokens, buffer>> /\ nodes' = nodes \o <<Leaf("TYPE_VAR", i)>>
        /\ pc' \in {"typed", "aborted"}
    BY <1>1 DEF TypeVar, Reading, Lock, Write, input
  <2>2. At(i) \notin Parentheses /\ At(i) # "NO"
    BY <2>1 DEF Parentheses
  <2>3. <<Leaf("TYPE_VAR", i)>> \in Seq(Clean)
    BY CleanTypesAre, Position
  <2>4. \E ns \in Seq(Clean) : nodes' = nodes \o ns
    BY <2>1, <2>3, Zenon
  <2>5. Moved
    BY <2>1, <2>2, MovedOne
  <2> QED BY <2>1, <2>4, <2>5 DEF Passing, Moved, Failed
<1>2. CASE Operand
  <2>1. /\ pc = "expression" /\ At(i) \in {"KEY", "LIT"} /\ i' = i + 1
        /\ UNCHANGED <<tokens, buffer>> /\ nodes' = nodes \o <<Leaf(At(i), i)>>
        /\ pc' \in {"expression", "aborted"}
    BY <1>2 DEF Operand, Reading, Write, input
  <2>2. At(i) \notin Parentheses /\ At(i) # "NO"
    BY <2>1 DEF Parentheses
  <2>3. <<Leaf(At(i), i)>> \in Seq(Clean)
    <3>1. At(i) \in CleanTypes
      BY <2>1, CleanTypesAre
    <3> QED BY <3>1, CleanTypesAre, Position
  <2>4. \E ns \in Seq(Clean) : nodes' = nodes \o ns
    BY <2>1, <2>3, Zenon
  <2>5. Moved
    BY <2>1, <2>2, MovedOne
  <2> QED BY <2>1, <2>4, <2>5 DEF Passing, Moved, Failed
<1> QED BY <1>1, <1>2

LEMMA PassesGroupQualifiers == ASSUME BoundsInv, GroupQualifiers PROVE Passing
<1>1. pc = "instruction" /\ i \in Nat /\ i >= 1 /\ Len(tokens) \in Nat /\ UNCHANGED <<tokens, buffer>>
  BY Position DEF GroupQualifiers, Reading, input
<1>2. PICK last \in i..Len(tokens) :
         LET ops == Counted(Pushed(operators, Node("GRP_Q", 0, i)), last - i + 1)
         IN  /\ \A p \in i..last : At(p) = "Q"
             /\ Write([x \in 1..(last - i + 1) |-> Leaf("Q", i + x - 1)] \o <<Top(ops)>>,
                      "instruction")
             /\ i' = last + 1
  BY DEF GroupQualifiers
<1> DEFINE pushed == Pushed(operators, Node("GRP_Q", 0, i))
           ops == Counted(pushed, last - i + 1)
           leaves == [x \in 1..(last - i + 1) |-> Leaf("Q", i + x - 1)]
<1>3. Top(ops) \in Operator
  <2>1. OpsOK(pushed) /\ Len(pushed) >= 1
    <3>1. "GRP_Q" \in OperatorTypes /\ OpsOK(operators)
      BY Kept1 DEF OperatorTypes
    <3> QED BY <1>1, <3>1, OpsPush
  <2>2. OpsOK(ops) /\ Len(ops) = Len(pushed)
    <3>1. last - i + 1 \in Int
      BY <1>1
    <3> HIDE DEF pushed
    <3> QED BY <2>1, <3>1, OpsCount
  <2> HIDE DEF ops, pushed
  <2> QED BY <2>1, <2>2, OpsRest
<1>4. leaves \in Seq(Clean)
  <2>1. \A x \in 1..(last - i + 1) : Leaf("Q", i + x - 1) \in Clean
    <3>1. \A x \in 1..(last - i + 1) : i + x - 1 \in Nat
      BY <1>1
    <3> QED BY <3>1, CleanTypesAre
  <2>2. last - i + 1 \in Nat
    BY <1>1
  <2> QED BY <2>1, <2>2
<1>5. leaves \o <<Top(ops)>> \in Seq(Clean)
  <2>1. <<Top(ops)>> \in Seq(Clean)
    <3>1. Top(ops) \in Clean
      BY <1>3, CleanTypesAre
    <3> HIDE DEF ops
    <3> QED BY <3>1
  <2> HIDE DEF leaves, ops
  <2> QED BY <1>4, <2>1, Concatenated
<1>6. nodes' = nodes \o (leaves \o <<Top(ops)>>) /\ pc' \in {"instruction", "aborted"}
  BY <1>2 DEF Write
<1>7. i' \in Int /\ i' >= i /\ \A p \in i..(i' - 1) : tokens[p].kind \notin Parentheses
  <2>1. i' = last + 1 /\ \A p \in i..last : At(p) = "Q"
    BY <1>2
  <2>2. \A p \in i..(i' - 1) : p \in i..last
    BY <1>1, <2>1
  <2>3. \A p \in i..(i' - 1) : At(p) \notin Parentheses /\ At(p) # "NO"
    BY <2>1, <2>2 DEF Parentheses
  <2> QED BY <1>1, <2>1, <2>3, ReadKinds
<1> HIDE DEF leaves, ops
<1> QED BY <1>1, <1>5, <1>6, <1>7 DEF Passing, Failed

LEMMA PassesImportModules == ASSUME BoundsInv, ImportModules PROVE Passing
<1>1. /\ pc = "instruction" /\ At(i) = "MOD" /\ i \in Nat /\ i >= 1 /\ Len(tokens) \in Nat
      /\ UNCHANGED <<tokens, buffer>>
  BY Position DEF ImportModules, Reading, input
<1>2. PICK last \in i..Len(tokens) :
         /\ \A p \in (i + 1)..last : At(p) = "KEY"
         /\ Write([x \in 1..(last - i) |-> Leaf("MOD", i + x)], "terminator")
         /\ i' = last + 1
  BY DEF ImportModules
<1> DEFINE leaves == [x \in 1..(last - i) |-> Leaf("MOD", i + x)]
<1>3. leaves \in Seq(Clean)
  <2>1. \A x \in 1..(last - i) : Leaf("MOD", i + x) \in Clean
    <3>1. \A x \in 1..(last - i) : i + x \in Nat
      BY <1>1
    <3> QED BY <3>1, CleanTypesAre
  <2>2. last - i \in Nat
    BY <1>1
  <2> QED BY <2>1, <2>2
<1>4. nodes' = nodes \o leaves /\ pc' \in {"terminator", "aborted"}
  BY <1>2 DEF Write
<1>5. i' \in Int /\ i' >= i /\ \A p \in i..(i' - 1) : tokens[p].kind \notin Parentheses
  <2>1. \A p \in i..(i' - 1) : p = i \/ p \in (i + 1)..last
    BY <1>1, <1>2
  <2>2. \A p \in i..(i' - 1) : At(p) \notin Parentheses /\ At(p) # "NO"
    BY <1>1, <1>2, <2>1 DEF Parentheses
  <2> QED BY <1>1, <1>2, <2>2, ReadKinds
<1> HIDE DEF leaves
<1> QED BY <1>1, <1>3, <1>4, <1>5 DEF Passing, Failed

LEMMA PassesDeclare == ASSUME BoundsInv, Declare PROVE Passing
<1>1. /\ pc = "instruction" /\ At(i) = "COM" /\ At(i + 1) = "ID" /\ i' = i + 2
      /\ nodes' = nodes \o <<Leaf("ID", i + 1)>> /\ pc' \in {"type", "aborted"}
      /\ UNCHANGED <<tokens, buffer>> /\ i \in Nat
  BY Position DEF Declare, Reading, Write, input
<1>2. <<Leaf("ID", i + 1)>> \in Seq(Clean)
  BY <1>1, CleanTypesAre
<1>3. \A p \in i..(i' - 1) : p = i \/ p = i + 1
  BY <1>1
<1>4. \A p \in i..(i' - 1) : At(p) \notin Parentheses /\ At(p) # "NO"
  BY <1>1, <1>3 DEF Parentheses
<1>5. \E ns \in Seq(Clean) : nodes' = nodes \o ns
  BY <1>1, <1>2, Zenon
<1>6. \A p \in i..(i' - 1) : tokens[p].kind \notin Parentheses
  BY <1>4, ReadKinds
<1> QED BY <1>1, <1>5, <1>6 DEF Passing, Failed

LEMMA PassesParameter == ASSUME BoundsInv, Parameter PROVE Passing
<1>1. /\ pc = "parameter" /\ At(i) = "KEY" /\ At(i + 1) \in {"TYPE", "TSCOPE"}
      /\ i' = IF At(i + 2) = "COMMA" THEN i + 3 ELSE i + 2
      /\ nodes' = nodes \o <<Leaf("PARAM", i), Leaf("TYPE_VAR", i + 1)>>
      /\ pc' \in {"close", "parameter", "aborted"}
      /\ UNCHANGED <<tokens, buffer>> /\ i \in Nat
  BY Position DEF Parameter, Reading, Lock, Write, input
<1>2. <<Leaf("PARAM", i), Leaf("TYPE_VAR", i + 1)>> \in Seq(Clean)
  <2>1. Leaf("PARAM", i) \in Clean /\ Leaf("TYPE_VAR", i + 1) \in Clean
    BY <1>1, CleanTypesAre
  <2> QED BY <2>1
<1>3. \A p \in i..(i' - 1) : p = i \/ p = i + 1 \/ (p = i + 2 /\ At(i + 2) = "COMMA")
  BY <1>1
<1>4. \A p \in i..(i' - 1) : At(p) \notin Parentheses /\ At(p) # "NO"
  BY <1>1, <1>3 DEF Parentheses
<1>5. \E ns \in Seq(Clean) : nodes' = nodes \o ns
  BY <1>1, <1>2, Zenon
<1>6. \A p \in i..(i' - 1) : tokens[p].kind \notin Parentheses
  BY <1>4, ReadKinds
<1>7. i' \in Int /\ i' >= i
  BY <1>1
<1> QED BY <1>1, <1>5, <1>6, <1>7 DEF Passing, Failed

LEMMA PassesInitialization ==
    ASSUME BoundsInv, InitializeVariable \/ InitializeScope
    PROVE  Passing
<1>1. /\ pc = "init" /\ i' = Initialized /\ UNCHANGED <<tokens, nodes, buffer>>
      /\ pc' \in {"expression", "instruction", "terminator"}
  BY AfterDeclarationPhase DEF InitializeVariable, InitializeScope, Reading, input
<1>2. \E ns \in Seq(Clean) : nodes' = nodes \o ns
  <2>1. <<>> \in Seq(Clean) /\ nodes' = nodes \o <<>>
    BY <1>1 DEF BoundsInv, NodesOK
  <2> QED BY <2>1, Zenon
<1>3. CASE At(i) = "ASSIGN"
  <2>1. i' = i + 1 /\ At(i) \notin Parentheses /\ At(i) # "NO"
    BY <1>1, <1>3 DEF Initialized, Parentheses
  <2>2. Moved
    BY <2>1, MovedOne
  <2> QED BY <1>1, <1>2, <2>2 DEF Passing, Moved
<1>4. CASE At(i) # "ASSIGN"
  <2>1. i' = i
    BY <1>1, <1>4 DEF Initialized
  <2>2. Moved
    BY <2>1, MovedNone
  <2> QED BY <1>1, <1>2, <2>2 DEF Passing, Moved
<1> QED BY <1>3, <1>4

LEMMA SemicolonsRead ==
    ASSUME tokens \in Seq(Token), i \in 1..Len(tokens), At(i) = "SEMI"
    PROVE  /\ AfterSemicolons \in (i + 1)..(Len(tokens) + 1)
           /\ \A p \in i..(AfterSemicolons - 1) : At(p) = "SEMI"
<1> DEFINE T == {p \in (i + 1)..(Len(tokens) + 1) : At(p) # "SEMI"}
<1>1. Len(tokens) \in Nat /\ DOMAIN tokens = 1..Len(tokens)
  OBVIOUS
<1>2. Len(tokens) + 1 \in T
  BY <1>1 DEF At
<1>3. PICK p \in T : \A y \in T : p <= y
  <2>1. T \in SUBSET Nat
    BY <1>1
  <2> HIDE DEF T
  <2> QED BY <1>2, <2>1, LeastNat
<1>4. \A p2 \in i..(p - 1) : At(p2) = "SEMI"
  <2> SUFFICES ASSUME NEW p2 \in i..(p - 1) PROVE At(p2) = "SEMI"
    OBVIOUS
  <2>1. p2 \in Int /\ p \in Int /\ p2 < p /\ (p2 = i \/ p2 \in (i + 1)..(Len(tokens) + 1))
    BY <1>1, <1>3
  <2>2. p2 \notin T
    BY <1>3, <2>1
  <2> QED BY <2>1, <2>2
<1>5. \E q \in (i + 1)..(Len(tokens) + 1) :
         At(q) # "SEMI" /\ \A p2 \in i..(q - 1) : At(p2) = "SEMI"
  BY <1>3, <1>4
<1> QED BY <1>5 DEF AfterSemicolons

LEMMA PassesEndInstruction == ASSUME BoundsInv, EndInstruction PROVE Passing /\ WritesMute
<1>1. /\ pc \in {"instruction", "terminator"} /\ At(i) = "SEMI"
      /\ nodes' = nodes \o Flushed /\ pc' \in {"instruction", "aborted"}
      /\ i' = AfterSemicolons /\ UNCHANGED <<tokens, buffer>>
  BY DEF EndInstruction, Terminating, Reading, Write, input
<1>2. /\ operators \in Seq(Operator) /\ contexts \in Seq(Frame) /\ contexts # <<>>
      /\ tokens \in Seq(Token) /\ i \in 1..Len(tokens) /\ Len(tokens) \in Nat
  BY <1>1, Position DEF BoundsInv, InputOK, OperatorsOK, OpsOK, ContextsOK
<1>3. Flushed \in Seq(Mute)
  <2>1. Flushed \in Seq(Operator)
    BY <1>2, FlushedFacts
  <2> QED BY <2>1, MuteTypesAre
<1>4. /\ AfterSemicolons \in (i + 1)..(Len(tokens) + 1)
      /\ \A p \in i..(AfterSemicolons - 1) : At(p) = "SEMI"
  BY <1>1, <1>2, SemicolonsRead
<1>5. \A p \in i..(i' - 1) : At(p) \notin Parentheses /\ At(p) # "NO"
  BY <1>1, <1>4 DEF Parentheses
<1>6. i' \in Int /\ i' >= i
  BY <1>1, <1>2, <1>4
<1>7. Flushed \in Seq(Clean)
  BY <1>3, MuteClean
<1> QED BY <1>1, <1>3, <1>5, <1>6, <1>7, ReadKinds DEF Passing, Failed, WritesMute

LEMMA PassesEndExpression == ASSUME BoundsInv, EndExpression PROVE Passing /\ WritesMute
<1> DEFINE ops == [operators EXCEPT ![Len(operators)].arity = 1]
           init == Counted(Rest(ops), 1)
           next == AfterDeclaration(Rest(init))
<1>1. /\ pc = "expression" /\ i' = i /\ UNCHANGED <<tokens, buffer>>
      /\ decl = "NO" => pc' = "terminator" /\ UNCHANGED nodes
      /\ decl # "NO" => Write(<<Top(ops), Top(init)>>, next)
  BY DEF EndExpression, ExpressionEnds, Reading, input
<1>2. CASE decl = "NO"
  <2>1. UNCHANGED <<tokens, i, nodes, buffer>> /\ pc = "expression" /\ pc' = "terminator"
    BY <1>2 DEF EndExpression, ExpressionEnds, Reading, input
  <2>2. pc' \notin {"parameter", "close"} /\ pc \notin {"parameter", "close"}
    BY <2>1
  <2> HIDE DEF ops, init, next
  <2>3. Passing
    BY <2>1, <2>2, PassesNothing
  <2>4. nodes' = nodes \o <<>>
    BY <2>1 DEF BoundsInv, NodesOK
  <2> QED BY <2>3, <2>4, MuteClean, Zenon DEF WritesMute
<1>3. CASE decl # "NO"
  <2>1. Len(operators) >= 3 /\ operators # <<>> /\ Len(operators) \in Nat
    BY <1>1, <1>3, Position DEF BoundsInv, PhaseOK
  <2>2. OpsOK(ops) /\ Len(ops) = Len(operators)
    <3>1. OpsOK(operators) /\ operators # <<>> /\ 1 \in Int
      BY <2>1, Kept1
    <3> QED BY <3>1, SetLastArity
  <2>3. OpsOK(Rest(ops)) /\ Len(Rest(ops)) >= 2 /\ Top(ops) \in Operator
    <3> HIDE DEF ops
    <3> QED BY <2>1, <2>2, OpsRest
  <2>4. OpsOK(init) /\ Len(init) >= 2
    <3> HIDE DEF ops
    <3> QED BY <2>3, OpsCount
  <2>5. Top(init) \in Operator
    <3> HIDE DEF init
    <3> QED BY <2>4, OpsRest
  <2>6. <<Top(ops), Top(init)>> \in Seq(Mute)
    <3>1. Top(ops) \in Mute /\ Top(init) \in Mute
      <4> HIDE DEF ops, init
      <4> QED BY <2>3, <2>5, MuteTypesAre
    <3> HIDE DEF ops, init
    <3> QED BY <3>1
  <2>7. nodes' = nodes \o <<Top(ops), Top(init)>> /\ pc' \in {next, "aborted"}
    BY <1>1, <1>3 DEF Write
  <2>8. next \in {"instruction", "terminator"}
    BY AfterDeclarationPhase
  <2>9. \E ns \in Seq(Mute) : nodes' = nodes \o ns
    BY <2>6, <2>7, Zenon
  <2>10. Moved
    BY <1>1, MovedNone
  <2>11. \E ns \in Seq(Clean) : nodes' = nodes \o ns
    BY <2>9, MuteClean, Zenon
  <2> HIDE DEF next
  <2> QED BY <1>1, <2>7, <2>8, <2>9, <2>10, <2>11 DEF Passing, Moved, Failed, WritesMute
<1> QED BY <1>2, <1>3

LEMMA PassesCloseScope == ASSUME BoundsInv, CloseScope PROVE Passing /\ WritesMute
<1> DEFINE scope == Top(contexts)
           under == Counted(Kept, 1)
           init == Top(under)
           opsDecl == Counted(Rest(under), 1)
           initializes == Initializes(under, scope.token)
           declared == /\ Initializes(under, scope.token)
                       /\ opsDecl # <<>>
                       /\ Top(opsDecl).type = DeclOf[init.type]
           withInit == ScopeNodes \o <<Node(init.type, 1, init.token)>>
           ns == IF declared THEN withInit \o <<Top(opsDecl)>>
                 ELSE IF initializes THEN withInit \o <<>> ELSE ScopeNodes
<1>1. /\ pc \in {"instruction", "terminator"} /\ At(i) = "PERIOD" /\ i' = i + 1
      /\ UNCHANGED <<tokens, buffer>>
  BY DEF CloseScope, Terminating, Reading, input
<1>2. nodes' = nodes \o ns /\ pc' \in {"instruction", "aborted"}
  <2>1. CASE declared
    <3>1. Write(withInit \o <<Top(opsDecl)>>, "instruction")
      BY <2>1 DEF CloseScope, ScopeNodes
    <3> QED BY <2>1, <3>1 DEF Write
  <2>2. CASE ~declared /\ initializes
    <3>1. Write(withInit \o <<>>, "aborted")
      BY <2>2 DEF CloseScope, ScopeNodes
    <3> QED BY <2>2, <3>1 DEF Write
  <2>3. CASE ~initializes
    <3>1. Write(ScopeNodes, "instruction")
      BY <2>3 DEF CloseScope, ScopeNodes
    <3> QED BY <2>3, <3>1 DEF Write
  <2> QED BY <2>1, <2>2, <2>3
<1>3. /\ operators \in Seq(Operator) /\ contexts \in Seq(Frame) /\ contexts # <<>>
      /\ OpsOK(operators) /\ Len(operators) \in Nat
  BY Position DEF BoundsInv, OperatorsOK, OpsOK, ContextsOK
<1>4. /\ Flushed \in Seq(Operator) /\ OpsOK(Kept)
      /\ scope.token \in Nat /\ scope.children + Len(Flushed) + 1 \in Int
  <2>1. /\ Flushed \in Seq(Operator) /\ Len(Flushed) \in Nat
        /\ Kept \in Seq(Operator) /\ Len(Kept) <= Len(operators)
    BY <1>3, FlushedFacts
  <2>2. scope \in Frame
    BY <1>3, RestFacts
  <2>3. Len(Kept) <= StackSize
    BY <1>3, <2>1, Position DEF OpsOK
  <2> QED BY <2>1, <2>2, <2>3 DEF Frame, OpsOK
<1>5. OpsOK(under) /\ OpsOK(opsDecl)
  <2>1. OpsOK(under)
    BY <1>4, OpsCount
  <2>2. OpsOK(opsDecl)
    <3> HIDE DEF under
    <3> QED BY <2>1, OpsRest, OpsCount
  <2> QED BY <2>1, <2>2
<1>6. ScopeNodes \in Seq(Mute)
  <2> DEFINE end == Leaf("SCOPE_END", scope.token)
             node == Node("SCOPE", scope.children + Len(Flushed) + 1, scope.token)
  <2>1. end \in Mute /\ node \in Mute
    <3> HIDE DEF scope
    <3> QED BY <1>4, MuteTypesAre
  <2>2. <<end, node>> \in Seq(Mute)
    <3> HIDE DEF end, node
    <3> QED BY <2>1
  <2>3. Flushed \in Seq(Mute)
    BY <1>4, MuteTypesAre
  <2>4. ScopeNodes = Flushed \o <<end, node>>
    BY DEF ScopeNodes
  <2> HIDE DEF end, node
  <2> QED BY <2>2, <2>3, <2>4, Concatenated
<1>7. initializes => withInit \in Seq(Mute)
  <2> SUFFICES ASSUME initializes PROVE withInit \in Seq(Mute)
    OBVIOUS
  <2>1. init \in Operator
    <3>1. under # <<>>
      <4> HIDE DEF under
      <4> QED BY DEF Initializes
    <3> HIDE DEF under
    <3> QED BY <1>5, <3>1, RestFacts DEF OpsOK
  <2>2. Node(init.type, 1, init.token) \in Mute
    <3>1. init.type \in MuteTypes /\ init.token \in Nat
      <4> HIDE DEF init
      <4> QED BY <2>1, ItemFields, MuteTypesAre DEF Operator
    <3> HIDE DEF init
    <3> QED BY <3>1, MuteTypesAre
  <2>3. <<Node(init.type, 1, init.token)>> \in Seq(Mute)
    <3> HIDE DEF init
    <3> QED BY <2>2
  <2> HIDE DEF init
  <2> QED BY <1>6, <2>3, Concatenated
<1>8. declared => <<Top(opsDecl)>> \in Seq(Mute)
  <2> SUFFICES ASSUME declared PROVE <<Top(opsDecl)>> \in Seq(Mute)
    OBVIOUS
  <2>1. opsDecl # <<>>
    OBVIOUS
  <2> HIDE DEF opsDecl
  <2>2. Top(opsDecl) \in Operator
    BY <1>5, <2>1, RestFacts DEF OpsOK
  <2>3. Top(opsDecl) \in Mute
    BY <2>2, MuteTypesAre
  <2> QED BY <2>3
<1>9. ns \in Seq(Mute)
  <2>1. declared => initializes
    OBVIOUS
  <2>2. <<>> \in Seq(Mute)
    OBVIOUS
  <2> HIDE DEF withInit, opsDecl, declared, initializes
  <2>3. declared => withInit \o <<Top(opsDecl)>> \in Seq(Mute)
    BY <1>7, <1>8, <2>1, Concatenated
  <2>4. initializes => withInit \o <<>> \in Seq(Mute)
    BY <1>7, <2>2, Concatenated
  <2> QED BY <1>6, <2>3, <2>4
<1>10. \E ns2 \in Seq(Mute) : nodes' = nodes \o ns2
  <2> HIDE DEF ns
  <2> QED BY <1>2, <1>9, Zenon
<1>11. Moved
  BY <1>1, MovedOne DEF Parentheses
<1>12. \E ns2 \in Seq(Clean) : nodes' = nodes \o ns2
  <2> HIDE DEF ns
  <2> QED BY <1>10, MuteClean, Zenon
<1> HIDE DEF ns
<1> QED BY <1>1, <1>2, <1>10, <1>11, <1>12 DEF Passing, Moved, Failed, WritesMute

LEMMA ParenthesesPassing ==
    ASSUME BoundsInv, ParenthesesOK, pc' \notin Failed,
           \/ GroupQualifiers \/ OpenScope \/ StartExpression \/ ImportModules \/ Declare
           \/ TypeVar \/ EndType \/ Parameter
           \/ InitializeVariable \/ InitializeNothing \/ InitializeScope
           \/ Operand \/ EndExpression \/ EndInstruction \/ CloseScope \/ EndOfSource
    PROVE  ParenthesesOK'
<1>1. CASE StartExpression
  <2>1. UNCHANGED <<tokens, i, nodes, buffer>> /\ pc = "instruction" /\ pc' = "expression"
    BY <1>1 DEF StartExpression, Reading, input
  <2> QED BY <2>1, PassesNothing, ParenthesesPassed
<1>2. CASE EndType
  <2>1. UNCHANGED <<tokens, i, nodes, buffer>> /\ pc \in {"type", "typed"} /\ pc' = "init"
    BY <1>2 DEF EndType, input
  <2> QED BY <2>1, PassesNothing, ParenthesesPassed
<1>3. CASE InitializeNothing
  <2>1. /\ UNCHANGED <<tokens, i, nodes, buffer>> /\ pc = "init"
        /\ pc' \in {"instruction", "terminator"}
    BY <1>3, AfterDeclarationPhase DEF InitializeNothing, Reading, input
  <2> QED BY <2>1, PassesNothing, ParenthesesPassed
<1>4. CASE EndOfSource
  <2>1. /\ UNCHANGED <<tokens, i, nodes, buffer>> /\ pc = "instruction"
        /\ pc' \in {"rejected", "accepted"}
    BY <1>4 DEF EndOfSource, input
  <2> QED BY <2>1, PassesNothing, ParenthesesPassed
<1>5. CASE GroupQualifiers \/ OpenScope \/ ImportModules \/ Declare
  BY <1>5, PassesGroupQualifiers, PassesOpenScope, PassesImportModules, PassesDeclare,
     ParenthesesPassed
<1>6. CASE TypeVar \/ Operand \/ Parameter \/ InitializeVariable \/ InitializeScope
  BY <1>6, PassesOneLeaf, PassesParameter, PassesInitialization, ParenthesesPassed
<1>7. CASE EndExpression \/ EndInstruction \/ CloseScope
  BY <1>7, PassesEndExpression, PassesEndInstruction, PassesCloseScope, ParenthesesPassed
<1> QED BY <1>1, <1>2, <1>3, <1>4, <1>5, <1>6, <1>7

(* What a step over one parenthesis does to the two counts.                  *)
LEMMA CountsMoved ==
    ASSUME BoundsInv, tokens' = tokens, i' = i + 1
    PROVE  /\ At(i) \in {"LPAR", "TLPAR"} =>
                 /\ Cardinality(Opening(i))' = Cardinality(Opening(i)) + 1
                 /\ Cardinality(Closing(i))' = Cardinality(Closing(i))
           /\ At(i) \in {"RPAR", "TRPAR"} =>
                 /\ Cardinality(Opening(i))' = Cardinality(Opening(i))
                 /\ Cardinality(Closing(i))' = Cardinality(Closing(i)) + 1
           /\ At(i) \notin Parentheses /\ At(i) # "NO" =>
                 /\ Cardinality(Opening(i))' = Cardinality(Opening(i))
                 /\ Cardinality(Closing(i))' = Cardinality(Closing(i))
<1>1. Opening(i)' = Opening(i + 1) /\ Closing(i)' = Closing(i + 1)
  BY DEF Opening, Closing
<1>2. At(i) \notin Parentheses /\ At(i) # "NO" =>
          Opening(i + 1) = Opening(i) /\ Closing(i + 1) = Closing(i)
  <2> SUFFICES ASSUME At(i) \notin Parentheses, At(i) # "NO"
               PROVE  Opening(i + 1) = Opening(i) /\ Closing(i + 1) = Closing(i)
    OBVIOUS
  <2>1. \A p \in i..((i + 1) - 1) : p = i
    BY Position
  <2>2. \A p \in i..((i + 1) - 1) : tokens[p].kind \notin Parentheses
    BY <2>1, ReadKinds
  <2>3. i + 1 \in Int /\ i + 1 >= i
    BY Position
  <2> QED BY <2>2, <2>3, PassedOver
<1> QED BY <1>1, <1>2, PassedOne

(* The buffer without its top.                                               *)
LEMMA UnclosedRest ==
    ASSUME NEW s \in Seq(Pending), s # <<>>
    PROVE  /\ Top(s).type # "LPAR" => Unclosed(Rest(s)) = Unclosed(s)
           /\ Top(s).type = "LPAR" => Cardinality(Unclosed(s)) = Cardinality(Unclosed(Rest(s))) + 1
<1>1. /\ Rest(s) \in Seq(Pending) /\ Len(s) = Len(Rest(s)) + 1
      /\ \A n \in 1..Len(Rest(s)) : s[n] = Rest(s)[n]
      /\ s[Len(Rest(s)) + 1] = Top(s)
  <2>1. Len(s) \in Nat /\ Len(Rest(s)) = Len(s) - 1
    BY RestFacts
  <2> QED BY <2>1, RestFacts DEF Top
<1> DEFINE r == Rest(s)
<1> HIDE DEF r
<1>2. /\ r \in Seq(Pending) /\ Len(s) = Len(r) + 1
      /\ \A n \in 1..Len(r) : s[n] = r[n]
      /\ s[Len(r) + 1] = Top(s)
  BY <1>1 DEF r
<1>3. /\ Top(s).type # "LPAR" => Unclosed(s) = Unclosed(r)
      /\ Top(s).type = "LPAR" => Cardinality(Unclosed(s)) = Cardinality(Unclosed(r)) + 1
  BY <1>2, Extended
<1> QED BY <1>3 DEF r

LEMMA UnclosedPrimed ==
    /\ Unclosed(buffer)' = Unclosed(buffer') /\ Unclosed(nodes)' = Unclosed(nodes')
BY DEF Unclosed

LEMMA ParenthesesPushed ==
    ASSUME BoundsInv, ParenthesesOK, ~dropped',
           PushCallee \/ PushOperator \/ OpenParenthesis
    PROVE  ParenthesesOK'
<1>1. PICK type \in PendingTypes :
         /\ pc = "expression" /\ PushBuffer(Node(type, 0, i)) /\ At(i) # "NO"
         /\ \/ At(i) = "LPAR" /\ type = "LPAR"
            \/ At(i) \notin Parentheses /\ type # "LPAR"
  <2>1. PushCallee => /\ pc = "expression" /\ PushBuffer(Node("CALLEE", 0, i)) /\ At(i) # "NO"
                      /\ At(i) \notin Parentheses /\ "CALLEE" \in PendingTypes
    BY DEF PushCallee, Callee, Reading, Parentheses, PendingTypes
  <2>2. PushOperator => /\ pc = "expression" /\ PushBuffer(Node(At(i), 0, i)) /\ At(i) # "NO"
                        /\ At(i) \notin Parentheses /\ At(i) \in PendingTypes /\ At(i) # "LPAR"
    BY DEF PushOperator, Algebraic, Reading, Parentheses, PendingTypes
  <2>3. OpenParenthesis => /\ pc = "expression" /\ PushBuffer(Node("LPAR", 0, i)) /\ At(i) = "LPAR"
                           /\ "LPAR" \in PendingTypes
    BY DEF OpenParenthesis, Reading, PendingTypes
  <2> QED BY <2>1, <2>2, <2>3
<1> DEFINE x == Node(type, 0, i)
<1>2. x \in Pending /\ x.type = type
  BY Position, NodeType DEF Pending
<1>3. /\ ~Full(buffer) /\ buffer' = Pushed(buffer, x) /\ i' = i + 1
      /\ UNCHANGED <<tokens, pc, nodes>>
  BY <1>1 DEF PushBuffer, input
<1> HIDE DEF x
<1>4. buffer \in Seq(Pending) /\ Len(buffer) <= StackSize
  BY DEF BoundsInv, BufferOK
<1>5. /\ Len(buffer') = Len(buffer) + 1 /\ \A n \in 1..Len(buffer) : buffer'[n] = buffer[n]
      /\ buffer'[Len(buffer) + 1] = x
  <2> DEFINE r == Pushed(buffer, x)
  <2>1. /\ ~Full(buffer) => Len(r) = Len(buffer) + 1 /\ r[Len(buffer) + 1] = x
        /\ \A n \in 1..Len(buffer) : r[n] = buffer[n]
    <3>1. x \in Pending
      BY <1>2
    <3> QED BY <1>4, <3>1, PushedFacts
  <2>2. buffer' = r
    BY <1>3
  <2> HIDE DEF r
  <2> QED BY <1>3, <2>1, <2>2
<1>6. /\ x.type # "LPAR" => Unclosed(buffer') = Unclosed(buffer)
      /\ x.type = "LPAR" => Cardinality(Unclosed(buffer')) = Cardinality(Unclosed(buffer)) + 1
  BY <1>4, <1>5, Extended
<1>7. Signature' = Signature /\ Unclosed(nodes)' = Unclosed(nodes) /\ Signature \in Int
  BY <1>3 DEF Signature, Unclosed
<1>8. i \in Int
  BY Position
<1>9. CASE At(i) = "LPAR"
  <2>1. /\ Cardinality(Opening(i))' = Cardinality(Opening(i)) + 1
        /\ Cardinality(Closing(i))' = Cardinality(Closing(i))
    BY <1>3, <1>9, CountsMoved
  <2>2. Cardinality(Unclosed(buffer))' = Cardinality(Unclosed(buffer)) + 1
    BY <1>1, <1>2, <1>6, <1>9, UnclosedPrimed DEF Parentheses
  <2> QED BY <1>7, <1>8, <2>1, <2>2, Counts DEF ParenthesesOK
<1>10. CASE At(i) # "LPAR"
  <2>1. /\ Cardinality(Opening(i))' = Cardinality(Opening(i))
        /\ Cardinality(Closing(i))' = Cardinality(Closing(i))
    BY <1>1, <1>3, <1>10, CountsMoved
  <2>2. Unclosed(buffer)' = Unclosed(buffer)
    BY <1>1, <1>2, <1>6, <1>10, UnclosedPrimed
  <2> QED BY <1>7, <1>8, <2>1, <2>2, Counts DEF ParenthesesOK
<1> QED BY <1>9, <1>10

(* A parenthesis taken from the buffer before it was closed is written.      *)
LEMMA ParenthesesPopped ==
    ASSUME BoundsInv, ParenthesesOK, pc' \notin Failed,
           PopForOperator \/ PopToParenthesis \/ PopRemaining
    PROVE  ParenthesesOK'
<1> DEFINE x == Node(TopType, 2, Top(buffer).token)
<1>1. /\ pc = "expression" /\ pc' = "expression" /\ buffer' = Rest(buffer)
      /\ nodes' = nodes \o <<x>> /\ UNCHANGED <<tokens, i>>
  BY DEF PopForOperator, PopToParenthesis, PopRemaining, ExpressionEnds, Reading, PopBuffer, Write,
         Failed, input
<1>2. buffer # <<>>
  BY BindsTop DEF PopForOperator, PopToParenthesis, PopRemaining
<1>3. x.type = Top(buffer).type
  BY <1>2, BufferTop DEF Node
<1> HIDE DEF x
<1>4. /\ Len(nodes') = Len(nodes) + 1 /\ \A n \in 1..Len(nodes) : nodes'[n] = nodes[n]
      /\ nodes'[Len(nodes) + 1] = x /\ nodes \in Seq(Written)
  <2>1. nodes \in Seq(Written)
    BY DEF BoundsInv, NodesOK
  <2> QED BY <1>1, <2>1
<1>5. /\ x.type # "LPAR" => Unclosed(nodes') = Unclosed(nodes)
      /\ x.type = "LPAR" => Cardinality(Unclosed(nodes')) = Cardinality(Unclosed(nodes)) + 1
  BY <1>4, Extended
<1>6. /\ Top(buffer).type # "LPAR" => Unclosed(buffer') = Unclosed(buffer)
      /\ Top(buffer).type = "LPAR" =>
            Cardinality(Unclosed(buffer)) = Cardinality(Unclosed(buffer')) + 1
  BY <1>1, <1>2, UnclosedRest DEF BoundsInv, BufferOK
<1>7. /\ Opening(i)' = Opening(i) /\ Closing(i)' = Closing(i) /\ Signature' = Signature
      /\ Signature \in Int /\ i \in Int
  BY <1>1, Position DEF Opening, Closing, Signature
<1>8. Cardinality(Unclosed(buffer')) \in Nat
  <2>1. buffer' \in Seq(Pending) /\ Unclosed(buffer') \subseteq 1..Len(buffer')
    BY <1>1, <1>2, BufferTop DEF Unclosed
  <2>2. IsFiniteSet(1..Len(buffer'))
    BY <2>1, FS_Interval
  <2> QED BY <2>1, <2>2, FS_Subset, FS_CardinalityType
<1>9. Cardinality(Unclosed(buffer')) + Cardinality(Unclosed(nodes'))
          = Cardinality(Unclosed(buffer)) + Cardinality(Unclosed(nodes))
  BY <1>3, <1>5, <1>6, <1>8, Counts
<1>10. Cardinality(Unclosed(nodes')) \in Nat
  BY <1>3, <1>5, Counts
<1> QED BY <1>7, <1>8, <1>9, <1>10, Counts, UnclosedPrimed DEF ParenthesesOK

LEMMA ParenthesesSeparated ==
    ASSUME BoundsInv, ParenthesesOK, SeparateArguments
    PROVE  ParenthesesOK'
<1>1. /\ pc = "expression" /\ At(i) = "COMMA" /\ i' = i + 1 /\ buffer' = Counted(buffer, 1)
      /\ UNCHANGED <<tokens, pc, nodes>>
  BY DEF SeparateArguments, Reading, input
<1>2. Unclosed(buffer)' = Unclosed(buffer)
  <2>1. /\ Len(buffer') = Len(buffer)
        /\ \A n \in 1..Len(buffer) : buffer'[n].type = buffer[n].type
    <3>1. buffer \in Seq(Items(PendingTypes)) /\ 1 \in Int
      BY DEF BoundsInv, BufferOK, Pending
    <3> QED BY <1>1, <3>1, CountedFacts
  <2> QED BY <2>1 DEF Unclosed
<1>3. Signature' = Signature /\ Unclosed(nodes)' = Unclosed(nodes)
  BY <1>1 DEF Signature, Unclosed
<1>4. /\ Cardinality(Opening(i))' = Cardinality(Opening(i))
      /\ Cardinality(Closing(i))' = Cardinality(Closing(i))
  BY <1>1, CountsMoved DEF Parentheses
<1> QED BY <1>2, <1>3, <1>4 DEF ParenthesesOK

LEMMA ParenthesesClosed ==
    ASSUME BoundsInv, ParenthesesOK, CloseParenthesis, pc' \notin Failed
    PROVE  ParenthesesOK'
<1> DEFINE under == Rest(buffer)
           arity == IF At(i - 1) = "LPAR" THEN 0 ELSE Top(buffer).arity + 1
           callee == under # <<>> /\ Top(under).type = "CALLEE"
           node == Node("CALLEE", arity, Top(under).token)
<1>1. /\ pc = "expression" /\ pc' = "expression" /\ At(i) = "RPAR" /\ TopType = "LPAR"
      /\ i' = i + 1 /\ UNCHANGED tokens
      /\ callee => nodes' = nodes \o <<node>> /\ buffer' = Rest(under)
      /\ ~callee => buffer' = under /\ UNCHANGED nodes
  BY DEF CloseParenthesis, Reading, Write, Failed, input
<1>2. /\ buffer # <<>> /\ Top(buffer).type = "LPAR" /\ buffer \in Seq(Pending)
      /\ under \in Seq(Pending)
  <2>1. buffer # <<>>
    BY <1>1 DEF TopType
  <2> QED BY <1>1, <2>1, BufferTop DEF BoundsInv, BufferOK
<1>3. Cardinality(Unclosed(buffer)) = Cardinality(Unclosed(under)) + 1
  BY <1>2, UnclosedRest
<1>4. Unclosed(buffer') = Unclosed(under)
  <2>1. CASE callee
    <3>1. under # <<>> /\ Top(under).type # "LPAR" /\ buffer' = Rest(under)
      BY <1>1, <2>1
    <3> HIDE DEF under
    <3> QED BY <1>2, <3>1, UnclosedRest
  <2>2. CASE ~callee
    BY <1>1, <2>2
  <2> QED BY <2>1, <2>2
<1>5. Unclosed(nodes') = Unclosed(nodes)
  <2>1. CASE callee
    <3>1. /\ Len(nodes') = Len(nodes) + 1 /\ \A n \in 1..Len(nodes) : nodes'[n] = nodes[n]
          /\ nodes'[Len(nodes) + 1] = node /\ nodes \in Seq(Written)
      <4>1. nodes \in Seq(Written) /\ nodes' = nodes \o <<node>>
        BY <1>1, <2>1 DEF BoundsInv, NodesOK
      <4> HIDE DEF node
      <4> QED BY <4>1
    <3>2. node.type # "LPAR"
      BY DEF Node
    <3> HIDE DEF node
    <3> QED BY <3>1, <3>2, Extended
  <2>2. CASE ~callee
    BY <1>1, <2>2
  <2> QED BY <2>1, <2>2
<1>6. Signature' = Signature /\ Signature \in Int
  BY <1>1 DEF Signature
<1>7. /\ Cardinality(Opening(i))' = Cardinality(Opening(i))
      /\ Cardinality(Closing(i))' = Cardinality(Closing(i)) + 1
  BY <1>1, CountsMoved
<1>8. Cardinality(Unclosed(under)) \in Nat
  <2>1. Unclosed(under) \subseteq 1..Len(under) /\ Len(under) \in Int
    BY <1>2 DEF Unclosed
  <2>2. IsFiniteSet(1..Len(under))
    BY <2>1, FS_Interval
  <2> QED BY <2>1, <2>2, FS_Subset, FS_CardinalityType
<1>9. i \in Int
  BY Position
<1> HIDE DEF under
<1> QED BY <1>3, <1>4, <1>5, <1>6, <1>7, <1>8, <1>9, Counts, UnclosedPrimed DEF ParenthesesOK

(* The parentheses of a declaration, and what is written for their group.    *)
LEMMA WritesParameters ==
    ASSUME BoundsInv, OpenParameters \/ CloseParameters
    PROVE  WritesMute
<1>1. CASE OpenParameters
  <2> DEFINE void == <<Leaf("TYPE_PAL_VOID", i)>>
             returned == IF pc = "type" THEN void ELSE <<>>
             behind == IF At(i + 1) = "TRPAR" THEN void ELSE <<>>
  <2>1. nodes' = nodes \o (returned \o behind)
    BY <1>1 DEF OpenParameters, Write
  <2>2. void \in Seq(Mute) /\ <<>> \in Seq(Mute)
    BY Position, MuteTypesAre, MuteClean
  <2>3. returned \in Seq(Mute) /\ behind \in Seq(Mute)
    <3> HIDE DEF void
    <3> QED BY <2>2
  <2> HIDE DEF returned, behind
  <2>4. returned \o behind \in Seq(Mute)
    BY <2>3, Concatenated
  <2> QED BY <2>1, <2>4, Zenon DEF WritesMute
<1>2. CASE CloseParameters
  <2> DEFINE type == Node("TYPE_PAL", 2, TypeStart)
  <2>1. pc = "close" /\ nodes' = nodes \o <<Top(operators), type>>
    BY <1>2 DEF CloseParameters, Reading, Write
  <2>2. /\ Len(operators) >= 2 /\ Len(operators) \in Nat
        /\ \E n \in 1..Len(nodes) : nodes[n].type = "ID"
    BY <2>1, Position DEF BoundsInv, PhaseOK
  <2>3. Top(operators) \in Mute
    BY <2>2, Kept1, OpsRest, MuteTypesAre
  <2>4. type \in Mute
    BY <2>2, Kept1, TypeStartType, MuteTypesAre
  <2> HIDE DEF type
  <2>5. <<Top(operators), type>> \in Seq(Mute)
    BY <2>3, <2>4
  <2> QED BY <2>1, <2>5, Zenon DEF WritesMute
<1> QED BY <1>1, <1>2

LEMMA ParenthesesOpened ==
    ASSUME BoundsInv, ParenthesesOK, OpenParameters, pc' \notin Failed
    PROVE  ParenthesesOK'
<1>1. /\ pc \in {"type", "typed"} /\ At(i) = "TLPAR" /\ i' = i + 1
      /\ pc' \in {"close", "parameter", "aborted"} /\ UNCHANGED <<tokens, buffer>>
  BY DEF OpenParameters, Write, input
<1>2. Unclosed(nodes') = Unclosed(nodes)
  BY WritesParameters, MuteWritten
<1>3. Signature = 0 /\ Signature' = 1
  BY <1>1 DEF Signature, Failed
<1>4. /\ Cardinality(Opening(i))' = Cardinality(Opening(i)) + 1
      /\ Cardinality(Closing(i))' = Cardinality(Closing(i))
  BY <1>1, CountsMoved
<1>5. i \in Int /\ Unclosed(buffer') = Unclosed(buffer)
  BY <1>1, Position
<1> QED BY <1>2, <1>3, <1>4, <1>5, Counts, UnclosedPrimed DEF ParenthesesOK

LEMMA ParenthesesEnded ==
    ASSUME BoundsInv, ParenthesesOK, CloseParameters, pc' \notin Failed
    PROVE  ParenthesesOK'
<1>1. /\ pc = "close" /\ i' = i + 1 /\ pc' \in {"init", "aborted"} /\ UNCHANGED <<tokens, buffer>>
  BY DEF CloseParameters, Reading, Write, input
<1>2. At(i) = "TRPAR"
  BY <1>1 DEF BoundsInv, PhaseOK
<1>3. Unclosed(nodes') = Unclosed(nodes)
  BY WritesParameters, MuteWritten
<1>4. Signature = 1 /\ Signature' = 0
  BY <1>1 DEF Signature, Failed
<1>5. /\ Cardinality(Opening(i))' = Cardinality(Opening(i))
      /\ Cardinality(Closing(i))' = Cardinality(Closing(i)) + 1
  BY <1>1, <1>2, CountsMoved
<1>6. i \in Int /\ Unclosed(buffer') = Unclosed(buffer)
  BY <1>1, Position
<1> QED BY <1>3, <1>4, <1>5, <1>6, Counts, UnclosedPrimed DEF ParenthesesOK

LEMMA InitParentheses == Init => ParenthesesOK
<1> SUFFICES ASSUME Init PROVE ParenthesesOK
  OBVIOUS
<1>1. i = 1 /\ nodes = <<>> /\ buffer = <<>> /\ pc = "instruction"
  BY DEF Init, Start, Begin
<1>2. Opening(i) = {} /\ Closing(i) = {} /\ Unclosed(buffer) = {} /\ Unclosed(nodes) = {}
  BY <1>1 DEF Opening, Closing, Unclosed
<1>3. Cardinality({}) = 0
  BY FS_EmptySet
<1>4. Signature = 0
  BY <1>1 DEF Signature
<1> QED BY <1>2, <1>3, <1>4 DEF ParenthesesOK

LEMMA ParenthesesStutter == ASSUME ParenthesesOK, UNCHANGED vars PROVE ParenthesesOK'
BY DEF ParenthesesOK, Opening, Closing, Unclosed, Signature, vars

LEMMA NextParentheses ==
    ASSUME BoundsInv, ParenthesesInv, [Next]_vars
    PROVE  ParenthesesInv'
<1> SUFFICES ASSUME ~dropped', pc' \notin Failed PROVE ParenthesesOK'
  BY DEF ParenthesesInv
<1>1. ~dropped
  BY DroppedKept
<1>2. CASE Returned \/ UNCHANGED vars
  <2>1. UNCHANGED vars
    BY <1>2 DEF Returned
  <2>2. pc \notin Failed
    BY <2>1 DEF vars
  <2> QED BY <1>1, <2>1, <2>2, ParenthesesStutter DEF ParenthesesInv
<1>3. CASE ~(Returned \/ UNCHANGED vars)
  <2>1. CASE Reject \/ ReadBehindTokens \/ RunBelowBuffer
    BY <2>1 DEF Reject, ReadBehindTokens, RunBelowBuffer, Failed
  <2>2. CASE \/ GroupQualifiers \/ OpenScope \/ StartExpression \/ ImportModules \/ Declare
             \/ EndOfSource
    <3>1. pc = "instruction"
      BY <2>2 DEF GroupQualifiers, OpenScope, StartExpression, ImportModules, Declare, EndOfSource,
                  Reading
    <3>2. ParenthesesOK
      BY <1>1, <3>1 DEF ParenthesesInv, Failed
    <3> QED BY <2>2, <3>2, ParenthesesPassing
  <2>3. CASE TypeVar \/ EndType \/ OpenParameters \/ Parameter \/ CloseParameters
    <3>1. pc \in Calm
      BY <2>3 DEF TypeVar, EndType, OpenParameters, Parameter, CloseParameters, Calm, Reading
    <3>2. ParenthesesOK
      BY <1>1, <3>1 DEF ParenthesesInv, Failed, Calm
    <3> QED BY <2>3, <3>2, ParenthesesPassing, ParenthesesOpened, ParenthesesEnded
  <2>4. CASE InitializeVariable \/ InitializeNothing \/ InitializeScope
    <3>1. pc = "init"
      BY <2>4 DEF InitializeVariable, InitializeNothing, InitializeScope, Reading
    <3>2. ParenthesesOK
      BY <1>1, <3>1 DEF ParenthesesInv, Failed
    <3> QED BY <2>4, <3>2, ParenthesesPassing
  <2>5. CASE \/ PushCallee \/ Operand \/ PushOperator \/ OpenParenthesis \/ SeparateArguments
             \/ PopForOperator \/ PopToParenthesis \/ PopRemaining \/ CloseParenthesis
    <3>1. pc = "expression"
      BY <2>5 DEF PushCallee, Operand, PushOperator, OpenParenthesis, SeparateArguments,
         PopForOperator, PopToParenthesis, PopRemaining, CloseParenthesis, ExpressionEnds, Reading
    <3>2. ParenthesesOK
      BY <1>1, <3>1 DEF ParenthesesInv, Failed
    <3> QED BY <2>5, <3>2, ParenthesesPassing, ParenthesesPushed, ParenthesesPopped,
               ParenthesesSeparated, ParenthesesClosed
  <2>6. CASE EndExpression \/ EndInstruction \/ CloseScope
    <3>1. pc \in {"expression", "instruction", "terminator"}
      BY <2>6 DEF EndExpression, EndInstruction, CloseScope, ExpressionEnds, Terminating, Reading
    <3>2. ParenthesesOK
      BY <1>1, <3>1 DEF ParenthesesInv, Failed
    <3> QED BY <2>6, <3>2, ParenthesesPassing
  <2> QED BY <1>3, <2>1, <2>2, <2>3, <2>4, <2>5, <2>6 DEF Next
<1> QED BY <1>2, <1>3

(* No handler writes a token. *)
LEMMA TokensKept == ASSUME [Next]_vars PROVE tokens' = tokens
<1>1. CASE Returned \/ UNCHANGED vars
  BY <1>1 DEF Returned, vars
<1>2. CASE GroupQualifiers \/ OpenScope \/ StartExpression \/ ImportModules \/ Declare
  BY <1>2 DEF GroupQualifiers, OpenScope, StartExpression, ImportModules, Declare, input
<1>3. CASE TypeVar \/ EndType \/ OpenParameters \/ Parameter \/ CloseParameters
  BY <1>3 DEF TypeVar, EndType, OpenParameters, Parameter, CloseParameters, input
<1>4. CASE InitializeVariable \/ InitializeNothing \/ InitializeScope
  BY <1>4 DEF InitializeVariable, InitializeNothing, InitializeScope, input
<1>5. CASE PushCallee \/ Operand \/ PushOperator \/ OpenParenthesis \/ SeparateArguments
  BY <1>5 DEF PushCallee, Operand, PushOperator, OpenParenthesis, SeparateArguments, PushBuffer, input
<1>6. CASE PopForOperator \/ PopToParenthesis \/ PopRemaining
  BY <1>6 DEF PopForOperator, PopToParenthesis, PopRemaining, PopBuffer, input
<1>7. CASE CloseParenthesis \/ RunBelowBuffer \/ EndExpression
  BY <1>7 DEF CloseParenthesis, RunBelowBuffer, EndExpression, input
<1>8. CASE EndInstruction \/ CloseScope \/ EndOfSource \/ Reject \/ ReadBehindTokens
  BY <1>8 DEF EndInstruction, CloseScope, EndOfSource, Reject, ReadBehindTokens, input
<1> QED BY <1>1, <1>2, <1>3, <1>4, <1>5, <1>6, <1>7, <1>8 DEF Next

LEMMA ParenthesesMatchKept == ASSUME ParenthesesMatch, [Next]_vars PROVE ParenthesesMatch'
BY TokensKept DEF ParenthesesMatch, Opening, Closing

(* Only a source read to its end is accepted. *)
SourceRead == pc = "accepted" => i = Len(tokens) + 1

LEMMA NextSourceRead == ASSUME BoundsInv, SourceRead, [Next]_vars PROVE SourceRead'
<1> SUFFICES ASSUME pc' = "accepted" PROVE i' = Len(tokens') + 1
  BY DEF SourceRead
<1>1. CASE UNCHANGED vars
  BY <1>1 DEF vars, SourceRead
<1>2. CASE EndOfSource
  <2>1. i' = i /\ i > Len(tokens)
    BY <1>2 DEF EndOfSource
  <2>2. i <= Len(tokens) + 1 /\ i \in Nat /\ Len(tokens) \in Nat
    BY <1>2, Position DEF BoundsInv, PlaceOK, EndOfSource
  <2> QED BY <2>1, <2>2, TokensKept
<1> QED BY <1>1, <1>2, AcceptedAtEnd

LEMMA NoParenthesisWritten ==
    ASSUME BoundsInv, ParenthesesInv, ParenthesesMatch, SourceRead, pc = "accepted", ~dropped
    PROVE  \A n \in DOMAIN nodes : nodes[n].type # "LPAR"
<1>1. ParenthesesOK
  BY DEF ParenthesesInv, Failed
<1>2. i = Len(tokens) + 1 /\ i \in Int /\ Signature = 0
  BY Position DEF SourceRead, Signature
<1>3. Cardinality(Opening(i)) = Cardinality(Closing(i))
  BY <1>2 DEF ParenthesesMatch
<1>4. Cardinality(Unclosed(nodes)) = 0
  <2>1. /\ Cardinality(Closing(i)) \in Nat
        /\ Cardinality(Unclosed(buffer)) \in Nat /\ Cardinality(Unclosed(nodes)) \in Nat
    BY <1>2, Counts
  <2>2. Cardinality(Closing(i)) =
            Cardinality(Closing(i)) + Cardinality(Unclosed(buffer)) + Cardinality(Unclosed(nodes))
            + 0
    BY <1>1, <1>2, <1>3, Zenon DEF ParenthesesOK
  <2> QED BY <2>1, <2>2
<1>5. Unclosed(nodes) = {}
  BY <1>4, FiniteParentheses, FS_EmptySet
<1>6. DOMAIN nodes = 1..Len(nodes)
  BY DEF BoundsInv, NodesOK
<1> QED BY <1>5, <1>6 DEF Unclosed

(* Of a source whose parentheses match, as the lexer checks before it hands  *)
(* the tokens over, an accepted forest holds no parenthesis, is nested as    *)
(* the scopes are and leaves nothing on the stacks, whatever the order of    *)
(* the tokens and their number, as long as the stacks took every push.       *)
THEOREM AcceptedForestKept == Spec /\ ParenthesesMatch => []AcceptedForest
<1> DEFINE Inv == /\ BoundsInv /\ StackInv /\ ForestInv /\ ScopesClosed
                  /\ ParenthesesInv /\ ParenthesesMatch /\ SourceRead
<1>1. Init /\ ParenthesesMatch => Inv
  BY InitBounds, InitStack, InitForest, InitParentheses
     DEF StackInv, ForestInv, ScopesClosed, ParenthesesInv, SourceRead, Init, Start, Begin
<1>2. Inv /\ [Next]_vars => Inv'
  BY NextBounds, NextStack, NextForest, NextScopesClosed, NextParentheses, ParenthesesMatchKept,
     NextSourceRead
<1>3. Inv => AcceptedForest
  <2> SUFFICES ASSUME Inv, pc = "accepted", ~dropped
               PROVE  /\ operators = <<>> /\ buffer = <<>>
                      /\ \A n \in DOMAIN nodes : nodes[n].type # "LPAR"
                      /\ NestedForest
    BY DEF AcceptedForest
  <2>1. operators = <<>> /\ buffer = <<>>
    BY DEF BoundsInv, PhaseOK, StackInv, StackOK, OwnedOK
  <2> QED BY <2>1, NoParenthesisWritten, ForestGivesNested
<1> QED BY <1>1, <1>2, <1>3, PTL DEF Spec

-----------------------------------------------------------------------------
(* Every token once                                                          *)

(* The items of s that name a token, and the tokens they name. *)
Names(s) == {n \in 1..Len(s) : s[n].type \in Naming}
Said(s) == {s[n].token : n \in Names(s)}
Once(s) == \A m, n \in Names(s) : s[m].token = s[n].token => m = n

(* What was read and names something is a node, or waits in the buffer to be *)
(* one, but not both; no item names a token that was not read.               *)
NamesOK ==
    /\ Once(nodes) /\ Once(buffer) /\ Said(nodes) \cap Said(buffer) = {}
    /\ Said(nodes) \cup Said(buffer) \subseteq 1..(i - 1)
    /\ \A p \in 1..(i - 1) : Named(p) => p \in Said(nodes) \cup Said(buffer)

NamesInv == ~dropped => NamesOK

LEMMA SaidJoined ==
    ASSUME NEW S, NEW s \in Seq(S), NEW t \in Seq(S)
    PROVE  /\ Said(s \o t) = Said(s) \cup Said(t)
           /\ Once(s \o t) <=> Once(s) /\ Once(t) /\ Said(s) \cap Said(t) = {}
<1> DEFINE r == s \o t
           l == Len(s)
<1>1. /\ Len(r) = l + Len(t) /\ l \in Nat /\ Len(t) \in Nat
      /\ \A n \in 1..l : r[n] = s[n]
      /\ \A n \in 1..Len(t) : r[l + n] = t[n]
  BY Concatenated
<1> HIDE DEF r, l
<1>2. \A n \in Names(s) : n \in Names(r) /\ r[n] = s[n] /\ n <= l /\ n \in Int
  BY <1>1 DEF Names, l
<1>3. \A n \in Names(t) : l + n \in Names(r) /\ r[l + n] = t[n] /\ n >= 1 /\ n \in Int
  BY <1>1 DEF Names
<1>4. \A n \in Names(r) : n \in Names(s) \/ n - l \in Names(t)
  <2> SUFFICES ASSUME NEW n \in Names(r), n \notin Names(s) PROVE n - l \in Names(t)
    OBVIOUS
  <2>1. n \in 1..(l + Len(t)) /\ r[n].type \in Naming
    BY <1>1 DEF Names
  <2>2. n \notin 1..l
    BY <1>1, <2>1 DEF Names, l
  <2>3. n - l \in 1..Len(t) /\ l + (n - l) = n
    BY <1>1, <2>1, <2>2
  <2>4. r[l + (n - l)] = t[n - l]
    BY <1>1, <2>3
  <2> QED BY <2>1, <2>3, <2>4 DEF Names
<1>5. \A n \in Names(r) : n \in Int
  BY <1>1 DEF Names
<1>6. Said(r) = Said(s) \cup Said(t)
  <2>1. Said(s) \subseteq Said(r) /\ Said(t) \subseteq Said(r)
    BY <1>2, <1>3 DEF Said
  <2>2. Said(r) \subseteq Said(s) \cup Said(t)
    <3> SUFFICES ASSUME NEW n \in Names(r) PROVE r[n].token \in Said(s) \cup Said(t)
      BY DEF Said
    <3>1. CASE n \in Names(s)
      BY <3>1, <1>2 DEF Said
    <3>2. CASE n - l \in Names(t)
      <4>1. l + (n - l) = n
        BY <1>1, <1>5
      <4>2. r[n].token = t[n - l].token
        BY <1>3, <3>2, <4>1
      <4> QED BY <3>2, <4>2 DEF Said
    <3> QED BY <1>4, <3>1, <3>2
  <2> QED BY <2>1, <2>2
<1>7. ASSUME Once(r) PROVE Once(s) /\ Once(t) /\ Said(s) \cap Said(t) = {}
  <2>1. Once(s)
    BY <1>2, <1>7 DEF Once
  <2>2. Once(t)
    <3> SUFFICES ASSUME NEW m \in Names(t), NEW n \in Names(t), t[m].token = t[n].token PROVE m = n
      BY DEF Once
    <3>1. l + m = l + n
      BY <1>3, <1>7 DEF Once
    <3>2. m \in Int /\ n \in Int
      BY <1>3
    <3> QED BY <1>1, <3>1, <3>2
  <2>3. ASSUME NEW m \in Names(s), NEW n \in Names(t), s[m].token = t[n].token PROVE FALSE
    <3>1. m = l + n
      BY <1>2, <1>3, <1>7, <2>3 DEF Once
    <3>2. m <= l /\ n >= 1 /\ m \in Int /\ n \in Int
      BY <1>2, <1>3
    <3> QED BY <1>1, <3>1, <3>2
  <2> QED BY <2>1, <2>2, <2>3 DEF Said
<1>8. ASSUME Once(s), Once(t), Said(s) \cap Said(t) = {} PROVE Once(r)
  <2> SUFFICES ASSUME NEW m \in Names(r), NEW n \in Names(r), r[m].token = r[n].token PROVE m = n
    BY DEF Once
  <2>1. /\ m \in Names(s) => r[m].token = s[m].token /\ s[m].token \in Said(s)
        /\ n \in Names(s) => r[n].token = s[n].token /\ s[n].token \in Said(s)
    BY <1>2 DEF Said
  <2>2. /\ m - l \in Names(t) => r[m].token = t[m - l].token /\ t[m - l].token \in Said(t)
        /\ n - l \in Names(t) => r[n].token = t[n - l].token /\ t[n - l].token \in Said(t)
    <3>1. l + (m - l) = m /\ l + (n - l) = n
      BY <1>1, <1>5
    <3> QED BY <1>3, <3>1 DEF Said
  <2>3. CASE m \in Names(s) /\ n \in Names(s)
    BY <1>8, <2>1, <2>3 DEF Once
  <2>4. CASE m - l \in Names(t) /\ n - l \in Names(t)
    <3>1. m - l = n - l
      BY <1>8, <2>2, <2>4 DEF Once
    <3> QED BY <1>1, <1>5, <3>1
  <2>5. ~(m \in Names(s) /\ n - l \in Names(t)) /\ ~(m - l \in Names(t) /\ n \in Names(s))
    BY <1>8, <2>1, <2>2
  <2> QED BY <1>4, <2>3, <2>4, <2>5
<1> QED BY <1>6, <1>7, <1>8 DEF r

LEMMA SaidOne ==
    ASSUME NEW x
    PROVE  /\ Said(<<x>>) = IF x.type \in Naming THEN {x.token} ELSE {}
           /\ Once(<<x>>)
<1>1. Len(<<x>>) = 1 /\ <<x>>[1] = x
  OBVIOUS
<1> DEFINE s == <<x>>
<1>2. Len(s) = 1 /\ s[1] = x
  BY <1>1
<1> HIDE DEF s
<1>3. Names(s) = IF x.type \in Naming THEN {1} ELSE {}
  BY <1>2 DEF Names
<1>4. Said(s) = IF x.type \in Naming THEN {x.token} ELSE {}
  BY <1>2, <1>3 DEF Said
<1>5. Once(s)
  BY <1>3 DEF Once
<1> QED BY <1>4, <1>5 DEF s

LEMMA SaidSame ==
    ASSUME NEW s, NEW t, Len(t) = Len(s),
           \A n \in 1..Len(s) : t[n].type = s[n].type /\ t[n].token = s[n].token
    PROVE  Said(t) = Said(s) /\ (Once(t) <=> Once(s))
<1>1. Names(t) = Names(s) /\ \A n \in Names(s) : n \in 1..Len(s)
  BY DEF Names
<1> QED BY <1>1 DEF Said, Once

(* The last item off, or put on. *)
LEMMA SaidRest ==
    ASSUME NEW S, NEW s \in Seq(S), s # <<>>
    PROVE  /\ Rest(s) \in Seq(S)
           /\ Said(s) = Said(Rest(s)) \cup Said(<<Top(s)>>)
           /\ Once(s) => Once(Rest(s)) /\ Said(Rest(s)) \cap Said(<<Top(s)>>) = {}
<1> DEFINE r == Rest(s)
           x == Top(s)
<1>1. r \in Seq(S) /\ x \in S /\ Len(r) = Len(s) - 1 /\ \A n \in 1..Len(r) : r[n] = s[n]
  BY RestFacts
<1>2. Len(s) \in Nat /\ x = s[Len(s)]
  BY DEF Top
<1> HIDE DEF r, x
<1>3. <<x>> \in Seq(S)
  BY <1>1
<1>4. s = r \o <<x>>
  BY <1>1, <1>2
<1>5. Said(r \o <<x>>) = Said(r) \cup Said(<<x>>)
      /\ (Once(r \o <<x>>) <=> Once(r) /\ Once(<<x>>) /\ Said(r) \cap Said(<<x>>) = {})
  BY <1>1, <1>3, SaidJoined
<1>6. Said(s) = Said(r) \cup Said(<<x>>)
      /\ (Once(s) => Once(r) /\ Said(r) \cap Said(<<x>>) = {})
  BY <1>4, <1>5, Zenon
<1> QED BY <1>1, <1>6 DEF r, x

LEMMA SaidNothing ==
    ASSUME NEW s \in Seq(Mute)
    PROVE  Said(s) = {} /\ Once(s)
<1>1. \A n \in 1..Len(s) : s[n].type \notin Naming
  <2> SUFFICES ASSUME NEW n \in 1..Len(s) PROVE s[n].type \notin Naming
    OBVIOUS
  <2>1. s[n] \in Items(MuteTypes)
    BY DEF Mute
  <2>2. s[n].type \in MuteTypes
    BY <2>1, ItemFields
  <2> QED BY <2>2 DEF MuteTypes
<1>2. Names(s) = {}
  BY <1>1 DEF Names
<1> QED BY <1>2 DEF Said, Once

LEMMA Stretches ==
    ASSUME NEW a \in Int, NEW b \in Int, a >= 1, b >= a
    PROVE  /\ 1..(a - 1) \subseteq 1..(b - 1) /\ a..(b - 1) \subseteq 1..(b - 1)
           /\ \A p \in 1..(b - 1) : p \in 1..(a - 1) \/ p \in a..(b - 1)
           /\ (1..(a - 1)) \cap (a..(b - 1)) = {}
OBVIOUS

(* A step that names `new`, all that was read by it and is to be named.      *)
LEMMA NamesStep ==
    ASSUME BoundsInv, NamesOK, tokens' = tokens, NEW new,
           Once(nodes'), Once(buffer'), Said(nodes') \cap Said(buffer') = {},
           Said(nodes') \cup Said(buffer') = Said(nodes) \cup Said(buffer) \cup new,
           i' \in Int, i' >= i, new \subseteq i..(i' - 1),
           \A p \in i..(i' - 1) : Named(p) => p \in new
    PROVE  NamesOK'
<1>1. /\ Said(nodes)' = Said(nodes') /\ Said(buffer)' = Said(buffer')
      /\ Once(nodes)' = Once(nodes') /\ Once(buffer)' = Once(buffer')
  BY DEF Said, Once, Names
<1>2. \A p : Named(p)' = Named(p)
  BY DEF Named, At
<1>3. i \in Int /\ i >= 1
  BY Position
<1>4. /\ 1..(i - 1) \subseteq 1..(i' - 1) /\ i..(i' - 1) \subseteq 1..(i' - 1)
      /\ \A p \in 1..(i' - 1) : p \in 1..(i - 1) \/ p \in i..(i' - 1)
  BY <1>3, Stretches, Zenon
<1>6. Said(nodes') \cup Said(buffer') \subseteq 1..(i' - 1)
  BY <1>4 DEF NamesOK
<1>7. \A p \in 1..(i' - 1) : Named(p) => p \in Said(nodes') \cup Said(buffer')
  <2> SUFFICES ASSUME NEW p \in 1..(i' - 1), Named(p)
               PROVE  p \in Said(nodes) \cup Said(buffer) \cup new
    OBVIOUS
  <2> QED BY <1>4 DEF NamesOK
<1> QED BY <1>1, <1>2, <1>6, <1>7 DEF NamesOK

(* A handler that writes what it has read. *)
LEMMA NamesWritten ==
    ASSUME BoundsInv, NamesOK, tokens' = tokens, buffer' = buffer,
           NEW ns \in Seq(Written), nodes' = nodes \o ns, Once(ns),
           i' \in Int, i' >= i, Said(ns) \subseteq i..(i' - 1),
           \A p \in i..(i' - 1) : Named(p) => p \in Said(ns)
    PROVE  NamesOK'
<1>1. nodes \in Seq(Written) /\ i \in Int /\ i >= 1
  BY Position DEF BoundsInv, NodesOK
<1>2. /\ Said(nodes') = Said(nodes) \cup Said(ns)
      /\ Once(nodes') <=> Once(nodes) /\ Once(ns) /\ Said(nodes) \cap Said(ns) = {}
  BY <1>1, SaidJoined
<1>3. (1..(i - 1)) \cap (i..(i' - 1)) = {}
  BY <1>1, Stretches, Zenon
<1>4. Said(nodes) \cap Said(ns) = {} /\ Said(buffer) \cap Said(ns) = {}
  BY <1>3 DEF NamesOK
<1>5. Said(buffer') = Said(buffer) /\ Once(buffer') /\ Once(nodes) /\ Said(nodes) \cap Said(buffer) = {}
  BY DEF NamesOK
<1>6. Once(nodes') /\ Said(nodes') \cap Said(buffer') = {}
  BY <1>2, <1>4, <1>5
<1>7. Said(nodes') \cup Said(buffer') = Said(nodes) \cup Said(buffer) \cup Said(ns)
  BY <1>2, <1>5
<1> QED BY <1>5, <1>6, <1>7, NamesStep

(* A handler that writes no name and reads none. *)
LEMMA NamesMute ==
    ASSUME BoundsInv, NamesOK, tokens' = tokens, buffer' = buffer,
           \E ns \in Seq(Mute) : nodes' = nodes \o ns,
           i' \in Int, i' >= i, \A p \in i..(i' - 1) : ~Named(p)
    PROVE  NamesOK'
<1>1. PICK ns \in Seq(Mute) : nodes' = nodes \o ns
  OBVIOUS
<1>2. ns \in Seq(Written)
  <2>1. \A x \in Mute : x \in Written
    BY DEF Mute, MuteTypes, CleanTypes, Written, Items
  <2> QED BY <2>1
<1>3. Said(ns) = {} /\ Once(ns)
  BY SaidNothing
<1>4. Said(ns) \subseteq i..(i' - 1) /\ \A p \in i..(i' - 1) : Named(p) => p \in Said(ns)
  BY <1>3
<1> QED BY <1>1, <1>2, <1>3, <1>4, NamesWritten

(* A token read is none. *)

LEMMA WritesNothing == ASSUME BoundsInv, nodes' = nodes PROVE WritesMute
<1>1. nodes' = nodes \o <<>>
  BY DEF BoundsInv, NodesOK
<1> QED BY <1>1, MuteClean, Zenon DEF WritesMute

LEMMA NamesStay ==
    ASSUME NamesOK, UNCHANGED <<tokens, i, nodes, buffer>>
    PROVE  NamesOK'
<1>1. /\ Said(nodes)' = Said(nodes) /\ Said(buffer)' = Said(buffer)
      /\ Once(nodes)' = Once(nodes) /\ Once(buffer)' = Once(buffer)
  BY DEF Once, Said, Names
<1>2. i' = i /\ \A p : Named(p)' = Named(p)
  BY DEF Named, At
<1> QED BY <1>1, <1>2 DEF NamesOK

(* No name is written, and none is read over. *)
LEMMA NamesOver ==
    ASSUME BoundsInv, NamesOK, tokens' = tokens, buffer' = buffer, WritesMute,
           i' = i \/ (i' = i + 1 /\ ~Named(i))
    PROVE  NamesOK'
<1>1. i \in Int /\ i' \in Int /\ i' >= i /\ \A p \in i..(i' - 1) : p = i /\ i' # i
  BY Position
<1>2. \A p \in i..(i' - 1) : ~Named(p)
  BY <1>1
<1> QED BY <1>1, <1>2, NamesMute DEF WritesMute

LEMMA NamesSilent ==
    ASSUME BoundsInv, NamesOK,
           \/ OpenScope \/ InitializeVariable \/ InitializeScope \/ OpenParameters
           \/ CloseParameters \/ EndExpression \/ EndInstruction \/ CloseScope
    PROVE  NamesOK'
<1>1. CASE OpenScope \/ InitializeVariable \/ InitializeScope
  <2>1. /\ UNCHANGED <<tokens, nodes, buffer>>
        /\ \/ i' = i + 1 /\ At(i) = "SCOPE"
           \/ i' = i + 1 /\ At(i) = "ASSIGN" /\ pc = "init"
           \/ i' = i
    BY <1>1 DEF OpenScope, InitializeVariable, InitializeScope, Initialized, Reading, input
  <2>2. WritesMute
    BY <2>1, WritesNothing
  <2>3. i' = i \/ (i' = i + 1 /\ ~Named(i))
    BY <2>1 DEF Named, BoundsInv, PhaseOK
  <2> QED BY <2>1, <2>2, <2>3, NamesOver
<1>2. CASE OpenParameters \/ CloseParameters
  <2>1. UNCHANGED <<tokens, buffer>> /\ i' = i + 1
    BY <1>2 DEF OpenParameters, CloseParameters, input
  <2>2. At(i) \in {"TLPAR", "TRPAR"}
    <3>1. OpenParameters => At(i) = "TLPAR"
      BY DEF OpenParameters
    <3>2. CloseParameters => At(i) = "TRPAR"
      BY DEF CloseParameters, Reading, BoundsInv, PhaseOK
    <3> QED BY <1>2, <3>1, <3>2
  <2> QED BY <1>2, <2>1, <2>2, WritesParameters, NamesOver DEF Named
<1>3. CASE EndExpression \/ CloseScope
  <2>1. /\ UNCHANGED <<tokens, buffer>>
        /\ i' = i \/ (i' = i + 1 /\ At(i) = "PERIOD")
    BY <1>3 DEF EndExpression, CloseScope, input
  <2>2. WritesMute
    BY <1>3, PassesEndExpression, PassesCloseScope
  <2> QED BY <2>1, <2>2, NamesOver DEF Named
<1>4. CASE EndInstruction
  <2>1. Passing /\ WritesMute
    BY <1>4, PassesEndInstruction
  <2>2. /\ pc \in {"instruction", "terminator"} /\ At(i) = "SEMI" /\ i' = AfterSemicolons
    BY <1>4 DEF EndInstruction, Terminating, Reading
  <2>3. tokens \in Seq(Token) /\ i \in 1..Len(tokens)
    BY <2>2, Position DEF BoundsInv, InputOK
  <2>4. \A p \in i..(i' - 1) : At(p) = "SEMI"
    BY <2>2, <2>3, SemicolonsRead
  <2>5. \A p \in i..(i' - 1) : ~Named(p)
    BY <2>4 DEF Named
  <2> QED BY <2>1, <2>5, NamesMute DEF Passing, WritesMute
<1> QED BY <1>1, <1>2, <1>3, <1>4

(* The leaves of tokens in a row. *)
LEMMA SaidLeaves ==
    ASSUME NEW n \in Nat, NEW type \in Naming \cap NodeTypes, NEW p \in Nat
    PROVE  LET leaves == [x \in 1..n |-> Leaf(type, p + x)]
           IN  /\ leaves \in Seq(Written)
               /\ Said(leaves) = (p + 1)..(p + n) /\ Once(leaves)
<1> DEFINE leaves == [x \in 1..n |-> Leaf(type, p + x)]
<1>1. leaves \in Seq(Written) /\ Len(leaves) = n
  BY Leaves
<1>2. \A x \in 1..n : leaves[x].type = type /\ leaves[x].token = p + x
  BY DEF Leaf, Node
<1> HIDE DEF leaves
<1>3. Names(leaves) = 1..n
  BY <1>1, <1>2 DEF Names
<1>4. Said(leaves) = {p + x : x \in 1..n}
  BY <1>2, <1>3 DEF Said
<1>5. {p + x : x \in 1..n} = (p + 1)..(p + n)
  <2>1. \A q \in (p + 1)..(p + n) : q - p \in 1..n /\ p + (q - p) = q
    OBVIOUS
  <2>2. \A x \in 1..n : p + x \in (p + 1)..(p + n)
    OBVIOUS
  <2> QED BY <2>1, <2>2
<1>6. Once(leaves)
  BY <1>2, <1>3 DEF Once
<1> QED BY <1>1, <1>4, <1>5, <1>6 DEF leaves

LEMMA NamesGroupQualifiers == ASSUME BoundsInv, NamesOK, GroupQualifiers PROVE NamesOK'
<1>1. i \in Nat /\ i >= 1 /\ Len(tokens) \in Nat /\ UNCHANGED <<tokens, buffer>>
  BY Position DEF GroupQualifiers, input
<1>2. PICK last \in i..Len(tokens) :
         LET ops == Counted(Pushed(operators, Node("GRP_Q", 0, i)), last - i + 1)
         IN  /\ Write([x \in 1..(last - i + 1) |-> Leaf("Q", i + x - 1)] \o <<Top(ops)>>,
                      "instruction")
             /\ i' = last + 1
  BY DEF GroupQualifiers
<1> DEFINE pushed == Pushed(operators, Node("GRP_Q", 0, i))
           ops == Counted(pushed, last - i + 1)
           n == last - i + 1
           q == i - 1
           leaves == [x \in 1..n |-> Leaf("Q", q + x)]
<1>3. Top(ops) \in Operator
  <2>1. OpsOK(pushed) /\ Len(pushed) >= 1
    <3>1. "GRP_Q" \in OperatorTypes /\ OpsOK(operators)
      BY Kept1 DEF OperatorTypes
    <3> QED BY <1>1, <3>1, OpsPush
  <2>2. OpsOK(ops) /\ Len(ops) = Len(pushed)
    <3>1. last - i + 1 \in Int
      BY <1>1
    <3> HIDE DEF pushed
    <3> QED BY <2>1, <3>1, OpsCount
  <2> HIDE DEF ops, pushed
  <2> QED BY <2>1, <2>2, OpsRest
<1>4. nodes' = nodes \o (leaves \o <<Top(ops)>>) /\ i' = last + 1
  <2>1. [x \in 1..(last - i + 1) |-> Leaf("Q", i + x - 1)] = leaves
    <3>1. \A x \in 1..(last - i + 1) : i + x - 1 = q + x
      BY <1>1
    <3> QED BY <3>1
  <2>2. Write([x \in 1..(last - i + 1) |-> Leaf("Q", i + x - 1)] \o <<Top(ops)>>, "instruction")
    BY <1>2
  <2> HIDE DEF leaves, ops
  <2> QED BY <1>2, <2>1, <2>2 DEF Write
<1>5. n \in Nat /\ q \in Nat /\ q + 1 = i /\ q + n = last /\ last \in Int /\ last >= i
  BY <1>1
<1>6. leaves \in Seq(Written) /\ Said(leaves) = (q + 1)..(q + n) /\ Once(leaves)
  <2>1. "Q" \in Naming \cap NodeTypes
    BY DEF Naming, NodeTypes
  <2> HIDE DEF n, q
  <2> QED BY <1>5, <2>1, SaidLeaves
<1>7. /\ <<Top(ops)>> \in Seq(Mute) /\ <<Top(ops)>> \in Seq(Written)
  <2>1. Top(ops) \in Mute
    BY <1>3, MuteTypesAre
  <2> HIDE DEF ops
  <2>2. <<Top(ops)>> \in Seq(Mute)
    BY <2>1
  <2> QED BY <2>2, MuteClean
<1> DEFINE group == <<Top(ops)>>
<1>8. group \in Seq(Written) /\ Said(group) = {} /\ Once(group)
  BY <1>7, SaidNothing
<1> HIDE DEF ops, group, leaves, n, q
<1>9. /\ leaves \o group \in Seq(Written)
      /\ Said(leaves \o group) = i..last
      /\ Once(leaves \o group)
  <2>1. Said(leaves) = i..last
    BY <1>5, <1>6
  <2>2. /\ Said(leaves \o group) = Said(leaves) \cup Said(group)
        /\ Once(leaves \o group) <=> Once(leaves) /\ Once(group) /\ Said(leaves) \cap Said(group) = {}
    BY <1>6, <1>8, SaidJoined
  <2>3. leaves \o group \in Seq(Written)
    BY <1>6, <1>8, Concatenated
  <2> QED BY <1>6, <1>8, <2>1, <2>2, <2>3
<1>10. nodes' = nodes \o (leaves \o group)
  BY <1>4 DEF group
<1>11. i' \in Int /\ i' >= i /\ i..(i' - 1) = i..last
  BY <1>1, <1>4, <1>5
<1> DEFINE ns == leaves \o group
<1>12. ns \in Seq(Written) /\ nodes' = nodes \o ns /\ Once(ns) /\ Said(ns) = i..(i' - 1)
  BY <1>9, <1>10, <1>11
<1> HIDE DEF ns
<1> QED BY <1>1, <1>11, <1>12, NamesWritten

LEMMA NamesImportModules == ASSUME BoundsInv, NamesOK, ImportModules PROVE NamesOK'
<1>1. /\ At(i) = "MOD" /\ i \in Nat /\ i >= 1 /\ Len(tokens) \in Nat
      /\ UNCHANGED <<tokens, buffer>>
  BY Position DEF ImportModules, input
<1>2. PICK last \in i..Len(tokens) :
         /\ Write([x \in 1..(last - i) |-> Leaf("MOD", i + x)], "terminator")
         /\ i' = last + 1
  BY DEF ImportModules
<1> DEFINE n == last - i
           leaves == [x \in 1..n |-> Leaf("MOD", i + x)]
<1>3. n \in Nat /\ i + n = last /\ last \in Int /\ last >= i
  BY <1>1
<1>4. nodes' = nodes \o leaves /\ i' = last + 1
  BY <1>2 DEF Write
<1>5. leaves \in Seq(Written) /\ Said(leaves) = (i + 1)..(i + n) /\ Once(leaves)
  <2>1. "MOD" \in Naming \cap NodeTypes
    BY DEF Naming, NodeTypes
  <2> HIDE DEF n
  <2> QED BY <1>1, <1>3, <2>1, SaidLeaves
<1> HIDE DEF leaves, n
<1>6. Said(leaves) = (i + 1)..last
  BY <1>3, <1>5
<1>7. /\ i' \in Int /\ i' >= i /\ (i + 1)..last \subseteq i..(i' - 1)
      /\ \A p \in i..(i' - 1) : p = i \/ p \in (i + 1)..last
  BY <1>1, <1>3, <1>4
<1>8. \A p \in i..(i' - 1) : Named(p) => p \in Said(leaves)
  BY <1>1, <1>6, <1>7 DEF Named
<1>9. Said(leaves) \subseteq i..(i' - 1)
  BY <1>6, <1>7
<1> QED BY <1>1, <1>4, <1>5, <1>7, <1>8, <1>9, NamesWritten

(* One leaf, for the token at p. *)
LEMMA SaidLeaf ==
    ASSUME NEW type \in Naming \cap NodeTypes, NEW p \in Nat
    PROVE  LET leaf == <<Leaf(type, p)>>
           IN  leaf \in Seq(Written) /\ Said(leaf) = {p} /\ Once(leaf)
<1> DEFINE x == Leaf(type, p)
<1>1. <<x>> \in Seq(Written) /\ x.type \in Naming /\ x.token = p
  BY LeafType
<1> HIDE DEF x
<1>2. Said(<<x>>) = {p} /\ Once(<<x>>)
  BY <1>1, SaidOne
<1> QED BY <1>1, <1>2 DEF x

LEMMA NamesOneLeaf ==
    ASSUME BoundsInv, NamesOK, Declare \/ TypeVar \/ Operand
    PROVE  NamesOK'
<1>1. PICK type \in Naming \cap NodeTypes, p \in {i, i + 1} :
         /\ nodes' = nodes \o <<Leaf(type, p)>> /\ i' = p + 1
         /\ p = i + 1 => At(i) = "COM"
         /\ UNCHANGED <<tokens, buffer>>
  <2>1. {"ID", "TYPE_VAR", "KEY", "LIT"} \subseteq Naming \cap NodeTypes
    BY DEF Naming, NodeTypes, ExpressionTypes
  <2>2. i \in Nat /\ i # i + 1
    BY Position
  <2>3. CASE Declare
    <3>1. /\ nodes' = nodes \o <<Leaf("ID", i + 1)>> /\ i' = i + 2 /\ At(i) = "COM"
          /\ UNCHANGED <<tokens, buffer>>
      BY <2>3 DEF Declare, Write, input
    <3>2. i' = (i + 1) + 1
      BY <2>2, <3>1
    <3> QED BY <2>1, <3>1, <3>2
  <2>4. CASE TypeVar
    <3>1. /\ nodes' = nodes \o <<Leaf("TYPE_VAR", i)>> /\ i' = i + 1
          /\ UNCHANGED <<tokens, buffer>>
      BY <2>4 DEF TypeVar, Write, input
    <3> QED BY <2>1, <2>2, <3>1
  <2>5. CASE Operand
    <3>1. /\ At(i) \in {"KEY", "LIT"} /\ nodes' = nodes \o <<Leaf(At(i), i)>> /\ i' = i + 1
          /\ UNCHANGED <<tokens, buffer>>
      BY <2>5 DEF Operand, Write, input
    <3> QED BY <2>1, <2>2, <3>1
  <2> QED BY <2>3, <2>4, <2>5
<1>2. p \in Nat /\ i \in Nat
  BY Position
<1> DEFINE leaf == <<Leaf(type, p)>>
<1>3. leaf \in Seq(Written) /\ Said(leaf) = {p} /\ Once(leaf)
  BY <1>2, SaidLeaf
<1>4. nodes' = nodes \o leaf
  BY <1>1
<1> HIDE DEF leaf
<1>5. /\ i' \in Int /\ i' >= i /\ p \in i..(i' - 1)
      /\ \A p2 \in i..(i' - 1) : p2 = p \/ (p2 = i /\ p = i + 1)
  BY <1>1, <1>2
<1>6. \A p2 \in i..(i' - 1) : Named(p2) => p2 \in Said(leaf)
  BY <1>1, <1>3, <1>5 DEF Named
<1>7. Said(leaf) \subseteq i..(i' - 1)
  BY <1>3, <1>5
<1> QED BY <1>1, <1>3, <1>4, <1>5, <1>6, <1>7, NamesWritten

LEMMA Pair ==
    ASSUME NEW S, NEW x \in S, NEW y \in S
    PROVE  <<x, y>> = <<x>> \o <<y>>
<1>1. /\ <<x>> \in Seq(S) /\ <<y>> \in Seq(S) /\ Len(<<x>>) = 1 /\ Len(<<y>>) = 1
      /\ <<x>>[1] = x /\ <<y>>[1] = y
  OBVIOUS
<1> DEFINE r == <<x>> \o <<y>>
<1>2. r \in Seq(S) /\ Len(r) = 2 /\ r[1] = x /\ r[2] = y
  BY <1>1
<1>3. r = <<r[1], r[2]>>
  <2> HIDE DEF r
  <2> QED BY <1>2
<1> QED BY <1>2, <1>3

LEMMA NamesParameter == ASSUME BoundsInv, NamesOK, Parameter PROVE NamesOK'
<1>1. /\ i' = IF At(i + 2) = "COMMA" THEN i + 3 ELSE i + 2
      /\ nodes' = nodes \o <<Leaf("PARAM", i), Leaf("TYPE_VAR", i + 1)>>
      /\ UNCHANGED <<tokens, buffer>> /\ i \in Nat
  BY Position DEF Parameter, Write, input
<1> DEFINE x == Leaf("PARAM", i)
           y == Leaf("TYPE_VAR", i + 1)
<1>2. /\ x \in Written /\ y \in Written
      /\ <<x>> \in Seq(Written) /\ Said(<<x>>) = {i} /\ Once(<<x>>)
      /\ <<y>> \in Seq(Written) /\ Said(<<y>>) = {i + 1} /\ Once(<<y>>)
  <2>1. {"PARAM", "TYPE_VAR"} \subseteq Naming \cap NodeTypes /\ i + 1 \in Nat
    BY <1>1 DEF Naming, NodeTypes
  <2> QED BY <1>1, <2>1, SaidLeaf, LeafType
<1>3. nodes' = nodes \o <<x, y>>
  BY <1>1
<1> HIDE DEF x, y
<1>4. <<x, y>> = <<x>> \o <<y>>
  BY <1>2, Pair
<1> DEFINE ns == <<x>> \o <<y>>
<1>5. ns \in Seq(Written) /\ Said(ns) = {i, i + 1} /\ Once(ns)
  <2>1. {i} \cap {i + 1} = {}
    BY <1>1
  <2>2. /\ Said(ns) = Said(<<x>>) \cup Said(<<y>>)
        /\ Once(ns) <=> Once(<<x>>) /\ Once(<<y>>) /\ Said(<<x>>) \cap Said(<<y>>) = {}
    BY <1>2, SaidJoined
  <2>3. ns \in Seq(Written)
    BY <1>2, Concatenated
  <2> HIDE DEF ns
  <2> QED BY <1>2, <2>1, <2>2, <2>3
<1>6. nodes' = nodes \o ns
  BY <1>3, <1>4, Zenon
<1> HIDE DEF ns
<1>7. /\ i' \in Int /\ i' >= i /\ {i, i + 1} \subseteq i..(i' - 1)
      /\ \A p \in i..(i' - 1) : p \in {i, i + 1} \/ (p = i + 2 /\ At(i + 2) = "COMMA")
  BY <1>1
<1>8. \A p \in i..(i' - 1) : Named(p) => p \in Said(ns)
  BY <1>5, <1>7 DEF Named
<1>9. Said(ns) \subseteq i..(i' - 1)
  BY <1>5, <1>7
<1> QED BY <1>1, <1>5, <1>6, <1>7, <1>8, <1>9, NamesWritten

(* An operator or a callee goes into the buffer, and so does a parenthesis.  *)
LEMMA NamesPush ==
    ASSUME BoundsInv, NamesOK, ~dropped', PushCallee \/ PushOperator \/ OpenParenthesis
    PROVE  NamesOK'
<1>1. PICK type \in PendingTypes :
         /\ PushBuffer(Node(type, 0, i))
         /\ type \notin Naming => ~Named(i)
  <2>1. PushCallee => PushBuffer(Node("CALLEE", 0, i))
    BY DEF PushCallee
  <2>2. PushOperator => PushBuffer(Node(At(i), 0, i)) /\ At(i) \in Algebraic
    BY DEF PushOperator
  <2>3. OpenParenthesis => PushBuffer(Node("LPAR", 0, i)) /\ At(i) = "LPAR"
    BY DEF OpenParenthesis
  <2> QED BY <2>1, <2>2, <2>3 DEF PendingTypes, Naming, Named, Algebraic
<1> DEFINE x == Node(type, 0, i)
<1>2. x \in Pending /\ x.type = type /\ x.token = i /\ i \in Int
  BY Position, NodeType DEF Pending
<1>3. /\ ~Full(buffer) /\ buffer' = Pushed(buffer, x) /\ i' = i + 1
      /\ UNCHANGED <<tokens, nodes>>
  BY <1>1 DEF PushBuffer, input
<1> HIDE DEF x
<1>4. buffer' = buffer \o <<x>> /\ buffer \in Seq(Pending) /\ <<x>> \in Seq(Pending)
  <2>1. Len(buffer) < StackSize /\ buffer \in Seq(Pending)
    BY <1>3, ParserAssumption, Position DEF Full, ParserAssumption, BoundsInv, BufferOK
  <2>2. buffer' = Append(buffer, x)
    BY <1>3, <2>1 DEF Pushed
  <2>3. Append(buffer, x) = buffer \o <<x>> /\ <<x>> \in Seq(Pending)
    BY <1>2, <2>1
  <2> QED BY <2>1, <2>2, <2>3
<1> DEFINE new == Said(<<x>>)
<1>5. /\ Said(buffer') = Said(buffer) \cup new
      /\ Once(buffer') <=> Once(buffer) /\ Once(<<x>>) /\ Said(buffer) \cap new = {}
  <2> DEFINE pushed == buffer \o <<x>>
  <2>1. /\ Said(pushed) = Said(buffer) \cup new
        /\ Once(pushed) <=> Once(buffer) /\ Once(<<x>>) /\ Said(buffer) \cap new = {}
    BY <1>4, SaidJoined
  <2>2. buffer' = pushed
    BY <1>4
  <2> HIDE DEF pushed, new
  <2> QED BY <2>1, <2>2, Zenon
<1>6. new = (IF type \in Naming THEN {i} ELSE {}) /\ Once(<<x>>)
  BY <1>2, SaidOne
<1> HIDE DEF new
<1>7. i \notin 1..(i - 1)
  BY <1>2
<1>8. Said(buffer) \cap new = {} /\ Said(nodes) \cap new = {}
  BY <1>6, <1>7 DEF NamesOK
<1>9. /\ Once(nodes') /\ Once(buffer') /\ Said(nodes') \cap Said(buffer') = {}
      /\ Said(nodes') \cup Said(buffer') = Said(nodes) \cup Said(buffer) \cup new
  BY <1>3, <1>5, <1>6, <1>8 DEF NamesOK
<1>10. i' \in Int /\ i' >= i /\ i..(i' - 1) = {i}
  BY <1>2, <1>3
<1>11. new \subseteq i..(i' - 1) /\ \A p \in i..(i' - 1) : Named(p) => p \in new
  BY <1>1, <1>6, <1>10
<1> QED BY <1>3, <1>9, <1>10, <1>11, NamesStep

(* The item of the buffer's top becomes a node, of another arity. *)
LEMMA NamesMoved ==
    ASSUME BoundsInv, NamesOK, NEW s \in Seq(Pending), s # <<>>,
           Said(s) = Said(buffer), Once(s),
           NEW x \in Written, x.type = Top(s).type, x.token = Top(s).token,
           nodes' = nodes \o <<x>>, buffer' = Rest(s), tokens' = tokens,
           i' = i \/ (i' = i + 1 /\ ~Named(i))
    PROVE  NamesOK'
<1>1. Said(<<x>>) = Said(<<Top(s)>>) /\ Once(<<x>>)
  BY SaidOne
<1>2. /\ Said(s) = Said(buffer') \cup Said(<<x>>)
      /\ Once(buffer') /\ Said(buffer') \cap Said(<<x>>) = {}
  <2>1. /\ Said(s) = Said(Rest(s)) \cup Said(<<Top(s)>>)
        /\ Once(s) => Once(Rest(s)) /\ Said(Rest(s)) \cap Said(<<Top(s)>>) = {}
    BY SaidRest, Zenon
  <2> QED BY <1>1, <2>1, Zenon
<1>3. nodes \in Seq(Written) /\ <<x>> \in Seq(Written)
  BY DEF BoundsInv, NodesOK
<1>4. /\ Said(nodes') = Said(nodes) \cup Said(<<x>>)
      /\ Once(nodes') <=> Once(nodes) /\ Once(<<x>>) /\ Said(nodes) \cap Said(<<x>>) = {}
  <2> DEFINE more == nodes \o <<x>>
  <2>1. /\ Said(more) = Said(nodes) \cup Said(<<x>>)
        /\ Once(more) <=> Once(nodes) /\ Once(<<x>>) /\ Said(nodes) \cap Said(<<x>>) = {}
    BY <1>3, SaidJoined
  <2>2. nodes' = more
    OBVIOUS
  <2> HIDE DEF more
  <2> QED BY <2>1, <2>2, Zenon
<1>5. Said(nodes) \cap Said(<<x>>) = {} /\ Said(nodes) \cap Said(buffer') = {} /\ Once(nodes)
  BY <1>2 DEF NamesOK
<1>6. Once(nodes') /\ Said(nodes') \cap Said(buffer') = {}
  BY <1>1, <1>2, <1>4, <1>5
<1>7. Said(nodes') \cup Said(buffer') = Said(nodes) \cup Said(buffer) \cup {}
  BY <1>2, <1>4
<1>8. i \in Int /\ i' \in Int /\ i' >= i /\ \A p \in i..(i' - 1) : p = i /\ i' # i
  BY Position
<1>9. \A p \in i..(i' - 1) : Named(p) => p \in {}
  BY <1>8
<1> QED BY <1>2, <1>6, <1>7, <1>8, <1>9, NamesStep

LEMMA NamesPop ==
    ASSUME BoundsInv, NamesOK, PopForOperator \/ PopToParenthesis \/ PopRemaining
    PROVE  NamesOK'
<1>1. buffer # <<>> /\ PopBuffer
  BY BindsTop DEF PopForOperator, PopToParenthesis, PopRemaining
<1> DEFINE x == Node(TopType, 2, Top(buffer).token)
<1>2. /\ nodes' = nodes \o <<x>> /\ buffer' = Rest(buffer) /\ UNCHANGED <<tokens, i>>
  BY <1>1 DEF PopBuffer, Write, input
<1>3. x \in Written /\ x.type = Top(buffer).type /\ x.token = Top(buffer).token
  BY <1>1, TopNode, BufferTop DEF Node
<1> HIDE DEF x
<1>4. buffer \in Seq(Pending) /\ Once(buffer)
  BY DEF BoundsInv, BufferOK, NamesOK
<1> QED BY <1>1, <1>2, <1>3, <1>4, NamesMoved

(* The parenthesis goes, with the callee before it. *)
LEMMA NamesCloseParenthesis ==
    ASSUME BoundsInv, NamesOK, CloseParenthesis
    PROVE  NamesOK'
<1> DEFINE under == Rest(buffer)
           arity == IF At(i - 1) = "LPAR" THEN 0 ELSE Top(buffer).arity + 1
           callee == under # <<>> /\ Top(under).type = "CALLEE"
           node == Node("CALLEE", arity, Top(under).token)
<1>1. /\ At(i) = "RPAR" /\ TopType = "LPAR" /\ i' = i + 1 /\ UNCHANGED tokens
      /\ callee => nodes' = nodes \o <<node>> /\ buffer' = Rest(under)
      /\ ~callee => buffer' = under /\ UNCHANGED nodes
  BY DEF CloseParenthesis, Write, input
<1>2. /\ buffer # <<>> /\ Top(buffer).type = "LPAR" /\ buffer \in Seq(Pending)
      /\ Top(buffer) \in Pending /\ under \in Seq(Pending)
  <2>1. buffer # <<>>
    BY <1>1 DEF TopType
  <2> QED BY <1>1, <2>1, BufferTop DEF BoundsInv, BufferOK
<1>3. Said(under) = Said(buffer) /\ Once(under)
  <2>1. Said(<<Top(buffer)>>) = {}
    BY <1>2, SaidOne DEF Naming
  <2>2. /\ Said(buffer) = Said(under) \cup Said(<<Top(buffer)>>)
        /\ Once(buffer) => Once(under)
    BY <1>2, SaidRest, Zenon
  <2>3. Said(under) \cup {} = Said(under)
    OBVIOUS
  <2>4. Once(buffer)
    BY DEF NamesOK
  <2> HIDE DEF under
  <2> QED BY <2>1, <2>2, <2>3, <2>4, Zenon
<1>4. ~Named(i)
  BY <1>1 DEF Named
<1>5. CASE callee
  <2>1. under # <<>> /\ Top(under).type = "CALLEE"
    BY <1>5
  <2>2. arity \in Int
    <3>1. Top(buffer).arity \in Int
      BY <1>2, ItemFields DEF Pending
    <3> QED BY <3>1
  <2>3. Top(under).token \in Nat
    <3>1. Top(under) \in Pending
      <4> HIDE DEF under
      <4> QED BY <1>2, <2>1, RestFacts
    <3> QED BY <3>1, ItemFields DEF Pending
  <2>4. /\ node \in Written /\ node.type = Top(under).type /\ node.token = Top(under).token
    <3>1. "CALLEE" \in NodeTypes
      BY DEF NodeTypes, ExpressionTypes
    <3> HIDE DEF under, arity
    <3> QED BY <2>1, <2>2, <2>3, <3>1, NodeType DEF Written
  <2>5. nodes' = nodes \o <<node>> /\ buffer' = Rest(under)
    BY <1>1, <1>5
  <2> HIDE DEF under, node
  <2> QED BY <1>1, <1>2, <1>3, <1>4, <2>1, <2>4, <2>5, NamesMoved
<1>6. CASE ~callee
  <2>1. buffer' = under /\ UNCHANGED nodes
    BY <1>1, <1>6
  <2> HIDE DEF under
  <2>2. /\ Once(nodes') /\ Once(buffer') /\ Said(nodes') \cap Said(buffer') = {}
        /\ Said(nodes') \cup Said(buffer') = Said(nodes) \cup Said(buffer) \cup {}
    BY <1>3, <2>1 DEF NamesOK
  <2>3. i \in Int /\ i' \in Int /\ i' >= i /\ \A p \in i..(i' - 1) : p = i
    BY <1>1, Position
  <2>4. \A p \in i..(i' - 1) : Named(p) => p \in {}
    BY <1>4, <2>3
  <2> QED BY <1>1, <2>2, <2>3, <2>4, NamesStep
<1> QED BY <1>5, <1>6

LEMMA NamesSeparateArguments ==
    ASSUME BoundsInv, NamesOK, SeparateArguments
    PROVE  NamesOK'
<1>1. /\ At(i) = "COMMA" /\ i' = i + 1 /\ buffer' = Counted(buffer, 1)
      /\ UNCHANGED <<tokens, nodes>>
  BY DEF SeparateArguments, input
<1>2. Said(buffer') = Said(buffer) /\ (Once(buffer') <=> Once(buffer))
  <2>1. /\ Len(buffer') = Len(buffer)
        /\ \A n \in 1..Len(buffer) :
              buffer'[n].type = buffer[n].type /\ buffer'[n].token = buffer[n].token
    <3>1. buffer \in Seq(Items(PendingTypes)) /\ 1 \in Int
      BY DEF BoundsInv, BufferOK, Pending
    <3> QED BY <1>1, <3>1, CountedFacts
  <2> QED BY <2>1, SaidSame
<1>3. /\ Once(nodes') /\ Once(buffer') /\ Said(nodes') \cap Said(buffer') = {}
      /\ Said(nodes') \cup Said(buffer') = Said(nodes) \cup Said(buffer) \cup {}
  BY <1>1, <1>2 DEF NamesOK
<1>4. i \in Int /\ i' \in Int /\ i' >= i /\ \A p \in i..(i' - 1) : p = i
  BY <1>1, Position
<1>5. \A p \in i..(i' - 1) : Named(p) => p \in {}
  BY <1>1, <1>4 DEF Named
<1> QED BY <1>1, <1>3, <1>4, <1>5, NamesStep

LEMMA InitNames == Init => NamesOK
<1> SUFFICES ASSUME Init PROVE NamesOK
  OBVIOUS
<1>1. i = 1 /\ nodes = <<>> /\ buffer = <<>>
  BY DEF Init, Start, Begin
<1>2. Said(nodes) = {} /\ Said(buffer) = {} /\ Once(nodes) /\ Once(buffer)
  BY <1>1, SaidNothing, MuteClean
<1>3. 1..(i - 1) = {}
  BY <1>1
<1> QED BY <1>2, <1>3 DEF NamesOK

LEMMA NextNames == ASSUME BoundsInv, NamesInv, [Next]_vars PROVE NamesInv'
<1> SUFFICES ASSUME ~dropped' PROVE NamesOK'
  BY DEF NamesInv
<1>1. NamesOK
  BY DroppedKept DEF NamesInv
<1>2. CASE \/ StartExpression \/ EndType \/ InitializeNothing \/ RunBelowBuffer \/ Reject
           \/ ReadBehindTokens \/ EndOfSource \/ Returned \/ UNCHANGED vars
  <2>1. UNCHANGED <<tokens, i, nodes, buffer>>
    BY <1>2 DEF StartExpression, EndType, InitializeNothing, RunBelowBuffer, Reject,
                ReadBehindTokens, EndOfSource, Returned, vars, input
  <2> QED BY <1>1, <2>1, NamesStay
<1>3. CASE \/ OpenScope \/ InitializeVariable \/ InitializeScope \/ OpenParameters
           \/ CloseParameters \/ EndExpression \/ EndInstruction \/ CloseScope
  BY <1>1, <1>3, NamesSilent
<1>4. CASE GroupQualifiers \/ ImportModules \/ Declare \/ TypeVar \/ Parameter \/ Operand
  BY <1>1, <1>4, NamesGroupQualifiers, NamesImportModules, NamesOneLeaf, NamesParameter
<1>5. CASE PushCallee \/ PushOperator \/ OpenParenthesis
  BY <1>1, <1>5, NamesPush
<1>6. CASE PopForOperator \/ PopToParenthesis \/ PopRemaining
  BY <1>1, <1>6, NamesPop
<1>7. CASE CloseParenthesis \/ SeparateArguments
  BY <1>1, <1>7, NamesCloseParenthesis, NamesSeparateArguments
<1> QED BY <1>2, <1>3, <1>4, <1>5, <1>6, <1>7 DEF Next

(* Whatever the source, and as long as its stacks took every push, the       *)
(* accepted forest has each name, literal, lock, qualifier and operator of   *)
(* the source in one node and no more: a handler that reads one writes it or *)
(* pushes it, and what leaves the buffer is written.  The `=` that opens an  *)
(* initialization is read as a part of it and in no node of its own.         *)
THEOREM TokensKeptOnce == Spec => []EveryTokenOnce
<1> DEFINE Inv == BoundsInv /\ NamesInv /\ SourceRead
<1>1. Init => Inv
  BY InitBounds, InitNames DEF NamesInv, SourceRead, Init, Start, Begin
<1>2. Inv /\ [Next]_vars => Inv'
  BY NextBounds, NextNames, NextSourceRead
<1>3. Inv => EveryTokenOnce
  <2> SUFFICES ASSUME Inv, pc = "accepted", ~dropped,
                      NEW p \in DOMAIN tokens, Named(p)
               PROVE  \E n \in DOMAIN nodes :
                         /\ nodes[n].token = p /\ nodes[n].type \in Naming
                         /\ \A n2 \in DOMAIN nodes :
                               nodes[n2].token = p /\ nodes[n2].type \in Naming => n2 = n
    BY DEF EveryTokenOnce
  <2>1. /\ DOMAIN nodes = 1..Len(nodes) /\ DOMAIN tokens = 1..Len(tokens)
        /\ buffer = <<>> /\ i = Len(tokens) + 1 /\ Len(tokens) \in Nat /\ NamesOK
    BY Position DEF BoundsInv, InputOK, NodesOK, PhaseOK, NamesInv, SourceRead
  <2>2. Said(buffer) = {}
    BY <2>1, SaidNothing, MuteClean
  <2>3. p \in 1..(i - 1)
    BY <2>1
  <2>4. PICK n \in Names(nodes) : nodes[n].token = p
    BY <2>1, <2>2, <2>3 DEF NamesOK, Said
  <2>5. /\ n \in DOMAIN nodes /\ nodes[n].type \in Naming
        /\ \A n2 \in DOMAIN nodes : nodes[n2].type \in Naming => n2 \in Names(nodes)
    BY <2>1 DEF Names
  <2>6. \A n2 \in Names(nodes) : nodes[n2].token = p => n2 = n
    BY <2>1, <2>4 DEF NamesOK, Once
  <2> QED BY <2>4, <2>5, <2>6
<1> QED BY <1>1, <1>2, <1>3, PTL DEF Spec

=============================================================================

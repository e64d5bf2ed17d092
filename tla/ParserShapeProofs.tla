-------------------------- MODULE ParserShapeProofs --------------------------
(***************************************************************************)
(* What create_tac is given, for every list of tokens and every length of  *)
(* the source: a forest of the shape the functions of src/src/tac take for *)
(* granted, in an array with room for all the nodes, so that no assertion  *)
(* of the parser fails but at a comma outside parentheses.                 *)
(***************************************************************************)
EXTENDS ParserForestProofs

-----------------------------------------------------------------------------
(* Counting nodes of a type                                                  *)

Places(s, type) == {n \in 1..Len(s) : s[n].type = type}
Number(s, type) == Cardinality(Places(s, type))

LEMMA NumberType ==
    ASSUME NEW S, NEW s \in Seq(S), NEW type
    PROVE  /\ IsFiniteSet(Places(s, type)) /\ Number(s, type) \in Nat
           /\ Number(s, type) <= Len(s)
<1>1. Len(s) \in Nat /\ IsFiniteSet(1..Len(s)) /\ Cardinality(1..Len(s)) = Len(s)
  <2>1. Len(s) \in Nat
    OBVIOUS
  <2>2. Cardinality(1..Len(s)) = IF 1 > Len(s) THEN 0 ELSE Len(s) - 1 + 1
    BY <2>1, FS_Interval
  <2> QED BY <2>1, <2>2, FS_Interval
<1>2. Places(s, type) \subseteq 1..Len(s)
  BY DEF Places
<1>3. IsFiniteSet(Places(s, type)) /\ Cardinality(Places(s, type)) <= Cardinality(1..Len(s))
  BY <1>1, <1>2, FS_Subset
<1> QED BY <1>1, <1>3, FS_CardinalityType DEF Number

(* Two lists with the same types. *)
LEMMA NumberSame ==
    ASSUME NEW s, NEW r, NEW type, Len(r) = Len(s),
           \A n \in 1..Len(s) : r[n].type = s[n].type
    PROVE  Number(r, type) = Number(s, type)
<1>1. Places(r, type) = Places(s, type)
  BY DEF Places
<1> QED BY <1>1 DEF Number

(* One element more. *)
LEMMA NumberOne ==
    ASSUME NEW S, NEW s \in Seq(S), NEW T, NEW r \in Seq(T), NEW type,
           Len(r) = Len(s) + 1, \A n \in 1..Len(s) : r[n].type = s[n].type
    PROVE  Number(r, type) = Number(s, type) + (IF r[Len(r)].type = type THEN 1 ELSE 0)
<1>1. Len(s) \in Nat /\ 1..Len(r) = 1..Len(s) \cup {Len(r)} /\ Len(r) \notin 1..Len(s)
  OBVIOUS
<1>2. CASE r[Len(r)].type = type
  <2>1. Places(r, type) = Places(s, type) \cup {Len(r)} /\ Len(r) \notin Places(s, type)
    BY <1>1, <1>2 DEF Places
  <2>2. IsFiniteSet(Places(s, type)) /\ Number(s, type) \in Nat
    BY NumberType
  <2>3. Cardinality(Places(s, type) \cup {Len(r)}) = Cardinality(Places(s, type)) + 1
    BY <2>1, <2>2, FS_AddElement
  <2> QED BY <1>2, <2>1, <2>3 DEF Number
<1>3. CASE r[Len(r)].type # type
  <2>1. Places(r, type) = Places(s, type)
    BY <1>1, <1>3 DEF Places
  <2>2. Number(s, type) \in Nat
    BY NumberType
  <2> QED BY <1>3, <2>1, <2>2 DEF Number
<1> QED BY <1>2, <1>3

(* What else is written counts nothing. *)
LEMMA NumberOthers ==
    ASSUME NEW S, NEW s \in Seq(S), NEW t \in Seq(S), NEW type,
           \A k \in 1..Len(t) : t[k].type # type
    PROVE  Number(s \o t, type) = Number(s, type)
<1> DEFINE r == s \o t
<1>1. /\ Len(s) \in Nat /\ Len(t) \in Nat /\ Len(r) = Len(s) + Len(t)
      /\ \A n \in 1..Len(s) : r[n] = s[n]
      /\ \A k \in 1..Len(t) : r[Len(s) + k] = t[k]
  BY Concatenated
<1> HIDE DEF r
<1>2. \A n \in 1..Len(r) : n \in 1..Len(s) \/ r[n].type # type
  <2> SUFFICES ASSUME NEW n \in 1..Len(r), n \notin 1..Len(s) PROVE r[n].type # type
    OBVIOUS
  <2>1. n - Len(s) \in 1..Len(t) /\ Len(s) + (n - Len(s)) = n
    BY <1>1
  <2>2. r[Len(s) + (n - Len(s))] = t[n - Len(s)]
    BY <1>1, <2>1
  <2> QED BY <2>1, <2>2
<1>3. \A n \in 1..Len(s) : n \in 1..Len(r)
  BY <1>1
<1>4. Places(r, type) = Places(s, type)
  BY <1>1, <1>2, <1>3 DEF Places
<1> QED BY <1>4 DEF Number, r

(* A callee makes two quadruples or operands, a parenthesis none.            *)
Excess(s) == Number(s, "CALLEE") - Number(s, "LPAR")
Extra(type) == IF type = "CALLEE" THEN 1 ELSE IF type = "LPAR" THEN -1 ELSE 0

LEMMA ExcessType ==
    ASSUME NEW S, NEW s \in Seq(S)
    PROVE  Excess(s) \in Int /\ (s = <<>> => Excess(s) = 0)
<1>1. Number(s, "CALLEE") \in Nat /\ Number(s, "LPAR") \in Nat
      /\ Number(s, "CALLEE") <= Len(s) /\ Number(s, "LPAR") <= Len(s)
  BY NumberType
<1>2. s = <<>> => Len(s) = 0
  OBVIOUS
<1> QED BY <1>1, <1>2 DEF Excess

LEMMA ExcessSame ==
    ASSUME NEW s, NEW r, Len(r) = Len(s), \A n \in 1..Len(s) : r[n].type = s[n].type
    PROVE  Excess(r) = Excess(s)
<1>1. Number(r, "CALLEE") = Number(s, "CALLEE") /\ Number(r, "LPAR") = Number(s, "LPAR")
  BY NumberSame
<1> QED BY <1>1 DEF Excess

LEMMA ExcessOne ==
    ASSUME NEW S, NEW s \in Seq(S), NEW T, NEW r \in Seq(T),
           Len(r) = Len(s) + 1, \A n \in 1..Len(s) : r[n].type = s[n].type
    PROVE  Excess(r) = Excess(s) + Extra(r[Len(r)].type)
<1>1. /\ Number(r, "CALLEE") = Number(s, "CALLEE") + (IF r[Len(r)].type = "CALLEE" THEN 1 ELSE 0)
      /\ Number(r, "LPAR") = Number(s, "LPAR") + (IF r[Len(r)].type = "LPAR" THEN 1 ELSE 0)
  BY NumberOne
<1>2. Number(s, "CALLEE") \in Nat /\ Number(s, "LPAR") \in Nat
  BY NumberType
<1> QED BY <1>1, <1>2 DEF Excess, Extra

LEMMA ExcessOthers ==
    ASSUME NEW S, NEW s \in Seq(S), NEW t \in Seq(S),
           \A k \in 1..Len(t) : t[k].type \notin {"CALLEE", "LPAR"}
    PROVE  Excess(s \o t) = Excess(s)
<1>1. \A type \in {"CALLEE", "LPAR"} : \A k \in 1..Len(t) : t[k].type # type
  OBVIOUS
<1>2. Number(s \o t, "CALLEE") = Number(s, "CALLEE") /\ Number(s \o t, "LPAR") = Number(s, "LPAR")
  BY <1>1, NumberOthers
<1> QED BY <1>2 DEF Excess

-----------------------------------------------------------------------------
(* The characters the tokens take                                            *)

(* The sums in ShortestSource: the characters up to each token. *)
Before(s, n) == IF n = 1 THEN "NO" ELSE s[n - 1].kind
Taken(s, n) == Width[s[n].kind] + Between(Before(s, n), s[n].kind)
Characters(s) ==
    LET upTo[n \in 0..Len(s)] ==
            IF n = 0 THEN 0
            ELSE upTo[n - 1] + Width[s[n].kind] + Between(Before(s, n), s[n].kind)
    IN  upTo

LEMMA TakenType ==
    ASSUME NEW s \in Seq(Token), NEW n \in 1..Len(s)
    PROVE  /\ Taken(s, n) \in Int /\ Taken(s, n) >= 1
           /\ Width[s[n].kind] \in Int /\ Between(Before(s, n), s[n].kind) \in Nat
           /\ Taken(s, n) >= Width[s[n].kind]
<1>1. s[n].kind \in Kinds
  <2>1. s[n] \in Token
    OBVIOUS
  <2> QED BY <2>1 DEF Token
<1>2. Width[s[n].kind] \in Int /\ Width[s[n].kind] >= 1
  BY <1>1 DEF Width
<1>3. Between(Before(s, n), s[n].kind) \in Nat
  BY DEF Between
<1> QED BY <1>2, <1>3 DEF Taken

LEMMA CharactersFacts ==
    ASSUME NEW s \in Seq(Token)
    PROVE  /\ \A n \in 0..Len(s) : Characters(s)[n] \in Int
           /\ Characters(s)[0] = 0
           /\ \A n \in 1..Len(s) : Characters(s)[n] = Characters(s)[n - 1] + Taken(s, n)
           /\ ShortestSource(s) >= Characters(s)[Len(s)] /\ ShortestSource(s) \in Int
<1> DEFINE c == Characters(s)
           d == [k \in 1..Len(s) |-> Taken(s, k)]
           Solves(f) == f = [n \in 0..Len(s) |->
                               IF n = 0 THEN 0
                               ELSE f[n - 1] + Width[s[n].kind] + Between(Before(s, n), s[n].kind)]
<1>1. Len(s) \in Nat /\ d \in [1..Len(s) -> Int] /\ \A k \in 1..Len(s) : d[k] = Taken(s, k)
  BY TakenType
<1>2. PICK g : g = [k \in 0..Len(s) |-> IF k = 0 THEN 0 ELSE g[k - 1] + d[k]]
  <2> HIDE DEF d
  <2> QED BY <1>1, SumExists
<1>3. g[0] = 0 /\ \A k \in 1..Len(s) : g[k] = g[k - 1] + d[k]
  <2> HIDE DEF d
  <2> QED BY <1>1, <1>2
<1>4. \A k \in 0..Len(s) : g[k] \in Int
  <2>1. \A k \in 1..Len(s) : d[k] \in Int
    BY <1>1
  <2> HIDE DEF d
  <2> QED BY <1>1, <1>3, <2>1, SumInt
<1>5. Solves(g)
  <2>1. \A k \in 1..Len(s) :
           g[k] = g[k - 1] + Width[s[k].kind] + Between(Before(s, k), s[k].kind)
    <3> SUFFICES ASSUME NEW k \in 1..Len(s)
                 PROVE  g[k] = g[k - 1] + Width[s[k].kind] + Between(Before(s, k), s[k].kind)
      OBVIOUS
    <3>1. g[k - 1] \in Int /\ g[k] = g[k - 1] + Taken(s, k)
      <4> HIDE DEF d
      <4> QED BY <1>1, <1>3, <1>4
    <3> HIDE DEF d
    <3> QED BY <3>1, TakenType DEF Taken
  <2>2. g = [k \in 0..Len(s) |-> g[k]]
    <3> HIDE DEF d
    <3> QED BY <1>2
  <2>3. \A k \in 0..Len(s) :
           g[k] = IF k = 0 THEN 0
                  ELSE g[k - 1] + Width[s[k].kind] + Between(Before(s, k), s[k].kind)
    <3> HIDE DEF d
    <3>1. \A k \in 0..Len(s) : k = 0 \/ k \in 1..Len(s)
      BY <1>1
    <3> QED BY <1>3, <2>1, <3>1
  <2> HIDE DEF d
  <2> QED BY <2>2, <2>3
<1>6. Solves(c)
  BY <1>5 DEF Characters
<1>7. /\ c[0] = 0
      /\ \A k \in 1..Len(s) :
            c[k] = c[k - 1] + Width[s[k].kind] + Between(Before(s, k), s[k].kind)
  <2> HIDE DEF c, d
  <2> QED BY <1>1, <1>6
<1>8. \A n \in 0..Len(s) : c[n] \in Int
  <2> DEFINE Bad == {n \in 0..Len(s) : c[n] \notin Int}
  <2> SUFFICES ASSUME Bad # {} PROVE FALSE
    BY <1>1
  <2>1. PICK k \in Bad : \A y \in Bad : k <= y
    <3>1. Bad \in SUBSET Nat
      BY <1>1
    <3> HIDE DEF Bad
    <3> QED BY <3>1, LeastNat
  <2> HIDE DEF c, d, Solves
  <2>2. k \in 1..Len(s)
    BY <1>1, <1>7, <2>1
  <2>3. c[k - 1] \in Int
    <3>1. k - 1 \in 0..Len(s) /\ ~(k <= k - 1)
      BY <1>1, <2>2
    <3> QED BY <2>1, <3>1
  <2>4. c[k] \in Int
    <3>1. Width[s[k].kind] \in Int /\ Between(Before(s, k), s[k].kind) \in Nat
      BY <2>2, TakenType
    <3>2. c[k] = c[k - 1] + Width[s[k].kind] + Between(Before(s, k), s[k].kind)
      BY <1>7, <2>2
    <3> QED BY <2>3, <3>1, <3>2
  <2> QED BY <2>1, <2>4
<1>9. \A n \in 1..Len(s) : c[n] = c[n - 1] + Taken(s, n)
  <2> SUFFICES ASSUME NEW n \in 1..Len(s) PROVE c[n] = c[n - 1] + Taken(s, n)
    OBVIOUS
  <2>1. n - 1 \in 0..Len(s)
    BY <1>1
  <2> HIDE DEF c, d, Solves
  <2>2. Width[s[n].kind] \in Int /\ Between(Before(s, n), s[n].kind) \in Nat
    BY TakenType
  <2>3. c[n] = c[n - 1] + Width[s[n].kind] + Between(Before(s, n), s[n].kind) /\ c[n - 1] \in Int
    BY <1>7, <1>8, <2>1
  <2> QED BY <2>2, <2>3 DEF Taken
<1>10. ShortestSource(s) = IF c[Len(s)] > Len(s) THEN c[Len(s)] ELSE Len(s) + 1
  BY DEF ShortestSource, Characters, Before
<1>11. Len(s) \in 0..Len(s)
  BY <1>1
<1> HIDE DEF d, Solves
<1> QED BY <1>1, <1>7, <1>8, <1>9, <1>10, <1>11

(* A token takes a character at least. *)
LEMMA CharactersGrow ==
    ASSUME NEW s \in Seq(Token), NEW a \in 0..Len(s), NEW b \in 0..Len(s), a <= b
    PROVE  Characters(s)[b] - Characters(s)[a] >= b - a
<1> DEFINE Bad == {n \in 0..Len(s) : a <= n /\ Characters(s)[n] - Characters(s)[a] < n - a}
<1>1. Len(s) \in Nat /\ \A n \in 0..Len(s) : Characters(s)[n] \in Int
  BY CharactersFacts
<1>2. Bad = {}
  <2> SUFFICES ASSUME Bad # {} PROVE FALSE
    OBVIOUS
  <2>1. PICK k \in Bad : \A y \in Bad : k <= y
    <3>1. Bad \in SUBSET Nat
      BY <1>1
    <3> HIDE DEF Bad
    <3> QED BY <3>1, LeastNat
  <2>2. k \in 0..Len(s) /\ a <= k /\ Characters(s)[k] - Characters(s)[a] < k - a
    BY <2>1
  <2>3. k # a
    BY <1>1, <2>2
  <2>4. k \in 1..Len(s) /\ k - 1 \in 0..Len(s) /\ a <= k - 1
    BY <1>1, <2>2, <2>3
  <2>5. k - 1 \notin Bad
    BY <2>1, <2>4
  <2> DEFINE x == Characters(s)[k - 1]
             y == Characters(s)[k]
             z == Characters(s)[a]
  <2>8. x \in Int /\ y \in Int /\ z \in Int /\ a \in Nat /\ k \in Nat
    BY <1>1, <2>4
  <2>6. x - z >= k - 1 - a
    <3>1. ~(x - z < k - 1 - a)
      BY <2>4, <2>5
    <3> HIDE DEF x, y, z
    <3> QED BY <2>8, <3>1
  <2>7. y = x + Taken(s, k) /\ Taken(s, k) >= 1 /\ Taken(s, k) \in Int
    BY <2>4, CharactersFacts, TakenType
  <2>9. y - z < k - a
    BY <2>2
  <2> HIDE DEF x, y, z
  <2> QED BY <2>6, <2>7, <2>8, <2>9
<1>3. b \notin Bad
  BY <1>2
<1> QED BY <1>1, <1>3

(* The characters of the tokens that were read. *)
Spent == Characters(tokens)[i - 1]
All == Characters(tokens)[Len(tokens)]

SpentOK == Spent \in Int /\ All \in Int /\ Spent <= All

LEMMA SpentType == BoundsInv => SpentOK
<1> SUFFICES ASSUME BoundsInv PROVE Spent \in Int /\ All \in Int /\ Spent <= All
  BY DEF SpentOK
<1>1. tokens \in Seq(Token) /\ Len(tokens) \in Nat /\ i \in 1..(Len(tokens) + 1)
  BY Position DEF BoundsInv, InputOK, PlaceOK
<1>2. i - 1 \in 0..Len(tokens) /\ Len(tokens) \in 0..Len(tokens) /\ i - 1 <= Len(tokens)
  BY <1>1
<1>3. Spent \in Int /\ All \in Int
  BY <1>1, <1>2, CharactersFacts DEF Spent, All
<1>4. All - Spent >= Len(tokens) - (i - 1)
  BY <1>1, <1>2, CharactersGrow DEF Spent, All
<1> QED BY <1>1, <1>2, <1>3, <1>4

LEMMA NextSpentType == BoundsInv' => Spent' \in Int /\ All' \in Int /\ Spent' <= All'
<1>1. BoundsInv' => SpentOK'
  BY SpentType, PTL
<1> QED BY <1>1 DEF SpentOK

LEMMA Reads ==
    ASSUME BoundsInv, BoundsInv', tokens' = tokens, At(i) # "NO", i' > i
    PROVE  /\ Spent' >= Spent + Width[At(i)] + (i' - i - 1)
           /\ Width[At(i)] \in Int /\ Spent \in Int /\ Spent' \in Int
<1>1. /\ tokens \in Seq(Token) /\ Len(tokens) \in Nat /\ i \in 1..Len(tokens)
      /\ i' \in 1..(Len(tokens) + 1)
  BY Position DEF BoundsInv, InputOK, PlaceOK
<1>2. At(i) = tokens[i].kind
  BY <1>1 DEF At
<1> DEFINE p == i' - 1
<1>3. i \in 0..Len(tokens) /\ p \in 0..Len(tokens) /\ i <= p /\ p \in Int /\ i \in Int
  <2>1. Len(tokens)' = Len(tokens)
    OBVIOUS
  <2>2. i' \in Int /\ i \in Int /\ i' >= i + 1 /\ i' <= Len(tokens) + 1 /\ i >= 1 /\ i <= Len(tokens)
    BY <1>1, <2>1
  <2>3. \A x \in Int, y \in Int, n \in Nat : y >= x + 1 /\ y <= n + 1 /\ x >= 1 /\ x <= n =>
           x \in 0..n /\ y - 1 \in 0..n /\ x <= y - 1 /\ y - 1 \in Int
    OBVIOUS
  <2> QED BY <1>1, <2>2, <2>3
<1> DEFINE x == Characters(tokens)[p]
           y == Characters(tokens)[i]
           z == Characters(tokens)[i - 1]
<1>4. x - y >= p - i
  <2> HIDE DEF p
  <2> QED BY <1>1, <1>3, CharactersGrow
<1>5. /\ y = z + Taken(tokens, i)
      /\ Taken(tokens, i) \in Int /\ Taken(tokens, i) >= Width[At(i)] /\ Width[At(i)] \in Int
  BY <1>1, <1>2, CharactersFacts, TakenType
<1>6. x \in Int /\ y \in Int /\ z \in Int
  <2>1. i - 1 \in 0..Len(tokens)
    BY <1>1
  <2> HIDE DEF p
  <2> QED BY <1>1, <1>3, <2>1, CharactersFacts
<1>7. Spent = z /\ Spent' = x
  BY DEF Spent
<1>8. i' \in Int /\ p = i' - 1
  BY <1>1
<1> HIDE DEF x, y, z, p
<1>9. x - y >= p - i /\ p \in Int /\ i \in Int
  BY <1>3, <1>4
<1> DEFINE t == Taken(tokens, i)
           w == Width[At(i)]
<1>10. y = z + t /\ t \in Int /\ t >= w /\ w \in Int
  BY <1>5
<1> HIDE DEF t, w
<1>11. x >= z + w + (p - i)
  BY <1>6, <1>9, <1>10
<1>12. i' - i - 1 = p - i
  BY <1>8, <1>9
<1> QED BY <1>6, <1>7, <1>10, <1>11, <1>12 DEF w

LEMMA ReadsNothing ==
    ASSUME BoundsInv, tokens' = tokens, i' = i
    PROVE  Spent' = Spent /\ Spent \in Int
BY SpentType DEF Spent, SpentOK

-----------------------------------------------------------------------------
(* Room for the nodes: the invariant                                         *)

(* The nodes that are written or will be for what was read: an operator on a *)
(* stack becomes one, and an open scope ends in a SCOPE_END and a SCOPE.     *)
Needed == Len(nodes) + Len(operators) + Len(buffer) + 2 * (Len(contexts) - 1)

(* How many of them the characters that were read may fall short of: the     *)
(* instruction has its semicolon or period to come, a SCOPE its five letters. *)
Allowed ==
    CASE pc = "instruction"         -> IF At(i) = "SCOPE" THEN 3 ELSE 0
      [] pc \in {"type", "typed"}   -> -1
      [] pc = "init"                -> IF decl = "DECL_VAR" THEN -1 ELSE 1
      [] pc = "parameter"           -> 0
      [] pc = "accepted"            -> 0
      [] OTHER                      -> 1

(* The parenthesis of a callee pays for its second quadruple.                *)
CalleeRead == IF TopType = "CALLEE" /\ At(i) = "LPAR" THEN 1 ELSE 0

Room(a) ==
    /\ Needed <= Spent + a
    /\ Needed + Excess(nodes) + Excess(buffer) <= Spent + a + CalleeRead
RoomOK == Room(Allowed)

(* RoomOK after a handler, and no more than the operators that wait is still *)
(* missing.                                                                  *)
Roomed ==
    \E a \in Int : /\ Room(a) /\ a <= Len(operators)
                   /\ pc \notin Failed => a <= Allowed

LEMMA AllowedType == Allowed \in Int /\ Allowed >= -1 /\ Allowed <= 3
BY DEF Allowed

LEMMA RoomTypes ==
    ASSUME BoundsInv
    PROVE  /\ Len(nodes) \in Nat /\ Len(operators) \in Nat /\ Len(buffer) \in Nat
           /\ Len(contexts) \in Nat /\ Len(contexts) >= 1
           /\ Needed \in Int /\ Excess(nodes) \in Int /\ Excess(buffer) \in Int
           /\ CalleeRead \in 0..1
           /\ buffer = <<>> => Excess(buffer) = 0 /\ CalleeRead = 0 /\ Len(buffer) = 0
<1>1. nodes \in Seq(Written) /\ buffer \in Seq(Pending)
  BY DEF BoundsInv, NodesOK, BufferOK
<1>2. Excess(nodes) \in Int /\ Excess(buffer) \in Int /\ (buffer = <<>> => Excess(buffer) = 0)
  BY <1>1, ExcessType
<1>3. /\ Len(nodes) \in Nat /\ Len(operators) \in Nat /\ Len(buffer) \in Nat
      /\ Len(contexts) \in Nat /\ Len(contexts) >= 1
  BY Position
<1>4. CalleeRead \in 0..1 /\ (buffer = <<>> => CalleeRead = 0)
  BY DEF CalleeRead, TopType
<1> QED BY <1>2, <1>3, <1>4 DEF Needed

NodeBound == Len(nodes) <= All /\ All \in Int /\ (pc \notin Failed => RoomOK)
LEMMA RoomedGives == BoundsInv /\ Roomed => NodeBound
<1> SUFFICES ASSUME BoundsInv, Roomed PROVE NodeBound
  OBVIOUS
<1>1. PICK a \in Int : Room(a) /\ a <= Len(operators) /\ (pc \notin Failed => a <= Allowed)
  BY DEF Roomed
<1>2. Len(nodes) <= All /\ All \in Int
  BY <1>1, RoomTypes, SpentType DEF Room, Needed, SpentOK
<1>3. ASSUME pc \notin Failed PROVE RoomOK
  <2> DEFINE x == Allowed
  <2>1. x \in Int /\ a <= x
    BY <1>1, <1>3, AllowedType
  <2>2. /\ Needed \in Int /\ Spent \in Int /\ Excess(nodes) \in Int /\ Excess(buffer) \in Int
        /\ CalleeRead \in 0..1
    BY RoomTypes, SpentType DEF SpentOK
  <2> HIDE DEF x
  <2>3. Room(x)
    BY <1>1, <2>1, <2>2 DEF Room
  <2> QED BY <2>3 DEF RoomOK, x
<1> QED BY <1>2, <1>3 DEF NodeBound

LEMMA NextRoomed == BoundsInv' /\ Roomed' => NodeBound'
BY RoomedGives, PTL

RoomIntegers ==
    /\ Len(nodes) \in Nat /\ Len(operators) \in Nat /\ Len(buffer) \in Nat
    /\ Len(contexts) \in Nat
    /\ Needed \in Int /\ Excess(nodes) \in Int /\ Excess(buffer) \in Int
    /\ CalleeRead \in 0..1 /\ Spent \in Int
    /\ buffer = <<>> => Excess(buffer) = 0 /\ CalleeRead = 0 /\ Len(buffer) = 0
LEMMA NextRoomTypes == BoundsInv' => RoomIntegers'
<1>1. BoundsInv => RoomIntegers
  BY RoomTypes, SpentType DEF RoomIntegers, SpentOK
<1> QED BY <1>1, PTL

(* A handler outside an expression: n nodes, o operators and c scopes more,  *)
(* and w characters read.                                                    *)
LEMMA RoomStep ==
    ASSUME BoundsInv, BoundsInv', RoomOK, buffer = <<>>, buffer' = <<>>,
           Excess(nodes') = Excess(nodes),
           NEW n \in Int, Len(nodes') = Len(nodes) + n,
           NEW o \in Int, Len(operators') = Len(operators) + o,
           NEW c \in Int, Len(contexts') = Len(contexts) + c,
           NEW w \in Int, Spent' >= Spent + w,
           NEW a \in Int, n + o + 2 * c <= w + a - Allowed,
           a <= Len(operators'), pc' \notin Failed => a <= Allowed'
    PROVE  Roomed'
<1>1. RoomIntegers'
  BY NextRoomTypes
<1>2. /\ Len(nodes) \in Nat /\ Len(operators) \in Nat /\ Len(contexts) \in Nat
      /\ Excess(nodes) \in Int /\ Excess(buffer) = 0 /\ CalleeRead = 0 /\ Len(buffer) = 0
      /\ Spent \in Int /\ Allowed \in Int
  BY RoomTypes, SpentType, AllowedType DEF SpentOK
<1>3. /\ Len(nodes) + Len(operators) + 2 * (Len(contexts) - 1) <= Spent + Allowed
      /\ Len(nodes) + Len(operators) + 2 * (Len(contexts) - 1) + Excess(nodes) <= Spent + Allowed
  BY <1>2 DEF RoomOK, Room, Needed
<1>4. Excess(buffer)' = 0 /\ Len(buffer') = 0 /\ CalleeRead' = 0 /\ Spent' \in Int
  BY <1>1 DEF RoomIntegers
<1>5. Excess(nodes)' = Excess(nodes')
  BY DEF Excess, Number, Places
<1>6. Needed' = Len(nodes') + Len(operators') + 2 * (Len(contexts') - 1)
  BY <1>1, <1>4 DEF Needed, RoomIntegers
<1>7. Room(a)'
  BY <1>2, <1>3, <1>4, <1>5, <1>6, SMTT(30) DEF Room
<1> QED BY <1>7 DEF Roomed

-----------------------------------------------------------------------------
(* The shape of the nodes: the invariant                                     *)

(* Nodes that a node beside them belongs to. *)
Joining == {"SCOPE_END", "SCOPE", "INIT_LAB", "INIT_PAL", "INIT_VAR"}

(* The nodes with an arity create_tac can do with, and those that may stand   *)
(* anywhere and make one quadruple or operand at most.                       *)
Sound ==
    {x \in Written :
        /\ x.arity >= 0
        /\ x.type \in Childless => x.arity = 0
        /\ x.type \in Parents \cup {"LPAR"} => x.arity > 0}
Plain == {x \in Sound : x.type \notin Joining \cup {"CALLEE", "LPAR"}}

(* SideBySide, but that the last node may still wait for its declaration.    *)
Beside(s) ==
    \A n \in 1..Len(s) :
        /\ s[n].type = "SCOPE_END" => n < Len(s) /\ s[n + 1].type = "SCOPE"
        /\ s[n].type = "SCOPE" => n > 1 /\ s[n - 1].type = "SCOPE_END"
        /\ s[n].type = "INIT_LAB" =>
              n > 1 /\ s[n - 1].type = "SCOPE" /\ n < Len(s) /\ s[n + 1].type = "DECL_LAB"
        /\ s[n].type = "INIT_PAL" =>
              n > 1 /\ s[n - 1].type = "SCOPE" /\ n < Len(s) /\ s[n + 1].type = "DECL_PAL"
        /\ s[n].type = "INIT_VAR" =>
              /\ n > 1 /\ s[n - 1].type = "EXP"
              /\ n < Len(s) => s[n + 1].type = "DECL_VAR"

LastIsInit(s) == Len(s) > 0 /\ s[Len(s)].type = "INIT_VAR"

(* The INIT_VAR is written before its instruction has ended, which writes    *)
(* the DECL_VAR; an EXP that ends has a child.                               *)
LastOK == LastIsInit(nodes) => pc = "terminator" /\ Top(operators).type = "DECL_VAR"
EndedOK == pc = "terminator" /\ Top(operators).type = "EXP" => Top(operators).arity = 1
ArgumentsOK == \A b \in 1..Len(buffer) : buffer[b].arity >= 0

ShapeOK == nodes \in Seq(Sound) /\ Beside(nodes) /\ LastOK /\ EndedOK /\ ArgumentsOK

LEMMA SoundPlain ==
    /\ Plain \subseteq Sound /\ Sound \subseteq Written
    /\ \A s : s \in Seq(Plain) => s \in Seq(Sound)
    /\ \A s : s \in Seq(Sound) => s \in Seq(Written)
<1>1. Plain \subseteq Sound /\ Sound \subseteq Written
  BY DEF Plain, Sound
<1> QED BY <1>1

LEMMA PlainLeaf ==
    ASSUME NEW type \in {"Q", "MOD", "ID", "TYPE_VAR", "TYPE_PAL_VOID", "PARAM", "KEY", "LIT"},
           NEW p \in Nat
    PROVE  Leaf(type, p) \in Plain /\ <<Leaf(type, p)>> \in Seq(Plain)
<1>1. type \in NodeTypes
  BY DEF NodeTypes, ExpressionTypes
<1>2. /\ Leaf(type, p) \in Written /\ Leaf(type, p).type = type /\ Leaf(type, p).arity = 0
  BY <1>1, LeafType
<1>3. Leaf(type, p) \in Plain
  <2> DEFINE x == Leaf(type, p)
  <2>1. x \in Written /\ x.type = type /\ x.arity = 0
    BY <1>2
  <2> HIDE DEF x
  <2>2. x \in Plain
    BY <2>1 DEF Plain, Sound, Joining, Parents
  <2> QED BY <2>2 DEF x
<1> QED BY <1>3

LEMMA PlainOperator ==
    ASSUME NEW x \in Operator, x.type \notin Joining, x.arity >= 0,
           x.type \in Decls \cup {"EXP"} => x.arity > 0
    PROVE  x \in Plain
<1>1. x \in Written /\ x.type \in OperatorTypes
  BY SubTypes, ItemFields DEF Operator
<1>2. x.type \in Parents => x.type \in Decls \cup {"EXP"}
  BY <1>1 DEF Parents, OperatorTypes, Joining, Decls, Inits
<1>3. x.type \notin Childless \cup {"CALLEE", "LPAR"}
  BY <1>1 DEF Childless, OperatorTypes, Decls, Inits
<1> QED BY <1>1, <1>2, <1>3 DEF Plain, Sound

(* What can stand anywhere stands beside everything.                         *)
LEMMA PlainBeside ==
    ASSUME NEW s \in Seq(Plain)
    PROVE  Beside(s) /\ ~LastIsInit(s) /\ \A n \in 1..Len(s) : s[n].type \notin Joining
<1>1. \A n \in 1..Len(s) : s[n].type \notin Joining
  <2> SUFFICES ASSUME NEW n \in 1..Len(s) PROVE s[n].type \notin Joining
    OBVIOUS
  <2>1. s[n] \in Plain
    OBVIOUS
  <2> QED BY <2>1 DEF Plain
<1>2. Len(s) > 0 => Len(s) \in 1..Len(s)
  OBVIOUS
<1> QED BY <1>1, <1>2 DEF Beside, LastIsInit, Joining

LEMMA BesideJoined ==
    ASSUME NEW s \in Seq(Written), NEW t \in Seq(Written), Beside(s), Beside(t),
           LastIsInit(s) /\ Len(t) > 0 => t[1].type = "DECL_VAR"
    PROVE  Beside(s \o t)
<1> DEFINE r == s \o t
           l == Len(s)
<1>1. /\ l \in Nat /\ Len(t) \in Nat /\ Len(r) = l + Len(t)
      /\ \A n \in 1..l : r[n] = s[n]
      /\ \A k \in 1..Len(t) : r[l + k] = t[k]
  BY Concatenated
<1> HIDE DEF r, l
<1> SUFFICES ASSUME NEW n \in 1..Len(r)
             PROVE  /\ r[n].type = "SCOPE_END" => n < Len(r) /\ r[n + 1].type = "SCOPE"
                    /\ r[n].type = "SCOPE" => n > 1 /\ r[n - 1].type = "SCOPE_END"
                    /\ r[n].type = "INIT_LAB" =>
                          n > 1 /\ r[n - 1].type = "SCOPE" /\ n < Len(r) /\ r[n + 1].type = "DECL_LAB"
                    /\ r[n].type = "INIT_PAL" =>
                          n > 1 /\ r[n - 1].type = "SCOPE" /\ n < Len(r) /\ r[n + 1].type = "DECL_PAL"
                    /\ r[n].type = "INIT_VAR" =>
                          /\ n > 1 /\ r[n - 1].type = "EXP"
                          /\ n < Len(r) => r[n + 1].type = "DECL_VAR"
  BY DEF Beside, r
<1>2. CASE n \in 1..l
  <2>1. r[n] = s[n]
    BY <1>1, <1>2
  <2>2. n > 1 => r[n - 1] = s[n - 1]
    <3>1. n > 1 => n - 1 \in 1..l
      BY <1>1, <1>2
    <3> QED BY <1>1, <3>1
  <2>3. n < l => r[n + 1] = s[n + 1] /\ n < Len(r)
    <3>1. n < l => n + 1 \in 1..l /\ n < Len(r)
      BY <1>1, <1>2
    <3> QED BY <1>1, <3>1
  <2>4. /\ s[n].type = "SCOPE_END" => n < l /\ s[n + 1].type = "SCOPE"
        /\ s[n].type = "SCOPE" => n > 1 /\ s[n - 1].type = "SCOPE_END"
        /\ s[n].type = "INIT_LAB" =>
              n > 1 /\ s[n - 1].type = "SCOPE" /\ n < l /\ s[n + 1].type = "DECL_LAB"
        /\ s[n].type = "INIT_PAL" =>
              n > 1 /\ s[n - 1].type = "SCOPE" /\ n < l /\ s[n + 1].type = "DECL_PAL"
        /\ s[n].type = "INIT_VAR" =>
              /\ n > 1 /\ s[n - 1].type = "EXP"
              /\ n < l => s[n + 1].type = "DECL_VAR"
    BY <1>2 DEF Beside, l
  <2>5. s[n].type = "INIT_VAR" /\ n < Len(r) => r[n + 1].type = "DECL_VAR"
    <3>1. CASE n < l
      BY <2>3, <2>4, <3>1
    <3>2. CASE n = l
      <4> SUFFICES ASSUME s[n].type = "INIT_VAR", n < Len(r) PROVE r[n + 1].type = "DECL_VAR"
        OBVIOUS
      <4>1. Len(t) > 0 /\ 1 \in 1..Len(t)
        BY <1>1, <3>2
      <4>2. LastIsInit(s)
        BY <1>2, <3>2 DEF LastIsInit, l
      <4>3. r[l + 1] = t[1]
        BY <1>1, <4>1
      <4> QED BY <3>2, <4>1, <4>2, <4>3
    <3> QED BY <1>1, <1>2, <3>1, <3>2
  <2> QED BY <2>1, <2>2, <2>3, <2>4, <2>5
<1>3. CASE n \notin 1..l
  <2> DEFINE k == n - l
  <2>1. k \in 1..Len(t) /\ n = l + k /\ (k > 1 => n > 1) /\ (k < Len(t) => n < Len(r))
        /\ (n < Len(r) => k < Len(t))
    BY <1>1, <1>3
  <2> HIDE DEF k
  <2>2. r[n] = t[k]
    BY <1>1, <2>1
  <2>3. k > 1 => r[n - 1] = t[k - 1]
    <3>1. k > 1 => k - 1 \in 1..Len(t) /\ l + (k - 1) = n - 1
      BY <1>1, <2>1
    <3> QED BY <1>1, <3>1
  <2>4. k < Len(t) => r[n + 1] = t[k + 1]
    <3>1. k < Len(t) => k + 1 \in 1..Len(t) /\ l + (k + 1) = n + 1
      BY <1>1, <2>1
    <3> QED BY <1>1, <3>1
  <2>5. /\ t[k].type = "SCOPE_END" => k < Len(t) /\ t[k + 1].type = "SCOPE"
        /\ t[k].type = "SCOPE" => k > 1 /\ t[k - 1].type = "SCOPE_END"
        /\ t[k].type = "INIT_LAB" =>
              k > 1 /\ t[k - 1].type = "SCOPE" /\ k < Len(t) /\ t[k + 1].type = "DECL_LAB"
        /\ t[k].type = "INIT_PAL" =>
              k > 1 /\ t[k - 1].type = "SCOPE" /\ k < Len(t) /\ t[k + 1].type = "DECL_PAL"
        /\ t[k].type = "INIT_VAR" =>
              /\ k > 1 /\ t[k - 1].type = "EXP"
              /\ k < Len(t) => t[k + 1].type = "DECL_VAR"
    BY <2>1 DEF Beside
  <2> QED BY <2>1, <2>2, <2>3, <2>4, <2>5
<1> QED BY <1>2, <1>3

(* A handler writes n nodes that may stand anywhere, and only aborts when    *)
(* they leave no place in the array.                                         *)
Filled(n) == pc' = "aborted" => ~(Len(nodes) + n < length)
Adds(n) == Filled(n) /\ \E ns \in Seq(Plain) : Len(ns) = n /\ nodes' = nodes \o ns

LEMMA AddsGives ==
    ASSUME BoundsInv, NEW n, Adds(n)
    PROVE  /\ Excess(nodes') = Excess(nodes) /\ Len(nodes') = Len(nodes) + n /\ n \in Nat
           /\ pc' = "aborted" => ~(Len(nodes') < length)
<1>1. PICK ns \in Seq(Plain) : Len(ns) = n /\ nodes' = nodes \o ns
  BY DEF Adds
<1>2. nodes \in Seq(Written) /\ ns \in Seq(Written)
  BY SoundPlain DEF BoundsInv, NodesOK
<1>3. \A k \in 1..Len(ns) : ns[k].type \notin {"CALLEE", "LPAR"}
  <2> SUFFICES ASSUME NEW k \in 1..Len(ns) PROVE ns[k].type \notin {"CALLEE", "LPAR"}
    OBVIOUS
  <2>1. ns[k] \in Plain
    OBVIOUS
  <2> QED BY <2>1 DEF Plain
<1>4. Excess(nodes \o ns) = Excess(nodes)
  BY <1>2, <1>3, ExcessOthers
<1>5. Len(nodes') = Len(nodes) + n /\ n \in Nat
  <2>1. Len(nodes \o ns) = Len(nodes) + Len(ns)
    BY <1>2, Concatenated
  <2>2. Len(ns) \in Nat
    OBVIOUS
  <2> QED BY <1>1, <2>1, <2>2
<1>6. Excess(nodes') = Excess(nodes)
  BY <1>1, <1>4, Zenon
<1>7. pc' = "aborted" => ~(Len(nodes) + n < length)
  BY DEF Adds, Filled
<1> QED BY <1>5, <1>6, <1>7

LEMMA AddsNothing == ASSUME BoundsInv, UNCHANGED nodes, pc' # "aborted" PROVE Adds(0)
<1>1. <<>> \in Seq(Plain) /\ Len(<<>>) = 0 /\ nodes' = nodes \o <<>>
  BY DEF BoundsInv, NodesOK
<1> QED BY <1>1, Zenon DEF Adds, Filled

LEMMA AddsOne ==
    ASSUME NEW x \in Plain, nodes' = nodes \o <<x>>, Filled(1)
    PROVE  Adds(1)
<1>1. <<x>> \in Seq(Plain) /\ Len(<<x>>) = 1
  OBVIOUS
<1> QED BY <1>1, Zenon DEF Adds

LEMMA AddsTwo ==
    ASSUME NEW x \in Plain, NEW y \in Plain, nodes' = nodes \o <<x, y>>, Filled(2)
    PROVE  Adds(2)
<1>1. <<x, y>> \in Seq(Plain) /\ Len(<<x, y>>) = 2
  OBVIOUS
<1> QED BY <1>1, Zenon DEF Adds

(* The shape is kept by a handler that does not end an instruction. *)
LEMMA ShapeAdds ==
    ASSUME BoundsInv, BoundsInv', ShapeOK, NEW n, Adds(n), pc # "terminator", buffer' = <<>>,
           EndedOK'
    PROVE  ShapeOK'
<1>1. PICK ns \in Seq(Plain) : Len(ns) = n /\ nodes' = nodes \o ns
  BY DEF Adds
<1>2. /\ nodes \in Seq(Sound) /\ ns \in Seq(Sound) /\ nodes \in Seq(Written) /\ ns \in Seq(Written)
      /\ Beside(nodes) /\ ~LastIsInit(nodes)
  BY SoundPlain DEF ShapeOK, LastOK
<1>3. nodes' \in Seq(Sound)
  BY <1>1, <1>2, Concatenated
<1>4. Beside(ns) /\ ~LastIsInit(ns)
  BY PlainBeside
<1>5. Beside(nodes \o ns)
  BY <1>2, <1>4, BesideJoined
<1>6. ~LastIsInit(nodes')
  <2> DEFINE r == nodes \o ns
             l == Len(nodes)
  <2>1. /\ l \in Nat /\ Len(ns) \in Nat /\ Len(r) = l + Len(ns)
        /\ \A m \in 1..l : r[m] = nodes[m]
        /\ \A k \in 1..Len(ns) : r[l + k] = ns[k]
    BY <1>2, Concatenated
  <2> HIDE DEF r, l
  <2>2. CASE Len(ns) = 0
    <3>1. l > 0 => l \in 1..l /\ Len(r) = l
      BY <2>1, <2>2
    <3>2. ~LastIsInit(r)
      BY <1>2, <2>1, <2>2, <3>1 DEF LastIsInit, l
    <3> QED BY <1>1, <3>2 DEF r
  <2>3. CASE Len(ns) > 0
    <3>1. Len(ns) \in 1..Len(ns)
      BY <2>1, <2>3
    <3>2. r[Len(r)] = ns[Len(ns)]
      BY <2>1, <3>1
    <3>3. ~LastIsInit(r)
      BY <1>4, <2>3, <3>2 DEF LastIsInit
    <3> QED BY <1>1, <3>3 DEF r
  <2> QED BY <2>1, <2>2, <2>3
<1>7. Beside(nodes)' /\ LastOK' /\ ArgumentsOK'
  <2>1. ArgumentsOK'
    BY DEF ArgumentsOK
  <2>2. Beside(nodes')
    BY <1>1, <1>5, Zenon
  <2>3. Beside(nodes)'
    BY <2>2 DEF Beside
  <2>4. LastOK'
    BY <1>6 DEF LastOK, LastIsInit
  <2> QED BY <2>1, <2>3, <2>4
<1> QED BY <1>3, <1>7 DEF ShapeOK

-----------------------------------------------------------------------------
(* What the handlers outside an expression write                             *)

LEMMA AddsGroupQualifiers ==
    ASSUME BoundsInv, GroupQualifiers, ~dropped'
    PROVE  /\ Adds(i' - i + 1) /\ Len(operators') = Len(operators) /\ i' > i
           /\ i' \in Int /\ pc = "instruction" /\ pc' \in {"instruction", "aborted"}
           /\ At(i) = "Q" /\ contexts' = Child(contexts, 1)
           /\ UNCHANGED <<tokens, length, buffer>>
<1>1. PICK last \in i..Len(tokens) :
         LET ops == Counted(Pushed(operators, Node("GRP_Q", 0, i)), last - i + 1)
         IN  /\ Write([x \in 1..(last - i + 1) |-> Leaf("Q", i + x - 1)] \o <<Top(ops)>>,
                      "instruction")
             /\ operators' = Rest(ops) /\ i' = last + 1
             /\ \A p \in i..last : At(p) = "Q"
  BY DEF GroupQualifiers
<1>2. /\ pc = "instruction" /\ ~Full(operators) /\ contexts' = Child(contexts, 1)
      /\ UNCHANGED <<tokens, length, buffer>> /\ pc' \in {"instruction", "aborted"}
  BY <1>1 DEF GroupQualifiers, Reading, input, Write
<1> DEFINE n == last - i + 1
           ops == Counted(Pushed(operators, Node("GRP_Q", 0, i)), n)
           leaves == [x \in 1..n |-> Leaf("Q", i + x - 1)]
           ns == leaves \o <<Top(ops)>>
           l == Len(operators)
<1>3. /\ i \in Nat /\ i >= 1 /\ n \in Nat /\ n >= 1 /\ last \in Nat /\ i' \in Int /\ i' > i /\ l \in Nat
      /\ i' - i + 1 = n + 1 /\ i \in i..last
  <2>1. i \in Nat /\ i >= 1 /\ Len(tokens) \in Nat /\ l \in Nat
    BY Position
  <2>2. last \in Nat /\ last >= i
    BY <2>1
  <2> QED BY <1>1, <2>1, <2>2
<1>4. At(i) = "Q"
  BY <1>1, <1>3
<1>5. /\ OpsOK(ops) /\ Len(ops) = l + 1 /\ ops[l + 1].type = "GRP_Q" /\ ops[l + 1].arity = n
  <2>1. "GRP_Q" \in OperatorTypes /\ OpsOK(operators) /\ n \in Int
    BY <1>3, Kept1 DEF OperatorTypes
  <2> HIDE DEF n
  <2> QED BY <1>2, <1>3, <2>1, OpsPushedCountedExactly
<1> HIDE DEF ops, l
<1>6. /\ Len(Rest(ops)) = l /\ Top(ops) = ops[l + 1]
  BY <1>3, <1>5, OpsRestedExactly
<1>7. Top(ops) \in Plain
  <2>1. Top(ops) \in Operator
    BY <1>3, <1>5, OpsRest
  <2>2. Top(ops).type = "GRP_Q" /\ Top(ops).arity >= 0
    BY <1>3, <1>5, <1>6
  <2> QED BY <2>1, <2>2, PlainOperator DEF Joining, Decls
<1>8. leaves \in Seq(Plain) /\ Len(leaves) = n
  <2>1. \A x \in 1..n : Leaf("Q", i + x - 1) \in Plain
    <3>1. \A x \in 1..n : i + x - 1 \in Nat
      BY <1>3
    <3> QED BY <3>1, PlainLeaf
  <2> HIDE DEF n
  <2> QED BY <1>3, <2>1
<1>9. ns \in Seq(Plain) /\ Len(ns) = n + 1
  <2> DEFINE one == <<Top(ops)>>
  <2>1. one \in Seq(Plain) /\ Len(one) = 1
    BY <1>7
  <2> HIDE DEF one, leaves, n
  <2>2. leaves \o one \in Seq(Plain) /\ Len(leaves \o one) = Len(leaves) + Len(one)
    BY <1>8, <2>1, Concatenated
  <2>3. Len(leaves \o one) = n + 1
    BY <1>3, <1>8, <2>1, <2>2
  <2> QED BY <2>2, <2>3 DEF one
<1>10. nodes' = nodes \o ns /\ operators' = Rest(ops) /\ Filled(Len(ns))
  BY <1>1 DEF Write, ops, Filled
<1> HIDE DEF ns, n
<1>11. Adds(n + 1)
  BY <1>9, <1>10, Zenon DEF Adds
<1>12. Adds(i' - i + 1)
  BY <1>3, <1>11
<1> QED BY <1>2, <1>3, <1>4, <1>6, <1>10, <1>12 DEF l

LEMMA AddsImportModules ==
    ASSUME BoundsInv, ImportModules, ~dropped'
    PROVE  /\ Adds(i' - i - 1) /\ Len(operators') = Len(operators) + 1 /\ i' > i
           /\ i' \in Int /\ pc = "instruction" /\ pc' \in {"terminator", "aborted"}
           /\ At(i) = "MOD" /\ Top(operators').type = "GRP_MOD"
           /\ UNCHANGED <<tokens, length, buffer, contexts>>
<1>1. PICK last \in i..Len(tokens) :
         /\ operators' = Counted(Pushed(operators, Node("GRP_MOD", 0, i)), last - i)
         /\ Write([x \in 1..(last - i) |-> Leaf("MOD", i + x)], "terminator")
         /\ i' = last + 1
  BY DEF ImportModules
<1>2. /\ pc = "instruction" /\ ~Full(operators) /\ At(i) = "MOD"
      /\ UNCHANGED <<tokens, length, buffer, contexts>> /\ pc' \in {"terminator", "aborted"}
  BY <1>1 DEF ImportModules, Reading, input, Write
<1> DEFINE n == last - i
           ns == [x \in 1..n |-> Leaf("MOD", i + x)]
           l == Len(operators)
<1>3. /\ i \in Nat /\ n \in Nat /\ i' \in Int /\ i' > i /\ l \in Nat /\ i' - i - 1 = n
  <2>1. i \in Nat /\ i >= 1 /\ Len(tokens) \in Nat /\ l \in Nat
    BY Position
  <2>2. last \in Nat /\ last >= i
    BY <2>1
  <2> QED BY <1>1, <2>1, <2>2
<1>4. /\ Len(operators') = l + 1 /\ operators'[l + 1].type = "GRP_MOD"
  <2>1. "GRP_MOD" \in OperatorTypes /\ OpsOK(operators) /\ n \in Int
    BY <1>3, Kept1 DEF OperatorTypes
  <2>2. operators' = Counted(Pushed(operators, Node("GRP_MOD", 0, i)), n)
    BY <1>1
  <2> HIDE DEF n
  <2> QED BY <1>2, <1>3, <2>1, <2>2, OpsPushedCountedExactly
<1>5. ns \in Seq(Plain) /\ Len(ns) = n
  <2>1. \A x \in 1..n : Leaf("MOD", i + x) \in Plain
    <3>1. \A x \in 1..n : i + x \in Nat
      BY <1>3
    <3> QED BY <3>1, PlainLeaf
  <2> HIDE DEF n
  <2> QED BY <1>3, <2>1
<1>6. nodes' = nodes \o ns /\ Filled(Len(ns))
  BY <1>1 DEF Write, Filled
<1> HIDE DEF ns, n
<1>7. Adds(n)
  BY <1>5, <1>6, Zenon DEF Adds
<1>8. Top(operators').type = "GRP_MOD"
  BY <1>4 DEF Top
<1>9. Adds(i' - i - 1)
  BY <1>3, <1>7
<1> QED BY <1>2, <1>3, <1>4, <1>8, <1>9

LEMMA AddsDeclare ==
    ASSUME BoundsInv, Declare, ~dropped'
    PROVE  /\ Adds(1) /\ Len(operators') = Len(operators) + 1 /\ i' = i + 2
           /\ pc = "instruction" /\ pc' \in {"type", "aborted"} /\ At(i) = "COM" /\ At(i + 1) = "ID"
           /\ UNCHANGED <<tokens, length, buffer, contexts>>
<1>1. /\ pc = "instruction" /\ ~Full(operators) /\ At(i) = "COM" /\ At(i + 1) = "ID"
      /\ operators' = Counted(Pushed(operators, Node(Declared, 0, i)), 1)
      /\ nodes' = nodes \o <<Leaf("ID", i + 1)>> /\ pc' \in {"type", "aborted"} /\ i' = i + 2
      /\ UNCHANGED <<tokens, length, buffer, contexts>> /\ Filled(1)
  BY DEF Declare, Reading, input, Write, Filled
<1>2. i \in Nat /\ i + 1 \in Nat
  BY Position
<1>3. Len(operators') = Len(operators) + 1
  <2>1. Declared \in OperatorTypes /\ OpsOK(operators) /\ 1 \in Int
    BY Kept1, DeclaredType DEF OperatorTypes
  <2> QED BY <1>1, <1>2, <2>1, OpsPushedCountedExactly
<1>4. Leaf("ID", i + 1) \in Plain
  BY <1>2, PlainLeaf
<1>5. Adds(1)
  BY <1>1, <1>4, AddsOne
<1> QED BY <1>1, <1>3, <1>5

LEMMA AddsTypeVar ==
    ASSUME BoundsInv, TypeVar
    PROVE  /\ Adds(1) /\ Len(operators') = Len(operators) /\ i' = i + 1 /\ At(i) # "NO"
           /\ pc = "type" /\ pc' \in {"typed", "aborted"}
           /\ UNCHANGED <<tokens, length, buffer, contexts>>
<1>1. /\ pc = "type" /\ At(i) # "NO" /\ operators' = Counted(operators, 1)
      /\ nodes' = nodes \o <<Leaf("TYPE_VAR", i)>> /\ pc' \in {"typed", "aborted"} /\ i' = i + 1
      /\ UNCHANGED <<tokens, length, buffer, contexts>> /\ Filled(1)
  BY DEF TypeVar, Reading, Lock, input, Write, Filled
<1>2. Len(operators') = Len(operators)
  BY <1>1, Kept1, OpsCount
<1>3. Leaf("TYPE_VAR", i) \in Plain
  BY PlainLeaf, Position
<1> QED BY <1>1, <1>2, <1>3, AddsOne

LEMMA AddsParameter ==
    ASSUME BoundsInv, Parameter
    PROVE  /\ Adds(2) /\ Len(operators') = Len(operators) /\ i' \in {i + 2, i + 3} /\ At(i) = "KEY"
           /\ pc = "parameter" /\ pc' \in {"parameter", "close", "aborted"}
           /\ UNCHANGED <<tokens, length, buffer, contexts>>
<1>1. /\ pc = "parameter" /\ At(i) = "KEY" /\ operators' = Counted(operators, 2)
      /\ nodes' = nodes \o <<Leaf("PARAM", i), Leaf("TYPE_VAR", i + 1)>>
      /\ pc' \in {"parameter", "close", "aborted"} /\ i' \in {i + 2, i + 3}
      /\ UNCHANGED <<tokens, length, buffer, contexts>> /\ Filled(2)
  BY DEF Parameter, Reading, input, Write, Filled
<1>2. Len(operators') = Len(operators)
  BY <1>1, Kept1, OpsCount
<1>3. Leaf("PARAM", i) \in Plain /\ Leaf("TYPE_VAR", i + 1) \in Plain
  <2>1. i \in Nat /\ i + 1 \in Nat
    BY Position
  <2> QED BY <2>1, PlainLeaf
<1>4. Adds(2)
  BY <1>1, <1>3, AddsTwo
<1> QED BY <1>1, <1>2, <1>4

LEMMA AddsOpenParameters ==
    ASSUME BoundsInv, OpenParameters, ~dropped'
    PROVE  /\ Len(operators') = Len(operators) + 1 /\ i' = i + 1 /\ At(i) = "TLPAR"
           /\ \/ (Adds(0) \/ Adds(1)) /\ pc' \in {"parameter", "aborted"}
              \/ (Adds(1) \/ Adds(2)) /\ pc' \in {"close", "aborted"}
           /\ pc \in {"type", "typed"}
           /\ UNCHANGED <<tokens, length, buffer, contexts>>
<1> DEFINE void == <<Leaf("TYPE_PAL_VOID", i)>>
           returned == IF pc = "type" THEN void ELSE <<>>
           base == Counted(operators, Len(returned))
           group == Pushed(base, Node("GRP_R_PARES", 0, i))
<1>1. /\ pc \in {"type", "typed"} /\ At(i) = "TLPAR" /\ ~Full(operators) /\ i' = i + 1
      /\ operators' = group \/ operators' = Counted(group, 1)
      /\ \/ /\ nodes' = nodes \o (returned \o <<>>) /\ pc' \in {"parameter", "aborted"}
            /\ Filled(Len(returned \o <<>>))
         \/ /\ nodes' = nodes \o (returned \o void) /\ pc' \in {"close", "aborted"}
            /\ Filled(Len(returned \o void))
      /\ UNCHANGED <<tokens, length, buffer, contexts>>
  BY DEF OpenParameters, input, Write, Filled
<1>2. void \in Seq(Plain) /\ Len(void) = 1
  <2>1. i \in Nat
    BY Position
  <2> QED BY <2>1, PlainLeaf
<1>3. returned \in Seq(Plain) /\ Len(returned) \in {0, 1}
  <2> HIDE DEF void
  <2> QED BY <1>2
<1>4. Len(operators') = Len(operators) + 1
  <2>1. OpsOK(base) /\ Len(base) = Len(operators) /\ Len(operators) \in Nat
    BY <1>3, Kept1, OpsCount
  <2>2. ~Full(base) /\ "GRP_R_PARES" \in OperatorTypes /\ i \in Nat
    BY <1>1, <2>1, Position DEF Full, OperatorTypes
  <2> HIDE DEF base
  <2>3. OpsOK(group) /\ Len(group) = Len(base) + 1
    BY <2>1, <2>2, OpsPushed
  <2> HIDE DEF group
  <2>4. Len(Counted(group, 1)) = Len(group)
    BY <2>3, OpsCount
  <2> QED BY <1>1, <2>1, <2>3, <2>4
<1> HIDE DEF void, returned
<1>5. /\ returned \o <<>> \in Seq(Plain) /\ Len(returned \o <<>>) \in {0, 1}
      /\ returned \o void \in Seq(Plain) /\ Len(returned \o void) \in {1, 2}
  <2>1. returned \o <<>> = returned
    BY <1>3
  <2>2. returned \o void \in Seq(Plain) /\ Len(returned \o void) = Len(returned) + Len(void)
    BY <1>2, <1>3, Concatenated
  <2>3. Len(returned \o void) \in {1, 2}
    BY <1>2, <1>3, <2>2
  <2> QED BY <1>3, <2>1, <2>2, <2>3
<1>6. \A ns \in Seq(Plain) : nodes' = nodes \o ns /\ Filled(Len(ns)) => Adds(Len(ns))
  BY Zenon DEF Adds
<1>7. \/ (Adds(0) \/ Adds(1)) /\ pc' \in {"parameter", "aborted"}
      \/ (Adds(1) \/ Adds(2)) /\ pc' \in {"close", "aborted"}
  <2>1. nodes' = nodes \o (returned \o <<>>) /\ Filled(Len(returned \o <<>>)) => Adds(0) \/ Adds(1)
    <3>1. nodes' = nodes \o (returned \o <<>>) /\ Filled(Len(returned \o <<>>)) =>
             Adds(Len(returned \o <<>>))
      BY <1>5, <1>6
    <3> QED BY <1>5, <3>1
  <2>2. nodes' = nodes \o (returned \o void) /\ Filled(Len(returned \o void)) => Adds(1) \/ Adds(2)
    <3>1. nodes' = nodes \o (returned \o void) /\ Filled(Len(returned \o void)) =>
             Adds(Len(returned \o void))
      BY <1>5, <1>6
    <3> QED BY <1>5, <3>1
  <2> QED BY <1>1, <2>1, <2>2
<1> QED BY <1>1, <1>4, <1>7

LEMMA AddsCloseParameters ==
    ASSUME BoundsInv, StackOK, ForestOK, CloseParameters
    PROVE  /\ Adds(2) /\ Len(operators') = Len(operators) - 1 /\ i' = i + 1 /\ At(i) = "TRPAR"
           /\ pc = "close" /\ pc' \in {"init", "aborted"} /\ Len(operators) >= 2
           /\ UNCHANGED <<tokens, length, buffer, contexts, decl>>
<1>1. /\ pc = "close" /\ operators' = Counted(Counted(Rest(operators), 1 - 2), 1)
      /\ nodes' = nodes \o <<Top(operators), Node("TYPE_PAL", 2, TypeStart)>>
      /\ pc' \in {"init", "aborted"} /\ i' = i + 1
      /\ UNCHANGED <<tokens, length, buffer, contexts, decl>> /\ Filled(2)
  BY DEF CloseParameters, Reading, input, Write, Filled
<1> DEFINE l == Len(operators)
<1>2. /\ l \in Nat /\ l >= 2 /\ l = Watermark + 2 /\ operators[l].type = "GRP_R_PARES" /\ l \in 1..l
      /\ At(i) = "TRPAR"
  <2>1. Watermark \in Nat /\ Len(operators) = Watermark + 2
        /\ operators[Watermark + 2].type = "GRP_R_PARES"
    BY <1>1, StackTypes DEF StackOK, OwnedOK
  <2>2. At(i) = "TRPAR"
    BY <1>1 DEF BoundsInv, PhaseOK
  <2> QED BY <2>1, <2>2
<1>3. Top(operators) = operators[l] /\ Top(operators) \in Operator
  BY <1>2, Kept1, OpsRest DEF Top
<1>4. Top(operators) \in Plain
  <2>1. Top(operators).arity >= 0
    <3>1. Weight(operators[l]) >= 0
      BY <1>2 DEF ForestOK, WeightsOK
    <3> QED BY <1>2, <1>3, <3>1 DEF Weight
  <2>2. Top(operators).type = "GRP_R_PARES"
    BY <1>2, <1>3
  <2> QED BY <1>3, <2>1, <2>2, PlainOperator DEF Joining, Decls
<1>5. Node("TYPE_PAL", 2, TypeStart) \in Plain
  <2>1. TypeStart \in Nat
    <3>1. \E n \in 1..Len(nodes) : nodes[n].type = "ID"
      BY <1>1 DEF BoundsInv, PhaseOK
    <3>2. nodes \in Seq(Written)
      BY Kept1
    <3> QED BY <3>1, <3>2, TypeStartType
  <2>2. "TYPE_PAL" \in NodeTypes
    BY DEF NodeTypes
  <2> DEFINE x == Node("TYPE_PAL", 2, TypeStart)
  <2>3. x \in Written /\ x.type = "TYPE_PAL" /\ x.arity = 2
    BY <2>1, <2>2, NodeType DEF Written
  <2> HIDE DEF x
  <2>4. x \in Plain
    BY <2>3 DEF Plain, Sound, Joining, Childless, Parents
  <2> QED BY <2>4 DEF x
<1>6. Adds(2)
  BY <1>1, <1>4, <1>5, AddsTwo
<1>7. Len(operators') = l - 1
  <2> DEFINE r == Rest(operators)
             c == Counted(r, 1 - 2)
  <2>1. OpsOK(r) /\ Len(r) = l - 1
    <3>1. Len(operators) > 0
      BY <1>2
    <3> QED BY <3>1, Kept1, OpsRest
  <2> HIDE DEF r
  <2>2. OpsOK(c) /\ Len(c) = Len(r)
    <3>1. 1 - 2 \in Int
      OBVIOUS
    <3> QED BY <2>1, <3>1, OpsCount
  <2> HIDE DEF c
  <2>3. Len(Counted(c, 1)) = Len(c)
    BY <2>2, OpsCount
  <2> QED BY <1>1, <2>1, <2>2, <2>3 DEF r, c
<1> QED BY <1>1, <1>2, <1>6, <1>7

-----------------------------------------------------------------------------
(* What the handlers that end something write                                *)

LEMMA Joined ==
    ASSUME BoundsInv, NEW ns \in Seq(Sound), nodes' = nodes \o ns
    PROVE  /\ Len(nodes') = Len(nodes) + Len(ns) /\ Len(ns) \in Nat
           /\ Len(ns) > 0 => nodes'[Len(nodes')] = ns[Len(ns)]
           /\ Len(ns) = 0 => nodes' = nodes
           /\ (\A k \in 1..Len(ns) : ns[k].type \notin {"CALLEE", "LPAR"}) =>
                 Excess(nodes') = Excess(nodes)
<1>1. nodes \in Seq(Written) /\ ns \in Seq(Written)
  BY SoundPlain DEF BoundsInv, NodesOK
<1> DEFINE r == nodes \o ns
           l == Len(nodes)
<1>2. /\ l \in Nat /\ Len(ns) \in Nat /\ Len(r) = l + Len(ns)
      /\ \A k \in 1..Len(ns) : r[l + k] = ns[k]
  BY <1>1, Concatenated
<1>3. Len(ns) = 0 => r = nodes
  BY <1>1
<1>4. (\A k \in 1..Len(ns) : ns[k].type \notin {"CALLEE", "LPAR"}) => Excess(r) = Excess(nodes)
  BY <1>1, ExcessOthers
<1>5. nodes' = r
  OBVIOUS
<1> HIDE DEF r, l
<1>6. Len(ns) > 0 => r[Len(r)] = ns[Len(ns)]
  <2>1. Len(ns) > 0 => Len(ns) \in 1..Len(ns)
    BY <1>2
  <2> QED BY <1>2, <2>1
<1>7. Excess(nodes') = Excess(r)
  BY <1>5, Zenon
<1> QED BY <1>2, <1>3, <1>4, <1>5, <1>6, <1>7 DEF l

LEMMA ShapeJoined ==
    ASSUME BoundsInv, ShapeOK, NEW ns \in Seq(Sound), nodes' = nodes \o ns, Beside(ns),
           LastIsInit(nodes) /\ Len(ns) > 0 => ns[1].type = "DECL_VAR",
           LastOK', EndedOK', ArgumentsOK'
    PROVE  ShapeOK'
<1>1. /\ nodes \in Seq(Sound) /\ nodes \in Seq(Written) /\ ns \in Seq(Written) /\ Beside(nodes)
  BY SoundPlain DEF ShapeOK
<1>2. nodes' \in Seq(Sound)
  BY <1>1, Concatenated
<1>3. Beside(nodes \o ns)
  BY <1>1, BesideJoined
<1>4. Beside(nodes')
  BY <1>3, Zenon
<1>5. Beside(nodes)'
  BY <1>4 DEF Beside
<1> QED BY <1>2, <1>5 DEF ShapeOK

(* An expression ends: it is the child of its EXP, which a declaration        *)
(* writes at once and its INIT_VAR with it.                                  *)
LEMMA ExpressionEnded ==
    ASSUME BoundsInv, StackOK, ForestOK, EndExpression
    PROVE  /\ pc = "expression" /\ buffer = <<>> /\ pc' \in {"terminator", "aborted"}
           /\ i' = i /\ UNCHANGED <<tokens, length, contexts, buffer, decl>>
           /\ \/ /\ decl = "NO" /\ UNCHANGED nodes /\ Len(operators') = Len(operators)
                 /\ Len(operators) >= 1 /\ pc' # "aborted"
                 /\ Top(operators').type = "EXP" /\ Top(operators').arity = 1
              \/ /\ Len(operators') = Len(operators) - 2 /\ Len(operators) >= 3
                 /\ Top(operators').type = "DECL_VAR" /\ Filled(2)
                 /\ \E x \in Sound, y \in Sound :
                       nodes' = nodes \o <<x, y>> /\ x.type = "EXP" /\ y.type = "INIT_VAR"
<1> DEFINE ops == [operators EXCEPT ![Len(operators)].arity = 1]
           r == Rest(ops)
           init == Counted(r, 1)
           r2 == Rest(init)
           x == Top(ops)
           y == Top(init)
           w == Watermark
<1>1. /\ pc = "expression" /\ buffer = <<>>
      /\ decl = "NO" => operators' = ops /\ pc' = "terminator" /\ UNCHANGED nodes
      /\ decl # "NO" => /\ operators' = Counted(r2, 1)
                        /\ pc' \in {AfterDeclaration(r2), "aborted"}
                        /\ nodes' = nodes \o <<x, y>>
                        /\ AfterDeclaration(r2) # "aborted" => Filled(2)
      /\ i' = i /\ UNCHANGED <<tokens, length, contexts, buffer, decl>>
  BY DEF EndExpression, ExpressionEnds, Reading, Write, input, Filled
<1>2. /\ w \in Nat /\ Len(operators) \in Nat /\ operators # <<>> /\ Len(operators) >= 1
      /\ decl = "NO" => Len(operators) = w + 1 /\ operators[w + 1].type = "EXP"
      /\ decl # "NO" => /\ Len(operators) = w + 3
                        /\ operators[w + 1].type = "DECL_VAR"
                        /\ operators[w + 2].type = "INIT_VAR"
                        /\ operators[w + 3].type = "EXP"
                        /\ operators[w + 2].arity = 0
  BY <1>1, StackTypes, Kept1 DEF StackOK, OwnedOK, ForestOK, WeightsOK
<1>3. /\ OpsOK(ops) /\ Len(ops) = Len(operators)
      /\ \A n \in 1..Len(operators) :
            /\ ops[n].type = operators[n].type
            /\ n # Len(operators) => ops[n] = operators[n]
  <2>1. OpsOK(operators) /\ operators # <<>> /\ 1 \in Int
    BY <1>2, Kept1
  <2> QED BY <2>1, SetLastArity
<1>4. x.arity = 1 /\ x = ops[Len(operators)]
  <2> DEFINE l == Len(operators)
  <2>1. /\ operators \in Seq(Operator) /\ l \in 1..l /\ DOMAIN operators = 1..l
        /\ operators[l] \in Operator
    BY <1>2, Kept1 DEF OpsOK
  <2>2. ops[l] = [operators[l] EXCEPT !.arity = 1]
    BY <2>1
  <2>3. ops[l].arity = 1
    <3> HIDE DEF ops, l
    <3> QED BY <2>1, <2>2, SetArity DEF Operator
  <2>4. x = ops[l]
    BY <1>3 DEF Top
  <2> HIDE DEF ops, l, x
  <2>5. x.arity = 1
    BY <2>3, <2>4
  <2> QED BY <2>4, <2>5 DEF l
<1>5. CASE decl = "NO"
  <2>1. Len(operators) \in 1..Len(operators) /\ Len(operators) = w + 1
    BY <1>2, <1>5
  <2>2. operators' = ops /\ UNCHANGED nodes /\ pc' = "terminator"
    BY <1>1, <1>5
  <2> HIDE DEF ops
  <2>3. Top(operators') = x
    BY <2>2
  <2>4. Top(operators').type = "EXP" /\ Top(operators').arity = 1
    <3>1. x.type = operators[Len(operators)].type
      BY <1>3, <1>4, <2>1
    <3> HIDE DEF x
    <3> QED BY <1>2, <1>4, <1>5, <2>1, <2>3, <3>1
  <2>5. Len(operators') = Len(operators)
    BY <1>3, <2>2
  <2> HIDE DEF x
  <2> QED BY <1>1, <1>2, <1>5, <2>2, <2>4, <2>5
<1>6. CASE decl # "NO"
  <2>1. /\ operators' = Counted(r2, 1) /\ pc' \in {AfterDeclaration(r2), "aborted"}
        /\ nodes' = nodes \o <<x, y>> /\ Filled(2)
    BY <1>1, <1>6 DEF AfterDeclaration
  <2>2. /\ Len(operators) = (w + 2) + 1 /\ Len(operators) >= 3 /\ w + 2 \in Nat /\ w + 1 \in Nat
        /\ \A n \in 1..(w + 2) : n \in 1..Len(operators) /\ n # Len(operators)
        /\ (w + 2) + 1 \in 1..Len(operators) /\ (w + 2) + 1 = w + 3
    BY <1>2, <1>6
  <2>3. /\ Len(ops) = (w + 2) + 1 /\ \A n \in 1..(w + 2) : ops[n] = operators[n]
        /\ ops[(w + 2) + 1].type = "EXP"
    <3> HIDE DEF ops
    <3> QED BY <1>2, <1>3, <1>6, <2>2
  <2>4. /\ OpsOK(r) /\ Len(r) = w + 2 /\ \A n \in 1..(w + 2) : r[n] = ops[n]
        /\ x = ops[(w + 2) + 1] /\ x \in Written
    <3> HIDE DEF ops
    <3> QED BY <1>3, <2>2, <2>3, OpsRestedExactly
  <2>5. /\ OpsOK(init) /\ Len(init) = (w + 1) + 1
        /\ \A n \in 1..(w + 1) : init[n] = r[n]
        /\ init[(w + 1) + 1].type = r[(w + 1) + 1].type
        /\ init[(w + 1) + 1].arity = r[(w + 1) + 1].arity + 1
    <3>1. Len(r) = (w + 1) + 1 /\ 1 \in Int
      BY <1>2, <2>4
    <3> HIDE DEF r
    <3> QED BY <2>2, <2>4, <3>1, OpsCountedTop, SMTT(30)
  <2>6. /\ OpsOK(r2) /\ Len(r2) = w + 1 /\ \A n \in 1..(w + 1) : r2[n] = init[n]
        /\ y = init[(w + 1) + 1] /\ y \in Written
    <3> HIDE DEF init
    <3> QED BY <2>2, <2>5, OpsRestedExactly
  <2>7. /\ Len(operators') = w + 1 /\ operators'[w + 1].type = r2[w + 1].type
    <3>1. 1 \in Int
      OBVIOUS
    <3> HIDE DEF r2
    <3> QED BY <1>2, <2>1, <2>6, <3>1, OpsCountedTop
  <2>8. Top(r2) = r2[w + 1]
    BY <2>6 DEF Top
  <2> HIDE DEF ops, r, init, r2, x, y
  <2>9. /\ \A n \in 1..(w + 1) : n \in 1..(w + 2)
        /\ w + 1 \in 1..(w + 1) /\ (w + 1) + 1 = w + 2 /\ w + 2 \in 1..(w + 2)
    BY <1>2
  <2>10. \A n \in 1..(w + 1) : r2[n] = operators[n]
    BY <2>3, <2>4, <2>5, <2>6, <2>9
  <2>11. Top(r2).type = "DECL_VAR" /\ operators'[w + 1].type = "DECL_VAR"
    BY <1>2, <1>6, <2>7, <2>8, <2>9, <2>10
  <2>12. pc' \in {"terminator", "aborted"}
    BY <2>1, <2>11 DEF AfterDeclaration
  <2>13. x.type = "EXP" /\ y.type = "INIT_VAR" /\ y.arity = 1
    <3>1. r[w + 2] = operators[w + 2]
      BY <2>3, <2>4, <2>9
    <3>2. y.arity = 0 + 1 /\ y.type = "INIT_VAR"
      BY <1>2, <1>6, <2>5, <2>6, <2>9, <3>1
    <3>3. x.type = "EXP"
      BY <2>3, <2>4, Zenon
    <3> QED BY <3>2, <3>3
  <2>14. x \in Sound /\ y \in Sound
    BY <1>4, <2>4, <2>6, <2>13 DEF Sound, Childless, Parents
  <2>15. Top(operators').type = "DECL_VAR" /\ Len(operators') = Len(operators) - 2
    BY <1>2, <2>2, <2>7, <2>11 DEF Top
  <2> QED BY <1>1, <2>1, <2>2, <2>12, <2>13, <2>14, <2>15
<1> QED BY <1>5, <1>6

(* The operator of an instruction that has ended, and what it is flushed for. *)
LEMMA FlushedPlain ==
    ASSUME BoundsInv, StackOK, ForestOK, ShapeOK, Terminating, At(i) # "SCOPE"
    PROVE  LET f == Len(Flushed)
           IN  /\ Flushed \in Seq(Plain) /\ f \in Nat /\ f = Len(operators) - Watermark
               /\ Len(Kept) = Watermark /\ OpsOK(Kept) /\ Watermark \in Nat
               /\ \A x \in 1..Watermark : Kept[x] = operators[x]
               /\ LastIsInit(nodes) => f > 0 /\ Flushed[1].type = "DECL_VAR"
<1> DEFINE f == Len(Flushed)
           op == operators[Watermark + 1]
<1>1. /\ Flushed \in Seq(Written) /\ f \in {0, 1} /\ f = Len(operators) - Watermark
      /\ Len(operators) = Watermark + f /\ Watermark \in Nat
      /\ Len(Kept) = Watermark /\ OpsOK(Kept)
      /\ \A x \in 1..Watermark : Kept[x] = operators[x]
  BY FlushedForest
<1>2. ASSUME f = 1 PROVE Flushed[1] = op /\ op \in Plain /\ Top(operators) = op /\ pc = "terminator"
  <2>1. Len(operators) = Watermark + 1 /\ Watermark + 1 \in 1..Len(operators)
    <3> HIDE DEF f
    <3> QED BY <1>1, <1>2
  <2>2. Flushed[1] = op
    <3>1. operators \in Seq(Operator) /\ contexts \in Seq(Frame) /\ contexts # <<>>
      BY Position DEF BoundsInv, OperatorsOK, OpsOK, ContextsOK
    <3>2. Watermark < Len(operators) /\ Len(operators) - Watermark = 1
          /\ Len(operators) - 1 + 1 = Watermark + 1
      BY <1>1, <2>1
    <3>3. \A x \in 1..1 : Flushed[x] = operators[Len(operators) - x + 1]
      <4>1. \A x \in 1..(IF Watermark < Len(operators) THEN Len(operators) - Watermark ELSE 0) :
               Flushed[x] = operators[Len(operators) - x + 1]
        BY <3>1, FlushedFacts DEF Watermark
      <4> QED BY <3>2, <4>1
    <3>4. 1 \in 1..1
      OBVIOUS
    <3>5. Flushed[1] = operators[Len(operators) - 1 + 1]
      BY <3>3, <3>4
    <3> QED BY <3>2, <3>5
  <2>3. Top(operators) = op
    BY <2>1 DEF Top
  <2>4. pc = "terminator"
    <3>1. pc = "instruction" => Len(operators) = Watermark
      BY DEF StackOK, OwnedOK, Initializing
    <3> QED BY <1>1, <2>1, <3>1 DEF Terminating, Reading
  <2>5. op.type \in Decls \cup {"EXP", "GRP_MOD"}
    BY <2>4 DEF StackOK, OwnedOK
  <2>6. op \in Operator /\ op.arity \in Int
    <3>1. op \in Operator
      BY <2>1, Kept1 DEF OpsOK
    <3> QED BY <3>1, ItemFields DEF Operator
  <2>7. op.arity >= 0 /\ (op.type \in Decls \cup {"EXP"} => op.arity > 0)
    <3>1. Weight(op) >= 0 /\ (op.type \in Decls => op.arity >= 1)
      BY <2>1 DEF ForestOK, WeightsOK
    <3>2. op.type = "EXP" => op.arity = 1
      BY <2>3, <2>4 DEF ShapeOK, EndedOK
    <3> HIDE DEF op
    <3>3. op.type = "GRP_MOD" => op.arity >= 0
      BY <3>1 DEF Weight
    <3>4. op.type \in Decls => op.arity > 0
      BY <2>6, <3>1
    <3> QED BY <2>5, <2>6, <3>2, <3>3, <3>4
  <2> HIDE DEF op, f
  <2>8. op \in Plain
    BY <2>5, <2>6, <2>7, PlainOperator DEF Joining, Decls
  <2> QED BY <2>2, <2>3, <2>4, <2>8
<1>3. Flushed \in Seq(Plain)
  <2>1. \A x \in 1..f : Flushed[x] \in Plain
    <3> SUFFICES ASSUME NEW x \in 1..f PROVE Flushed[x] \in Plain
      OBVIOUS
    <3>1. f = 1 /\ x = 1
      <4> HIDE DEF f
      <4> QED BY <1>1
    <3> QED BY <1>2, <3>1
  <2> QED BY <1>1, <2>1
<1>4. LastIsInit(nodes) => f > 0 /\ Flushed[1].type = "DECL_VAR"
  <2> SUFFICES ASSUME LastIsInit(nodes) PROVE f > 0 /\ Flushed[1].type = "DECL_VAR"
    OBVIOUS
  <2>1. pc = "terminator" /\ Top(operators).type = "DECL_VAR"
    BY DEF ShapeOK, LastOK
  <2>2. Len(operators) = Watermark + 1
    BY <2>1 DEF StackOK, OwnedOK
  <2>3. f = 1
    <3> HIDE DEF f
    <3>1. f \in {0, 1} /\ Watermark \in Nat
      BY <1>1
    <3>2. Watermark + f = Watermark + 1
      BY <1>1, <2>2, Zenon
    <3>3. \A w \in Nat : \A x \in {0, 1} : w + x = w + 1 => x = 1
      OBVIOUS
    <3> QED BY <3>1, <3>2, <3>3, ZenonT(40)
  <2> QED BY <1>2, <2>1, <2>3
<1>5. f \in Nat
  BY <1>1
<1> QED BY <1>1, <1>3, <1>4, <1>5

(* What a closed scope writes, with or without its declaration. *)
LEMMA BesideClosed ==
    ASSUME NEW ns, NEW f \in Nat, Len(ns) \in {f + 2, f + 4},
           \A k \in 1..f : ns[k].type \notin Joining \cup {"CALLEE", "LPAR"},
           ns[f + 1].type = "SCOPE_END", ns[f + 2].type = "SCOPE",
           Len(ns) = f + 4 => ns[f + 3].type \in Inits /\ ns[f + 4].type = DeclOf[ns[f + 3].type]
    PROVE  /\ Beside(ns) /\ ns[Len(ns)].type # "INIT_VAR"
           /\ \A k \in 1..Len(ns) : ns[k].type \notin {"CALLEE", "LPAR"}
<1>1. \A n \in 1..Len(ns) : \/ n \in 1..f \/ n = f + 1 \/ n = f + 2
                            \/ Len(ns) = f + 4 /\ (n = f + 3 \/ n = f + 4)
  OBVIOUS
<1>2. Len(ns) = f + 4 =>
         \/ ns[f + 3].type = "INIT_LAB" /\ ns[f + 4].type = "DECL_LAB"
         \/ ns[f + 3].type = "INIT_PAL" /\ ns[f + 4].type = "DECL_PAL"
  BY DEF Inits, DeclOf
<1>3. /\ f + 1 < Len(ns) /\ (f + 1) + 1 = f + 2 /\ f + 2 > 1 /\ (f + 2) - 1 = f + 1
      /\ f + 3 > 1 /\ (f + 3) - 1 = f + 2 /\ (f + 3) + 1 = f + 4
      /\ Len(ns) = f + 4 => f + 3 < Len(ns)
  OBVIOUS
<1>4. Beside(ns)
  <2> SUFFICES ASSUME NEW n \in 1..Len(ns)
               PROVE  /\ ns[n].type = "SCOPE_END" => n < Len(ns) /\ ns[n + 1].type = "SCOPE"
                      /\ ns[n].type = "SCOPE" => n > 1 /\ ns[n - 1].type = "SCOPE_END"
                      /\ ns[n].type = "INIT_LAB" =>
                            /\ n > 1 /\ ns[n - 1].type = "SCOPE"
                            /\ n < Len(ns) /\ ns[n + 1].type = "DECL_LAB"
                      /\ ns[n].type = "INIT_PAL" =>
                            /\ n > 1 /\ ns[n - 1].type = "SCOPE"
                            /\ n < Len(ns) /\ ns[n + 1].type = "DECL_PAL"
                      /\ ns[n].type # "INIT_VAR"
    BY DEF Beside
  <2>1. CASE n \in 1..f
    BY <2>1 DEF Joining
  <2>2. CASE n = f + 1
    BY <1>3, <2>2
  <2>3. CASE n = f + 2
    BY <1>3, <2>3
  <2>4. CASE Len(ns) = f + 4 /\ n = f + 3
    BY <1>2, <1>3, <2>4
  <2>5. CASE Len(ns) = f + 4 /\ n = f + 4
    BY <1>2, <2>5
  <2> QED BY <1>1, <2>1, <2>2, <2>3, <2>4, <2>5
<1>5. \A k \in 1..Len(ns) : ns[k].type \notin {"CALLEE", "LPAR"}
  BY <1>1, <1>2
<1>6. ns[Len(ns)].type # "INIT_VAR"
  BY <1>2
<1> QED BY <1>4, <1>5, <1>6

LEMMA ListOf ==
    ASSUME NEW S, NEW T, NEW s \in Seq(S), \A k \in 1..Len(s) : s[k] \in T
    PROVE  s \in Seq(T)
OBVIOUS

(* ns is written for a scope that is closed. *)
ScopeEnded(ns) ==
    /\ ns \in Seq(Sound) /\ nodes' = nodes \o ns /\ Len(ns) > 0 /\ Beside(ns)
    /\ LastIsInit(nodes) => ns[1].type = "DECL_VAR"
    /\ ns[Len(ns)].type # "INIT_VAR"
    /\ \A k \in 1..Len(ns) : ns[k].type \notin {"CALLEE", "LPAR"}
    /\ Len(ns) + Len(operators') = Len(operators) + 2

LEMMA ClosingNodes ==
    ASSUME BoundsInv, StackOK, ForestOK, ShapeOK, Terminating, At(i) # "SCOPE",
           NEW ns \in Seq(Written), nodes' = nodes \o ns,
           Len(ns) \in {Len(Flushed) + 2, Len(Flushed) + 4},
           \A k \in 1..(Len(Flushed) + 2) : ns[k] = ScopeNodes[k],
           Len(ns) = Len(Flushed) + 4 =>
              /\ ns[Len(Flushed) + 3].type \in Inits /\ ns[Len(Flushed) + 3].arity > 0
              /\ ns[Len(Flushed) + 4].type = DeclOf[ns[Len(Flushed) + 3].type]
              /\ ns[Len(Flushed) + 4].arity > 0,
           Len(operators') = Watermark - (Len(ns) - (Len(Flushed) + 2))
    PROVE  ScopeEnded(ns)
<1> DEFINE f == Len(Flushed)
           scope == Top(contexts)
<1>1. /\ Flushed \in Seq(Plain) /\ f \in Nat /\ f = Len(operators) - Watermark
      /\ Watermark \in Nat
      /\ LastIsInit(nodes) => f > 0 /\ Flushed[1].type = "DECL_VAR"
  BY FlushedPlain
<1>2. /\ \A n \in 1..f : ScopeNodes[n] = Flushed[n]
      /\ ScopeNodes[f + 1] = Leaf("SCOPE_END", scope.token)
      /\ ScopeNodes[f + 2] = Node("SCOPE", scope.children + f + 1, scope.token)
  BY ScopeNodesFacts
<1>3. /\ ScopeNodes[f + 1].type = "SCOPE_END" /\ ScopeNodes[f + 1].arity = 0
      /\ ScopeNodes[f + 2].type = "SCOPE" /\ ScopeNodes[f + 2].arity > 0
  <2>1. scope.token \in Nat /\ scope.children + f + 1 \in Int /\ scope.children + f + 1 > 0
    BY <1>1, StackTypes, SMTT(30)
  <2> HIDE DEF scope, f
  <2> QED BY <1>2, <2>1 DEF Leaf, Node
<1>4. \A n \in 1..f : Flushed[n] \in Plain
  BY <1>1
<1> HIDE DEF f
<1>5. /\ \A k \in 1..f : ns[k] \in Plain /\ ns[k] = Flushed[k]
      /\ ns[f + 1].type = "SCOPE_END" /\ ns[f + 1].arity = 0
      /\ ns[f + 2].type = "SCOPE" /\ ns[f + 2].arity > 0
  <2>1. /\ \A k \in 1..(f + 2) : ns[k] = ScopeNodes[k]
        /\ \A k \in 1..f : k \in 1..(f + 2)
        /\ f + 1 \in 1..(f + 2) /\ f + 2 \in 1..(f + 2)
    <3>1. \A k \in 1..(f + 2) : ns[k] = ScopeNodes[k]
      BY DEF f
    <3>2. f \in Nat
      BY <1>1
    <3>3. \A x \in Nat : /\ \A k \in 1..x : k \in 1..(x + 2)
                        /\ x + 1 \in 1..(x + 2) /\ x + 2 \in 1..(x + 2)
      OBVIOUS
    <3> QED BY <3>1, <3>2, <3>3
  <2> QED BY <1>2, <1>3, <1>4, <2>1
<1>6. /\ Len(ns) \in {f + 2, f + 4}
      /\ Len(ns) = f + 4 => /\ ns[f + 3].type \in Inits /\ ns[f + 3].arity > 0
                            /\ ns[f + 4].type = DeclOf[ns[f + 3].type] /\ ns[f + 4].arity > 0
      /\ Len(operators') = Watermark - (Len(ns) - (f + 2))
  BY DEF f
<1>7. /\ Beside(ns) /\ ns[Len(ns)].type # "INIT_VAR"
      /\ \A k \in 1..Len(ns) : ns[k].type \notin {"CALLEE", "LPAR"}
  <2>1. \A k \in 1..f : ns[k].type \notin Joining \cup {"CALLEE", "LPAR"}
    BY <1>5 DEF Plain
  <2> QED BY <1>1, <1>5, <1>6, <2>1, BesideClosed
<1>8. ns \in Seq(Sound)
  <2>1. \A k \in 1..Len(ns) : ns[k] \in Sound
    <3> SUFFICES ASSUME NEW k \in 1..Len(ns) PROVE ns[k] \in Sound
      OBVIOUS
    <3>1. ns[k] \in Written /\ ns[k].arity \in Int
      <4>1. ns[k] \in Written
        OBVIOUS
      <4> QED BY <4>1, ItemFields DEF Written
    <3>2. \/ k \in 1..f \/ k = f + 1 \/ k = f + 2
          \/ Len(ns) = f + 4 /\ (k = f + 3 \/ k = f + 4)
      <4>1. f \in Nat /\ Len(ns) \in {f + 2, f + 4} /\ k \in 1..Len(ns)
        BY <1>1, <1>6
      <4>2. \A a \in Nat, b \in Int, c \in Int : (b = a + 2 \/ b = a + 4) /\ 1 <= c /\ c <= b =>
               \/ c \in 1..a \/ c = a + 1 \/ c = a + 2
               \/ b = a + 4 /\ (c = a + 3 \/ c = a + 4)
        OBVIOUS
      <4>3. (Len(ns) = f + 2 \/ Len(ns) = f + 4) /\ Len(ns) \in Int /\ k \in Int /\ 1 <= k /\ k <= Len(ns)
        BY <4>1
      <4> QED BY <4>1, <4>2, <4>3
    <3>3. CASE k \in 1..f
      BY <1>5, <3>3, SoundPlain
    <3>4. CASE k = f + 1
      <4>1. ns[k].type = "SCOPE_END" /\ ns[k].arity = 0
        BY <1>5, <3>4
      <4> QED BY <3>1, <4>1 DEF Sound, Childless, Parents
    <3>5. CASE k = f + 2
      <4>1. ns[k].type = "SCOPE" /\ ns[k].arity > 0
        BY <1>5, <3>5
      <4> QED BY <3>1, <4>1 DEF Sound, Childless, Parents
    <3>6. CASE Len(ns) = f + 4 /\ k = f + 3
      <4>1. ns[k].type \in Inits /\ ns[k].arity > 0
        BY <1>6, <3>6
      <4> QED BY <3>1, <4>1 DEF Sound, Childless, Parents, Inits
    <3>7. CASE Len(ns) = f + 4 /\ k = f + 4
      <4>1. ns[k].type \in {"DECL_LAB", "DECL_PAL"} /\ ns[k].arity > 0
        BY <1>6, <3>7 DEF Inits, DeclOf
      <4> QED BY <3>1, <4>1 DEF Sound, Childless, Parents
    <3> QED BY <3>2, <3>3, <3>4, <3>5, <3>6, <3>7
  <2> QED BY <2>1, ListOf
<1>9. LastIsInit(nodes) => ns[1].type = "DECL_VAR"
  <2> SUFFICES ASSUME LastIsInit(nodes) PROVE ns[1].type = "DECL_VAR"
    OBVIOUS
  <2>1. f > 0 /\ f \in Nat /\ Flushed[1].type = "DECL_VAR"
    BY <1>1
  <2>2. 1 \in 1..f
    BY <2>1
  <2>3. ns[1] = Flushed[1]
    BY <1>5, <2>2
  <2> QED BY <2>1, <2>3
<1>10. Len(ns) > 0 /\ Len(ns) + Len(operators') = Len(operators) + 2
  <2>1. Len(operators) \in Nat /\ Len(ns) \in Nat
    BY Position DEF BoundsInv, OperatorsOK, OpsOK
  <2> QED BY <1>1, <1>6, <2>1
<1> QED BY <1>7, <1>8, <1>9, <1>10 DEF ScopeEnded

LEMMA ScopeIsEnded ==
    ASSUME BoundsInv, StackOK, ForestOK, ShapeOK, CloseScope
    PROVE  /\ \E ns : ScopeEnded(ns)
           /\ pc \in {"instruction", "terminator"} /\ At(i) = "PERIOD" /\ i' = i + 1
           /\ Len(contexts') = Len(contexts) - 1
           /\ pc' \in {"instruction", "aborted"}
           /\ pc' = "aborted" => ~(Len(nodes') < length)
           /\ buffer = <<>> /\ UNCHANGED <<tokens, length, buffer, decl>>
<1>1. PICK l : \/ /\ Closes(ScopeNodes, Counted(Kept, 1), l)
                  /\ Watermark = contexts[l].watermark
               \/ \E ns, ops, y, z, f : Declares(ns, ops, l, y, z, f)
  BY ScopeCloses
<1> DEFINE f == Len(Flushed)
           w == Watermark
<1>2. /\ At(i) = "PERIOD" /\ i' = i + 1 /\ UNCHANGED <<tokens, length, buffer, decl>>
      /\ Terminating /\ At(i) # "SCOPE" /\ pc \in {"instruction", "terminator"}
      /\ buffer = <<>>
  BY DEF CloseScope, Terminating, Reading, input, BoundsInv, PhaseOK
<1>3. /\ f \in {0, 1} /\ Len(operators) = w + f /\ w \in Nat /\ Len(Kept) = w /\ OpsOK(Kept)
      /\ \A x \in 1..w : Kept[x] = operators[x]
  BY <1>2, FlushedForest
<1>4. ASSUME NEW ns, NEW ops, Closes(ns, ops, l), ScopeEnded(ns)
      PROVE  /\ Len(contexts') = Len(contexts) - 1
             /\ pc' \in {"instruction", "aborted"}
             /\ pc' = "aborted" => ~(Len(nodes') < length)
  <2>1. /\ l \in Nat /\ l >= 1 /\ Len(contexts) = l + 1 /\ contexts' = Child(Rest(contexts), 1)
        /\ ns \in Seq(Written) /\ nodes' = nodes \o ns
        /\ pc' \in {"instruction", "aborted"}
        /\ pc' = "aborted" => ~(Len(nodes) + Len(ns) < length)
    BY <1>4 DEF Closes
  <2>2. Len(contexts') = Len(contexts) - 1
    <3>1. Len(contexts) > 1
      BY <2>1
    <3> QED BY <2>1, <3>1, ContextsRested
  <2>3. Len(nodes') = Len(nodes) + Len(ns)
    <3>1. nodes \in Seq(Written)
      BY DEF BoundsInv, NodesOK
    <3>2. Len(nodes \o ns) = Len(nodes) + Len(ns)
      BY <2>1, <3>1, Concatenated
    <3> QED BY <2>1, <3>2
  <2> QED BY <2>1, <2>2, <2>3
<1>5. CASE Closes(ScopeNodes, Counted(Kept, 1), l)
  <2>1. ScopeNodes \in Seq(Written) /\ Len(ScopeNodes) = f + 2 /\ nodes' = nodes \o ScopeNodes
        /\ operators' = Counted(Kept, 1)
    BY <1>5, ScopeNodesFacts DEF Closes
  <2>2. Len(operators') = w
    <3> HIDE DEF w
    <3> QED BY <1>3, <2>1, OpsCountedAny
  <2>3. Len(ScopeNodes) # f + 4 /\ w = w - (Len(ScopeNodes) - (f + 2))
    <3> HIDE DEF w, f
    <3> QED BY <1>3, <2>1
  <2>4. ScopeEnded(ScopeNodes)
    BY <1>2, <2>1, <2>2, <2>3, ClosingNodes
  <2> QED BY <1>2, <1>4, <1>5, <2>4
<1>6. ASSUME NEW ns, NEW ops, NEW y, NEW z, NEW g, Declares(ns, ops, l, y, z, g)
      PROVE  ScopeEnded(ns) /\ Closes(ns, ops, l)
  <2>1. /\ Closes(ns, ops, l) /\ ns \in Seq(Written) /\ nodes' = nodes \o ns /\ operators' = ops
        /\ w = contexts[l].watermark + 2 /\ operators[w - 1].type \in Decls
        /\ y.type \in Inits /\ y.arity = 1
        /\ z.arity = operators[w - 1].arity + 1 /\ z.type = DeclOf[y.type]
        /\ Len(ns) = f + 4 /\ ns[f + 3] = y /\ ns[f + 4] = z
        /\ \A k \in 1..(f + 2) : ns[k] = ScopeNodes[k]
        /\ Len(operators') = contexts[l].watermark
    BY <1>6 DEF Declares, Closes
  <2>2. contexts[l].watermark \in Nat
    <3>1. l \in 1..Len(contexts)
      <4>1. l \in Nat /\ l >= 1 /\ Len(contexts) = l + 1
        BY <2>1 DEF Closes
      <4> QED BY <4>1
    <3> QED BY <3>1, StackTypes
  <2>3. w - 1 \in 1..Len(operators)
    <3>1. \A a \in Nat, b \in Int, c \in Int, d \in Int :
             b = a + 2 /\ c >= 0 /\ d = b + c => b - 1 \in 1..d
      OBVIOUS
    <3>2. f \in Int /\ f >= 0 /\ w \in Int /\ Len(operators) \in Int
      BY <1>3
    <3> HIDE DEF w, f
    <3> QED BY <1>3, <2>1, <2>2, <3>1, <3>2
  <2>4. z.arity > 0
    <3>1. operators[w - 1].arity >= 1
      <4> HIDE DEF w
      <4> QED BY <2>1, <2>3 DEF ForestOK, WeightsOK
    <3>2. operators[w - 1].arity \in Int
      <4>1. operators[w - 1] \in Operator
        <5>1. operators \in Seq(Operator)
          BY DEF BoundsInv, OperatorsOK, OpsOK
        <5> HIDE DEF w
        <5> QED BY <2>3, <5>1
      <4> HIDE DEF w
      <4> QED BY <4>1, ItemFields DEF Operator
    <3> HIDE DEF w
    <3> QED BY <2>1, <3>1, <3>2
  <2>5. Len(operators') = w - (Len(ns) - (f + 2))
    <3> HIDE DEF w, f
    <3> QED BY <1>3, <2>1, <2>2, SMTT(30)
  <2>6. y.arity > 0
    BY <2>1
  <2>7. ScopeEnded(ns)
    <3>1. /\ ns[f + 3].type \in Inits /\ ns[f + 3].arity > 0
          /\ ns[f + 4].type = DeclOf[ns[f + 3].type] /\ ns[f + 4].arity > 0
      BY <2>1, <2>4, <2>6
    <3> QED BY <1>2, <2>1, <2>5, <3>1, ClosingNodes
  <2> QED BY <2>1, <2>7
<1> QED BY <1>1, <1>2, <1>4, <1>5, <1>6

-----------------------------------------------------------------------------
(* Room after the handlers outside an expression                             *)

(* n nodes are written, and what aborts has filled the array.                *)
Wrote(n) ==
    /\ n \in Int /\ Len(nodes') = Len(nodes) + n /\ Excess(nodes') = Excess(nodes)
    /\ pc' = "aborted" => ~(Len(nodes') < length)

(* What RoomStep asks of a handler. *)
Makes(n, o, c, w, a) ==
    /\ Wrote(n) /\ buffer = <<>> /\ UNCHANGED buffer
    /\ o \in Int /\ Len(operators') = Len(operators) + o
    /\ c \in Int /\ Len(contexts') = Len(contexts) + c
    /\ w \in Int /\ Spent' >= Spent + w
    /\ a \in Int /\ n + o + 2 * c <= w + a - Allowed
    /\ a <= Len(operators') /\ (pc' \notin Failed => a <= Allowed')

Housed == Roomed' /\ (pc' = "aborted" => ~(Len(nodes') < length))

LEMMA RoomMakes ==
    ASSUME BoundsInv, BoundsInv', RoomOK, NEW n, NEW o, NEW c, NEW w, NEW a, Makes(n, o, c, w, a)
    PROVE  Housed
<1>1. /\ Excess(nodes') = Excess(nodes) /\ n \in Int /\ Len(nodes') = Len(nodes) + n
      /\ pc' = "aborted" => ~(Len(nodes') < length)
  BY DEF Makes, Wrote
<1>2. /\ buffer = <<>> /\ buffer' = <<>>
      /\ o \in Int /\ Len(operators') = Len(operators) + o
      /\ c \in Int /\ Len(contexts') = Len(contexts) + c
      /\ w \in Int /\ Spent' >= Spent + w
      /\ a \in Int /\ n + o + 2 * c <= w + a - Allowed
      /\ a <= Len(operators') /\ (pc' \notin Failed => a <= Allowed')
  BY DEF Makes
<1>3. Roomed'
  BY <1>1, <1>2, RoomStep
<1> QED BY <1>1, <1>3 DEF Housed

LEMMA AddsWrote == ASSUME BoundsInv, NEW n, Adds(n) PROVE Wrote(n)
BY AddsGives DEF Wrote

LEMMA WidthFacts ==
    /\ \A k \in Kinds : Width[k] >= 1 /\ Width[k] \in Int
    /\ Width["SCOPE"] = 5 /\ Width["MOD"] = 4 /\ Width["Q"] = 2 /\ Width["ID"] = 2
BY DEF Width, Kinds

PlaceIsInteger == i \in Int
LEMMA NextPlace == BoundsInv' => i' \in Int
<1>1. BoundsInv => PlaceIsInteger
  BY Position DEF PlaceIsInteger
<1>2. BoundsInv' => PlaceIsInteger'
  BY <1>1, PTL
<1> QED BY <1>2 DEF PlaceIsInteger

(* What the tokens read take in the source. *)
LEMMA ReadsWidth ==
    ASSUME BoundsInv, BoundsInv', tokens' = tokens, At(i) # "NO", i' > i,
           NEW k \in Int, k <= Width[At(i)]
    PROVE  Spent' >= Spent + (k + (i' - i - 1))
<1>1. /\ Spent' >= Spent + Width[At(i)] + (i' - i - 1)
      /\ Width[At(i)] \in Int /\ Spent \in Int /\ Spent' \in Int
  BY Reads
<1>2. i \in Int /\ i' \in Int
  BY Position, NextPlace
<1>3. \A x \in Int, y \in Int, v \in Int, p \in Int, q \in Int :
         x >= y + v + (p - q - 1) /\ k <= v => x >= y + (k + (p - q - 1))
  OBVIOUS
<1> DEFINE x == Spent'
           y == Spent
           v == Width[At(i)]
<1>4. x \in Int /\ y \in Int /\ v \in Int /\ x >= y + v + (i' - i - 1) /\ k <= v
  BY <1>1
<1> HIDE DEF x, y, v
<1>5. x >= y + (k + (i' - i - 1))
  BY <1>2, <1>3, <1>4
<1> QED BY <1>5 DEF x, y

(* A token at least is read. *)
LEMMA ReadsOne ==
    ASSUME BoundsInv, BoundsInv', tokens' = tokens, At(i) # "NO", i' > i
    PROVE  Spent' >= Spent + 1
<1>1. tokens \in Seq(Token) /\ i \in Int /\ i' \in Int
  BY Position, NextPlace DEF BoundsInv, InputOK
<1>2. 1 <= Width[At(i)]
  <2>1. At(i) \in Kinds
    BY <1>1, AtFacts
  <2> QED BY <2>1, WidthFacts
<1>3. Spent' >= Spent + (1 + (i' - i - 1))
  BY <1>2, ReadsWidth
<1>4. Spent \in Int /\ Spent' \in Int
  BY SpentType, NextSpentType DEF SpentOK
<1>5. \A x \in Int, y \in Int, p \in Int, q \in Int :
         x >= y + (1 + (p - q - 1)) /\ p > q => x >= y + 1
  OBVIOUS
<1> DEFINE x == Spent'
           y == Spent
<1>6. x \in Int /\ y \in Int /\ x >= y + (1 + (i' - i - 1))
  BY <1>3, <1>4
<1> HIDE DEF x, y
<1>7. x >= y + 1
  BY <1>1, <1>5, <1>6
<1> QED BY <1>7 DEF x, y

(* The command and its name. *)
LEMMA ReadsTwo ==
    ASSUME BoundsInv, BoundsInv', tokens' = tokens, At(i) = "COM", At(i + 1) = "ID", i' = i + 2
    PROVE  Spent' >= Spent + 3
<1>1. tokens \in Seq(Token) /\ Len(tokens) \in Nat /\ i \in Nat /\ i >= 1
  BY Position DEF BoundsInv, InputOK
<1>2. i + 1 \in 1..Len(tokens) /\ i \in 1..Len(tokens)
      /\ tokens[i].kind = "COM" /\ tokens[i + 1].kind = "ID"
  BY <1>1 DEF At
<1>3. /\ Taken(tokens, i) >= Width["COM"] /\ Taken(tokens, i + 1) >= Width["ID"]
      /\ Taken(tokens, i) \in Int /\ Taken(tokens, i + 1) \in Int
  <2>1. /\ Taken(tokens, i) \in Int /\ Taken(tokens, i) >= Width[tokens[i].kind]
        /\ Taken(tokens, i + 1) \in Int /\ Taken(tokens, i + 1) >= Width[tokens[i + 1].kind]
    BY <1>1, <1>2, TakenType
  <2> QED BY <1>2, <2>1
<1> DEFINE x == Characters(tokens)[i - 1]
           y == Characters(tokens)[i]
           z == Characters(tokens)[i + 1]
<1>4. y = x + Taken(tokens, i) /\ z = y + Taken(tokens, i + 1)
  <2>1. (i + 1) - 1 = i
    BY <1>1
  <2>2. Characters(tokens)[i + 1] = Characters(tokens)[(i + 1) - 1] + Taken(tokens, i + 1)
    BY <1>1, <1>2, CharactersFacts
  <2>3. Characters(tokens)[i] = Characters(tokens)[i - 1] + Taken(tokens, i)
    BY <1>1, <1>2, CharactersFacts
  <2> QED BY <2>1, <2>2, <2>3
<1>5. x \in Int
  BY SpentType DEF SpentOK, Spent
<1>6. Spent = x /\ Spent' = z
  <2>1. i' - 1 = i + 1
    BY <1>1
  <2> QED BY <2>1 DEF Spent
<1>7. Width["COM"] \in Int /\ Width["COM"] >= 1 /\ Width["ID"] = 2
  BY WidthFacts DEF Kinds
<1> HIDE DEF x, y, z
<1> QED BY <1>3, <1>4, <1>5, <1>6, <1>7

(* How many more contexts there are. *)
LEMMA ChildKept ==
    ASSUME BoundsInv, NEW n \in Nat, contexts' = Child(contexts, n)
    PROVE  Len(contexts') = Len(contexts) + 0
<1>1. contexts \in Seq(Frame) /\ contexts # <<>> /\ Len(contexts) \in Nat
  BY Position DEF BoundsInv, ContextsOK
<1>2. Len(Child(contexts, n)) = Len(contexts)
  BY <1>1, ChildFacts
<1> QED BY <1>1, <1>2

LEMMA RoomGroupQualifiers ==
    ASSUME BoundsInv, BoundsInv', RoomOK, buffer = <<>>, GroupQualifiers, ~dropped'
    PROVE  Housed
<1> DEFINE n == i' - i + 1
           w == 2 + (i' - i - 1)
<1>1. /\ Adds(n) /\ Len(operators') = Len(operators) /\ i' > i /\ i' \in Int
      /\ pc = "instruction" /\ pc' \in {"instruction", "aborted"} /\ At(i) = "Q"
      /\ contexts' = Child(contexts, 1) /\ tokens' = tokens /\ UNCHANGED buffer
  BY AddsGroupQualifiers
<1>2. Len(contexts') = Len(contexts) + 0
  BY <1>1, ChildKept
<1>3. Spent' >= Spent + w
  BY <1>1, ReadsWidth, WidthFacts
<1>4. i \in Int /\ Len(operators) \in Nat /\ Len(operators') = Len(operators) + 0
  BY <1>1, Position
<1>5. w \in Int /\ n \in Int /\ n = w
  BY <1>1, <1>4
<1>6. Allowed = 0 /\ (pc' \notin Failed => 0 <= Allowed')
  BY <1>1 DEF Allowed, Failed
<1>7. Wrote(n)
  BY <1>1, AddsWrote
<1> HIDE DEF n, w
<1>8. n + 0 + 2 * 0 <= w + 0 - Allowed
  BY <1>5, <1>6
<1>9. Makes(n, 0, 0, w, 0)
  BY <1>1, <1>2, <1>3, <1>4, <1>5, <1>6, <1>7, <1>8 DEF Makes
<1> QED BY <1>9, RoomMakes

LEMMA RoomOpenScope ==
    ASSUME BoundsInv, BoundsInv', RoomOK, buffer = <<>>, OpenScope, ~dropped'
    PROVE  Housed
<1>1. /\ UNCHANGED <<tokens, nodes, operators, buffer, pc>> /\ pc = "instruction" /\ At(i) = "SCOPE"
      /\ i' = i + 1
  BY DEF OpenScope, Reading, input
<1>2. Adds(0) /\ Len(operators') = Len(operators) + 0 /\ 0 <= Len(operators') /\ i \in Nat
  BY <1>1, AddsNothing, Position
<1>3. Len(contexts') = Len(contexts) + 1
  BY ContextsPushed
<1>4. Spent' >= Spent + 5
  <2>1. i' > i /\ 5 + (i' - i - 1) = 5
    BY <1>1, <1>2
  <2>2. Spent' >= Spent + (5 + (i' - i - 1))
    BY <1>1, <2>1, ReadsWidth, WidthFacts
  <2> QED BY <2>1, <2>2, Zenon
<1>5. Allowed = 3 /\ (pc' \notin Failed => 0 <= Allowed')
  BY <1>1 DEF Allowed
<1>6. 0 + 0 + 2 * 1 <= 5 + 0 - Allowed
  BY <1>5
<1>7. Makes(0, 0, 1, 5, 0)
  BY <1>1, <1>2, <1>3, <1>4, <1>5, <1>6, AddsWrote DEF Makes
<1> QED BY <1>7, RoomMakes

LEMMA RoomStartExpression ==
    ASSUME BoundsInv, BoundsInv', RoomOK, buffer = <<>>, StartExpression, ~dropped'
    PROVE  Housed
<1>1. /\ UNCHANGED <<tokens, i, nodes, contexts, buffer>> /\ pc = "instruction" /\ At(i) # "SCOPE"
      /\ pc' = "expression" /\ ~Full(operators)
      /\ operators' = Pushed(operators, Node("EXP", 0, i))
  BY DEF StartExpression, StartsExpression, Reading, input
<1>2. Adds(0) /\ Len(contexts') = Len(contexts) + 0 /\ i \in Nat
  BY <1>1, AddsNothing, Position
<1>3. Len(operators') = Len(operators) + 1 /\ Len(operators) \in Nat
  <2>1. "EXP" \in OperatorTypes /\ OpsOK(operators)
    BY Kept1 DEF OperatorTypes
  <2> QED BY <1>1, <1>2, <2>1, OpsPushed
<1>4. Spent' >= Spent + 0
  BY <1>1, ReadsNothing
<1>5. Allowed = 0 /\ (pc' \notin Failed => 1 <= Allowed') /\ 1 <= Len(operators')
  BY <1>1, <1>3 DEF Allowed
<1>6. 0 + 1 + 2 * 0 <= 0 + 1 - Allowed
  BY <1>5
<1>7. Makes(0, 1, 0, 0, 1)
  BY <1>1, <1>2, <1>3, <1>4, <1>5, <1>6, AddsWrote DEF Makes
<1> QED BY <1>7, RoomMakes

LEMMA RoomImportModules ==
    ASSUME BoundsInv, BoundsInv', RoomOK, buffer = <<>>, ImportModules, ~dropped'
    PROVE  Housed
<1> DEFINE n == i' - i - 1
           w == 4 + (i' - i - 1)
<1>1. /\ Adds(n) /\ Len(operators') = Len(operators) + 1 /\ i' > i /\ i' \in Int
      /\ pc = "instruction" /\ pc' \in {"terminator", "aborted"} /\ At(i) = "MOD"
      /\ UNCHANGED <<tokens, buffer, contexts>>
  BY AddsImportModules
<1>2. Len(contexts') = Len(contexts) + 0 /\ i \in Int /\ Len(operators) \in Nat
  BY <1>1, Position
<1>3. Spent' >= Spent + w
  BY <1>1, ReadsWidth, WidthFacts
<1>4. Allowed = 0 /\ (pc' \notin Failed => 1 <= Allowed') /\ 1 <= Len(operators')
  BY <1>1, <1>2 DEF Allowed, Failed
<1>5. w \in Int /\ n \in Int /\ w = 4 + n
  BY <1>1, <1>2
<1>6. Wrote(n)
  BY <1>1, AddsWrote
<1> HIDE DEF n, w
<1>7. n + 1 + 2 * 0 <= w + 1 - Allowed
  BY <1>4, <1>5
<1>8. Makes(n, 1, 0, w, 1)
  BY <1>1, <1>2, <1>3, <1>4, <1>5, <1>6, <1>7 DEF Makes
<1> QED BY <1>8, RoomMakes

LEMMA RoomDeclare ==
    ASSUME BoundsInv, BoundsInv', RoomOK, buffer = <<>>, Declare, ~dropped'
    PROVE  Housed
<1>1. /\ Adds(1) /\ Len(operators') = Len(operators) + 1 /\ i' = i + 2
      /\ pc = "instruction" /\ pc' \in {"type", "aborted"} /\ At(i) = "COM" /\ At(i + 1) = "ID"
      /\ UNCHANGED <<tokens, buffer, contexts>>
  BY AddsDeclare
<1>2. Len(contexts') = Len(contexts) + 0 /\ Len(operators) \in Nat
  BY <1>1, Position
<1>3. Spent' >= Spent + 3
  BY <1>1, ReadsTwo
<1>4. Allowed = 0 /\ (pc' \notin Failed => -1 <= Allowed') /\ -1 <= Len(operators')
  BY <1>1, <1>2 DEF Allowed, Failed
<1>5. 1 + 1 + 2 * 0 <= 3 + (-1) - Allowed
  BY <1>4
<1>6. Makes(1, 1, 0, 3, -1)
  BY <1>1, <1>2, <1>3, <1>4, <1>5, AddsWrote DEF Makes
<1> QED BY <1>6, RoomMakes

LEMMA RoomTypeVar ==
    ASSUME BoundsInv, BoundsInv', RoomOK, buffer = <<>>, TypeVar
    PROVE  Housed
<1>1. /\ Adds(1) /\ Len(operators') = Len(operators) /\ i' = i + 1 /\ At(i) # "NO"
      /\ pc = "type" /\ pc' \in {"typed", "aborted"}
      /\ UNCHANGED <<tokens, buffer, contexts>>
  BY AddsTypeVar
<1>2. /\ Len(contexts') = Len(contexts) + 0 /\ Len(operators') = Len(operators) + 0
      /\ -1 <= Len(operators') /\ i' > i
  BY <1>1, Position
<1>3. Spent' >= Spent + 1
  BY <1>1, <1>2, ReadsOne
<1>4. Allowed = -1 /\ (pc' \notin Failed => -1 <= Allowed')
  BY <1>1 DEF Allowed, Failed
<1>5. 1 + 0 + 2 * 0 <= 1 + (-1) - Allowed
  BY <1>4
<1>6. Makes(1, 0, 0, 1, -1)
  BY <1>1, <1>2, <1>3, <1>4, <1>5, AddsWrote DEF Makes
<1> QED BY <1>6, RoomMakes

LEMMA RoomEndType ==
    ASSUME BoundsInv, BoundsInv', RoomOK, buffer = <<>>, EndType
    PROVE  Housed
<1>1. /\ pc \in {"type", "typed"} /\ pc' = "init"
      /\ UNCHANGED <<tokens, i, nodes, contexts, operators, buffer, decl>>
  BY DEF EndType, input
<1>2. /\ Len(contexts') = Len(contexts) + 0 /\ Len(operators') = Len(operators) + 0
      /\ -1 <= Len(operators') /\ Adds(0)
  <2>1. Adds(0)
    BY <1>1, AddsNothing
  <2> QED BY <1>1, <2>1, Position
<1>3. Spent' >= Spent + 0
  BY <1>1, ReadsNothing
<1>4. Allowed = -1 /\ (pc' \notin Failed => -1 <= Allowed')
  BY <1>1 DEF Allowed
<1>5. 0 + 0 + 2 * 0 <= 0 + (-1) - Allowed
  BY <1>4
<1>6. Makes(0, 0, 0, 0, -1)
  BY <1>1, <1>2, <1>3, <1>4, <1>5, AddsWrote DEF Makes
<1> QED BY <1>6, RoomMakes

LEMMA RoomOpenParameters ==
    ASSUME BoundsInv, BoundsInv', RoomOK, buffer = <<>>, OpenParameters, ~dropped'
    PROVE  Housed
<1>1. /\ Len(operators') = Len(operators) + 1 /\ i' = i + 1 /\ At(i) = "TLPAR"
      /\ \/ (Adds(0) \/ Adds(1)) /\ pc' \in {"parameter", "aborted"}
         \/ (Adds(1) \/ Adds(2)) /\ pc' \in {"close", "aborted"}
      /\ pc \in {"type", "typed"}
      /\ UNCHANGED <<tokens, buffer, contexts>>
  BY AddsOpenParameters
<1>2. /\ Len(contexts') = Len(contexts) + 0 /\ i' > i
      /\ 0 <= Len(operators') /\ 1 <= Len(operators')
  BY <1>1, Position
<1>3. Spent' >= Spent + 1
  BY <1>1, <1>2, ReadsOne
<1>4. Allowed = -1
  BY <1>1 DEF Allowed
<1>5. /\ 0 + 1 + 2 * 0 <= 1 + 0 - Allowed /\ 1 + 1 + 2 * 0 <= 1 + 0 - Allowed
      /\ 1 + 1 + 2 * 0 <= 1 + 1 - Allowed /\ 2 + 1 + 2 * 0 <= 1 + 1 - Allowed
  BY <1>4
<1>6. CASE (Adds(0) \/ Adds(1)) /\ pc' \in {"parameter", "aborted"}
  <2>1. pc' \notin Failed => 0 <= Allowed'
    BY <1>6 DEF Allowed, Failed
  <2>2. Makes(0, 1, 0, 1, 0) \/ Makes(1, 1, 0, 1, 0)
    BY <1>1, <1>2, <1>3, <1>5, <1>6, <2>1, AddsWrote DEF Makes
  <2> QED BY <2>2, RoomMakes
<1>7. CASE (Adds(1) \/ Adds(2)) /\ pc' \in {"close", "aborted"}
  <2>1. pc' \notin Failed => 1 <= Allowed'
    BY <1>7 DEF Allowed, Failed
  <2>2. Makes(1, 1, 0, 1, 1) \/ Makes(2, 1, 0, 1, 1)
    BY <1>1, <1>2, <1>3, <1>5, <1>7, <2>1, AddsWrote DEF Makes
  <2> QED BY <2>2, RoomMakes
<1> QED BY <1>1, <1>6, <1>7

LEMMA RoomParameter ==
    ASSUME BoundsInv, BoundsInv', RoomOK, buffer = <<>>, Parameter
    PROVE  Housed
<1>1. /\ Adds(2) /\ Len(operators') = Len(operators) /\ i' \in {i + 2, i + 3} /\ At(i) = "KEY"
      /\ pc = "parameter" /\ pc' \in {"parameter", "close", "aborted"}
      /\ UNCHANGED <<tokens, buffer, contexts>>
  BY AddsParameter
<1>2. /\ Len(contexts') = Len(contexts) + 0 /\ Len(operators') = Len(operators) + 0
      /\ 0 <= Len(operators') /\ i' > i /\ i \in Int /\ i' \in Int
  BY <1>1, Position
<1> DEFINE w == 1 + (i' - i - 1)
<1>3. w \in Int /\ w >= 2
  <2>1. \A x \in Int, y \in Int : y = x + 2 \/ y = x + 3 =>
           1 + (y - x - 1) \in Int /\ 1 + (y - x - 1) >= 2
    OBVIOUS
  <2>2. i' = i + 2 \/ i' = i + 3
    BY <1>1
  <2> QED BY <1>2, <2>1, <2>2
<1>4. Spent' >= Spent + w
  <2>1. 1 <= Width[At(i)]
    BY <1>1, WidthFacts DEF Kinds
  <2> QED BY <1>1, <1>2, <2>1, ReadsWidth
<1>5. Allowed = 0 /\ (pc' \notin Failed => 0 <= Allowed')
  BY <1>1 DEF Allowed, Failed
<1> HIDE DEF w
<1>6. 2 + 0 + 2 * 0 <= w + 0 - Allowed
  BY <1>3, <1>5
<1>7. Makes(2, 0, 0, w, 0)
  BY <1>1, <1>2, <1>3, <1>4, <1>5, <1>6, AddsWrote DEF Makes
<1> QED BY <1>7, RoomMakes

(* A variable has no parameters: the parenthesis that opens them would have  *)
(* made it a PAL.                                                            *)
Parametrizes == \E p \in i..Len(tokens) : At(p) = "TLPAR" /\ \A p2 \in i..p : ~Exit(p2)
VariableOK ==
    /\ pc \in {"type", "typed"} /\ decl = "DECL_VAR" => ~Parametrizes
    /\ pc \in {"parameter", "close"} => decl # "DECL_VAR"

LEMMA NextVariable ==
    ASSUME BoundsInv, BoundsInv', VariableOK, [Next]_vars
    PROVE  VariableOK'
<1>1. tokens' = tokens /\ i \in Nat /\ i' \in Int /\ Len(tokens) \in Nat
  BY TokensKept, Position, NextPlace
<1>2. CASE pc' \in {"accepted", "rejected", "aborted", "undefined", "instruction", "init", "expression",
                    "terminator"}
  BY <1>2 DEF VariableOK
<1>3. CASE UNCHANGED vars
  BY <1>3 DEF VariableOK, vars, Parametrizes, At, Exit
<1>4. CASE Declare
  <2>1. decl' = Declared /\ i' = i + 2 /\ pc' \in {"type", "aborted"}
    BY <1>4 DEF Declare, Write
  <2>2. ASSUME decl' = "DECL_VAR" PROVE ~Parametrizes'
    <3>1. ~\E p \in (i + 2)..Len(tokens) : At(p) = "TLPAR" /\ \A p2 \in (i + 2)..p : ~Exit(p2)
      BY <2>1, <2>2 DEF Declared
    <3> QED BY <1>1, <2>1, <3>1 DEF Parametrizes, At, Exit
  <2> QED BY <2>1, <2>2 DEF VariableOK
<1>5. CASE TypeVar
  <2>1. /\ decl' = decl /\ i' = i + 1 /\ pc' \in {"typed", "aborted"} /\ pc = "type"
        /\ At(i) \in {"TYPE", "TSCOPE"}
    BY <1>5 DEF TypeVar, Reading, Lock, Write
  <2>2. ASSUME Parametrizes' PROVE Parametrizes
    <3>1. PICK p \in (i + 1)..Len(tokens) : At(p) = "TLPAR" /\ \A p2 \in (i + 1)..p : ~Exit(p2)
      BY <1>1, <2>1, <2>2 DEF Parametrizes, At, Exit
    <3>2. p \in i..Len(tokens) /\ \A p2 \in i..p : p2 = i \/ p2 \in (i + 1)..p
      BY <1>1, <3>1
    <3>3. ~Exit(i)
      BY <2>1 DEF Exit
    <3> QED BY <3>1, <3>2, <3>3 DEF Parametrizes
  <2> QED BY <2>1, <2>2 DEF VariableOK
<1>6. CASE OpenParameters
  <2>1. /\ decl' = decl /\ pc' \in {"parameter", "close", "aborted"} /\ pc \in {"type", "typed"}
        /\ At(i) = "TLPAR"
    BY <1>6 DEF OpenParameters, Write
  <2>2. Parametrizes
    <3>1. i \in i..Len(tokens) /\ \A p2 \in i..i : p2 = i
      BY <1>1, <2>1, Position
    <3>2. ~Exit(i)
      BY <2>1 DEF Exit
    <3> QED BY <2>1, <3>1, <3>2 DEF Parametrizes
  <2> QED BY <2>1, <2>2 DEF VariableOK
<1>7. CASE Parameter
  BY <1>7 DEF VariableOK, Parameter, Reading, Write
<1>8. CASE Next /\ ~(Declare \/ TypeVar \/ OpenParameters \/ Parameter \/ UNCHANGED vars)
  <2>1. CASE \/ GroupQualifiers \/ OpenScope \/ StartExpression \/ ImportModules \/ EndType
             \/ CloseParameters \/ InitializeVariable \/ InitializeNothing \/ InitializeScope
    BY <1>2, <2>1, AfterDeclarationPhase DEF GroupQualifiers, OpenScope, StartExpression, ImportModules,
       EndType, CloseParameters, InitializeVariable, InitializeNothing, InitializeScope, Write, Reading
  <2>2. CASE \/ PushCallee \/ Operand \/ PopForOperator \/ PushOperator \/ OpenParenthesis
             \/ SeparateArguments \/ CloseParenthesis \/ PopToParenthesis \/ RunBelowBuffer
             \/ PopRemaining \/ EndExpression
    BY <1>2, <2>2, AfterDeclarationPhase DEF PushCallee, Operand, PopForOperator, PushOperator,
       OpenParenthesis, SeparateArguments, CloseParenthesis, PopToParenthesis, RunBelowBuffer,
       PopRemaining, EndExpression, PushBuffer, PopBuffer, Write, ExpressionEnds, Reading
  <2>3. CASE EndInstruction \/ CloseScope \/ Reject \/ ReadBehindTokens \/ EndOfSource
    BY <1>2, <2>3 DEF EndInstruction, CloseScope, Reject, ReadBehindTokens, EndOfSource, Write
  <2>4. CASE Returned
    BY <1>8, <2>4 DEF Returned
  <2> QED BY <1>8, <2>1, <2>2, <2>3, <2>4 DEF Next
<1> QED BY <1>3, <1>4, <1>5, <1>6, <1>7, <1>8

LEMMA RoomCloseParameters ==
    ASSUME BoundsInv, BoundsInv', RoomOK, buffer = <<>>, StackOK, ForestOK, VariableOK,
           CloseParameters
    PROVE  Housed
<1>1. /\ Adds(2) /\ Len(operators') = Len(operators) - 1 /\ i' = i + 1 /\ At(i) = "TRPAR"
      /\ pc = "close" /\ pc' \in {"init", "aborted"} /\ Len(operators) >= 2
      /\ UNCHANGED <<tokens, length, buffer, contexts, decl>>
  BY AddsCloseParameters
<1>2. /\ Len(contexts') = Len(contexts) + 0 /\ Len(operators') = Len(operators) + (-1)
      /\ 1 <= Len(operators') /\ i' > i
  BY <1>1, Position
<1>3. Spent' >= Spent + 1
  BY <1>1, <1>2, ReadsOne
<1>4. Allowed = 1 /\ (pc' \notin Failed => 1 <= Allowed')
  <2>1. decl' # "DECL_VAR"
    BY <1>1 DEF VariableOK
  <2> QED BY <1>1, <2>1 DEF Allowed, Failed
<1>5. 2 + (-1) + 2 * 0 <= 1 + 1 - Allowed
  BY <1>4
<1>6. Makes(2, -1, 0, 1, 1)
  BY <1>1, <1>2, <1>3, <1>4, <1>5, AddsWrote DEF Makes
<1> QED BY <1>6, RoomMakes

(* The sign of an assignment may be read, or nothing. *)
LEMMA ReadsSign ==
    ASSUME BoundsInv, BoundsInv', tokens' = tokens, i' = Initialized
    PROVE  Spent' >= Spent + 0
<1>1. CASE At(i) = "ASSIGN"
  <2>1. i' > i
    BY <1>1, Position DEF Initialized
  <2>2. Spent' >= Spent + 1
    BY <1>1, <2>1, ReadsOne
  <2>3. Spent \in Int /\ Spent' \in Int
    BY SpentType, NextSpentType DEF SpentOK
  <2> QED BY <2>2, <2>3
<1>2. CASE At(i) # "ASSIGN"
  BY <1>2, ReadsNothing DEF Initialized
<1> QED BY <1>1, <1>2

LEMMA RoomInitializeVariable ==
    ASSUME BoundsInv, BoundsInv', RoomOK, buffer = <<>>, InitializeVariable, ~dropped'
    PROVE  Housed
<1> DEFINE init == Pushed(operators, Node("INIT_VAR", 0, Initialized))
<1>1. /\ UNCHANGED <<tokens, nodes, contexts, buffer>> /\ pc = "init" /\ decl = "DECL_VAR"
      /\ pc' = "expression" /\ ~Full(init) /\ i' = Initialized
      /\ operators' = Pushed(init, Node("EXP", 0, Initialized))
  BY DEF InitializeVariable, Reading, input
<1>2. Adds(0) /\ Len(contexts') = Len(contexts) + 0
  <2>1. Adds(0)
    BY <1>1, AddsNothing
  <2> QED BY <1>1, <2>1, Position
<1>3. Len(operators') = Len(operators) + 2 /\ 1 <= Len(operators')
  <2>1. /\ "INIT_VAR" \in OperatorTypes /\ "EXP" \in OperatorTypes /\ OpsOK(operators)
        /\ Initialized \in Nat /\ Len(operators) \in Nat
    BY Kept1, InitializedPlace, Position DEF OperatorTypes
  <2>2. ~Full(operators)
    <3>1. Full(operators) => init = operators
      BY <2>1, Position DEF Full, Pushed
    <3> HIDE DEF init
    <3> QED BY <1>1, <3>1
  <2>3. OpsOK(init) /\ Len(init) = Len(operators) + 1
    BY <2>1, <2>2, OpsPushed
  <2> HIDE DEF init
  <2>4. Len(operators') = Len(init) + 1
    BY <1>1, <2>1, <2>3, OpsPushed
  <2> QED BY <2>1, <2>3, <2>4
<1>4. Spent' >= Spent + 0
  BY <1>1, ReadsSign
<1>5. Allowed = -1 /\ (pc' \notin Failed => 1 <= Allowed')
  BY <1>1 DEF Allowed
<1>6. 0 + 2 + 2 * 0 <= 0 + 1 - Allowed
  BY <1>5
<1>7. Makes(0, 2, 0, 0, 1)
  BY <1>1, <1>2, <1>3, <1>4, <1>5, <1>6, AddsWrote DEF Makes
<1> QED BY <1>7, RoomMakes

LEMMA RoomInitializeNothing ==
    ASSUME BoundsInv, BoundsInv', RoomOK, buffer = <<>>, InitializeNothing
    PROVE  Housed
<1>1. /\ UNCHANGED <<tokens, i, nodes, contexts, operators, buffer>> /\ pc = "init"
      /\ decl = "DECL_VAR" /\ pc' \in {"instruction", "terminator"}
  BY AfterDeclarationPhase DEF InitializeNothing, Reading, input
<1>2. /\ Adds(0) /\ Len(contexts') = Len(contexts) + 0 /\ Len(operators') = Len(operators) + 0
      /\ -1 <= Len(operators')
  <2>1. Adds(0)
    BY <1>1, AddsNothing
  <2> QED BY <1>1, <2>1, Position
<1>3. Spent' >= Spent + 0
  BY <1>1, ReadsNothing
<1>4. Allowed = -1 /\ (pc' \notin Failed => -1 <= Allowed')
  BY <1>1 DEF Allowed
<1>5. 0 + 0 + 2 * 0 <= 0 + (-1) - Allowed
  BY <1>4
<1>6. Makes(0, 0, 0, 0, -1)
  BY <1>1, <1>2, <1>3, <1>4, <1>5, AddsWrote DEF Makes
<1> QED BY <1>6, RoomMakes

LEMMA RoomInitializeScope ==
    ASSUME BoundsInv, BoundsInv', RoomOK, buffer = <<>>, StackOK, InitializeScope, ~dropped'
    PROVE  Housed
<1> DEFINE init == IF decl = "DECL_LAB" THEN "INIT_LAB" ELSE "INIT_PAL"
           ops == Pushed(operators, Node(init, 0, Initialized))
<1>1. /\ UNCHANGED <<tokens, nodes, contexts, buffer>> /\ pc = "init"
      /\ decl \in {"DECL_LAB", "DECL_PAL"} /\ i' = Initialized
      /\ At(Initialized) = "SCOPE" =>
            operators' = ops /\ ~Full(operators) /\ pc' = AfterDeclaration(ops)
      /\ At(Initialized) # "SCOPE" => UNCHANGED operators /\ pc' = AfterDeclaration(operators)
  BY DEF InitializeScope, Reading, input
<1>2. Adds(0) /\ Len(contexts') = Len(contexts) + 0
  <2>1. pc' # "aborted"
    BY <1>1, AfterDeclarationPhase
  <2>2. Adds(0)
    BY <1>1, <2>1, AddsNothing
  <2> QED BY <1>1, <2>2, Position
<1>3. Spent' >= Spent + 0
  BY <1>1, ReadsSign
<1>4. Allowed = 1
  BY <1>1 DEF Allowed
<1>5. Len(operators) \in Nat /\ Len(operators) >= 1 /\ Len(operators) = Watermark + 1
      /\ operators[Watermark + 1].type = decl
  BY <1>1, Position DEF BoundsInv, PhaseOK, StackOK, OwnedOK
<1>6. CASE At(Initialized) = "SCOPE"
  <2>1. init \in {"INIT_LAB", "INIT_PAL"} /\ init \in OperatorTypes /\ OpsOK(operators)
        /\ Initialized \in Nat
    <3>1. init \in {"INIT_LAB", "INIT_PAL"}
      OBVIOUS
    <3> HIDE DEF init
    <3>2. init \in OperatorTypes
      BY <3>1 DEF OperatorTypes, Inits
    <3> QED BY <3>1, <3>2, Kept1, InitializedPlace
  <2> HIDE DEF init
  <2>2. /\ Len(ops) = Len(operators) + 1 /\ ops[Len(operators) + 1].type = init
    BY <1>1, <1>6, <2>1, OpsPushed
  <2>3. pc' = "instruction"
    <3> HIDE DEF ops
    <3> QED BY <1>1, <1>6, <2>1, <2>2 DEF AfterDeclaration, Top
  <2>4. Len(operators') = Len(operators) + 1
    BY <1>1, <1>6, <2>2
  <2>5. At(i)' = "SCOPE"
    BY <1>1, <1>6 DEF At
  <2>6. pc' \notin Failed => 2 <= Allowed'
    BY <2>3, <2>5 DEF Allowed
  <2>7. 0 + 1 + 2 * 0 <= 0 + 2 - Allowed
    BY <1>4
  <2>8. 2 <= Len(operators')
    BY <1>5, <2>4
  <2>9. Makes(0, 1, 0, 0, 2)
    BY <1>1, <1>2, <1>3, <2>4, <2>6, <2>7, <2>8, AddsWrote DEF Makes
  <2> QED BY <2>9, RoomMakes
<1>7. CASE At(Initialized) # "SCOPE"
  <2>1. pc' = "terminator"
    <3>1. Top(operators).type = decl
      BY <1>5 DEF Top
    <3> QED BY <1>1, <1>7, <3>1 DEF AfterDeclaration
  <2>2. pc' \notin Failed => 1 <= Allowed'
    BY <2>1 DEF Allowed
  <2>3. Len(operators') = Len(operators) + 0 /\ 1 <= Len(operators')
    BY <1>1, <1>5, <1>7
  <2>4. 0 + 0 + 2 * 0 <= 0 + 1 - Allowed
    BY <1>4
  <2>5. Makes(0, 0, 0, 0, 1)
    BY <1>1, <1>2, <1>3, <2>2, <2>3, <2>4, AddsWrote DEF Makes
  <2> QED BY <2>5, RoomMakes
<1> QED BY <1>6, <1>7

LEMMA RoomEndOfSource ==
    ASSUME BoundsInv, BoundsInv', RoomOK, EndOfSource
    PROVE  Housed
<1>1. /\ UNCHANGED <<tokens, i, nodes, contexts, operators, buffer>> /\ pc = "instruction"
      /\ pc' \in {"accepted", "rejected"} /\ i > Len(tokens)
  BY DEF EndOfSource, input
<1>2. /\ Len(contexts') = Len(contexts) + 0 /\ Len(operators') = Len(operators) + 0
      /\ 0 <= Len(operators') /\ Adds(0)
  <2>1. Adds(0)
    BY <1>1, AddsNothing
  <2> QED BY <1>1, <2>1, Position
<1>3. Spent' >= Spent + 0
  BY <1>1, ReadsNothing
<1>4. At(i) # "SCOPE"
  <2>1. i \notin 1..Len(tokens) /\ i \in Int
    BY <1>1, Position
  <2> QED BY <2>1, Position
<1>5. Allowed = 0 /\ (pc' \notin Failed => 0 <= Allowed')
  BY <1>1, <1>4 DEF Allowed, Failed
<1>6. 0 + 0 + 2 * 0 <= 0 + 0 - Allowed
  BY <1>5
<1>7. buffer = <<>>
  BY <1>1 DEF BoundsInv, PhaseOK
<1>8. Makes(0, 0, 0, 0, 0)
  BY <1>1, <1>2, <1>3, <1>5, <1>6, <1>7, AddsWrote DEF Makes
<1> QED BY <1>8, RoomMakes

LEMMA RoomEndExpression ==
    ASSUME BoundsInv, BoundsInv', RoomOK, StackOK, ForestOK, EndExpression
    PROVE  Housed
<1>1. /\ pc = "expression" /\ buffer = <<>> /\ pc' \in {"terminator", "aborted"}
      /\ i' = i /\ UNCHANGED <<tokens, length, contexts, buffer, decl>>
  BY ExpressionEnded
<1>2. Len(contexts') = Len(contexts) + 0 /\ Len(operators) \in Nat
  BY <1>1, Position
<1>3. Spent' >= Spent + 0
  BY <1>1, ReadsNothing
<1>4. Allowed = 1 /\ (pc' \notin Failed => 1 <= Allowed')
  BY <1>1 DEF Allowed, Failed
<1>5. 0 + 0 + 2 * 0 <= 0 + 1 - Allowed /\ 2 + (-2) + 2 * 0 <= 0 + 1 - Allowed
  BY <1>4
<1>6. CASE UNCHANGED nodes /\ Len(operators') = Len(operators) /\ Len(operators) >= 1 /\ pc' # "aborted"
  <2>1. Adds(0)
    BY <1>6, AddsNothing
  <2>2. Len(operators') = Len(operators) + 0 /\ 1 <= Len(operators')
    BY <1>2, <1>6
  <2>3. Makes(0, 0, 0, 0, 1)
    BY <1>1, <1>2, <1>3, <1>4, <1>5, <2>1, <2>2, AddsWrote DEF Makes
  <2> QED BY <2>3, RoomMakes
<1>7. ASSUME NEW x \in Sound, NEW y \in Sound, nodes' = nodes \o <<x, y>>, Filled(2),
             x.type = "EXP", y.type = "INIT_VAR",
             Len(operators') = Len(operators) - 2, Len(operators) >= 3
      PROVE  Housed
  <2>1. Len(nodes') = Len(nodes) + 2 /\ Excess(nodes') = Excess(nodes)
    <3> DEFINE ns == <<x, y>>
    <3>1. Len(ns) = 2 /\ ns[1] = x /\ ns[2] = y /\ ns \in Seq(Sound) /\ nodes' = nodes \o ns
      BY <1>7
    <3> HIDE DEF ns
    <3>2. \A k \in 1..Len(ns) : ns[k].type \notin {"CALLEE", "LPAR"}
      <4>1. \A k \in 1..Len(ns) : k = 1 \/ k = 2
        BY <3>1
      <4> QED BY <1>7, <3>1, <4>1
    <3> QED BY <3>1, <3>2, Joined
  <2>2. Wrote(2)
    BY <1>7, <2>1 DEF Wrote, Filled
  <2>3. Len(operators') = Len(operators) + (-2) /\ 1 <= Len(operators')
    BY <1>2, <1>7
  <2>4. Makes(2, -2, 0, 0, 1)
    BY <1>1, <1>2, <1>3, <1>4, <1>5, <2>2, <2>3 DEF Makes
  <2> QED BY <2>4, RoomMakes
<1> QED BY <1>6, <1>7, ExpressionEnded

LEMMA RoomEndInstruction ==
    ASSUME BoundsInv, BoundsInv', RoomOK, StackOK, ForestOK, ShapeOK, EndInstruction
    PROVE  Housed
<1> DEFINE n == Len(Flushed)
<1>1. /\ Terminating /\ At(i) = "SEMI" /\ nodes' = nodes \o Flushed /\ operators' = Kept
      /\ pc' = IF Len(nodes) + n < length THEN "instruction" ELSE "aborted"
      /\ contexts' = Child(contexts, n) /\ i' = AfterSemicolons
      /\ UNCHANGED <<tokens, length, buffer>>
      /\ pc \in {"instruction", "terminator"} /\ buffer = <<>>
  BY DEF EndInstruction, Write, input, Terminating, Reading, BoundsInv, PhaseOK
<1>2. /\ Flushed \in Seq(Plain) /\ n \in Nat /\ n = Len(operators) - Watermark
      /\ Len(Kept) = Watermark /\ Watermark \in Nat
  BY <1>1, FlushedPlain
<1>3. Adds(n)
  <2>1. Filled(n)
    <3> HIDE DEF n
    <3> QED BY <1>1 DEF Filled
  <2> QED BY <1>1, <1>2, <2>1 DEF Adds
<1>4. Len(contexts') = Len(contexts) + 0
  BY <1>1, <1>2, ChildKept
<1>5. Spent' >= Spent + 1
  <2>1. AfterSemicolons > i
    <3>1. tokens \in Seq(Token) /\ i \in Nat /\ i \in 1..Len(tokens)
      BY <1>1, Position DEF BoundsInv, InputOK
    <3>2. AfterSemicolons \in (i + 1)..(Len(tokens) + 1)
      BY <1>1, <3>1, SemicolonsRead
    <3> QED BY <3>1, <3>2
  <2> QED BY <1>1, <2>1, ReadsOne
<1>6. Len(operators') = Len(operators) + (0 - n) /\ 0 <= Len(operators') /\ 0 - n \in Int
  <2>1. Len(operators') = Watermark /\ Len(operators) \in Nat
    BY <1>1, <1>2, Position
  <2> HIDE DEF n
  <2> QED BY <1>2, <2>1
<1>7. Allowed \in Int /\ Allowed <= 1 /\ (pc' \notin Failed => 0 <= Allowed')
  <2>1. pc' \in {"instruction", "aborted"}
    BY <1>1
  <2> QED BY <1>1, <2>1 DEF Allowed, Failed
<1> HIDE DEF n
<1>8. n + (0 - n) + 2 * 0 <= 1 + 0 - Allowed
  BY <1>2, <1>7
<1>9. Makes(n, 0 - n, 0, 1, 0)
  BY <1>1, <1>3, <1>4, <1>5, <1>6, <1>7, <1>8, AddsWrote DEF Makes
<1> QED BY <1>9, RoomMakes

LEMMA RoomCloseScope ==
    ASSUME BoundsInv, BoundsInv', RoomOK, StackOK, ForestOK, ShapeOK, CloseScope
    PROVE  Housed
<1>1. /\ pc \in {"instruction", "terminator"} /\ At(i) = "PERIOD" /\ i' = i + 1
      /\ Len(contexts') = Len(contexts) - 1
      /\ pc' \in {"instruction", "aborted"}
      /\ pc' = "aborted" => ~(Len(nodes') < length)
      /\ buffer = <<>> /\ UNCHANGED <<tokens, length, buffer, decl>>
  BY ScopeIsEnded
<1>2. PICK ns : ScopeEnded(ns)
  BY ScopeIsEnded
<1>3. /\ ns \in Seq(Sound) /\ nodes' = nodes \o ns
      /\ \A k \in 1..Len(ns) : ns[k].type \notin {"CALLEE", "LPAR"}
      /\ Len(ns) + Len(operators') = Len(operators) + 2
  BY <1>2 DEF ScopeEnded
<1> DEFINE n == Len(ns)
<1>4. Wrote(n) /\ n \in Nat
  <2>1. Len(nodes') = Len(nodes) + n /\ n \in Nat /\ Excess(nodes') = Excess(nodes)
    <3>1. /\ Len(nodes') = Len(nodes) + Len(ns) /\ Len(ns) \in Nat
          /\ (\A k \in 1..Len(ns) : ns[k].type \notin {"CALLEE", "LPAR"}) =>
                Excess(nodes') = Excess(nodes)
      BY <1>3, Joined
    <3> QED BY <1>3, <3>1
  <2>2. pc' = "aborted" => ~(Len(nodes') < length)
    BY <1>1
  <2> HIDE DEF n
  <2> QED BY <2>1, <2>2 DEF Wrote
<1>5. /\ Len(operators) \in Nat /\ Len(operators') \in Nat /\ Len(contexts) \in Nat /\ i \in Nat
  <2>1. RoomIntegers'
    BY NextRoomTypes
  <2> QED BY <2>1, Position DEF RoomIntegers
<1>6. Spent' >= Spent + 1
  <2>1. i' > i
    BY <1>1, <1>5
  <2> QED BY <1>1, <2>1, ReadsOne
<1>7. Allowed \in Int /\ Allowed <= 1 /\ (pc' \notin Failed => 0 <= Allowed')
  BY <1>1 DEF Allowed, Failed
<1>8. n + Len(operators') = Len(operators) + 2
  BY <1>3
<1> HIDE DEF n
<1>9. /\ Len(operators') = Len(operators) + (2 - n) /\ 2 - n \in Int /\ 0 <= Len(operators')
      /\ Len(contexts') = Len(contexts) + (-1)
  BY <1>1, <1>4, <1>5, <1>8
<1>10. n + (2 - n) + 2 * (-1) <= 1 + 0 - Allowed
  BY <1>4, <1>7
<1>11. Makes(n, 2 - n, -1, 1, 0)
  BY <1>1, <1>4, <1>6, <1>7, <1>9, <1>10 DEF Makes
<1> QED BY <1>11, RoomMakes

-----------------------------------------------------------------------------
(* Room after the steps of an expression                                     *)

(* d nodes and operators more, with e more in excess, for w characters read. *)
Reckons(d, e, w) ==
    /\ pc = "expression" /\ pc' \in {"expression", "rejected", "aborted"}
    /\ UNCHANGED <<tokens, operators, contexts>>
    /\ d \in Int /\ Len(nodes') + Len(buffer') = Len(nodes) + Len(buffer) + d
    /\ e \in Int /\ Excess(nodes') + Excess(buffer') = Excess(nodes) + Excess(buffer) + e
    /\ w \in Int /\ Spent' >= Spent + w
    /\ d <= w /\ d + e + CalleeRead <= w + CalleeRead'
    /\ pc' = "aborted" => ~(Len(nodes') < length)

LEMMA RoomReckons ==
    ASSUME BoundsInv, BoundsInv', RoomOK, NEW d, NEW e, NEW w, Reckons(d, e, w)
    PROVE  Housed
<1>1. RoomIntegers'
  BY NextRoomTypes
<1>2. /\ Len(nodes) \in Nat /\ Len(operators) \in Nat /\ Len(contexts) \in Nat /\ Len(buffer) \in Nat
      /\ Excess(nodes) \in Int /\ Excess(buffer) \in Int /\ CalleeRead \in 0..1 /\ Spent \in Int
  BY RoomTypes, SpentType DEF SpentOK
<1>3. /\ Len(nodes') \in Nat /\ Len(buffer') \in Nat /\ CalleeRead' \in 0..1 /\ Spent' \in Int
      /\ Excess(nodes') \in Int /\ Excess(buffer') \in Int
      /\ Len(operators') = Len(operators) /\ Len(contexts') = Len(contexts)
  <2>1. Excess(nodes)' = Excess(nodes') /\ Excess(buffer)' = Excess(buffer')
    BY DEF Excess, Number, Places
  <2> QED BY <1>1, <2>1 DEF RoomIntegers, Reckons
<1>4. /\ pc' \in {"expression", "rejected", "aborted"} /\ pc = "expression"
      /\ d \in Int /\ Len(nodes') + Len(buffer') = Len(nodes) + Len(buffer) + d
      /\ e \in Int /\ Excess(nodes') + Excess(buffer') = Excess(nodes) + Excess(buffer) + e
      /\ w \in Int /\ Spent' >= Spent + w
      /\ d <= w /\ d + e + CalleeRead <= w + CalleeRead'
      /\ pc' = "aborted" => ~(Len(nodes') < length)
  BY DEF Reckons
<1>5. Allowed = 1 /\ (pc' \notin Failed => 1 <= Allowed') /\ Len(operators) >= 1
  BY <1>4 DEF Allowed, Failed, BoundsInv, PhaseOK
<1> DEFINE n == Len(nodes)
           n2 == Len(nodes')
           b == Len(buffer)
           b2 == Len(buffer')
           o == Len(operators) + 2 * (Len(contexts) - 1)
           q == Excess(nodes)
           q2 == Excess(nodes')
           r == Excess(buffer)
           r2 == Excess(buffer')
           s == Spent
           s2 == Spent'
           c == CalleeRead
           c2 == CalleeRead'
<1>6. /\ n \in Int /\ n2 \in Int /\ b \in Int /\ b2 \in Int /\ o \in Int
      /\ q \in Int /\ q2 \in Int /\ r \in Int /\ r2 \in Int /\ s \in Int /\ s2 \in Int
  BY <1>2, <1>3
<1>7. c \in Int /\ c2 \in Int /\ d \in Int /\ e \in Int /\ w \in Int
  BY <1>2, <1>3, <1>4
<1>8. /\ n2 + b2 = n + b + d /\ q2 + r2 = q + r + e /\ s2 >= s + w
      /\ d <= w /\ d + e + c <= w + c2
  BY <1>4
<1>9. Needed = n + b + o /\ Needed' = n2 + b2 + o
  <2>1. Needed = n + Len(operators) + b + 2 * (Len(contexts) - 1)
    BY DEF Needed
  <2>2. Needed' = n2 + Len(operators) + b2 + 2 * (Len(contexts) - 1)
    BY <1>3 DEF Needed
  <2>3. \A u \in Int, v \in Int, x \in Int, y \in Int : u + x + v + 2 * (y - 1) = u + v + (x + 2 * (y - 1))
    OBVIOUS
  <2>4. Len(operators) \in Int /\ Len(contexts) \in Int
    BY <1>2
  <2> HIDE DEF n, n2, b, b2
  <2> QED BY <1>6, <2>1, <2>2, <2>3, <2>4
<1>10. n + b + o <= s + 1 /\ n + b + o + q + r <= s + 1 + c
  BY <1>5, <1>9 DEF RoomOK, Room
<1>11. n2 + b2 + o <= s2 + 1 /\ n2 + b2 + o + q2 + r2 <= s2 + 1 + c2
  <2> HIDE DEF n, n2, b, b2, o, q, q2, r, r2, s, s2, c, c2
  <2> QED BY <1>6, <1>7, <1>8, <1>10
<1>12. Room(1)'
  <2>1. Excess(nodes)' = q2 /\ Excess(buffer)' = r2
    BY DEF Excess, Number, Places
  <2> QED BY <1>9, <1>11, <2>1 DEF Room
<1>13. 1 <= Len(operators')
  BY <1>3, <1>5
<1>14. Roomed'
  BY <1>5, <1>12, <1>13 DEF Roomed
<1> QED BY <1>4, <1>14 DEF Housed

(* Only the parenthesis of a callee has been paid for. *)
LEMMA NoCallee == ASSUME BoundsInv, At(i) # "LPAR" PROVE CalleeRead = 0
BY DEF CalleeRead

LEMMA NextCalleeRead == BoundsInv' => CalleeRead' \in 0..1
BY NextRoomTypes DEF RoomIntegers

LEMMA CalleeReadLess ==
    ASSUME BoundsInv, BoundsInv', At(i) # "LPAR"
    PROVE  \A d \in Int, e \in Int, w \in Int :
              d + e <= w => d + e + CalleeRead <= w + CalleeRead'
<1> DEFINE c == CalleeRead
           c2 == CalleeRead'
<1>1. c = 0 /\ c2 \in 0..1
  BY NoCallee, NextCalleeRead
<1> HIDE DEF c, c2
<1>2. \A d \in Int, e \in Int, w \in Int : d + e <= w => d + e + c <= w + c2
  BY <1>1
<1> QED BY <1>2 DEF c, c2

(* What a push makes of the buffer. *)
LEMMA BufferPushed ==
    ASSUME BoundsInv, NEW type \in PendingTypes, PushBuffer(Node(type, 0, i)), ~dropped'
    PROVE  /\ Len(buffer') = Len(buffer) + 1 /\ Excess(buffer') = Excess(buffer) + Extra(type)
           /\ TopType' = type /\ i' = i + 1
           /\ UNCHANGED <<tokens, length, pc, nodes, contexts, operators, decl>>
           /\ \A b \in 1..Len(buffer') : \/ b = Len(buffer') /\ buffer'[b].arity = 0
                                         \/ b \in 1..Len(buffer) /\ buffer'[b] = buffer[b]
<1> DEFINE x == Node(type, 0, i)
<1>1. /\ x \in Pending /\ x.type = type /\ x.arity = 0
  BY Position, NodeType DEF Pending
<1>2. /\ buffer' = Pushed(buffer, x) /\ ~Full(buffer) /\ i' = i + 1
      /\ UNCHANGED <<tokens, length, pc, nodes, contexts, operators, decl>>
  BY DEF PushBuffer, input
<1>3. buffer \in Seq(Pending) /\ Len(buffer) <= StackSize
  BY DEF BoundsInv, BufferOK
<1> HIDE DEF x
<1>4. /\ Pushed(buffer, x) \in Seq(Pending)
      /\ Len(Pushed(buffer, x)) = Len(buffer) + 1
      /\ Pushed(buffer, x)[Len(buffer) + 1] = x
      /\ \A n \in 1..Len(buffer) : Pushed(buffer, x)[n] = buffer[n]
  <2>1. Len(buffer) <= StackSize /\ ~Full(buffer)
    BY <1>2, <1>3
  <2> QED BY <1>1, <1>3, <2>1, PushedFacts
<1> DEFINE r == Pushed(buffer, x)
<1>5. /\ r \in Seq(Pending) /\ Len(r) = Len(buffer) + 1 /\ r[Len(r)] = x
      /\ \A n \in 1..Len(buffer) : r[n] = buffer[n]
  BY <1>4
<1>6. buffer' = r
  BY <1>2
<1> HIDE DEF r
<1>7. Excess(r) = Excess(buffer) + Extra(type)
  <2>1. Excess(r) = Excess(buffer) + Extra(r[Len(r)].type)
    BY <1>3, <1>5, ExcessOne
  <2> QED BY <1>1, <1>5, <2>1, Zenon
<1>8. Excess(buffer') = Excess(r)
  BY <1>6, Zenon
<1>9. Len(buffer) \in Nat
  BY <1>3
<1>10. r # <<>>
  BY <1>5, <1>9
<1>11. TopType' = type
  BY <1>1, <1>5, <1>6, <1>10 DEF TopType, Top
<1>12. \A b \in 1..Len(r) : \/ b = Len(r) /\ r[b].arity = 0
                            \/ b \in 1..Len(buffer) /\ r[b] = buffer[b]
  BY <1>1, <1>5, <1>9
<1>13. Len(buffer') = Len(buffer) + 1
  BY <1>5, <1>6
<1> QED BY <1>2, <1>6, <1>7, <1>8, <1>11, <1>12, <1>13

LEMMA RoomPush ==
    ASSUME BoundsInv, BoundsInv', RoomOK, NEW type \in PendingTypes, PushBuffer(Node(type, 0, i)),
           pc = "expression", ~dropped', At(i) # "NO",
           type = "CALLEE" => Callee(i), At(i) = "LPAR" <=> type = "LPAR"
    PROVE  Housed
<1> DEFINE e == Extra(type)
<1>1. /\ Len(buffer') = Len(buffer) + 1 /\ Excess(buffer') = Excess(buffer) + e
      /\ TopType' = type /\ i' = i + 1
      /\ UNCHANGED <<tokens, length, pc, nodes, contexts, operators, decl>>
  BY BufferPushed
<1>2. /\ Len(nodes) \in Nat /\ Len(buffer) \in Nat
      /\ Excess(nodes) \in Int /\ Excess(buffer) \in Int /\ CalleeRead \in 0..1
      /\ CalleeRead' \in 0..1 /\ e \in Int
  BY RoomTypes, NextCalleeRead DEF Extra
<1>3. Spent' >= Spent + 1
  <2>1. i' > i
    BY <1>1, Position
  <2> QED BY <1>1, <2>1, ReadsOne
<1>4. 1 + e + CalleeRead <= 1 + CalleeRead'
  <2>1. CASE type = "CALLEE"
    <3>1. At(i) # "LPAR" /\ At(i + 1) = "LPAR"
      BY <2>1 DEF Callee
    <3>2. CalleeRead = 0
      BY <3>1, NoCallee
    <3>3. CalleeRead' = 1
      BY <1>1, <2>1, <3>1 DEF CalleeRead, At
    <3> QED BY <2>1, <3>2, <3>3 DEF Extra
  <2>2. CASE type = "LPAR"
    <3>1. e = -1
      BY <2>2 DEF Extra
    <3>2. \A x \in 0..1, y \in 0..1 : 1 + (-1) + x <= 1 + y
      OBVIOUS
    <3> HIDE DEF e
    <3> QED BY <1>2, <3>1, <3>2
  <2>3. CASE type \notin {"CALLEE", "LPAR"}
    <3>1. CalleeRead = 0
      BY <2>3, NoCallee
    <3>2. e = 0
      BY <2>3 DEF Extra
    <3>3. \A y \in 0..1 : 1 + 0 + 0 <= 1 + y
      OBVIOUS
    <3> HIDE DEF e
    <3> QED BY <1>2, <3>1, <3>2, <3>3
  <2> QED BY <2>1, <2>2, <2>3
<1>5. Excess(nodes') = Excess(nodes)
  BY <1>1, Zenon
<1>6. /\ Len(nodes') + Len(buffer') = Len(nodes) + Len(buffer) + 1
  BY <1>1, <1>2
<1> HIDE DEF e
<1>7. Excess(nodes') + Excess(buffer') = Excess(nodes) + Excess(buffer) + e
  BY <1>1, <1>2, <1>5
<1>8. pc' = "expression"
  BY <1>1
<1>9. 1 <= 1 /\ 1 \in Int /\ pc' # "aborted" /\ UNCHANGED <<tokens, operators, contexts>>
  BY <1>1, <1>8
<1>10. Reckons(1, e, 1)
  BY <1>9, <1>2, <1>3, <1>4, <1>6, <1>7, <1>8 DEF Reckons
<1> QED BY <1>10, RoomReckons

(* One node is written for the expression. *)
WritesOne(x) == x \in Sound /\ x.type \notin Joining /\ nodes' = nodes \o <<x>>

LEMMA OneWritten ==
    ASSUME BoundsInv, NEW x, WritesOne(x)
    PROVE  Len(nodes') = Len(nodes) + 1 /\ Excess(nodes') = Excess(nodes) + Extra(x.type)
<1>1. nodes \in Seq(Written) /\ <<x>> \in Seq(Written) /\ <<x>>[1] = x /\ Len(<<x>>) = 1
  BY SoundPlain DEF BoundsInv, NodesOK, WritesOne
<1> DEFINE t == <<x>>
           r == nodes \o t
<1>2. t \in Seq(Written) /\ t[1] = x /\ Len(t) = 1
  BY <1>1
<1> HIDE DEF t
<1>3. /\ r \in Seq(Written) /\ Len(r) = Len(nodes) + 1
      /\ \A n \in 1..Len(nodes) : r[n] = nodes[n]
      /\ r[Len(nodes) + 1] = x
  BY <1>1, <1>2, Concatenated
<1>4. nodes' = r
  BY DEF WritesOne, t
<1> HIDE DEF r
<1>5. \A n \in 1..Len(nodes) : r[n].type = nodes[n].type
  BY <1>3
<1>6. Excess(r) = Excess(nodes) + Extra(r[Len(r)].type)
  BY <1>1, <1>3, <1>5, ExcessOne
<1>7. r[Len(r)] = x
  BY <1>3
<1>8. Excess(r) = Excess(nodes) + Extra(x.type)
  BY <1>6, <1>7, Zenon
<1>9. Excess(nodes') = Excess(r) /\ Len(nodes') = Len(r)
  BY <1>4, Zenon
<1> QED BY <1>3, <1>8, <1>9

LEMMA PendingArity ==
    ASSUME BoundsInv, ShapeOK, NEW b \in 1..Len(buffer)
    PROVE  buffer[b].arity \in Int /\ buffer[b].arity >= 0
<1>1. buffer[b] \in Pending
  BY DEF BoundsInv, BufferOK
<1> QED BY <1>1, ItemFields DEF Pending, ShapeOK, ArgumentsOK

LEMMA SoundOperator ==
    ASSUME NEW type \in PendingTypes, NEW arity \in Int, arity >= 0, NEW p \in Nat,
           type # "CALLEE" => arity > 0
    PROVE  Node(type, arity, p) \in Sound /\ Node(type, arity, p).type = type
           /\ type \notin Joining
<1> DEFINE x == Node(type, arity, p)
<1>1. type \in NodeTypes /\ type \notin Childless \cup Joining
      /\ (type \in Parents \cup {"LPAR"} => type # "CALLEE")
  BY DEF PendingTypes, NodeTypes, ExpressionTypes, Childless, Joining, Parents
<1>2. x \in Written /\ x.type = type /\ x.arity = arity
  BY <1>1, NodeType DEF Written
<1> HIDE DEF x
<1>3. x \in Sound
  BY <1>1, <1>2 DEF Sound
<1> QED BY <1>1, <1>2, <1>3 DEF x

(* An operator is popped and written. *)
LEMMA OperatorPopped ==
    ASSUME BoundsInv, PopBuffer, buffer # <<>>
    PROVE  /\ \E x : WritesOne(x) /\ x.type = TopType
           /\ Len(buffer') = Len(buffer) - 1
           /\ Excess(buffer) = Excess(buffer') + Extra(TopType)
           /\ \A b \in 1..Len(buffer') : b \in 1..Len(buffer) /\ buffer'[b] = buffer[b]
           /\ pc' \in {"expression", "rejected", "aborted"}
           /\ pc' = "aborted" => ~(Len(nodes) + 1 < length)
           /\ UNCHANGED <<tokens, length, i, contexts, operators, decl>>
<1> DEFINE x == Node(TopType, 2, Top(buffer).token)
           r == Rest(buffer)
<1>1. /\ buffer' = r /\ nodes' = nodes \o <<x>>
      /\ pc' \in {"expression", "rejected", "aborted"}
      /\ UNCHANGED <<tokens, length, i, contexts, operators, decl>>
  BY DEF PopBuffer, Write, input
<1>2. pc' = "aborted" => ~(Len(nodes) + 1 < length)
  <2>1. pc' = IF Len(nodes) + Len(<<x>>) < length
              THEN (IF At(i) = "RPAR" /\ Len(buffer) = 1 THEN "rejected" ELSE "expression")
              ELSE "aborted"
    BY DEF PopBuffer, Write
  <2>2. Len(<<x>>) = 1
    OBVIOUS
  <2> HIDE DEF x
  <2> QED BY <2>1, <2>2
<1>3. /\ TopType \in PendingTypes /\ Top(buffer).token \in Nat /\ Len(buffer) \in Nat
      /\ Len(buffer) >= 1 /\ TopType = Top(buffer).type /\ Top(buffer) = buffer[Len(buffer)]
  BY BufferTop DEF Top
<1>4. x \in Sound /\ x.type = TopType /\ TopType \notin Joining
  BY <1>3, SoundOperator
<1>5. buffer \in Seq(Pending)
  BY DEF BoundsInv, BufferOK
<1>6. /\ r \in Seq(Pending) /\ Len(r) = Len(buffer) - 1
      /\ \A n \in 1..Len(r) : r[n] = buffer[n]
  BY <1>5, RestFacts
<1> HIDE DEF x, r
<1>7. Len(buffer) = Len(r) + 1 /\ \A n \in 1..Len(r) : buffer[n].type = r[n].type
  BY <1>3, <1>6
<1>8. Excess(buffer) = Excess(r) + Extra(buffer[Len(buffer)].type)
  BY <1>5, <1>6, <1>7, ExcessOne
<1>9. Excess(buffer') = Excess(r)
  BY <1>1, Zenon
<1>10. Excess(buffer) = Excess(buffer') + Extra(TopType)
  BY <1>3, <1>8, <1>9, Zenon
<1>11. WritesOne(x) /\ x.type = TopType
  BY <1>1, <1>4 DEF WritesOne
<1>12. \A b \in 1..Len(r) : b \in 1..Len(buffer)
  BY <1>3, <1>6
<1>13. Len(buffer') = Len(buffer) - 1
  BY <1>1, <1>6
<1>14. \A b \in 1..Len(buffer') : b \in 1..Len(buffer) /\ buffer'[b] = buffer[b]
  BY <1>1, <1>6, <1>12
<1> QED BY <1>1, <1>2, <1>10, <1>11, <1>13, <1>14

Pops == PopForOperator \/ PopToParenthesis \/ PopRemaining

LEMMA PopsFacts ==
    ASSUME BoundsInv, Pops
    PROVE  pc = "expression" /\ PopBuffer /\ buffer # <<>> /\ At(i) # "LPAR"
<1>1. pc = "expression" /\ PopBuffer /\ At(i) # "LPAR"
  BY DEF Pops, PopForOperator, PopToParenthesis, PopRemaining, ExpressionEnds, Reading, Algebraic
<1>2. buffer # <<>>
  BY BindsTop DEF Pops, PopForOperator, PopToParenthesis, PopRemaining
<1> QED BY <1>1, <1>2

LEMMA RoomPops == ASSUME BoundsInv, BoundsInv', RoomOK, Pops PROVE Housed
<1>1. pc = "expression" /\ PopBuffer /\ buffer # <<>> /\ At(i) # "LPAR"
  BY PopsFacts
<1>2. /\ Len(buffer') = Len(buffer) - 1
      /\ Excess(buffer) = Excess(buffer') + Extra(TopType)
      /\ pc' \in {"expression", "rejected", "aborted"}
      /\ pc' = "aborted" => ~(Len(nodes) + 1 < length)
      /\ UNCHANGED <<tokens, length, i, contexts, operators, decl>>
  BY <1>1, OperatorPopped
<1>3. PICK x : WritesOne(x) /\ x.type = TopType
  BY <1>1, OperatorPopped
<1>4. Len(nodes') = Len(nodes) + 1 /\ Excess(nodes') = Excess(nodes) + Extra(TopType)
  <2>1. Len(nodes') = Len(nodes) + 1 /\ Excess(nodes') = Excess(nodes) + Extra(x.type)
    BY <1>3, OneWritten
  <2> QED BY <1>3, <2>1, Zenon
<1> DEFINE n == Len(nodes)
           b == Len(buffer)
           q == Excess(nodes)
           r == Excess(buffer)
           r2 == Excess(buffer')
           u == Extra(TopType)
<1>5. n \in Int /\ b \in Int /\ q \in Int /\ r \in Int /\ u \in Int
  BY RoomTypes DEF Extra
<1>6. r2 \in Int
  <2>1. Excess(buffer)' = Excess(buffer')
    BY DEF Excess, Number, Places
  <2> QED BY <2>1, NextRoomTypes DEF RoomIntegers
<1>7. Len(nodes') + Len(buffer') = n + b + 0 /\ Excess(nodes') + r2 = q + r + 0
  <2>1. Len(nodes') = n + 1 /\ Len(buffer') = b - 1 /\ Excess(nodes') = q + u /\ r = r2 + u
    BY <1>2, <1>4
  <2> HIDE DEF n, b, q, r, r2, u
  <2> QED BY <1>5, <1>6, <2>1
<1>8. Spent' >= Spent + 0
  BY <1>2, ReadsNothing
<1>9. 0 + 0 + CalleeRead <= 0 + CalleeRead'
  <2>1. At(i) # "LPAR" /\ 0 + 0 <= 0
    BY <1>1
  <2> QED BY <2>1, CalleeReadLess
<1>10. pc' = "aborted" => ~(Len(nodes') < length)
  BY <1>2, <1>4
<1>11. Reckons(0, 0, 0)
  BY <1>1, <1>2, <1>7, <1>8, <1>9, <1>10 DEF Reckons
<1> QED BY <1>11, RoomReckons

(* What is written for a token alone. *)
LEMMA OperandWritten ==
    ASSUME BoundsInv, Operand
    PROVE  /\ \E x : WritesOne(x) /\ x.type \in {"KEY", "LIT"}
           /\ pc = "expression" /\ At(i) \in {"KEY", "LIT"} /\ i' = i + 1
           /\ pc' \in {"expression", "aborted"}
           /\ pc' = "aborted" => ~(Len(nodes) + 1 < length)
           /\ UNCHANGED <<tokens, length, contexts, operators, buffer, decl>>
<1> DEFINE x == Leaf(At(i), i)
<1>1. /\ pc = "expression" /\ At(i) \in {"KEY", "LIT"} /\ i' = i + 1 /\ nodes' = nodes \o <<x>>
      /\ pc' \in {"expression", "aborted"}
      /\ UNCHANGED <<tokens, length, contexts, operators, buffer, decl>>
  BY DEF Operand, Write, Reading, input
<1>2. pc' = "aborted" => ~(Len(nodes) + 1 < length)
  <2>1. pc' = IF Len(nodes) + Len(<<x>>) < length THEN "expression" ELSE "aborted"
    BY DEF Operand, Write
  <2>2. Len(<<x>>) = 1
    OBVIOUS
  <2> HIDE DEF x
  <2> QED BY <2>1, <2>2
<1>3. x \in Plain
  <2>1. i \in Nat
    BY Position
  <2> QED BY <1>1, <2>1, PlainLeaf
<1>4. x.type \in {"KEY", "LIT"}
  BY <1>1 DEF Leaf, Node
<1> HIDE DEF x
<1>5. WritesOne(x)
  BY <1>1, <1>3 DEF WritesOne, Plain
<1> QED BY <1>1, <1>2, <1>4, <1>5

LEMMA RoomOperand == ASSUME BoundsInv, BoundsInv', RoomOK, Operand PROVE Housed
<1>1. /\ pc = "expression" /\ At(i) \in {"KEY", "LIT"} /\ i' = i + 1
      /\ pc' \in {"expression", "aborted"}
      /\ pc' = "aborted" => ~(Len(nodes) + 1 < length)
      /\ UNCHANGED <<tokens, length, contexts, operators, buffer, decl>>
  BY OperandWritten
<1>2. PICK x : WritesOne(x) /\ x.type \in {"KEY", "LIT"}
  BY OperandWritten
<1>3. Len(nodes') = Len(nodes) + 1 /\ Excess(nodes') = Excess(nodes) + 0
  <2>1. Len(nodes') = Len(nodes) + 1 /\ Excess(nodes') = Excess(nodes) + Extra(x.type)
    BY <1>2, OneWritten
  <2>2. Extra(x.type) = 0
    BY <1>2 DEF Extra
  <2> QED BY <2>1, <2>2, Zenon
<1>4. /\ Len(nodes) \in Nat /\ Len(buffer) \in Nat /\ Excess(nodes) \in Int /\ Excess(buffer) \in Int
  BY RoomTypes
<1>5. Excess(buffer') = Excess(buffer) /\ Len(buffer') = Len(buffer)
  BY <1>1, Zenon
<1>6. /\ Len(nodes') + Len(buffer') = Len(nodes) + Len(buffer) + 1
      /\ Excess(nodes') + Excess(buffer') = Excess(nodes) + Excess(buffer) + 0
  BY <1>3, <1>4, <1>5
<1>7. Spent' >= Spent + 1
  <2>1. i' > i /\ At(i) # "NO"
    BY <1>1, Position
  <2> QED BY <1>1, <2>1, ReadsOne
<1>8. 1 + 0 + CalleeRead <= 1 + CalleeRead'
  <2>1. At(i) # "LPAR" /\ 1 + 0 <= 1
    BY <1>1
  <2> QED BY <2>1, CalleeReadLess
<1>9. pc' = "aborted" => ~(Len(nodes') < length)
  BY <1>1, <1>3
<1>10. Reckons(1, 0, 1)
  BY <1>1, <1>6, <1>7, <1>8, <1>9 DEF Reckons
<1> QED BY <1>10, RoomReckons

LEMMA ArgumentSeparated ==
    ASSUME BoundsInv, SeparateArguments
    PROVE  /\ pc = "expression" /\ At(i) = "COMMA" /\ i' = i + 1
           /\ UNCHANGED <<tokens, length, pc, nodes, contexts, operators, decl>>
           /\ Len(buffer') = Len(buffer) /\ Excess(buffer') = Excess(buffer)
           /\ \A b \in 1..Len(buffer) : buffer'[b].arity \in {buffer[b].arity, buffer[b].arity + 1}
<1>1. /\ pc = "expression" /\ At(i) = "COMMA" /\ i' = i + 1 /\ buffer' = Counted(buffer, 1)
      /\ UNCHANGED <<tokens, length, pc, nodes, contexts, operators, decl>>
  BY DEF SeparateArguments, Reading, input
<1>2. buffer \in Seq(Items(PendingTypes))
  BY DEF BoundsInv, BufferOK, Pending
<1> DEFINE r == Counted(buffer, 1)
<1>3. /\ Len(r) = Len(buffer)
      /\ \A x \in 1..Len(buffer) :
            /\ r[x].type = buffer[x].type
            /\ r[x].arity = IF x = Len(buffer) THEN buffer[x].arity + 1 ELSE buffer[x].arity
  BY <1>2, CountedFacts
<1> HIDE DEF r
<1>4. Excess(r) = Excess(buffer)
  BY <1>3, ExcessSame
<1>5. buffer' = r
  BY <1>1 DEF r
<1>6. Excess(buffer') = Excess(r) /\ Len(buffer') = Len(r)
  BY <1>5, Zenon
<1>7. \A b \in 1..Len(buffer) : buffer'[b].arity \in {buffer[b].arity, buffer[b].arity + 1}
  BY <1>3, <1>5
<1> QED BY <1>1, <1>3, <1>4, <1>6, <1>7

LEMMA RoomSeparateArguments ==
    ASSUME BoundsInv, BoundsInv', RoomOK, SeparateArguments
    PROVE  Housed
<1>1. /\ pc = "expression" /\ At(i) = "COMMA" /\ i' = i + 1
      /\ UNCHANGED <<tokens, length, pc, nodes, contexts, operators, decl>>
      /\ Len(buffer') = Len(buffer) /\ Excess(buffer') = Excess(buffer)
  BY ArgumentSeparated
<1>2. /\ Len(nodes) \in Nat /\ Len(buffer) \in Nat /\ Excess(nodes) \in Int /\ Excess(buffer) \in Int
  BY RoomTypes
<1>3. Excess(nodes') = Excess(nodes) /\ Len(nodes') = Len(nodes)
  BY <1>1, Zenon
<1>4. /\ Len(nodes') + Len(buffer') = Len(nodes) + Len(buffer) + 0
      /\ Excess(nodes') + Excess(buffer') = Excess(nodes) + Excess(buffer) + 0
  BY <1>1, <1>2, <1>3
<1>5. Spent' >= Spent + 1
  <2>1. i' > i /\ At(i) # "NO"
    BY <1>1, Position
  <2> QED BY <1>1, <2>1, ReadsOne
<1>6. 0 + 0 + CalleeRead <= 1 + CalleeRead'
  <2>1. At(i) # "LPAR" /\ 0 + 0 <= 1
    BY <1>1
  <2> QED BY <2>1, CalleeReadLess
<1>7. pc' = "expression"
  BY <1>1
<1>8. Reckons(0, 0, 1)
  BY <1>1, <1>4, <1>5, <1>6, <1>7 DEF Reckons
<1> QED BY <1>8, RoomReckons

(* The parenthesis goes and is not written, nor is its callee in its stead:  *)
(* the callee's node takes the place it had on the stack.                    *)
LEMMA ParenthesisClosed ==
    ASSUME BoundsInv, ShapeOK, CloseParenthesis
    PROVE  /\ pc = "expression" /\ At(i) = "RPAR" /\ i' = i + 1
           /\ pc' \in {"expression", "aborted"}
           /\ UNCHANGED <<tokens, length, contexts, operators, decl>>
           /\ \A b \in 1..Len(buffer') : b \in 1..Len(buffer) /\ buffer'[b] = buffer[b]
           /\ Len(nodes') + Len(buffer') = Len(nodes) + Len(buffer) + (-1)
           /\ Excess(nodes') + Excess(buffer') = Excess(nodes) + Excess(buffer) + 1
           /\ pc' = "aborted" => ~(Len(nodes') < length)
           /\ UNCHANGED nodes \/ \E x : WritesOne(x)
<1> DEFINE under == Rest(buffer)
           arity == IF At(i - 1) = "LPAR" THEN 0 ELSE Top(buffer).arity + 1
           callee == under # <<>> /\ Top(under).type = "CALLEE"
           x == Node("CALLEE", arity, Top(under).token)
           r == Rest(under)
<1>1. /\ pc = "expression" /\ At(i) = "RPAR" /\ TopType = "LPAR" /\ i' = i + 1
      /\ callee => Write(<<x>>, "expression") /\ buffer' = r
      /\ ~callee => buffer' = under /\ UNCHANGED <<pc, nodes>>
      /\ UNCHANGED <<tokens, length, contexts, operators, decl>>
  BY DEF CloseParenthesis, Reading, input
<1>2. buffer # <<>>
  BY <1>1 DEF TopType
<1>3. /\ Top(buffer) = buffer[Len(buffer)] /\ Top(buffer).type = "LPAR"
      /\ Len(buffer) \in Nat /\ Len(buffer) >= 1 /\ Len(buffer) \in 1..Len(buffer)
  BY <1>1, <1>2, BufferTop DEF Top
<1>4. buffer \in Seq(Pending)
  BY DEF BoundsInv, BufferOK
<1>5. /\ under \in Seq(Pending) /\ Len(under) = Len(buffer) - 1
      /\ \A n \in 1..Len(under) : under[n] = buffer[n]
  BY <1>2, <1>4, RestFacts
<1>6. arity \in Int /\ arity >= 0
  <2>1. Top(buffer).arity \in Int /\ Top(buffer).arity >= 0
    BY <1>3, PendingArity
  <2> QED BY <2>1
<1>7. Excess(buffer) = Excess(under) + (-1)
  <2> HIDE DEF under
  <2>1. Len(buffer) = Len(under) + 1 /\ \A n \in 1..Len(under) : buffer[n].type = under[n].type
    BY <1>3, <1>5
  <2>2. Excess(buffer) = Excess(under) + Extra(buffer[Len(buffer)].type)
    BY <1>4, <1>5, <2>1, ExcessOne
  <2>3. Extra(buffer[Len(buffer)].type) = -1
    BY <1>3 DEF Extra
  <2> QED BY <2>2, <2>3, Zenon
<1>8. /\ Excess(nodes) \in Int /\ Excess(buffer) \in Int /\ Excess(under) \in Int
      /\ Len(nodes) \in Nat
  <2>1. Excess(under) \in Int
    <3> HIDE DEF under
    <3> QED BY <1>5, ExcessType
  <2> QED BY <2>1, RoomTypes
<1>9. \A b \in 1..Len(under) : b \in 1..Len(buffer)
  <2> HIDE DEF under
  <2> QED BY <1>3, <1>5
<1>10. CASE ~callee
  <2> HIDE DEF callee, under, x
  <2>1. buffer' = under /\ UNCHANGED <<pc, nodes>>
    BY <1>1, <1>10
  <2>2. Excess(buffer') = Excess(under) /\ Len(buffer') = Len(under)
    BY <2>1, Zenon
  <2>3. Excess(nodes') = Excess(nodes) /\ Len(nodes') = Len(nodes)
    BY <2>1, Zenon
  <2>4. /\ Len(nodes') + Len(buffer') = Len(nodes) + Len(buffer) + (-1)
        /\ Excess(nodes') + Excess(buffer') = Excess(nodes) + Excess(buffer) + 1
    BY <1>3, <1>5, <1>7, <1>8, <2>2, <2>3
  <2>5. pc' = "expression"
    BY <1>1, <2>1
  <2>6. \A b \in 1..Len(buffer') : b \in 1..Len(buffer) /\ buffer'[b] = buffer[b]
    BY <1>5, <1>9, <2>1
  <2> QED BY <1>1, <2>1, <2>4, <2>5, <2>6
<1>11. CASE callee
  <2>1. /\ Top(under) \in Pending /\ Top(under).type = "CALLEE" /\ under # <<>>
        /\ Top(under) = under[Len(under)]
        /\ r \in Seq(Pending) /\ Len(r) = Len(under) - 1
        /\ \A n \in 1..Len(r) : r[n] = under[n]
    <3>1. under # <<>> /\ Top(under).type = "CALLEE"
      BY <1>11
    <3> HIDE DEF under
    <3> QED BY <1>5, <3>1, RestFacts DEF Top
  <2>2. Len(under) \in Nat /\ Len(under) >= 1 /\ Len(r) \in Nat
    <3> HIDE DEF under, r
    <3> QED BY <1>5, <2>1
  <2>3. x \in Sound /\ x.type = "CALLEE" /\ "CALLEE" \notin Joining
    <3>1. "CALLEE" \in PendingTypes
      BY DEF PendingTypes
    <3>2. Top(under).token \in Nat
      <4> HIDE DEF under
      <4> QED BY <2>1, ItemFields DEF Pending
    <3> HIDE DEF under, arity
    <3> QED BY <1>6, <3>1, <3>2, SoundOperator
  <2>4. Write(<<x>>, "expression") /\ buffer' = r
    BY <1>1, <1>11
  <2> HIDE DEF under, callee, r, x
  <2>5. WritesOne(x)
    BY <2>3, <2>4 DEF WritesOne, Write
  <2>6. Len(nodes') = Len(nodes) + 1 /\ Excess(nodes') = Excess(nodes) + 1
    <3>1. Len(nodes') = Len(nodes) + 1 /\ Excess(nodes') = Excess(nodes) + Extra(x.type)
      BY <2>5, OneWritten
    <3>2. Extra(x.type) = 1
      BY <2>3 DEF Extra
    <3> QED BY <3>1, <3>2, Zenon
  <2>7. pc' \in {"expression", "aborted"} /\ (pc' = "aborted" => ~(Len(nodes) + 1 < length))
    <3>1. Len(<<x>>) = 1
      OBVIOUS
    <3> QED BY <2>4, <3>1 DEF Write
  <2>8. Excess(under) = Excess(r) + 1
    <3>1. Len(under) = Len(r) + 1 /\ \A n \in 1..Len(r) : under[n].type = r[n].type
      BY <2>1, <2>2
    <3>2. Excess(under) = Excess(r) + Extra(under[Len(under)].type)
      BY <1>5, <2>1, <3>1, ExcessOne
    <3>3. Extra(under[Len(under)].type) = 1
      BY <2>1 DEF Extra
    <3> QED BY <3>2, <3>3, Zenon
  <2>9. Excess(r) \in Int
    BY <2>1, ExcessType
  <2>10. Excess(buffer') = Excess(r) /\ Len(buffer') = Len(r)
    BY <2>4, Zenon
  <2>11. Excess(nodes') + Excess(r) = Excess(nodes) + Excess(buffer) + 1
    BY <1>7, <1>8, <2>6, <2>8, <2>9
  <2>12. Len(nodes') + Len(r) = Len(nodes) + Len(buffer) + (-1)
    BY <1>3, <1>5, <1>8, <2>1, <2>2, <2>6
  <2>13. \A b \in 1..Len(r) : b \in 1..Len(under)
    BY <2>1, <2>2
  <2>14. \A b \in 1..Len(buffer') : b \in 1..Len(buffer) /\ buffer'[b] = buffer[b]
    BY <1>5, <1>9, <2>1, <2>4, <2>13
  <2>15. pc' = "aborted" => ~(Len(nodes') < length)
    BY <2>6, <2>7
  <2> QED BY <1>1, <2>5, <2>7, <2>10, <2>11, <2>12, <2>14, <2>15
<1> QED BY <1>10, <1>11

LEMMA RoomCloseParenthesis ==
    ASSUME BoundsInv, BoundsInv', RoomOK, ShapeOK, CloseParenthesis
    PROVE  Housed
<1>1. /\ pc = "expression" /\ At(i) = "RPAR" /\ i' = i + 1
      /\ pc' \in {"expression", "aborted"}
      /\ UNCHANGED <<tokens, length, contexts, operators, decl>>
      /\ Len(nodes') + Len(buffer') = Len(nodes) + Len(buffer) + (-1)
      /\ Excess(nodes') + Excess(buffer') = Excess(nodes) + Excess(buffer) + 1
      /\ pc' = "aborted" => ~(Len(nodes') < length)
  BY ParenthesisClosed
<1>2. Spent' >= Spent + 1
  <2>1. i' > i /\ At(i) # "NO"
    BY <1>1, Position
  <2> QED BY <1>1, <2>1, ReadsOne
<1>3. (-1) + 1 + CalleeRead <= 1 + CalleeRead'
  <2>1. At(i) # "LPAR" /\ (-1) + 1 <= 1
    BY <1>1
  <2> QED BY <2>1, CalleeReadLess
<1>4. Reckons(-1, 1, 1)
  BY <1>1, <1>2, <1>3 DEF Reckons
<1> QED BY <1>4, RoomReckons

(* Below the buffer nothing is written and the array is not full.            *)
LEMMA RoomRunBelowBuffer ==
    ASSUME BoundsInv, RoomOK, RunBelowBuffer, All < length
    PROVE  pc' = "aborted" => At(i) = "COMMA" /\ buffer' = <<>> /\ i' = i /\ tokens' = tokens
<1>1. /\ pc = "expression" /\ At(i) \in {"COMMA", "RPAR"} /\ buffer = <<>>
      /\ pc' = IF At(i) = "COMMA" \/ Len(nodes) + 1 >= length THEN "aborted" ELSE "rejected"
      /\ UNCHANGED <<tokens, i, buffer>>
  BY DEF RunBelowBuffer, Reading, input
<1>2. /\ Len(nodes) \in Nat /\ Len(operators) \in Nat /\ Len(operators) >= 1 /\ Len(buffer) = 0
      /\ Len(contexts) \in Nat /\ Len(contexts) >= 1 /\ length \in Nat
  BY <1>1, RoomTypes DEF BoundsInv, PhaseOK, InputOK
<1>3. Needed <= Spent + 1 /\ Spent \in Int /\ All \in Int
  BY <1>1, SpentType DEF RoomOK, Room, Allowed, SpentOK
<1>4. Len(nodes) <= Spent
  <2> DEFINE y == Spent
  <2>1. Len(nodes) + Len(operators) + 0 + 2 * (Len(contexts) - 1) <= y + 1 /\ y \in Int
    BY <1>2, <1>3 DEF Needed
  <2> HIDE DEF y
  <2>2. Len(nodes) <= y
    BY <1>2, <2>1
  <2> QED BY <2>2 DEF y
<1>5. Spent + 1 <= All
  <2>1. tokens \in Seq(Token) /\ i \in Nat /\ i \in 1..Len(tokens) /\ Len(tokens) \in Nat
    BY <1>1, Position DEF BoundsInv, InputOK
  <2>2. i - 1 \in 0..Len(tokens) /\ Len(tokens) \in 0..Len(tokens) /\ i - 1 <= Len(tokens)
    BY <2>1
  <2>3. All - Spent >= Len(tokens) - (i - 1)
    BY <2>1, <2>2, CharactersGrow DEF Spent, All
  <2> DEFINE x == All
             y == Spent
  <2>4. x - y >= Len(tokens) - (i - 1) /\ x \in Int /\ y \in Int
    BY <1>3, <2>3
  <2> HIDE DEF x, y
  <2>5. y + 1 <= x
    BY <2>1, <2>4
  <2> QED BY <2>5 DEF x, y
<1>6. ~(Len(nodes) + 1 >= length)
  <2> DEFINE x == All
             y == Spent
  <2>1. x \in Int /\ y \in Int /\ Len(nodes) <= y /\ y + 1 <= x /\ x < length
    BY <1>3, <1>4, <1>5
  <2> HIDE DEF x, y
  <2> QED BY <1>2, <2>1
<1> QED BY <1>1, <1>6

-----------------------------------------------------------------------------
(* The shape after each handler                                              *)

BufferEmpty == pc \notin {"expression", "aborted"} => buffer = <<>>
LEMMA NextBufferEmpty == BoundsInv' => BufferEmpty'
<1>1. BoundsInv => BufferEmpty
  BY DEF BoundsInv, PhaseOK, BufferEmpty
<1> QED BY <1>1, PTL

LEMMA ShapeNoneEnds ==
    ASSUME BoundsInv, BoundsInv', ShapeOK, NEW n, Adds(n), pc # "terminator", pc' # "terminator",
           pc' \in {"expression", "aborted"} => buffer' = <<>>
    PROVE  ShapeOK'
<1>1. buffer' = <<>>
  BY NextBufferEmpty DEF BufferEmpty
<1>2. EndedOK'
  BY DEF EndedOK
<1> QED BY <1>1, <1>2, ShapeAdds

LEMMA ShapeInstruction ==
    ASSUME BoundsInv, BoundsInv', ShapeOK, buffer = <<>>, ~dropped', pc' # "aborted",
           GroupQualifiers \/ OpenScope \/ StartExpression \/ ImportModules \/ Declare
    PROVE  ShapeOK'
<1>1. CASE GroupQualifiers
  <2>1. Adds(i' - i + 1) /\ pc = "instruction" /\ pc' = "instruction"
    BY <1>1, AddsGroupQualifiers
  <2> QED BY <2>1, ShapeNoneEnds
<1>2. CASE OpenScope \/ StartExpression
  <2>1. /\ pc = "instruction" /\ pc' \in {"instruction", "expression"}
        /\ UNCHANGED <<nodes, buffer>>
    BY <1>2 DEF OpenScope, StartExpression, Reading
  <2>2. Adds(0)
    BY <2>1, AddsNothing
  <2> QED BY <2>1, <2>2, ShapeNoneEnds
<1>3. CASE ImportModules
  <2>1. /\ Adds(i' - i - 1) /\ pc = "instruction" /\ Top(operators').type = "GRP_MOD"
        /\ UNCHANGED buffer
    BY <1>3, AddsImportModules
  <2>2. EndedOK'
    BY <2>1 DEF EndedOK, Top
  <2> QED BY <2>1, <2>2, ShapeAdds
<1>4. CASE Declare
  <2>1. Adds(1) /\ pc = "instruction" /\ pc' = "type"
    BY <1>4, AddsDeclare
  <2> QED BY <2>1, ShapeNoneEnds
<1> QED BY <1>1, <1>2, <1>3, <1>4

LEMMA ShapeType ==
    ASSUME BoundsInv, BoundsInv', ShapeOK, StackOK, ForestOK, ~dropped', pc' # "aborted",
           TypeVar \/ EndType \/ OpenParameters \/ Parameter \/ CloseParameters
    PROVE  ShapeOK'
<1>1. CASE TypeVar
  <2>1. Adds(1) /\ pc = "type" /\ pc' = "typed"
    BY <1>1, AddsTypeVar
  <2> QED BY <2>1, ShapeNoneEnds
<1>2. CASE EndType
  <2>1. UNCHANGED nodes /\ pc \in {"type", "typed"} /\ pc' = "init"
    BY <1>2 DEF EndType
  <2>2. Adds(0)
    BY <2>1, AddsNothing
  <2> QED BY <2>1, <2>2, ShapeNoneEnds
<1>3. CASE OpenParameters
  <2>1. /\ \E n \in 0..2 : Adds(n)
        /\ pc \in {"type", "typed"} /\ pc' \in {"parameter", "close"}
    BY <1>3, AddsOpenParameters
  <2> QED BY <2>1, ShapeNoneEnds
<1>4. CASE Parameter
  <2>1. Adds(2) /\ pc = "parameter" /\ pc' \in {"parameter", "close"}
    BY <1>4, AddsParameter
  <2> QED BY <2>1, ShapeNoneEnds
<1>5. CASE CloseParameters
  <2>1. Adds(2) /\ pc = "close" /\ pc' = "init"
    BY <1>5, AddsCloseParameters
  <2> QED BY <2>1, ShapeNoneEnds
<1> QED BY <1>1, <1>2, <1>3, <1>4, <1>5

LEMMA ShapeInit ==
    ASSUME BoundsInv, BoundsInv', ShapeOK, StackOK, ~dropped', pc' # "aborted",
           InitializeVariable \/ InitializeNothing \/ InitializeScope
    PROVE  ShapeOK'
<1>1. pc = "init" /\ UNCHANGED <<nodes, contexts, buffer>>
  BY DEF InitializeVariable, InitializeNothing, InitializeScope, Reading
<1>2. buffer = <<>>
  BY <1>1 DEF BoundsInv, PhaseOK
<1>3. Adds(0)
  BY <1>1, AddsNothing
<1>4. Len(operators) = Watermark + 1 /\ operators[Watermark + 1].type = decl
      /\ decl \in Decls
  BY <1>1 DEF StackOK, OwnedOK, BoundsInv, PhaseOK
<1>5. CASE InitializeVariable
  <2>1. pc' = "expression"
    BY <1>5 DEF InitializeVariable
  <2> QED BY <1>1, <1>2, <1>3, <2>1, ShapeNoneEnds
<1>6. CASE UNCHANGED operators /\ ~InitializeVariable
  <2>1. Top(operators').type = decl /\ decl # "EXP"
    BY <1>4, <1>6 DEF Top, Decls
  <2>2. EndedOK'
    BY <2>1 DEF EndedOK, Top
  <2> QED BY <1>1, <1>2, <1>3, <2>2, ShapeAdds
<1>7. CASE InitializeScope /\ ~UNCHANGED operators
  <2> DEFINE init == IF decl = "DECL_LAB" THEN "INIT_LAB" ELSE "INIT_PAL"
             ops == Pushed(operators, Node(init, 0, Initialized))
  <2>1. /\ operators' = ops /\ ~Full(operators) /\ pc' = AfterDeclaration(ops)
    BY <1>7 DEF InitializeScope
  <2>2. init \in {"INIT_LAB", "INIT_PAL"}
    OBVIOUS
  <2> HIDE DEF init
  <2>3. init \in OperatorTypes /\ OpsOK(operators) /\ Initialized \in Nat
    BY <2>2, Kept1, InitializedPlace DEF OperatorTypes, Inits
  <2>4. /\ Len(ops) = Len(operators) + 1 /\ ops[Len(operators) + 1].type = init
    BY <2>1, <2>3, OpsPushed
  <2> HIDE DEF ops
  <2>5. pc' = "instruction"
    BY <2>1, <2>2, <2>4 DEF AfterDeclaration, Top
  <2> QED BY <1>1, <1>2, <1>3, <2>5, ShapeNoneEnds
<1>8. InitializeNothing => UNCHANGED operators
  BY DEF InitializeNothing
<1>9. InitializeVariable \/ InitializeScope \/ InitializeNothing
  OBVIOUS
<1> QED BY <1>5, <1>6, <1>7, <1>8, <1>9

(* The arities on the buffer, after a step of an expression. *)
LEMMA ShapeExpression ==
    ASSUME BoundsInv, ShapeOK, pc = "expression", pc' # "terminator",
           UNCHANGED nodes \/ \E x : WritesOne(x),
           ArgumentsOK'
    PROVE  ShapeOK'
<1>1. /\ nodes \in Seq(Sound) /\ Beside(nodes) /\ ~LastIsInit(nodes)
  BY DEF ShapeOK, LastOK
<1>2. EndedOK'
  BY DEF EndedOK
<1>3. CASE UNCHANGED nodes
  <2>1. LastOK'
    BY <1>1, <1>3 DEF LastOK, LastIsInit
  <2>2. Beside(nodes)'
    BY <1>1, <1>3 DEF Beside
  <2> QED BY <1>1, <1>2, <1>3, <2>1, <2>2 DEF ShapeOK
<1>4. ASSUME NEW x, WritesOne(x) PROVE ShapeOK'
  <2>1. x \in Sound /\ x.type \notin Joining /\ nodes' = nodes \o <<x>>
    BY <1>4 DEF WritesOne
  <2> DEFINE ns == <<x>>
  <2>2. ns \in Seq(Sound) /\ nodes' = nodes \o ns /\ Len(ns) = 1 /\ ns[1] = x
    BY <2>1
  <2> HIDE DEF ns
  <2>3. Beside(ns)
    <3>1. \A n \in 1..Len(ns) : ns[n].type \notin Joining
      BY <2>1, <2>2
    <3> QED BY <3>1 DEF Beside, Joining
  <2>4. LastOK'
    <3>1. nodes'[Len(nodes')] = x
      <4>1. nodes'[Len(nodes')] = ns[Len(ns)]
        BY <2>2, Joined, SMTT(30)
      <4> QED BY <2>2, <4>1
    <3> QED BY <2>1, <3>1 DEF LastOK, LastIsInit, Joining
  <2> QED BY <1>1, <1>2, <2>2, <2>3, <2>4, ShapeJoined
<1> QED BY <1>3, <1>4

LEMMA ShapeReads ==
    ASSUME BoundsInv, ShapeOK, ~dropped',
           \/ PushCallee \/ Operand \/ PushOperator \/ OpenParenthesis
           \/ SeparateArguments \/ CloseParenthesis \/ Pops
    PROVE  ShapeOK'
<1>1. ASSUME NEW type \in PendingTypes, PushBuffer(Node(type, 0, i)), pc = "expression"
      PROVE  ShapeOK'
  <2>1. /\ UNCHANGED <<tokens, length, pc, nodes, contexts, operators, decl>>
        /\ \A b \in 1..Len(buffer') : \/ b = Len(buffer') /\ buffer'[b].arity = 0
                                      \/ b \in 1..Len(buffer) /\ buffer'[b] = buffer[b]
    BY <1>1, BufferPushed
  <2>2. ArgumentsOK'
    BY <2>1, PendingArity DEF ArgumentsOK
  <2> QED BY <1>1, <2>1, <2>2, ShapeExpression
<1>2. CASE PushCallee \/ PushOperator \/ OpenParenthesis
  <2>1. \E type \in PendingTypes : PushBuffer(Node(type, 0, i)) /\ pc = "expression"
    BY <1>2 DEF PushCallee, PushOperator, OpenParenthesis, Reading, PendingTypes, Algebraic
  <2> QED BY <1>1, <2>1
<1>3. CASE Operand
  <2>1. /\ \E x : WritesOne(x)
        /\ pc = "expression" /\ pc' \in {"expression", "aborted"} /\ UNCHANGED buffer
    BY <1>3, OperandWritten
  <2>2. ArgumentsOK'
    BY <2>1, PendingArity DEF ArgumentsOK
  <2> QED BY <2>1, <2>2, ShapeExpression
<1>4. CASE SeparateArguments
  <2>1. /\ pc = "expression" /\ pc' = pc /\ UNCHANGED nodes
        /\ Len(buffer') = Len(buffer)
        /\ \A b \in 1..Len(buffer) : buffer'[b].arity \in {buffer[b].arity, buffer[b].arity + 1}
    BY <1>4, ArgumentSeparated
  <2>2. ArgumentsOK'
    BY <2>1, PendingArity DEF ArgumentsOK
  <2> QED BY <2>1, <2>2, ShapeExpression
<1>5. CASE CloseParenthesis
  <2>1. /\ pc = "expression" /\ pc' \in {"expression", "aborted"}
        /\ \A b \in 1..Len(buffer') : b \in 1..Len(buffer) /\ buffer'[b] = buffer[b]
        /\ (UNCHANGED nodes \/ \E x : WritesOne(x))
    BY <1>5, ParenthesisClosed
  <2>2. ArgumentsOK'
    BY <2>1, PendingArity DEF ArgumentsOK
  <2> QED BY <2>1, <2>2, ShapeExpression
<1>6. CASE Pops
  <2>1. pc = "expression" /\ PopBuffer /\ buffer # <<>>
    BY <1>6, PopsFacts
  <2>2. /\ \E x : WritesOne(x)
        /\ \A b \in 1..Len(buffer') : b \in 1..Len(buffer) /\ buffer'[b] = buffer[b]
        /\ pc' \in {"expression", "rejected", "aborted"}
    BY <2>1, OperatorPopped
  <2>3. ArgumentsOK'
    BY <2>2, PendingArity DEF ArgumentsOK
  <2> QED BY <2>1, <2>2, <2>3, ShapeExpression
<1> QED BY <1>2, <1>3, <1>4, <1>5, <1>6

LEMMA ShapeEndExpression ==
    ASSUME BoundsInv, ShapeOK, StackOK, ForestOK, EndExpression, pc' # "aborted"
    PROVE  ShapeOK'
<1>1. /\ pc = "expression" /\ buffer = <<>> /\ pc' = "terminator" /\ UNCHANGED buffer
  BY ExpressionEnded
<1>2. ArgumentsOK' /\ ~LastIsInit(nodes)
  BY <1>1 DEF ArgumentsOK, ShapeOK, LastOK
<1>3. CASE UNCHANGED nodes /\ Top(operators').type = "EXP" /\ Top(operators').arity = 1
  <2>1. EndedOK'
    BY <1>3 DEF EndedOK, Top
  <2>2. LastOK'
    BY <1>2, <1>3 DEF LastOK, LastIsInit
  <2>3. Beside(nodes)' /\ nodes' \in Seq(Sound)
    BY <1>3 DEF ShapeOK, Beside
  <2> QED BY <1>2, <2>1, <2>2, <2>3 DEF ShapeOK
<1>4. ASSUME Top(operators').type = "DECL_VAR", NEW x \in Sound, NEW y \in Sound,
             nodes' = nodes \o <<x, y>>, x.type = "EXP", y.type = "INIT_VAR"
      PROVE  ShapeOK'
  <2> DEFINE ns == <<x, y>>
  <2>1. ns \in Seq(Sound) /\ nodes' = nodes \o ns /\ Len(ns) = 2 /\ ns[1] = x /\ ns[2] = y
    BY <1>4
  <2> HIDE DEF ns
  <2>2. Beside(ns)
    <3>1. \A n \in 1..Len(ns) : n = 1 \/ n = 2
      BY <2>1
    <3> QED BY <1>4, <2>1, <3>1 DEF Beside
  <2>3. LastOK' /\ EndedOK'
    BY <1>1, <1>4 DEF LastOK, EndedOK, Top
  <2> QED BY <1>2, <2>1, <2>2, <2>3, ShapeJoined
<1>5. \/ UNCHANGED nodes /\ Top(operators').type = "EXP" /\ Top(operators').arity = 1
      \/ /\ Top(operators').type = "DECL_VAR"
         /\ \E x \in Sound, y \in Sound :
               nodes' = nodes \o <<x, y>> /\ x.type = "EXP" /\ y.type = "INIT_VAR"
  BY ExpressionEnded
<1> QED BY <1>3, <1>4, <1>5

LEMMA ShapeEndInstruction ==
    ASSUME BoundsInv, ShapeOK, StackOK, ForestOK, EndInstruction
    PROVE  ShapeOK'
<1>1. /\ Terminating /\ At(i) = "SEMI" /\ nodes' = nodes \o Flushed
      /\ pc' \in {"instruction", "aborted"} /\ buffer = <<>> /\ UNCHANGED buffer
  BY DEF EndInstruction, Write, Terminating, Reading, BoundsInv, PhaseOK
<1>2. /\ Flushed \in Seq(Plain) /\ Flushed \in Seq(Sound)
      /\ LastIsInit(nodes) => Len(Flushed) > 0 /\ Flushed[1].type = "DECL_VAR"
  BY <1>1, FlushedPlain, SoundPlain
<1>3. Beside(Flushed) /\ ~LastIsInit(Flushed)
  BY <1>2, PlainBeside
<1>4. EndedOK' /\ ArgumentsOK'
  BY <1>1 DEF EndedOK, ArgumentsOK
<1> DEFINE ns == Flushed
<1>5. ns \in Seq(Sound) /\ nodes' = nodes \o ns /\ Beside(ns) /\ ~LastIsInit(ns)
      /\ (LastIsInit(nodes) => Len(ns) > 0 /\ ns[1].type = "DECL_VAR")
  BY <1>1, <1>2, <1>3
<1> HIDE DEF ns
<1>6. LastOK'
  <2>1. /\ Len(ns) \in Nat /\ (Len(ns) > 0 => nodes'[Len(nodes')] = ns[Len(ns)])
        /\ (Len(ns) = 0 => nodes' = nodes)
    BY <1>5, Joined
  <2>2. ~LastIsInit(nodes')
    <3>1. CASE Len(ns) > 0
      BY <1>5, <2>1, <3>1 DEF LastIsInit
    <3>2. CASE Len(ns) = 0
      BY <1>5, <2>1, <3>2
    <3> QED BY <2>1, <3>1, <3>2
  <2> QED BY <2>2 DEF LastOK, LastIsInit
<1> QED BY <1>4, <1>5, <1>6, ShapeJoined

LEMMA ShapeCloseScope ==
    ASSUME BoundsInv, ShapeOK, StackOK, ForestOK, CloseScope
    PROVE  ShapeOK'
<1>1. /\ pc' \in {"instruction", "aborted"} /\ buffer = <<>> /\ UNCHANGED buffer
  BY ScopeIsEnded
<1>2. PICK ns : ScopeEnded(ns)
  BY ScopeIsEnded
<1>3. /\ ns \in Seq(Sound) /\ nodes' = nodes \o ns /\ Len(ns) > 0 /\ Beside(ns)
      /\ LastIsInit(nodes) => ns[1].type = "DECL_VAR"
      /\ ns[Len(ns)].type # "INIT_VAR"
  BY <1>2 DEF ScopeEnded
<1>4. EndedOK' /\ ArgumentsOK'
  BY <1>1 DEF EndedOK, ArgumentsOK
<1>5. LastOK'
  <2>1. nodes'[Len(nodes')] = ns[Len(ns)]
    BY <1>3, Joined
  <2> QED BY <1>3, <2>1 DEF LastOK, LastIsInit
<1> QED BY <1>3, <1>4, <1>5, ShapeJoined

-----------------------------------------------------------------------------
(* The invariants                                                            *)

(* The array of nodes is sized by the shortest source of the tokens.         *)
LengthOK == All + Blanks <= length

RoomInv == ~dropped /\ pc \notin Failed => RoomOK
ShapeInv == ~dropped /\ pc \notin Failed => ShapeOK

LEMMA LengthKept == ASSUME [Next]_vars PROVE length' = length
<1>1. CASE Returned \/ UNCHANGED vars
  BY <1>1 DEF Returned, vars
<1>2. CASE GroupQualifiers \/ OpenScope \/ StartExpression \/ ImportModules \/ Declare
  BY <1>2 DEF GroupQualifiers, OpenScope, StartExpression, ImportModules, Declare, input
<1>3. CASE TypeVar \/ EndType \/ OpenParameters \/ Parameter \/ CloseParameters
  BY <1>3 DEF TypeVar, EndType, OpenParameters, Parameter, CloseParameters, input
<1>4. CASE InitializeVariable \/ InitializeNothing \/ InitializeScope
  BY <1>4 DEF InitializeVariable, InitializeNothing, InitializeScope, input
<1>5. CASE PushCallee \/ Operand \/ PushOperator \/ OpenParenthesis \/ SeparateArguments
  BY <1>5 DEF PushCallee, Operand, PushOperator, OpenParenthesis, SeparateArguments, PushBuffer, input
<1>6. CASE PopForOperator \/ PopToParenthesis \/ PopRemaining
  BY <1>6 DEF PopForOperator, PopToParenthesis, PopRemaining, PopBuffer, input
<1>7. CASE CloseParenthesis \/ RunBelowBuffer \/ EndExpression
  BY <1>7 DEF CloseParenthesis, RunBelowBuffer, EndExpression, input
<1>8. CASE EndInstruction \/ CloseScope \/ EndOfSource \/ Reject \/ ReadBehindTokens
  BY <1>8 DEF EndInstruction, CloseScope, EndOfSource, Reject, ReadBehindTokens, input
<1> QED BY <1>1, <1>2, <1>3, <1>4, <1>5, <1>6, <1>7, <1>8 DEF Next

LEMMA NextLength == ASSUME LengthOK, [Next]_vars PROVE LengthOK' /\ All' = All
BY TokensKept, LengthKept DEF LengthOK, All

LEMMA InitShape == Init => RoomOK /\ ShapeOK /\ VariableOK /\ LengthOK
<1> SUFFICES ASSUME Init PROVE RoomOK /\ ShapeOK /\ VariableOK /\ LengthOK
  OBVIOUS
<1>1. /\ pc = "instruction" /\ i = 1 /\ nodes = <<>> /\ operators = <<>> /\ buffer = <<>>
      /\ contexts = <<Context("SCOPE_0", 0, 0)>> /\ length = ShortestSource(tokens) + Blanks
  BY DEF Init, Start, Begin
<1>2. tokens \in Seq(Token) /\ Blanks \in Nat
  BY ParserAssumption DEF Init, ParserAssumption
<1>3. BoundsInv
  BY InitBounds
<1>4. RoomOK
  <2>1. Len(nodes) = 0 /\ Len(operators) = 0 /\ Len(buffer) = 0 /\ Len(contexts) = 1
    BY <1>1
  <2>2. Excess(nodes) = 0 /\ Excess(buffer) = 0 /\ CalleeRead = 0
    <3>1. <<>> \in Seq(Written)
      OBVIOUS
    <3>2. Excess(<<>>) = 0
      BY <3>1, ExcessType
    <3> QED BY <1>1, <1>3, <3>2, RoomTypes
  <2>3. Spent = 0
    <3>1. i - 1 = 0
      BY <1>1
    <3>2. Characters(tokens)[0] = 0
      BY <1>2, CharactersFacts
    <3> QED BY <3>1, <3>2 DEF Spent
  <2>4. Allowed \in Int /\ Allowed >= 0
    BY <1>1 DEF Allowed
  <2>5. Needed = 0
    BY <2>1 DEF Needed
  <2> QED BY <2>2, <2>3, <2>4, <2>5 DEF RoomOK, Room
<1>5. ShapeOK
  <2>1. nodes \in Seq(Sound) /\ Len(nodes) = 0 /\ Len(buffer) = 0
    BY <1>1
  <2> QED BY <1>1, <2>1 DEF ShapeOK, Beside, LastOK, LastIsInit, EndedOK, ArgumentsOK
<1>6. VariableOK
  BY <1>1 DEF VariableOK
<1>7. LengthOK
  <2>1. ShortestSource(tokens) >= All /\ ShortestSource(tokens) \in Int
    BY <1>2, CharactersFacts DEF All
  <2>2. All \in Int
    BY <1>3, SpentType DEF SpentOK
  <2> DEFINE x == All
             y == ShortestSource(tokens)
  <2>3. x \in Int /\ y \in Int /\ y >= x /\ length = y + Blanks
    BY <1>1, <2>1, <2>2
  <2> HIDE DEF x, y
  <2>4. x + Blanks <= length
    BY <1>2, <2>3
  <2> QED BY <2>4 DEF LengthOK, x
<1> QED BY <1>4, <1>5, <1>6, <1>7

(* A parser that has returned takes no step. *)
LEMMA Runs == ASSUME Next, ~Returned PROVE pc \notin Outcomes
<1>1. CASE GroupQualifiers \/ OpenScope \/ StartExpression \/ ImportModules \/ Declare
  BY <1>1 DEF GroupQualifiers, OpenScope, StartExpression, ImportModules, Declare, Reading, Outcomes
<1>2. CASE TypeVar \/ EndType \/ OpenParameters \/ Parameter \/ CloseParameters
  BY <1>2 DEF TypeVar, EndType, OpenParameters, Parameter, CloseParameters, Reading, Outcomes
<1>3. CASE InitializeVariable \/ InitializeNothing \/ InitializeScope
  BY <1>3 DEF InitializeVariable, InitializeNothing, InitializeScope, Reading, Outcomes
<1>4. CASE PushCallee \/ Operand \/ PushOperator \/ OpenParenthesis \/ SeparateArguments
  BY <1>4 DEF PushCallee, Operand, PushOperator, OpenParenthesis, SeparateArguments, Reading, Outcomes
<1>5. CASE PopForOperator \/ PopToParenthesis \/ PopRemaining \/ CloseParenthesis
           \/ RunBelowBuffer \/ EndExpression
  BY <1>5 DEF PopForOperator, PopToParenthesis, PopRemaining, CloseParenthesis, RunBelowBuffer,
              EndExpression, ExpressionEnds, Reading, Outcomes
<1>6. CASE EndInstruction \/ CloseScope \/ EndOfSource \/ Reject \/ ReadBehindTokens
  BY <1>6 DEF EndInstruction, CloseScope, EndOfSource, Reject, Malformed, ReadBehindTokens,
              Terminating, Reading, Outcomes
<1> QED BY <1>1, <1>2, <1>3, <1>4, <1>5, <1>6 DEF Next

Gives == RunBelowBuffer \/ Reject \/ ReadBehindTokens

LEMMA NextHoused ==
    ASSUME BoundsInv, BoundsInv', StackOK, ForestOK, ShapeOK, VariableOK, RoomOK,
           Next, ~Returned, ~Gives, ~dropped'
    PROVE  Housed
<1>1. pc # "expression" /\ pc \notin Outcomes => buffer = <<>>
  BY DEF BoundsInv, PhaseOK, Outcomes
<1>2. CASE GroupQualifiers \/ OpenScope \/ StartExpression \/ ImportModules \/ Declare
  <2>1. buffer = <<>>
    BY <1>1, <1>2, Runs DEF GroupQualifiers, OpenScope, StartExpression, ImportModules, Declare, Reading
  <2> QED BY <1>2, <2>1, RoomGroupQualifiers, RoomOpenScope, RoomStartExpression, RoomImportModules,
             RoomDeclare
<1>3. CASE TypeVar \/ EndType \/ OpenParameters \/ Parameter \/ CloseParameters
  <2>1. buffer = <<>>
    BY <1>1, <1>3, Runs DEF TypeVar, EndType, OpenParameters, Parameter, CloseParameters, Reading
  <2> QED BY <1>3, <2>1, RoomTypeVar, RoomEndType, RoomOpenParameters, RoomParameter,
             RoomCloseParameters
<1>4. CASE InitializeVariable \/ InitializeNothing \/ InitializeScope
  <2>1. buffer = <<>>
    BY <1>1, <1>4, Runs DEF InitializeVariable, InitializeNothing, InitializeScope, Reading
  <2> QED BY <1>4, <2>1, RoomInitializeVariable, RoomInitializeNothing, RoomInitializeScope
<1>5. CASE PushCallee \/ PushOperator \/ OpenParenthesis
  <2>1. PICK type \in PendingTypes :
           /\ PushBuffer(Node(type, 0, i)) /\ pc = "expression" /\ At(i) # "NO"
           /\ type = "CALLEE" => Callee(i)
           /\ At(i) = "LPAR" <=> type = "LPAR"
    BY <1>5 DEF PushCallee, PushOperator, OpenParenthesis, Reading, PendingTypes, Algebraic, Callee
  <2> QED BY <2>1, RoomPush
<1>6. CASE Operand \/ SeparateArguments \/ CloseParenthesis
  BY <1>6, RoomOperand, RoomSeparateArguments, RoomCloseParenthesis
<1>7. CASE PopForOperator \/ PopToParenthesis \/ PopRemaining
  BY <1>7, RoomPops DEF Pops
<1>8. CASE EndExpression \/ EndInstruction \/ CloseScope \/ EndOfSource
  BY <1>8, RoomEndExpression, RoomEndInstruction, RoomCloseScope, RoomEndOfSource
<1> QED BY <1>2, <1>3, <1>4, <1>5, <1>6, <1>7, <1>8 DEF Next, Gives

LEMMA NextShapeOK ==
    ASSUME BoundsInv, BoundsInv', StackOK, ForestOK, ShapeOK, Next, ~Returned, ~Gives, ~dropped',
           pc' # "aborted"
    PROVE  ShapeOK'
<1>1. CASE GroupQualifiers \/ OpenScope \/ StartExpression \/ ImportModules \/ Declare
  <2>1. pc # "expression" /\ pc \notin Outcomes
    BY <1>1, Runs DEF GroupQualifiers, OpenScope, StartExpression, ImportModules, Declare, Reading
  <2>2. buffer = <<>>
    BY <2>1 DEF BoundsInv, PhaseOK, Outcomes
  <2> QED BY <1>1, <2>2, ShapeInstruction
<1>2. CASE TypeVar \/ EndType \/ OpenParameters \/ Parameter \/ CloseParameters
  BY <1>2, ShapeType
<1>3. CASE InitializeVariable \/ InitializeNothing \/ InitializeScope
  BY <1>3, ShapeInit
<1>4. CASE \/ PushCallee \/ Operand \/ PushOperator \/ OpenParenthesis
           \/ SeparateArguments \/ CloseParenthesis \/ Pops
  BY <1>4, ShapeReads
<1>5. CASE EndExpression
  BY <1>5, ShapeEndExpression
<1>6. CASE EndInstruction \/ CloseScope
  BY <1>6, ShapeEndInstruction, ShapeCloseScope
<1>7. CASE EndOfSource
  <2>1. UNCHANGED nodes /\ pc = "instruction" /\ pc' \in {"accepted", "rejected"}
    BY <1>7 DEF EndOfSource
  <2>2. Adds(0)
    BY <2>1, AddsNothing
  <2> QED BY <2>1, <2>2, ShapeNoneEnds
<1> QED BY <1>1, <1>2, <1>3, <1>4, <1>5, <1>6, <1>7 DEF Next, Gives, Pops

(* What the invariants say of a step that was taken. *)
LEMMA Running ==
    ASSUME StackInv, ForestInv, RoomInv, ShapeInv, Next, ~Returned, ~dropped'
    PROVE  StackOK /\ ForestOK /\ RoomOK /\ ShapeOK
<1>1. ~dropped
  BY DroppedKept
<1>2. pc \notin Failed
  BY Runs DEF Failed, Outcomes
<1> QED BY <1>1, <1>2 DEF StackInv, ForestInv, RoomInv, ShapeInv

LEMMA NextRoomAndShape ==
    ASSUME BoundsInv, BoundsInv', StackInv, ForestInv, RoomInv, ShapeInv, VariableOK, [Next]_vars
    PROVE  RoomInv' /\ ShapeInv'
<1> SUFFICES ASSUME ~dropped', pc' \notin Failed PROVE RoomOK' /\ ShapeOK'
  BY DEF RoomInv, ShapeInv
<1>1. CASE Returned \/ UNCHANGED vars
  <2>1. UNCHANGED vars
    BY <1>1 DEF Returned
  <2>2. RoomOK /\ ShapeOK
    BY <2>1 DEF RoomInv, ShapeInv, vars
  <2>3. RoomOK'
    BY <2>1, <2>2 DEF RoomOK, Room, Needed, Allowed, CalleeRead, TopType, Top, Excess, Number, Places,
       Spent, At, vars
  <2>4. ShapeOK'
    BY <2>1, <2>2 DEF ShapeOK, Beside, LastOK, LastIsInit, EndedOK, ArgumentsOK, Top, vars
  <2> QED BY <2>3, <2>4
<1>2. CASE ~(Returned \/ UNCHANGED vars)
  <2>1. StackOK /\ ForestOK /\ RoomOK /\ ShapeOK /\ Next /\ ~Returned
    BY <1>2, Running
  <2>2. ~Gives /\ pc' # "aborted"
    BY DEF Gives, RunBelowBuffer, Reject, ReadBehindTokens, Failed
  <2>3. ShapeOK'
    BY <2>1, <2>2, NextShapeOK
  <2>4. NodeBound'
    <3>1. Housed
      BY <2>1, <2>2, NextHoused
    <3> QED BY <3>1, NextRoomed DEF Housed
  <2>5. RoomOK'
    BY <2>4 DEF NodeBound
  <2> QED BY <2>3, <2>5
<1> QED BY <1>1, <1>2

LEMMA NextAborts ==
    ASSUME Blanks > 0, BoundsInv, BoundsInv', StackInv, ForestInv, RoomInv, ShapeInv, VariableOK,
           LengthOK, AbortsOnlyAtComma, [Next]_vars
    PROVE  AbortsOnlyAtComma'
<1> SUFFICES ASSUME ~dropped', pc' = "aborted" PROVE At(i)' = "COMMA" /\ buffer' = <<>>
  BY DEF AbortsOnlyAtComma
<1>1. CASE Returned \/ UNCHANGED vars
  BY <1>1 DEF Returned, vars, AbortsOnlyAtComma, At
<1>2. CASE ~(Returned \/ UNCHANGED vars)
  <2>1. StackOK /\ ForestOK /\ RoomOK /\ ShapeOK /\ Next /\ ~Returned
    BY <1>2, Running
  <2>2. All' = All /\ length' = length /\ tokens' = tokens
    BY NextLength, LengthKept, TokensKept
  <2>3. All < length /\ All \in Int /\ length \in Nat
    <3> DEFINE x == All
    <3>1. x \in Int /\ x + Blanks <= length /\ length \in Nat /\ Blanks \in Nat
      BY SpentType, ParserAssumption DEF SpentOK, LengthOK, BoundsInv, InputOK, ParserAssumption
    <3> HIDE DEF x
    <3>2. x < length
      BY <3>1
    <3> QED BY <3>1, <3>2 DEF x
  <2>4. CASE RunBelowBuffer
    <3>1. At(i) = "COMMA" /\ buffer' = <<>> /\ i' = i /\ tokens' = tokens
      BY <2>1, <2>3, <2>4, RoomRunBelowBuffer
    <3> QED BY <3>1 DEF At
  <2>5. CASE ~RunBelowBuffer
    <3>1. ~Gives
      BY <2>5 DEF Gives, Reject, ReadBehindTokens
    <3>2. Housed
      BY <2>1, <3>1, NextHoused
    <3>3. ~(Len(nodes') < length) /\ NodeBound'
      BY <3>2, NextRoomed DEF Housed
    <3>4. Len(nodes') <= All /\ Len(nodes') \in Nat
      <4>1. RoomIntegers'
        BY NextRoomTypes
      <4> QED BY <2>2, <3>3, <4>1 DEF NodeBound, RoomIntegers
    <3> DEFINE x == All
               y == Len(nodes')
    <3>5. x < length /\ x \in Int /\ length \in Nat /\ y <= x /\ y \in Nat /\ ~(y < length)
      BY <2>3, <3>3, <3>4
    <3> HIDE DEF x, y
    <3> QED BY <3>5
  <2> QED BY <2>4, <2>5
<1> QED BY <1>1, <1>2

(* Every node makes one quadruple or operand at most, a callee two, and the  *)
(* nodes fit into the characters of the source.                              *)
LEMMA NodesHaveRoom ==
    ASSUME BoundsInv, RoomOK, nodes \in Seq(Sound), LengthOK, pc = "accepted", buffer = <<>>
    PROVE  HasRoom(nodes, length)
<1> DEFINE len == Len(nodes)
           parens == Places(nodes, "LPAR")
           writers == Writers(nodes)
<1>1. /\ nodes \in Seq(Written) /\ len \in Nat /\ DOMAIN nodes = 1..len
      /\ length \in Nat
  BY SoundPlain DEF BoundsInv, InputOK
<1>2. Callees(nodes) = Places(nodes, "CALLEE")
  BY <1>1 DEF Callees, Places
<1>3. /\ IsFiniteSet(parens) /\ Number(nodes, "LPAR") \in Nat
      /\ Number(nodes, "CALLEE") \in Nat
  BY <1>1, NumberType
<1>4. writers \subseteq (1..len) \ parens
  <2> SUFFICES ASSUME NEW n \in 1..len, n \in writers, nodes[n].type = "LPAR" PROVE FALSE
    BY <1>1 DEF Writers, Places
  <2>1. nodes[n] \in Sound
    OBVIOUS
  <2>2. nodes[n].arity > 0 /\ nodes[n].arity \in Int
    BY <2>1, ItemFields DEF Sound, Written
  <2> QED BY <2>2 DEF Writers
<1>5. Cardinality(writers) \in Nat /\ Cardinality(writers) <= len - Number(nodes, "LPAR")
  <2> HIDE DEF writers, parens
  <2>1. IsFiniteSet(1..len) /\ Cardinality(1..len) = len
    <3>1. Cardinality(1..len) = IF 1 > len THEN 0 ELSE len - 1 + 1
      BY <1>1, FS_Interval
    <3> QED BY <1>1, <3>1, FS_Interval
  <2>2. IsFiniteSet((1..len) \ parens)
        /\ Cardinality((1..len) \ parens) = Cardinality(1..len) - Cardinality((1..len) \cap parens)
    BY <2>1, FS_Difference
  <2>3. (1..len) \cap parens = parens
    BY DEF parens, Places
  <2>4. IsFiniteSet(writers) /\ Cardinality(writers) <= Cardinality((1..len) \ parens)
    BY <1>4, <2>2, FS_Subset
  <2>5. Cardinality(parens) = Number(nodes, "LPAR")
    BY DEF parens, Number
  <2>6. Cardinality((1..len) \ parens) = len - Number(nodes, "LPAR")
    BY <2>1, <2>2, <2>3, <2>5
  <2>7. Cardinality(writers) \in Nat
    BY <2>4, FS_CardinalityType
  <2> QED BY <2>4, <2>6, <2>7
<1>6. len + Excess(nodes) <= length
  <2>1. /\ Len(operators) \in Nat /\ Len(buffer) = 0 /\ Len(contexts) \in Nat /\ Len(contexts) >= 1
        /\ Excess(nodes) \in Int /\ Excess(buffer) = 0 /\ CalleeRead = 0
    BY RoomTypes
  <2>2. Allowed = 0
    BY DEF Allowed
  <2>3. Needed + Excess(nodes) <= Spent
    BY <2>1, <2>2, SpentType, RoomTypes DEF RoomOK, Room, SpentOK
  <2>4. len + Excess(nodes) <= Needed + Excess(nodes) /\ Needed \in Int
    BY <1>1, <2>1 DEF Needed
  <2>5. Spent <= All /\ All + Blanks <= length /\ Spent \in Int /\ All \in Int /\ Blanks \in Nat
    BY SpentType, ParserAssumption DEF SpentOK, LengthOK, ParserAssumption
  <2> DEFINE x == Needed + Excess(nodes)
             y == len + Excess(nodes)
             s == Spent
             a == All
  <2>6. /\ x \in Int /\ y \in Int /\ s \in Int /\ a \in Int /\ Blanks \in Nat
        /\ y <= x /\ x <= s /\ s <= a /\ a + Blanks <= length
    BY <1>1, <2>1, <2>3, <2>4, <2>5
  <2> HIDE DEF x, y, s, a
  <2>7. y <= length
    BY <1>1, <2>6
  <2> QED BY <2>7 DEF y
<1>7. Cardinality(Callees(nodes)) = Number(nodes, "CALLEE")
  BY <1>2 DEF Number
<1> DEFINE w == Cardinality(writers)
           c == Number(nodes, "CALLEE")
           p == Number(nodes, "LPAR")
<1>8. /\ w \in Nat /\ c \in Nat /\ p \in Nat /\ len \in Nat /\ length \in Nat
      /\ w <= len - p /\ len + (c - p) <= length
  BY <1>1, <1>3, <1>5, <1>6 DEF Excess
<1> HIDE DEF w, c, p, len
<1>9. w + c <= length
  BY <1>8
<1> QED BY <1>1, <1>7, <1>9 DEF HasRoom, w, c

LEMMA AcceptedWellShaped ==
    ASSUME BoundsInv, RoomOK, ShapeOK, LengthOK, pc = "accepted"
    PROVE  WellShaped(nodes, length)
<1>1. buffer = <<>>
  BY DEF BoundsInv, PhaseOK
<1>2. /\ nodes \in Seq(Sound) /\ Beside(nodes) /\ ~LastIsInit(nodes)
      /\ Len(nodes) \in Nat /\ DOMAIN nodes = 1..Len(nodes)
  BY DEF ShapeOK, LastOK
<1>3. \A n \in DOMAIN nodes : /\ nodes[n] \in Sound
                              /\ nodes[n].arity \in Int
  <2> TAKE n \in DOMAIN nodes
  <2>1. nodes[n] \in Sound
    BY <1>2
  <2> QED BY <2>1, ItemFields DEF Sound, Written
<1>4. IsForest(nodes)
  <2>1. NodeTypes \subseteq ForestTypes
    BY DEF NodeTypes, OperatorTypes, ExpressionTypes, Decls, Inits, ForestTypes
  <2>2. Sound \subseteq [type : ForestTypes, arity : Nat, token : Nat]
    <3> SUFFICES ASSUME NEW x \in Sound PROVE x \in [type : ForestTypes, arity : Nat, token : Nat]
      OBVIOUS
    <3>1. x \in [type : NodeTypes, arity : Int, token : Nat] /\ x.arity >= 0
      BY DEF Sound, Written, Items
    <3>2. x.type \in ForestTypes /\ x.arity \in Nat /\ x.token \in Nat
      BY <2>1, <3>1
    <3>3. x = [type |-> x.type, arity |-> x.arity, token |-> x.token]
      BY <3>1
    <3> QED BY <3>2, <3>3
  <2> DEFINE T == [type : ForestTypes, arity : Nat, token : Nat]
  <2>3. nodes \in Seq(T)
    <3> HIDE DEF T
    <3>1. nodes \in Seq(Sound) /\ \A x \in Sound : x \in T
      BY <1>2, <2>2 DEF T
    <3> QED BY <3>1
  <2> QED BY <2>3 DEF IsForest
<1>5. Arities(nodes)
  BY <1>3 DEF Arities, Sound
<1>6. SideBySide(nodes)
  <2> SUFFICES ASSUME NEW n \in DOMAIN nodes
               PROVE  /\ nodes[n].type = "SCOPE_END" => HasType(nodes, n + 1, "SCOPE")
                      /\ nodes[n].type = "SCOPE" => HasType(nodes, n - 1, "SCOPE_END")
                      /\ nodes[n].type = "INIT_LAB" =>
                            HasType(nodes, n - 1, "SCOPE") /\ HasType(nodes, n + 1, "DECL_LAB")
                      /\ nodes[n].type = "INIT_PAL" =>
                            HasType(nodes, n - 1, "SCOPE") /\ HasType(nodes, n + 1, "DECL_PAL")
                      /\ nodes[n].type = "INIT_VAR" =>
                            HasType(nodes, n - 1, "EXP") /\ HasType(nodes, n + 1, "DECL_VAR")
    BY DEF SideBySide
  <2>1. n \in 1..Len(nodes)
    BY <1>2
  <2>2. n > 1 => n - 1 \in DOMAIN nodes
    BY <1>2, <2>1
  <2>3. n < Len(nodes) => n + 1 \in DOMAIN nodes
    BY <1>2, <2>1
  <2>4. nodes[n].type = "INIT_VAR" => n < Len(nodes)
    BY <1>2, <2>1 DEF LastIsInit
  <2>5. /\ nodes[n].type = "SCOPE_END" => n < Len(nodes) /\ nodes[n + 1].type = "SCOPE"
        /\ nodes[n].type = "SCOPE" => n > 1 /\ nodes[n - 1].type = "SCOPE_END"
        /\ nodes[n].type = "INIT_LAB" =>
              /\ n > 1 /\ nodes[n - 1].type = "SCOPE"
              /\ n < Len(nodes) /\ nodes[n + 1].type = "DECL_LAB"
        /\ nodes[n].type = "INIT_PAL" =>
              /\ n > 1 /\ nodes[n - 1].type = "SCOPE"
              /\ n < Len(nodes) /\ nodes[n + 1].type = "DECL_PAL"
        /\ nodes[n].type = "INIT_VAR" =>
              /\ n > 1 /\ nodes[n - 1].type = "EXP"
              /\ n < Len(nodes) => nodes[n + 1].type = "DECL_VAR"
    BY <1>2, <2>1 DEF Beside
  <2> QED BY <2>2, <2>3, <2>4, <2>5 DEF HasType
<1>7. HasRoom(nodes, length)
  BY <1>1, <1>2, NodesHaveRoom
<1> QED BY <1>4, <1>5, <1>6, <1>7 DEF WellShaped

(* What every step keeps. *)
ShapedInv ==
    /\ BoundsInv /\ StackInv /\ ForestInv /\ RoomInv /\ ShapeInv
    /\ VariableOK /\ LengthOK

LEMMA InitShaped == Init => ShapedInv
BY InitBounds, InitStack, InitForest, InitShape
   DEF ShapedInv, StackInv, ForestInv, RoomInv, ShapeInv

LEMMA NextShaped == ASSUME ShapedInv, [Next]_vars PROVE ShapedInv'
<1>1. BoundsInv'
  BY NextBounds DEF ShapedInv
<1>2. StackInv'
  BY <1>1, NextStack DEF ShapedInv
<1>3. ForestInv'
  BY <1>1, <1>2, NextForest DEF ShapedInv
<1>4. RoomInv' /\ ShapeInv'
  BY <1>1, NextRoomAndShape DEF ShapedInv
<1>5. VariableOK'
  BY <1>1, NextVariable DEF ShapedInv
<1>6. LengthOK'
  BY NextLength DEF ShapedInv
<1> QED BY <1>1, <1>2, <1>3, <1>4, <1>5, <1>6 DEF ShapedInv

(* create_tac may rely on the forest it is given, whatever the source and    *)
(* however long it is: what Quadruples assumes of its nodes, the parser      *)
(* keeps.                                                                    *)
THEOREM AcceptedFeedsQuadruples == Spec => []FeedsQuadruples
<1>1. ShapedInv => FeedsQuadruples
  BY AcceptedWellShaped
     DEF ShapedInv, FeedsQuadruples, RoomInv, ShapeInv, Failed
<1> QED BY InitShaped, NextShaped, <1>1, PTL DEF Spec

(* The array that is sized by the characters of the source has room for the  *)
(* nodes of any source with a blank, and what a scope initializes is found:  *)
(* the parser aborts at a comma outside parentheses and nowhere else.        *)
THEOREM AbortsAtComma == ASSUME Blanks > 0 PROVE Spec => []AbortsOnlyAtComma
<1> DEFINE Inv == ShapedInv /\ AbortsOnlyAtComma
<1>1. Init => Inv
  <2>1. Init => AbortsOnlyAtComma
    BY DEF AbortsOnlyAtComma, Init, Start, Begin
  <2> QED BY <2>1, InitShaped
<1>2. Inv /\ [Next]_vars => Inv'
  <2> SUFFICES ASSUME Inv, [Next]_vars PROVE Inv'
    OBVIOUS
  <2>1. ShapedInv'
    BY NextShaped
  <2>2. AbortsOnlyAtComma'
    BY <2>1, NextAborts DEF ShapedInv
  <2> QED BY <2>1, <2>2
<1> QED BY <1>1, <1>2, PTL DEF Spec

=============================================================================

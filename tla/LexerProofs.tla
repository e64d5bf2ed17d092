---------------------------- MODULE LexerProofs ------------------------------
(***************************************************************************)
(* Proofs about Lexer, for every text: the bounds of its positions and of  *)
(* its array of tokens, that the tokens keep the order of the text, cover  *)
(* it and balance its parentheses, and where it fails to return them.      *)
(***************************************************************************)
EXTENDS Lexer, FiniteSetTheorems, WellFoundedInduction, TLAPS

-----------------------------------------------------------------------------
(* Numbers, sums and lists                                                   *)

(* A set of numbers has a least one: the finite sets 1..x are well-founded.  *)
LEMMA LeastNat ==
    ASSUME NEW T \in SUBSET Nat, T # {}
    PROVE  \E x \in T : \A y \in T : x <= y
<1> DEFINE Up == {1..x : x \in T}
<1>1. Up \subseteq FiniteSubsetsOf(Nat)
  BY FS_Interval DEF FiniteSubsetsOf
<1>2. IsWellFoundedOn(StrictSubsetOrdering(Nat), FiniteSubsetsOf(Nat))
  BY FS_StrictSubsetOrderingWellFounded
<1>3. PICK X \in Up : \A Y \in Up : ~(<<Y, X>> \in StrictSubsetOrdering(Nat))
  <2> Up # {} OBVIOUS
  <2> HIDE DEF Up
  <2> QED BY <1>1, <1>2, WFMin
<1>4. PICK x \in T : X = 1..x
  BY <1>3
<1>5. ASSUME NEW y \in T, y < x PROVE FALSE
  <2>1. <<1..y, X>> \notin StrictSubsetOrdering(Nat)
    BY <1>3
  <2>2. 1..y \in SUBSET Nat /\ 1..x \in SUBSET Nat
    OBVIOUS
  <2>3. 1..y \subseteq 1..x /\ 1..y # 1..x
    <3>1. x \in 1..x /\ x \notin 1..y
      BY <1>5
    <3> QED BY <3>1, <1>5
  <2> QED BY <2>1, <2>2, <2>3, <1>4 DEF StrictSubsetOrdering
<1> QED BY <1>5

(* What Min and Max return. *)
LEMMA LeastOf ==
    ASSUME NEW S \in SUBSET Nat, S # {}
    PROVE  Min(S) \in S /\ \A x \in S : Min(S) <= x
BY LeastNat DEF Min

LEMMA GreatestOf ==
    ASSUME NEW a \in Nat, NEW S \in SUBSET (0..a), S # {}
    PROVE  Max(S) \in S /\ \A x \in S : x <= Max(S)
<1> DEFINE T == {a - x : x \in S}
<1>0. \A x \in S : x \in Int /\ a - x \in Nat
  <2>1. \A x \in 0..a : x \in Int /\ a - x \in Nat
    OBVIOUS
  <2> QED BY <2>1
<1>1. T \in SUBSET Nat /\ T # {}
  BY <1>0
<1>2. PICK y \in T : \A z \in T : y <= z
  <2> HIDE DEF T
  <2> QED BY <1>1, LeastNat
<1>3. PICK x \in S : y = a - x
  BY <1>2
<1>4. \A z \in S : x >= z
  <2> SUFFICES ASSUME NEW z \in S PROVE x >= z
    OBVIOUS
  <2>1. a - z \in T
    OBVIOUS
  <2>2. a - x <= a - z
    BY <1>2, <1>3, <2>1
  <2>3. x \in Int /\ z \in Int
    BY <1>0
  <2> QED BY <2>2, <2>3
<1>5. Max(S) \in S /\ \A z \in S : Max(S) >= z
  BY <1>3, <1>4 DEF Max
<1>6. \A z \in S : Max(S) >= z => z <= Max(S)
  <2> HIDE DEF T
  <2> QED BY <1>0, <1>5
<1> QED BY <1>5, <1>6

(* The sums of the first numbers of a list: a least length without them      *)
(* could be reached from the one before.                                     *)
LEMMA SumExists ==
    ASSUME NEW n \in Nat, NEW d
    PROVE  \E f : f = [k \in 0..n |-> IF k = 0 THEN 0 ELSE f[k - 1] + d[k]]
<1> DEFINE Solves(f, m) == f = [k \in 0..m |-> IF k = 0 THEN 0 ELSE f[k - 1] + d[k]]
           Unsolved == {m \in Nat : ~\E f : Solves(f, m)}
<1>1. Unsolved = {}
  <2> SUFFICES ASSUME Unsolved # {} PROVE FALSE
    OBVIOUS
  <2>1. PICK m \in Unsolved : \A y \in Unsolved : m <= y
    <3>1. Unsolved \in SUBSET Nat
      OBVIOUS
    <3> HIDE DEF Unsolved
    <3> QED BY <3>1, LeastNat
  <2>2. CASE m = 0
    <3> DEFINE f == [k \in 0..0 |-> 0]
    <3>1. Solves(f, 0)
      OBVIOUS
    <3> HIDE DEF Solves
    <3> QED BY <2>1, <2>2, <3>1
  <2>3. CASE m # 0
    <3>1. m \in Nat /\ m - 1 \in Nat /\ m - 1 \notin Unsolved
      <4>1. m \in Nat /\ m - 1 \in Nat /\ ~(m <= m - 1)
        BY <2>3
      <4> HIDE DEF Unsolved
      <4> QED BY <2>1, <4>1
    <3>2. PICK g : Solves(g, m - 1)
      BY <3>1
    <3> DEFINE h == [k \in 0..m |-> IF k < m THEN g[k] ELSE g[m - 1] + d[m]]
    <3>3. ASSUME NEW k \in 0..m
          PROVE  h[k] = IF k = 0 THEN 0 ELSE h[k - 1] + d[k]
      <4>1. CASE k = m
        <5>1. h[k] = g[m - 1] + d[m] /\ h[k - 1] = g[m - 1]
          BY <3>1, <4>1
        <5> QED BY <2>3, <4>1, <5>1
      <4>2. CASE k # m
        <5>1. k \in 0..(m - 1) /\ h[k] = g[k]
          BY <3>1, <4>2
        <5>2. k # 0 => h[k - 1] = g[k - 1]
          BY <3>1, <4>2
        <5>3. g[k] = IF k = 0 THEN 0 ELSE g[k - 1] + d[k]
          BY <3>2, <5>1
        <5> QED BY <5>1, <5>2, <5>3
      <4> QED BY <4>1, <4>2
    <3>4. Solves(h, m)
      <4>1. h = [k \in 0..m |-> h[k]]
        OBVIOUS
      <4> HIDE DEF h
      <4> QED BY <3>3, <4>1
    <3> HIDE DEF Solves
    <3> QED BY <2>1, <3>4
  <2> QED BY <2>2, <2>3
<1>2. PICK f : Solves(f, n)
  BY <1>1
<1> QED BY <1>2

(* The same of lists, one behind the other.                                  *)
LEMMA JoinExists ==
    ASSUME NEW n \in Nat, NEW d
    PROVE  \E f : f = [k \in 0..n |-> IF k = 0 THEN <<>> ELSE f[k - 1] \o d[k]]
<1> DEFINE Solves(f, m) == f = [k \in 0..m |-> IF k = 0 THEN <<>> ELSE f[k - 1] \o d[k]]
           Unsolved == {m \in Nat : ~\E f : Solves(f, m)}
<1>1. Unsolved = {}
  <2> SUFFICES ASSUME Unsolved # {} PROVE FALSE
    OBVIOUS
  <2>1. PICK m \in Unsolved : \A y \in Unsolved : m <= y
    <3>1. Unsolved \in SUBSET Nat
      OBVIOUS
    <3> HIDE DEF Unsolved
    <3> QED BY <3>1, LeastNat
  <2>2. CASE m = 0
    <3> DEFINE f == [k \in 0..0 |-> <<>>]
    <3>1. Solves(f, 0)
      OBVIOUS
    <3> HIDE DEF Solves
    <3> QED BY <2>1, <2>2, <3>1
  <2>3. CASE m # 0
    <3>1. m \in Nat /\ m - 1 \in Nat /\ m - 1 \notin Unsolved
      <4>1. m \in Nat /\ m - 1 \in Nat /\ ~(m <= m - 1)
        BY <2>3
      <4> HIDE DEF Unsolved
      <4> QED BY <2>1, <4>1
    <3>2. PICK g : Solves(g, m - 1)
      BY <3>1
    <3> DEFINE joined == g[m - 1] \o d[m]
               h == [k \in 0..m |-> IF k < m THEN g[k] ELSE joined]
    <3>3. ASSUME NEW k \in 0..m
          PROVE  h[k] = IF k = 0 THEN <<>> ELSE h[k - 1] \o d[k]
      <4>1. CASE k = m
        <5>1. h[k] = joined /\ h[k - 1] = g[m - 1]
          <6> HIDE DEF joined
          <6> QED BY <3>1, <4>1
        <5>2. h[k] = h[k - 1] \o d[k]
          <6>1. h[k - 1] \o d[k] = joined
            <7> HIDE DEF h
            <7> QED BY <4>1, <5>1, Zenon
          <6> QED BY <5>1, <6>1
        <5> HIDE DEF h
        <5> QED BY <2>3, <4>1, <5>2
      <4>2. CASE k # m
        <5>1. k \in 0..(m - 1) /\ h[k] = g[k]
          <6> HIDE DEF joined
          <6> QED BY <3>1, <4>2
        <5>2. k # 0 => h[k - 1] = g[k - 1]
          <6> HIDE DEF joined
          <6> QED BY <3>1, <4>2
        <5>3. g[k] = IF k = 0 THEN <<>> ELSE g[k - 1] \o d[k]
          BY <3>2, <5>1
        <5> QED BY <5>1, <5>2, <5>3
      <4> QED BY <4>1, <4>2
    <3>4. Solves(h, m)
      <4>1. h = [k \in 0..m |-> h[k]]
        OBVIOUS
      <4> HIDE DEF h
      <4> QED BY <3>3, <4>1
    <3> HIDE DEF Solves
    <3> QED BY <2>1, <3>4
  <2> QED BY <2>2, <2>3
<1>2. PICK f : Solves(f, n)
  BY <1>1
<1> QED BY <1>2

-----------------------------------------------------------------------------
(* Symbols and positions                                                     *)

LEMMA SymbolFacts ==
    /\ "NUL" \notin Words \cup Specials /\ "NUL" \notin Symbols
    /\ Words \cap Specials = {}
    /\ Blanks \cap (Words \cup Specials) = {}
    /\ Names \subseteq Words /\ Numbers \subseteq Words
    /\ Underscored \subseteq Words
BY LexerAssumption DEF Words, Blanks, Specials, Modifiers, Leveling, Commands, Openers, Closers, Symbols

LEMMA SpecialKinds ==
    /\ Modifiers \subseteq Specials /\ Openers \subseteq Specials /\ Closers \subseteq Specials
    /\ Commands \subseteq Specials
    /\ {"~", ",", ".", ":", "(", ")", "]", "[", "|", "!", "GRAVE", "BACKSLASH"} \subseteq Specials
    /\ {"~", ","} \cap (Modifiers \cup Commands \cup {".", ":", "(", ")", "GRAVE", "BACKSLASH"}) = {}
BY DEF Specials, Modifiers, Leveling, Commands, Openers, Closers

(* A text, the position in it and the word that is looked at. *)
Placed == text \in Seq(Symbols) /\ end \in 1..Eof
Reading == Placed /\ Here # "NUL"

LEMMA EofFacts ==
    ASSUME text \in Seq(Symbols)
    PROVE  Len(text) \in Nat /\ Eof \in Nat \ {0} /\ Eof = Len(text) + 1 /\ DOMAIN text = 1..Len(text)
BY DEF Eof

LEMMA AtFacts ==
    ASSUME text \in Seq(Symbols), NEW p \in Int
    PROVE  /\ At(p) # "NUL" <=> p \in 1..Len(text)
           /\ p \in 1..Len(text) => At(p) = text[p] /\ At(p) \in Symbols
           /\ At(p) # "NUL" => At(p) \in Symbols
           /\ Graph(p) <=> At(p) \in Words \cup Specials
           /\ Graph(p) => p \in 1..Len(text)
<1>1. CASE p \in 1..Len(text)
  <2>1. At(p) = text[p] /\ text[p] \in Symbols
    BY <1>1 DEF At
  <2>2. At(p) # "NUL"
    BY <2>1, SymbolFacts
  <2> QED BY <1>1, <2>1, <2>2, SymbolFacts DEF Graph, Symbols
<1>2. CASE p \notin 1..Len(text)
  <2>1. At(p) = "NUL"
    BY <1>2 DEF At
  <2> QED BY <1>2, <2>1, SymbolFacts DEF Graph
<1> QED BY <1>1, <1>2

(* lexer_get_next_word finds the first word. *)
LEMMA WordFacts ==
    ASSUME text \in Seq(Symbols), NEW p \in 1..Eof
    PROVE  /\ Word(p) \in p..Eof
           /\ Word(p) = Eof \/ Graph(Word(p))
           /\ \A n \in p..(Word(p) - 1) : ~Graph(n)
<1> DEFINE S == {n \in p..Eof : Graph(n)} \cup {Eof}
<1>0. Eof \in Nat
  BY EofFacts
<1>1. S \in SUBSET Nat /\ S # {}
  BY <1>0
<1>2. Word(p) = Min(S)
  BY DEF Word
<1>3. Word(p) \in S /\ \A n \in S : Word(p) <= n
  <2> HIDE DEF S
  <2> QED BY <1>1, <1>2, LeastOf
<1>4. Word(p) \in p..Eof
  BY <1>0, <1>3
<1>5. ASSUME NEW n \in p..(Word(p) - 1), Graph(n) PROVE FALSE
  <2>1. n \in p..Eof /\ ~(Word(p) <= n)
    BY <1>0, <1>4
  <2>2. n \in S
    BY <1>5, <2>1
  <2> QED BY <1>3, <2>1, <2>2
<1> QED BY <1>3, <1>4, <1>5

LEMMA StartFacts ==
    ASSUME Placed
    PROVE  /\ Start \in end..Eof
           /\ Here = "NUL" <=> Start = Eof
           /\ Here # "NUL" => Start \in 1..Len(text) /\ Graph(Start)
           /\ \A n \in end..(Start - 1) : ~Graph(n)
<1>1. text \in Seq(Symbols) /\ end \in 1..Eof /\ Eof \in Nat /\ Len(text) \in Nat /\ Eof = Len(text) + 1
  BY EofFacts DEF Placed
<1>2. /\ Start \in end..Eof
      /\ Start = Eof \/ Graph(Start)
      /\ \A n \in end..(Start - 1) : ~Graph(n)
  BY <1>1, WordFacts DEF Start
<1>3. Start \in Int /\ (At(Start) # "NUL" <=> Start \in 1..Len(text))
  BY <1>1, <1>2, AtFacts
<1> QED BY <1>1, <1>2, <1>3 DEF Here

LEMMA PastFacts ==
    ASSUME text \in Seq(Symbols), NEW p \in 1..Eof, NEW xs
    PROVE  /\ PastWords(p, xs) \in p..Eof
           /\ PastWords(p, xs) = Eof \/ (Graph(PastWords(p, xs)) /\ At(PastWords(p, xs)) \notin xs)
           /\ \A n \in p..(PastWords(p, xs) - 1) : Graph(n) => At(n) \in xs
<1> DEFINE S == {n \in p..Eof : Graph(n) /\ At(n) \notin xs} \cup {Eof}
           w == PastWords(p, xs)
<1>0. Eof \in Nat
  BY EofFacts
<1>1. S \in SUBSET Nat /\ S # {}
  BY <1>0
<1>2. w = Min(S)
  BY DEF PastWords
<1>3. w \in S /\ \A n \in S : w <= n
  <2> HIDE DEF S, w
  <2> QED BY <1>1, <1>2, LeastOf
<1> HIDE DEF w
<1>4. w \in p..Eof
  BY <1>0, <1>3
<1>5. ASSUME NEW n \in p..(w - 1), Graph(n), At(n) \notin xs PROVE FALSE
  <2>1. n \in p..Eof /\ ~(w <= n)
    BY <1>0, <1>4
  <2>2. n \in S
    BY <1>5, <2>1
  <2> QED BY <1>3, <2>1, <2>2
<1>6. w = Eof \/ (Graph(w) /\ At(w) \notin xs)
  BY <1>3
<1> QED BY <1>4, <1>5, <1>6 DEF w

-----------------------------------------------------------------------------
(* The words of a stretch of text                                            *)

(* ws are the words from a to b, in their order. *)
Lists(ws, a, b) ==
    /\ ws \in Seq(Nat)
    /\ Len(ws) <= b - a + 1
    /\ \A i \in 1..Len(ws) : a <= ws[i] /\ ws[i] <= b /\ Graph(ws[i])
    /\ \A i \in 1..(Len(ws) - 1) : ws[i] < ws[i + 1]
    /\ \A p \in a..b : Graph(p) => \E i \in 1..Len(ws) : ws[i] = p
    /\ Len(ws) = b - a + 1 => \A p \in a..b : Graph(p)

LEMMA ListsNone ==
    ASSUME NEW a \in Nat
    PROVE  Lists(<<>>, a, a - 1)
BY DEF Lists

LEMMA ListsMore ==
    ASSUME NEW ws, NEW a \in Nat, NEW b \in Nat, a <= b, Lists(ws, a, b - 1)
    PROVE  /\ Graph(b) => Lists(ws \o <<b>>, a, b)
           /\ ~Graph(b) => Lists(ws \o <<>>, a, b)
<1>1. /\ ws \in Seq(Nat)
      /\ Len(ws) <= b - a
      /\ \A i \in 1..Len(ws) : a <= ws[i] /\ ws[i] <= b - 1 /\ Graph(ws[i])
      /\ \A i \in 1..(Len(ws) - 1) : ws[i] < ws[i + 1]
      /\ \A p \in a..(b - 1) : Graph(p) => \E i \in 1..Len(ws) : ws[i] = p
      /\ Len(ws) = b - a => \A p \in a..(b - 1) : Graph(p)
  BY DEF Lists
<1>2. Len(ws) \in Nat /\ \A i \in 1..Len(ws) : ws[i] \in Nat
  BY <1>1
<1>3. CASE Graph(b)
  <2> DEFINE w == ws \o <<b>>
             l == Len(ws)
  <2>1. w \in Seq(Nat) /\ Len(w) = l + 1 /\ w[l + 1] = b /\ \A i \in 1..l : w[i] = ws[i]
    BY <1>1
  <2>2. ws \o <<b>> = w /\ l \in Nat /\ l <= b - a
    BY <1>1, <1>2
  <2>3. \A i \in 1..l : a <= w[i] /\ w[i] <= b - 1 /\ Graph(w[i])
    BY <1>1, <2>1
  <2>4. \A i \in 1..(l - 1) : w[i] < w[i + 1]
    BY <1>1, <1>2, <2>1
  <2>5. \A p \in a..(b - 1) : Graph(p) => \E i \in 1..l : w[i] = p
    BY <1>1, <2>1
  <2>6. l = b - a => \A p \in a..(b - 1) : Graph(p)
    BY <1>1
  <2> HIDE DEF w, l
  <2>7. \A i \in 1..Len(w) : a <= w[i] /\ w[i] <= b /\ Graph(w[i])
    BY <1>3, <2>1, <2>2, <2>3
  <2>8. \A i \in 1..(Len(w) - 1) : w[i] < w[i + 1]
    <3> SUFFICES ASSUME NEW i \in 1..l PROVE w[i] < w[i + 1]
      BY <2>1, <2>2
    <3>1. CASE i = l
      BY <2>1, <2>2, <2>3, <3>1
    <3>2. CASE i # l
      <4>1. i \in 1..(l - 1)
        BY <2>2, <3>2
      <4> QED BY <2>4, <4>1
    <3> QED BY <3>1, <3>2
  <2>9. ASSUME NEW p \in a..b, Graph(p) PROVE \E i \in 1..Len(w) : w[i] = p
    <3>1. CASE p = b
      BY <2>1, <2>2, <3>1
    <3>2. CASE p # b
      <4>1. p \in a..(b - 1)
        BY <3>2
      <4>2. PICK i \in 1..l : w[i] = p
        BY <2>5, <2>9, <4>1
      <4> QED BY <2>1, <2>2, <4>2
    <3> QED BY <3>1, <3>2
  <2>10. ASSUME Len(w) = b - a + 1, NEW p \in a..b PROVE Graph(p)
    <3>1. l = b - a
      BY <2>1, <2>2, <2>10
    <3> QED BY <1>3, <2>6, <3>1
  <2>11. Len(w) <= b - a + 1
    BY <2>1, <2>2
  <2>12. Lists(w, a, b)
    BY <2>1, <2>7, <2>8, <2>9, <2>10, <2>11 DEF Lists
  <2> QED BY <1>3, <2>2, <2>12
<1>4. CASE ~Graph(b)
  <2>1. ws \o <<>> = ws
    BY <1>1
  <2>2. \A i \in 1..Len(ws) : a <= ws[i] /\ ws[i] <= b /\ Graph(ws[i])
    BY <1>1, <1>2
  <2>3. \A p \in a..b : Graph(p) => p \in a..(b - 1)
    BY <1>4
  <2>4. Len(ws) <= b - a + 1 /\ Len(ws) # b - a + 1
    BY <1>1, <1>2
  <2>5. Lists(ws, a, b)
    BY <1>1, <2>2, <2>3, <2>4 DEF Lists
  <2> QED BY <1>4, <2>1, <2>5
<1> QED BY <1>3, <1>4

LEMMA WordsInFacts ==
    ASSUME NEW a \in Nat, NEW b \in Int
    PROVE  /\ b >= a - 1 => Lists(WordsIn(a, b), a, b)
           /\ b < a => WordsIn(a, b) = <<>>
<1> DEFINE count == IF a <= b THEN b - a + 1 ELSE 0
           d == [n \in 1..count |-> IF Graph(a + n - 1) THEN <<a + n - 1>> ELSE <<>>]
           Solves(f) == f = [n \in 0..count |->
                                IF n = 0 THEN <<>>
                                ELSE f[n - 1] \o IF Graph(a + n - 1) THEN <<a + n - 1>> ELSE <<>>]
<1>1. count \in Nat
  OBVIOUS
<1>2. \A n \in 0..count : n # 0 => d[n] = IF Graph(a + n - 1) THEN <<a + n - 1>> ELSE <<>>
  OBVIOUS
<1>3. \E f : Solves(f)
  <2>1. PICK f : f = [k \in 0..count |-> IF k = 0 THEN <<>> ELSE f[k - 1] \o d[k]]
    <3> HIDE DEF count, d
    <3> QED BY <1>1, JoinExists
  <2> HIDE DEF count, d
  <2>2. Solves(f)
    BY <1>2, <2>1
  <2> QED BY <2>2
<1> DEFINE f == CHOOSE f : Solves(f)
<1>4. Solves(f)
  <2> HIDE DEF Solves
  <2> QED BY <1>3
<1>5. WordsIn(a, b) = f[count]
  BY DEF WordsIn
<1> HIDE DEF f
<1>6. f[0] = <<>> /\ \A n \in 1..count : f[n] = f[n - 1] \o IF Graph(a + n - 1) THEN <<a + n - 1>> ELSE <<>>
  <2> DEFINE next(n) == f[n - 1] \o IF Graph(a + n - 1) THEN <<a + n - 1>> ELSE <<>>
  <2>1. f = [n \in 0..count |-> IF n = 0 THEN <<>> ELSE next(n)]
    BY <1>4
  <2>2. \A n \in 1..count : n \in 0..count /\ n # 0
    BY <1>1
  <2>3. 0 \in 0..count
    BY <1>1
  <2> HIDE DEF count, next
  <2>4. f[0] = <<>> /\ \A n \in 1..count : f[n] = next(n)
    BY <2>1, <2>2, <2>3, Zenon
  <2> QED BY <2>4 DEF next
<1> HIDE DEF Solves
<1>7. \A n \in 0..count : Lists(f[n], a, a + n - 1)
  <2> DEFINE Bad == {n \in 0..count : ~Lists(f[n], a, a + n - 1)}
  <2> SUFFICES ASSUME Bad # {} PROVE FALSE
    OBVIOUS
  <2>1. PICK n \in Bad : \A m \in Bad : n <= m
    <3>1. Bad \in SUBSET Nat
      BY <1>1
    <3> HIDE DEF Bad
    <3> QED BY <3>1, LeastNat
  <2> HIDE DEF count
  <2>2. n \in 0..count /\ ~Lists(f[n], a, a + n - 1)
    BY <2>1
  <2>3. n # 0
    <3>1. a + 0 - 1 = a - 1
      OBVIOUS
    <3> QED BY <1>6, <2>2, <3>1, ListsNone
  <2>4. n \in 1..count /\ n - 1 \in 0..count /\ ~(n <= n - 1)
    BY <1>1, <2>2, <2>3
  <2>5. Lists(f[n - 1], a, a + (n - 1) - 1)
    BY <2>1, <2>4
  <2> DEFINE q == a + n - 1
  <2>6. q \in Nat /\ a <= q /\ a + (n - 1) - 1 = q - 1 /\ a + n - 1 = q
    BY <1>1, <2>4
  <2>7. f[n] = f[n - 1] \o IF Graph(q) THEN <<q>> ELSE <<>>
    BY <1>6, <2>4
  <2> HIDE DEF q
  <2>8. Lists(f[n - 1], a, q - 1)
    BY <2>5, <2>6
  <2>9. Lists(f[n], a, q)
    BY <2>6, <2>7, <2>8, ListsMore
  <2> QED BY <2>2, <2>6, <2>9
<1>8. CASE a <= b
  <2>1. count = b - a + 1 /\ count \in 0..count /\ a + count - 1 = b
    BY <1>8
  <2> HIDE DEF count
  <2> QED BY <1>5, <1>7, <1>8, <2>1
<1>9. CASE ~(a <= b)
  <2>1. count = 0
    BY <1>9
  <2>2. WordsIn(a, b) = <<>>
    <3> HIDE DEF count
    <3> QED BY <1>5, <1>6, <2>1
  <2>3. b >= a - 1 => b = a - 1
    BY <1>9
  <2> QED BY <2>2, <2>3, ListsNone
<1> QED BY <1>8, <1>9

-----------------------------------------------------------------------------
(* The characters up to a symbol                                             *)

LEMMA OffsetFacts ==
    ASSUME text \in Seq(Symbols)
    PROVE  /\ Offset[0] = 0
           /\ \A n \in 1..Len(text) : Offset[n] = Offset[n - 1] + Chars(text[n])
           /\ \A n \in 0..Len(text) : Offset[n] \in Nat
           /\ \A n \in 1..Len(text) : Chars(text[n]) \in Nat /\ Chars(text[n]) >= 1
<1> DEFINE l == Len(text)
           d == [n \in 1..l |-> Chars(text[n])]
           Solves(f) == f = [n \in 0..l |-> IF n = 0 THEN 0 ELSE f[n - 1] + Chars(text[n])]
<1>1. l \in Nat
  OBVIOUS
<1>2. \A n \in 1..l : Chars(text[n]) \in Nat /\ Chars(text[n]) >= 1
  <2> SUFFICES ASSUME NEW n \in 1..l PROVE Chars(text[n]) \in Nat /\ Chars(text[n]) >= 1
    OBVIOUS
  <2>1. CASE text[n] \in Words
    <3>1. WordLength[text[n]] \in Nat \ {0} /\ Chars(text[n]) = WordLength[text[n]]
      BY <2>1, LexerAssumption DEF Chars
    <3> QED BY <3>1
  <2>2. CASE text[n] \notin Words
    BY <2>2 DEF Chars
  <2> QED BY <2>1, <2>2
<1>3. \A n \in 0..l : n # 0 => d[n] = Chars(text[n])
  OBVIOUS
<1>4. \E f : Solves(f)
  <2>1. PICK f : f = [k \in 0..l |-> IF k = 0 THEN 0 ELSE f[k - 1] + d[k]]
    <3> HIDE DEF l, d
    <3> QED BY <1>1, SumExists
  <2> HIDE DEF l, d
  <2>2. Solves(f)
    BY <1>3, <2>1
  <2> QED BY <2>2
<1>5. Solves(Offset)
  <2>1. Offset = CHOOSE f : Solves(f)
    BY DEF Offset
  <2> HIDE DEF Solves
  <2> QED BY <1>4, <2>1
<1>6. Offset[0] = 0 /\ \A n \in 1..l : Offset[n] = Offset[n - 1] + Chars(text[n])
  <2> HIDE DEF l
  <2> QED BY <1>1, <1>5
<1> HIDE DEF Solves
<1>7. \A n \in 0..l : Offset[n] \in Nat
  <2> DEFINE Bad == {n \in 0..l : Offset[n] \notin Nat}
  <2> SUFFICES ASSUME Bad # {} PROVE FALSE
    OBVIOUS
  <2>1. PICK n \in Bad : \A m \in Bad : n <= m
    <3>1. Bad \in SUBSET Nat
      BY <1>1
    <3> HIDE DEF Bad
    <3> QED BY <3>1, LeastNat
  <2> HIDE DEF l
  <2>2. n \in 1..l
    BY <1>1, <1>6, <2>1
  <2>3. n - 1 \in 0..l /\ ~(n <= n - 1)
    BY <1>1, <2>2
  <2>4. Offset[n - 1] \in Nat
    BY <2>1, <2>3
  <2>5. Offset[n] \in Nat
    BY <1>2, <1>6, <2>2, <2>4
  <2> QED BY <2>1, <2>5
<1> QED BY <1>2, <1>6, <1>7

(* Every symbol has at least one character, *)
LEMMA OffsetGrows ==
    ASSUME text \in Seq(Symbols), NEW a \in 0..Len(text), NEW b \in a..Len(text)
    PROVE  Offset[b] >= Offset[a] + (b - a)
<1> DEFINE Bad == {n \in a..Len(text) : ~(Offset[n] >= Offset[a] + (n - a))}
<1> SUFFICES ASSUME Bad # {} PROVE FALSE
  OBVIOUS
<1>1. PICK n \in Bad : \A m \in Bad : n <= m
  <2>1. Bad \in SUBSET Nat
    OBVIOUS
  <2> HIDE DEF Bad
  <2> QED BY <2>1, LeastNat
<1>2. n \in a..Len(text) /\ ~(Offset[n] >= Offset[a] + (n - a)) /\ Len(text) \in Nat
  BY <1>1
<1>3. Offset[a] \in Nat /\ Offset[n] \in Nat
  BY <1>2, OffsetFacts
<1>4. n # a
  BY <1>2, <1>3
<1>5. n \in 1..Len(text) /\ n - 1 \in a..Len(text) /\ n - 1 \in 0..Len(text) /\ ~(n <= n - 1)
  BY <1>2, <1>4
<1>6. Offset[n - 1] >= Offset[a] + ((n - 1) - a)
  BY <1>1, <1>5
<1>7. /\ Offset[n] = Offset[n - 1] + Chars(text[n])
      /\ Chars(text[n]) \in Nat /\ Chars(text[n]) >= 1 /\ Offset[n - 1] \in Nat
  BY <1>5, OffsetFacts
<1> DEFINE oa == Offset[a]
           on == Offset[n]
           om == Offset[n - 1]
           c == Chars(text[n])
<1>8. /\ ~(on >= oa + (n - a)) /\ om >= oa + ((n - 1) - a) /\ on = om + c /\ c >= 1
      /\ oa \in Nat /\ on \in Nat /\ om \in Nat /\ c \in Nat /\ n \in Int /\ a \in Int
  BY <1>2, <1>3, <1>6, <1>7
<1> HIDE DEF oa, on, om, c
<1> QED BY <1>8

(* and exactly one if there are as many characters as symbols. *)
LEMMA OffsetDense ==
    ASSUME text \in Seq(Symbols), NEW a \in 0..Len(text), NEW b \in a..Len(text),
           Offset[b] = Offset[a] + (b - a), NEW p \in (a + 1)..b
    PROVE  Chars(At(p)) = 1
<1>1. p \in 1..Len(text) /\ p - 1 \in a..Len(text) /\ p - 1 \in 0..Len(text) /\ p \in 0..Len(text)
      /\ b \in p..Len(text) /\ Len(text) \in Nat
  OBVIOUS
<1>2. Offset[p - 1] >= Offset[a] + ((p - 1) - a) /\ Offset[b] >= Offset[p] + (b - p)
  BY <1>1, OffsetGrows
<1>3. /\ Offset[p] = Offset[p - 1] + Chars(text[p])
      /\ Chars(text[p]) \in Nat /\ Chars(text[p]) >= 1
      /\ Offset[p - 1] \in Nat /\ Offset[p] \in Nat /\ Offset[a] \in Nat /\ Offset[b] \in Nat
  <2>1. Offset[p] = Offset[p - 1] + Chars(text[p]) /\ Chars(text[p]) \in Nat /\ Chars(text[p]) >= 1
    BY <1>1, OffsetFacts
  <2>2. b \in 0..Len(text)
    OBVIOUS
  <2>3. Offset[p - 1] \in Nat /\ Offset[p] \in Nat /\ Offset[a] \in Nat /\ Offset[b] \in Nat
    BY <1>1, <2>2, OffsetFacts
  <2> QED BY <2>1, <2>3
<1>4. Chars(text[p]) = 1
  <2> DEFINE oa == Offset[a]
             ob == Offset[b]
             op == Offset[p]
             oq == Offset[p - 1]
             c == Chars(text[p])
  <2>1. /\ ob = oa + (b - a) /\ oq >= oa + ((p - 1) - a) /\ ob >= op + (b - p)
        /\ op = oq + c /\ c >= 1
        /\ oa \in Int /\ ob \in Int /\ op \in Int /\ oq \in Int /\ c \in Int
    <3>1. ob = oa + (b - a)
      OBVIOUS
    <3>2. oq >= oa + ((p - 1) - a) /\ ob >= op + (b - p)
      BY <1>2
    <3>3. op = oq + c /\ c >= 1
      BY <1>3
    <3>4. oa \in Int /\ ob \in Int /\ op \in Int /\ oq \in Int /\ c \in Int
      BY <1>3
    <3> QED BY <3>1, <3>2, <3>3, <3>4
  <2>2. a \in Int /\ b \in Int /\ p \in Int
    OBVIOUS
  <2> HIDE DEF oa, ob, op, oq, c
  <2>3. c = 1
    BY <2>1, <2>2
  <2> QED BY <2>3 DEF c
<1> QED BY <1>1, <1>4, AtFacts

-----------------------------------------------------------------------------
(* The invariant                                                             *)

Subtypes == SubtypesOfWords \cup Specials \cup {"UNDERSCORE"}
TokenSet == [type : Types, subtype : Subtypes, start : Nat, end : Nat]

TypeInv ==
    /\ Placed
    /\ pc \in Phases
    /\ quoted \in BOOLEAN
    /\ opened \in Seq(Openers)
    /\ tokens \in Seq(TokenSet)
    /\ \A n \in DOMAIN tokens :
          /\ tokens[n].start <= tokens[n].end /\ tokens[n].end <= end
          /\ tokens[n].type = "UNWRITTEN" => tokens[n].start = 0
    /\ nest \in Nat /\ nest < end
    /\ pc = "scan" => tokens = <<>> /\ nest = 0 /\ skipped = {}

(* There are no more tokens than characters, and as many only if every       *)
(* character is one.                                                         *)
CountInv == Len(tokens) <= Offset[end - 1]
DenseInv ==
    Len(tokens) = Offset[end - 1] =>
        \A p \in 1..(end - 1) : Graph(p) /\ Inside(p) /\ Chars(At(p)) = 1

OrderInv == Written => \A n \in 1..(Len(tokens) - 1) : tokens[n].end <= tokens[n + 1].start

CoverInv ==
    Written /\ SignsAlone /\ BracketsClosed /\ pc \in {"lex", "accepted"} =>
        \A p \in DOMAIN text : (p < end \/ pc = "accepted") /\ Graph(p) /\ p \notin skipped =>
            Inside(p) \/ Mark(p)

(* A token that is no literal, no qualifier and not the left of a colon is   *)
(* one word or the underscore that begins one, and is known as a parenthesis *)
(* exactly if it is one.                                                     *)
Paren(p) == At(p) \in {"(", ")"}
Underscoring(t) == t.type = "RSPE" /\ At(t.start) \in Underscored
Alone(t) ==
    t.type \notin {"LR", "Q", "LIT", "UNWRITTEN"} =>
        /\ t.end = t.start + 1 \/ (Underscoring(t) /\ t.end = t.start)
        /\ t.type \in {"LSPE", "RSPE"} => t.subtype = First(At(t.start))
        /\ t.type \notin {"LSPE", "RSPE"} => ~Paren(t.start)

(* What `then` may absorb is one sign too. *)
Signed(t) ==
    /\ Sign(t.start) => t.end = t.start + 1 /\ t.type \in {"LSPE", "LR"}
    /\ Alone(t)

SignsInv == SignsAlone => \A n \in DOMAIN tokens : Signed(tokens[n])

(* What is passed over as a comment is behind, and in no token. *)
SkippedInv ==
    /\ skipped \subseteq 1..(end - 1)
    /\ Written => \A n \in DOMAIN tokens :
          /\ tokens[n].start >= 1
          /\ \A p \in skipped : ~(tokens[n].start <= p /\ p < tokens[n].end)

(* The text `[` alone, of which create_lexer would make a token that is not  *)
(* in the text, does not get through the scan.                               *)
LoneInv ==
    Len(text) = 1 /\ At(1) = "[" =>
        pc \in {"scan", "rejected"} /\ (end = 1 \/ opened # <<>>)

IInv ==
    /\ TypeInv /\ CountInv /\ DenseInv /\ OrderInv /\ CoverInv /\ SignsInv /\ SkippedInv
    /\ LoneInv /\ UnwrittenOnlyBehindModifiers /\ UndefinedOnlyUnclosed /\ AbortsOnlyDense

-----------------------------------------------------------------------------
(* The tokens of one turn                                                    *)

Holds(ts, p) == \E n \in DOMAIN ts : ts[n].start <= p /\ p < ts[n].end
Marks(ts, p) ==
    \E n \in DOMAIN ts :
        \/ At(p) = ":"
        \/ ts[n].type = "LIT" /\ p \in {ts[n].start - 1, ts[n].end}
                              /\ At(p) \in {"GRAVE", "BACKSLASH"}
        \/ ts[n].type = "Q" /\ At(p) \in {"[", "]"}
        \/ ts[n].type = "PL" /\ At(p) = "." /\ p = ts[n].start - 1
        \/ ts[n].type = "LSCOPE" /\ At(p) \in {"~", ","} /\ ts[n].subtype \in {"ELSE", "ELSE_IF"}
        \/ ts[n].type = "RSPE" /\ At(p) \in Underscored /\ p = ts[n].start
BehindModifiers ==
    \E p \in DOMAIN text : At(p) = "(" /\ Name(p - 1) /\ At(Before(p - 1)) \in Modifiers

(* The tokens ts are in order and cover the text up to e. *)
Cover(ts, e) ==
    /\ \A n \in DOMAIN ts : ts[n].type # "UNWRITTEN" /\ Start <= ts[n].start
    /\ \A n \in 1..(Len(ts) - 1) : ts[n].end <= ts[n + 1].start
    /\ BracketsClosed => \A p \in Start..(e - 1) : Graph(p) => Holds(ts, p) \/ Marks(ts, p)

(* What the invariant needs of the tokens ts, made from the word at Start,   *)
(* and of the place e behind them.                                           *)
Fills(ts, e) ==
    /\ ts \in Seq(TokenSet) /\ ts # <<>>
    /\ e \in (Start + 1)..Eof
    /\ Len(ts) <= e - Start
    /\ \A n \in DOMAIN ts : ts[n].start <= ts[n].end /\ ts[n].end <= e
    /\ Len(ts) = e - Start =>
          \/ Here = "[" /\ Start = Len(text) /\ ~Graph(Start - 1)
          \/ \A p \in Start..(e - 1) : Graph(p) /\ Holds(ts, p)
    /\ SignsAlone => \A n \in DOMAIN ts : Signed(ts[n])
    /\ \/ Cover(ts, e)
       \/ /\ BehindModifiers /\ \E n \in DOMAIN ts : ts[n].type = "UNWRITTEN"
          /\ \A n \in DOMAIN ts : ts[n].type = "UNWRITTEN" => ts[n].start = 0

LEMMA TokenFacts ==
    ASSUME NEW type \in Types, NEW subtype \in Subtypes, NEW first \in Nat, NEW last \in Nat
    PROVE  LET t == Token(type, subtype, first, last)
           IN  /\ t \in TokenSet
               /\ t.type = type /\ t.subtype = subtype /\ t.start = first /\ t.end = last
BY DEF Token, TokenSet

LEMMA TypeNames ==
    /\ {"LSPE", "RSPE", "COM", "ID", "Q", "LR", "R", "RSCOPE", "L", "LSCOPE", "PL", "LIT",
        "COLON_LONELY", "UNWRITTEN"} \subseteq Types
    /\ {"NO", "IMOD", "OMOD", "IF", "ELSE_IF", "ELSE", "LIT_NUM", "LIT_CHAR", "LIT_STR"} \subseteq Subtypes
    /\ Specials \subseteq Subtypes /\ "UNDERSCORE" \in Subtypes
BY DEF Types, Subtypes, SubtypesOfWords

LEMMA SeqFacts ==
    ASSUME NEW S, NEW l \in Nat, NEW f \in [1..l -> S]
    PROVE  f \in Seq(S) /\ Len(f) = l /\ DOMAIN f = 1..l
OBVIOUS

(* One token, of the word at Start or of what stands right behind it.        *)
LEMMA FillsOne ==
    ASSUME Reading, NEW t \in TokenSet, NEW e \in (Start + 1)..Eof, t.type # "UNWRITTEN",
           Start <= t.start, t.start <= t.end, t.end <= e,
           e = Start + 1 => t.start = Start /\ t.end = e,
           SignsAlone => Signed(t),
           \A p \in Start..(e - 1) : Graph(p) => (t.start <= p /\ p < t.end) \/ Marks(<<t>>, p)
    PROVE  Fills(<<t>>, e)
<1> DEFINE ts == <<t>>
<1>1. ts \in Seq(TokenSet) /\ ts # <<>> /\ Len(ts) = 1 /\ DOMAIN ts = {1} /\ ts[1] = t
  OBVIOUS
<1>0. Start \in 1..Len(text) /\ Graph(Start) /\ Start \in Nat /\ Eof \in Nat
  BY StartFacts, EofFacts DEF Reading, Placed
<1>2. Start \in 1..Len(text) /\ Graph(Start) /\ Start \in Nat /\ Eof \in Nat /\ e \in Nat
  BY <1>0
<1>3. t.start \in Nat /\ t.end \in Nat
  BY DEF TokenSet
<1> HIDE DEF ts
<1>4. \A p : Holds(ts, p) <=> t.start <= p /\ p < t.end
  BY <1>1 DEF Holds
<1>5. Len(ts) = e - Start => \A p \in Start..(e - 1) : Graph(p) /\ Holds(ts, p)
  <2> SUFFICES ASSUME Len(ts) = e - Start, NEW p \in Start..(e - 1)
               PROVE  Graph(p) /\ Holds(ts, p)
    OBVIOUS
  <2>0. e - Start = 1
    BY <1>1, Zenon
  <2>1. e = Start + 1
    BY <1>2, <2>0
  <2>2. p = Start
    BY <1>2, <2>1
  <2> QED BY <1>2, <1>3, <1>4, <2>1, <2>2
<1>6. Cover(ts, e)
  <2>1. \A n \in 1..(Len(ts) - 1) : FALSE
    BY <1>1
  <2>2. \A p \in Start..(e - 1) : Graph(p) => Holds(ts, p) \/ Marks(ts, p)
    BY <1>4 DEF ts
  <2> QED BY <1>1, <2>1, <2>2 DEF Cover
<1>7. Len(ts) <= e - Start
  BY <1>1, <1>2
<1>8. Fills(ts, e)
  BY <1>1, <1>5, <1>6, <1>7 DEF Fills
<1> QED BY <1>8 DEF ts

(* One token that is the word at Start and nothing else. *)
(* A special character is a token of its own. *)
LEMMA FirstFacts ==
    /\ \A x \in Specials : First(x) = x /\ Chars(x) = 1
    /\ \A x \in Words : First(x) \notin {"(", ")"}
<1>1. \A x \in Specials : x \notin Underscored /\ x \notin Words
  BY SymbolFacts
<1>2. \A x \in Words : x \notin {"(", ")"}
  BY SymbolFacts, SpecialKinds
<1> QED BY <1>1, <1>2 DEF First, Chars

LEMMA OfSpecial ==
    ASSUME NEW type, NEW p, At(p) \in Specials
    PROVE  Of(type, p) = Token(type, At(p), p, p + 1)
BY FirstFacts DEF Of

LEMMA FillsWord ==
    ASSUME Reading, NEW type \in Types, NEW subtype \in Subtypes, type # "UNWRITTEN",
           Sign(Start) => type \in {"LSPE", "LR"},
           type \in {"LSPE", "RSPE"} => Here \in Specials /\ subtype = Here,
           type \notin {"LSPE", "RSPE", "LR"} => ~Paren(Start)
    PROVE  Fills(<<Token(type, subtype, Start, Start + 1)>>, Start + 1)
<1> DEFINE t == Token(type, subtype, Start, Start + 1)
<1>1. Start \in 1..Len(text) /\ Start \in Nat /\ Start + 1 \in Nat /\ Start + 1 \in (Start + 1)..Eof
  BY StartFacts, EofFacts DEF Reading, Placed
<1>2. t \in TokenSet /\ t.type = type /\ t.subtype = subtype /\ t.start = Start /\ t.end = Start + 1
  BY <1>1, TokenFacts
<1> HIDE DEF t
<1>3. Signed(t)
  <2>1. Alone(t)
    BY <1>2, FirstFacts DEF Alone, Here
  <2> QED BY <1>2, <2>1 DEF Signed
<1>4. \A p \in Start..((Start + 1) - 1) : t.start <= p /\ p < t.end
  BY <1>1, <1>2
<1>5. Start <= t.start /\ t.start <= t.end /\ t.end <= Start + 1
  BY <1>1, <1>2
<1>6. Fills(<<t>>, Start + 1)
  BY <1>1, <1>2, <1>3, <1>4, <1>5, FillsOne
<1> QED BY <1>6 DEF t

LEMMA FillsSpecial ==
    ASSUME Reading, NEW type \in {"COM", "LSPE", "RSPE"}, Here \in Specials,
           Sign(Start) => type = "LSPE", type = "COM" => ~Paren(Start)
    PROVE  Fills(<<Of(type, Start)>>, Start + 1)
<1>1. Of(type, Start) = Token(type, Here, Start, Start + 1)
  BY OfSpecial DEF Here
<1>2. type \in Types /\ Here \in Subtypes /\ type # "UNWRITTEN"
  BY TypeNames
<1> QED BY <1>1, <1>2, FillsWord

(* Tokens of the modifiers in a list of words. *)
Turned(ws) == [n \in DOMAIN ws |-> Of("RSPE", ws[n])]

LEMMA TurnedFacts ==
    ASSUME text \in Seq(Symbols), NEW ws \in Seq(Nat), \A i \in 1..Len(ws) : At(ws[i]) \in Modifiers
    PROVE  /\ Turned(ws) \in Seq(TokenSet) /\ Len(Turned(ws)) = Len(ws)
           /\ \A n \in 1..Len(ws) :
                 /\ Turned(ws)[n].start = ws[n] /\ Turned(ws)[n].end = ws[n] + 1
                 /\ Turned(ws)[n].type = "RSPE" /\ Signed(Turned(ws)[n])
<1>1. Len(ws) \in Nat /\ DOMAIN ws = 1..Len(ws) /\ \A n \in 1..Len(ws) : ws[n] \in Nat
  OBVIOUS
<1>2. \A n \in 1..Len(ws) : /\ Of("RSPE", ws[n]) \in TokenSet
                            /\ Of("RSPE", ws[n]).start = ws[n] /\ Of("RSPE", ws[n]).end = ws[n] + 1
                            /\ Of("RSPE", ws[n]).type = "RSPE" /\ Of("RSPE", ws[n]).subtype = At(ws[n])
  <2> SUFFICES ASSUME NEW n \in 1..Len(ws)
               PROVE  /\ Of("RSPE", ws[n]) \in TokenSet
                      /\ Of("RSPE", ws[n]).start = ws[n] /\ Of("RSPE", ws[n]).end = ws[n] + 1
                      /\ Of("RSPE", ws[n]).type = "RSPE" /\ Of("RSPE", ws[n]).subtype = At(ws[n])
    OBVIOUS
  <2>1. "RSPE" \in Types /\ At(ws[n]) \in Subtypes
    BY TypeNames, SpecialKinds
  <2>2. ws[n] \in Nat /\ ws[n] + 1 \in Nat
    BY <1>1
  <2>3. Of("RSPE", ws[n]) = Token("RSPE", At(ws[n]), ws[n], ws[n] + 1)
    BY OfSpecial, SpecialKinds
  <2> QED BY <2>1, <2>2, <2>3, TokenFacts
<1>3. \A n \in 1..Len(ws) : Turned(ws)[n] = Of("RSPE", ws[n])
  BY <1>1 DEF Turned
<1>4. \A n \in 1..Len(ws) : ~Sign(ws[n])
  BY SpecialKinds DEF Sign
<1>5. Turned(ws) \in Seq(TokenSet) /\ Len(Turned(ws)) = Len(ws)
  <2>1. Turned(ws) \in [1..Len(ws) -> TokenSet]
    BY <1>1, <1>2 DEF Turned
  <2> QED BY <1>1, <2>1, SeqFacts
<1>6. \A n \in 1..Len(ws) : Signed(Turned(ws)[n])
  <2>1. \A n \in 1..Len(ws) : First(At(ws[n])) = At(ws[n])
    BY FirstFacts, SpecialKinds
  <2> QED BY <1>2, <1>3, <1>4, <2>1 DEF Signed, Alone
<1> QED BY <1>2, <1>3, <1>5, <1>6

(* The modifiers on the left of a colon. *)
LEMMA FillsModifiers ==
    ASSUME Reading, Here \in Modifiers
    PROVE  LET colon == PastWords(Start, Modifiers)
               left == WordsIn(Start, colon - 1)
           IN  Fills([n \in DOMAIN left |-> Of("RSPE", left[n])], colon)
<1> DEFINE colon == PastWords(Start, Modifiers)
           left == WordsIn(Start, colon - 1)
           ts == Turned(left)
<1>1. text \in Seq(Symbols) /\ Start \in 1..Len(text) /\ Start \in 1..Eof /\ Graph(Start) /\ Eof = Len(text) + 1
      /\ Len(text) \in Nat
  BY StartFacts, EofFacts DEF Reading, Placed
<1>2. /\ colon \in Start..Eof
      /\ colon = Eof \/ At(colon) \notin Modifiers
      /\ \A n \in Start..(colon - 1) : Graph(n) => At(n) \in Modifiers
  BY <1>1, PastFacts
<1>3. colon # Start
  BY <1>1, <1>2 DEF Here
<1> HIDE DEF colon
<1>4. colon \in (Start + 1)..Eof /\ colon - 1 \in Int /\ colon - 1 >= Start - 1 /\ Start \in Nat /\ colon \in Nat
  BY <1>1, <1>2, <1>3
<1>5. Lists(left, Start, colon - 1)
  BY <1>4, WordsInFacts
<1> HIDE DEF left
<1>6. /\ left \in Seq(Nat) /\ Len(left) <= colon - Start
      /\ \A i \in 1..Len(left) : Start <= left[i] /\ left[i] <= colon - 1 /\ Graph(left[i])
      /\ \A i \in 1..(Len(left) - 1) : left[i] < left[i + 1]
      /\ \A p \in Start..(colon - 1) : Graph(p) => \E i \in 1..Len(left) : left[i] = p
      /\ Len(left) = colon - Start => \A p \in Start..(colon - 1) : Graph(p)
  BY <1>4, <1>5 DEF Lists
<1>7. Len(left) \in Nat /\ \A i \in 1..Len(left) : left[i] \in Nat /\ At(left[i]) \in Modifiers
  BY <1>2, <1>4, <1>6
<1>8. /\ ts \in Seq(TokenSet) /\ Len(ts) = Len(left)
      /\ \A n \in 1..Len(left) : /\ ts[n].start = left[n] /\ ts[n].end = left[n] + 1
                                 /\ ts[n].type = "RSPE" /\ Signed(ts[n])
  BY <1>1, <1>6, <1>7, TurnedFacts
<1> HIDE DEF ts
<1>9. DOMAIN ts = 1..Len(left)
  BY <1>8
<1>10. \A p \in Start..(colon - 1) : Graph(p) => Holds(ts, p)
  <2> SUFFICES ASSUME NEW p \in Start..(colon - 1), Graph(p) PROVE Holds(ts, p)
    OBVIOUS
  <2>1. PICK i \in 1..Len(left) : left[i] = p
    BY <1>6
  <2>2. ts[i].start <= p /\ p < ts[i].end
    BY <1>4, <1>8, <2>1
  <2> QED BY <1>9, <2>2 DEF Holds
<1>11. ts # <<>>
  <2>1. Start \in Start..(colon - 1)
    BY <1>4
  <2>2. Holds(ts, Start)
    BY <1>1, <1>10, <2>1
  <2> QED BY <2>2 DEF Holds
<1>12. \A n \in DOMAIN ts : ts[n].start <= ts[n].end /\ ts[n].end <= colon
  BY <1>4, <1>6, <1>7, <1>8, <1>9
<1>13. \A n \in DOMAIN ts : ts[n].type # "UNWRITTEN" /\ Start <= ts[n].start /\ Signed(ts[n])
  BY <1>6, <1>8, <1>9
<1>14. \A n \in 1..(Len(ts) - 1) : ts[n].end <= ts[n + 1].start
  <2> SUFFICES ASSUME NEW n \in 1..(Len(ts) - 1) PROVE ts[n].end <= ts[n + 1].start
    OBVIOUS
  <2>1. n \in 1..Len(left) /\ n + 1 \in 1..Len(left) /\ n \in 1..(Len(left) - 1)
    BY <1>7, <1>8
  <2>2. left[n] < left[n + 1] /\ left[n] \in Nat /\ left[n + 1] \in Nat
    BY <1>6, <1>7, <2>1
  <2>3. ts[n].end = left[n] + 1 /\ ts[n + 1].start = left[n + 1]
    BY <1>8, <2>1
  <2> QED BY <2>2, <2>3
<1>15. Cover(ts, colon)
  BY <1>10, <1>13, <1>14 DEF Cover
<1>16. Len(ts) <= colon - Start /\ (Len(ts) = colon - Start => \A p \in Start..(colon - 1) : Graph(p) /\ Holds(ts, p))
  BY <1>6, <1>8, <1>10
<1>17. Fills(ts, colon)
  BY <1>4, <1>8, <1>11, <1>12, <1>13, <1>15, <1>16 DEF Fills
<1> QED BY <1>17 DEF ts, left, colon, Turned

(* A colon and the opening parenthesis behind it. *)
LEMMA FillsOpening ==
    ASSUME Reading, Here = ":", At(Start + 1) = "("
    PROVE  Fills(<<Of("RSPE", Start + 1)>>, Start + 2)
<1> DEFINE t == Of("RSPE", Start + 1)
<1>1. text \in Seq(Symbols) /\ Start \in 1..Len(text) /\ Eof = Len(text) + 1 /\ Len(text) \in Nat
  BY StartFacts, EofFacts DEF Reading, Placed
<1>2. Start + 1 \in 1..Len(text)
  <2>1. Start + 1 \in Int
    BY <1>1
  <2> QED BY <1>1, <2>1, AtFacts
<1>3. Start \in Nat /\ Start + 2 \in (Start + 1)..Eof /\ Start + 1 \in Nat /\ Start + 2 \in Nat /\ Start + 2 # Start + 1
  BY <1>1, <1>2
<1>4. "RSPE" \in Types /\ At(Start + 1) \in Subtypes
  BY TypeNames, SpecialKinds
<1>5. t \in TokenSet /\ t.type = "RSPE" /\ t.start = Start + 1 /\ t.end = Start + 2
      /\ t.subtype = At(Start + 1)
  <2>0. At(Start + 1) \in Specials
    BY SpecialKinds
  <2>1. t = Token("RSPE", At(Start + 1), Start + 1, Start + 2)
    <3>1. Of("RSPE", Start + 1) = Token("RSPE", At(Start + 1), Start + 1, (Start + 1) + 1)
      BY <2>0, OfSpecial
    <3> QED BY <1>3, <3>1
  <2> QED BY <1>3, <1>4, <2>1, TokenFacts
<1> HIDE DEF t
<1>6. Signed(t)
  <2>1. ~Sign(t.start)
    BY <1>5, SpecialKinds DEF Sign
  <2>2. Alone(t)
    <3>1. At(Start + 1) \in Specials
      BY SpecialKinds
    <3>2. First(At(Start + 1)) = At(Start + 1)
      BY <3>1, FirstFacts
    <3> QED BY <1>3, <1>5, <3>2 DEF Alone
  <2> QED BY <2>1, <2>2 DEF Signed
<1>7. \A p \in Start..((Start + 2) - 1) : (t.start <= p /\ p < t.end) \/ Marks(<<t>>, p)
  <2> SUFFICES ASSUME NEW p \in Start..(Start + 1) PROVE (t.start <= p /\ p < t.end) \/ Marks(<<t>>, p)
    BY <1>3
  <2>1. CASE p = Start
    BY <2>1 DEF Marks, Here
  <2>2. CASE p = Start + 1
    BY <1>3, <1>5, <2>2
  <2> QED BY <1>3, <2>1, <2>2
<1>8. Start <= t.start /\ t.start <= t.end /\ t.end <= Start + 2
  BY <1>3, <1>5
<1>9. Fills(<<t>>, Start + 2)
  BY <1>3, <1>5, <1>6, <1>7, <1>8, FillsOne
<1> QED BY <1>9 DEF t

(* A period and the name behind it. *)
LEMMA FillsPeriod ==
    ASSUME Reading, Here = ".", Name(Start + 1)
    PROVE  Fills(<<Token("PL", "NO", Start + 1, Start + 2)>>, Start + 2)
<1> DEFINE t == Token("PL", "NO", Start + 1, Start + 2)
<1>1. text \in Seq(Symbols) /\ Start \in 1..Len(text) /\ Eof = Len(text) + 1 /\ Len(text) \in Nat
  BY StartFacts, EofFacts DEF Reading, Placed
<1>2. Start + 1 \in 1..Len(text) /\ At(Start + 1) \in Words
  <2>1. Start + 1 \in Int
    BY <1>1
  <2>2. At(Start + 1) \in Words
    BY SymbolFacts DEF Name
  <2> QED BY <1>1, <2>1, <2>2, AtFacts, SymbolFacts
<1>3. Start \in Nat /\ Start + 2 \in (Start + 1)..Eof /\ Start + 1 \in Nat /\ Start + 2 \in Nat /\ Start + 2 # Start + 1
  BY <1>1, <1>2
<1>4. t \in TokenSet /\ t.type = "PL" /\ t.start = Start + 1 /\ t.end = Start + 2
  BY <1>3, TypeNames, TokenFacts
<1> HIDE DEF t
<1>5. Signed(t)
  <2>1. ~Sign(t.start) /\ ~Paren(t.start)
    BY <1>2, <1>4, SpecialKinds, SymbolFacts DEF Sign, Paren
  <2>2. t.end = t.start + 1
    BY <1>3, <1>4
  <2> QED BY <1>4, <2>1, <2>2 DEF Signed, Alone
<1>6. \A p \in Start..((Start + 2) - 1) : (t.start <= p /\ p < t.end) \/ Marks(<<t>>, p)
  <2> SUFFICES ASSUME NEW p \in Start..(Start + 1) PROVE (t.start <= p /\ p < t.end) \/ Marks(<<t>>, p)
    BY <1>3
  <2>1. CASE p = Start
    <3>1. p = t.start - 1 /\ At(p) = "." /\ 1 \in DOMAIN <<t>> /\ <<t>>[1] = t
      BY <1>3, <1>4, <2>1 DEF Here
    <3> QED BY <1>4, <3>1 DEF Marks
  <2>2. CASE p = Start + 1
    BY <1>3, <1>4, <2>2
  <2> QED BY <1>3, <2>1, <2>2
<1>7. Start <= t.start /\ t.start <= t.end /\ t.end <= Start + 2
  BY <1>3, <1>4
<1>8. Fills(<<t>>, Start + 2)
  BY <1>3, <1>4, <1>5, <1>6, <1>7, FillsOne
<1> QED BY <1>8 DEF t

(* The three kinds of literals. *)
LEMMA FillsNumber ==
    ASSUME Reading, Here \in Numbers
    PROVE  Fills(<<Token("LIT", "LIT_NUM", Start, NumberEnd)>>, NumberEnd)
<1> DEFINE S == {n \in (Start + 1)..Eof : At(n) \notin {"GRAVE"} \cup HexWords}
           t == Token("LIT", "LIT_NUM", Start, NumberEnd)
<1>1. text \in Seq(Symbols) /\ Start \in 1..Len(text) /\ Eof = Len(text) + 1 /\ Len(text) \in Nat
  BY StartFacts, EofFacts DEF Reading, Placed
<1>2. At(Eof) = "NUL"
  <2>1. Eof \in Int /\ Eof \notin 1..Len(text)
    BY <1>1
  <2> QED BY <1>1, <2>1, AtFacts
<1>3. "NUL" \notin {"GRAVE"} \cup HexWords
  BY LexerAssumption, SymbolFacts
<1>4. S \in SUBSET Nat /\ S # {}
  <2>1. Eof \in (Start + 1)..Eof
    BY <1>1
  <2>2. Eof \in S
    BY <1>2, <1>3, <2>1
  <2> QED BY <1>1, <2>2
<1>5. NumberEnd \in S
  <2>1. NumberEnd = Min(S)
    BY DEF NumberEnd
  <2> HIDE DEF S
  <2> QED BY <1>4, <2>1, LeastOf
<1>6. NumberEnd \in (Start + 1)..Eof /\ NumberEnd \in Nat /\ Start \in Nat
  BY <1>1, <1>5
<1>7. t \in TokenSet /\ t.type = "LIT" /\ t.start = Start /\ t.end = NumberEnd
  BY <1>6, TypeNames, TokenFacts
<1> HIDE DEF t
<1>8. ~Sign(t.start)
  BY <1>7, SpecialKinds, SymbolFacts DEF Sign, Here
<1>9. \A p \in Start..(NumberEnd - 1) : t.start <= p /\ p < t.end
  BY <1>6, <1>7
<1>10. Start <= t.start /\ t.start <= t.end /\ t.end <= NumberEnd
  BY <1>6, <1>7
<1>11. Fills(<<t>>, NumberEnd)
  BY <1>6, <1>7, <1>8, <1>9, <1>10, FillsOne DEF Signed, Alone
<1> QED BY <1>11 DEF t

LEMMA FillsDelimited ==
    ASSUME Reading, Here \in {"GRAVE", "BACKSLASH"}, NEW subtype \in Subtypes,
           NEW q \in (Start + 1)..Len(text), At(q) = Here
    PROVE  Fills(<<Token("LIT", subtype, Start + 1, q)>>, q + 1)
<1> DEFINE t == Token("LIT", subtype, Start + 1, q)
<1>1. text \in Seq(Symbols) /\ Start \in 1..Len(text) /\ Eof = Len(text) + 1 /\ Len(text) \in Nat
      /\ DOMAIN text = 1..Len(text)
  BY StartFacts, EofFacts DEF Reading, Placed
<1>2. Start \in Nat /\ q \in Nat /\ Start + 1 \in Nat /\ q + 1 \in (Start + 1)..Eof /\ q + 1 # Start + 1
  BY <1>1
<1>3. t \in TokenSet /\ t.type = "LIT" /\ t.start = Start + 1 /\ t.end = q
  <2>1. "LIT" \in Types
    BY TypeNames
  <2> QED BY <1>2, <2>1, TokenFacts
<1> HIDE DEF t
<1>4. SignsAlone => ~Sign(t.start)
  <2>1. Start + 1 \in DOMAIN text /\ (Start + 1) - 1 = Start
    BY <1>1
  <2> QED BY <1>3, <2>1 DEF SignsAlone, Here
<1>5. \A p \in Start..((q + 1) - 1) : (t.start <= p /\ p < t.end) \/ Marks(<<t>>, p)
  <2> SUFFICES ASSUME NEW p \in Start..q PROVE (t.start <= p /\ p < t.end) \/ Marks(<<t>>, p)
    BY <1>2
  <2>1. CASE p = Start \/ p = q
    <3>1. p \in {t.start - 1, t.end} /\ At(p) \in {"GRAVE", "BACKSLASH"} /\ 1 \in DOMAIN <<t>> /\ <<t>>[1] = t
      BY <1>2, <1>3, <2>1 DEF Here
    <3> QED BY <1>3, <3>1 DEF Marks
  <2>2. CASE p # Start /\ p # q
    BY <1>2, <1>3, <2>2
  <2> QED BY <1>3, <2>1, <2>2
<1>6. Start <= t.start /\ t.start <= t.end /\ t.end <= q + 1
  BY <1>2, <1>3
<1>7. Fills(<<t>>, q + 1)
  BY <1>2, <1>3, <1>4, <1>5, <1>6, FillsOne DEF Signed, Alone
<1> QED BY <1>7 DEF t

(* Where the words of qualifiers end. *)
LEMMA QualifierPlaces ==
    ASSUME Reading
    PROVE  /\ FirstQ \in (Start + 1)..Eof
           /\ FirstQ = Eof \/ Graph(FirstQ)
           /\ \A n \in (Start + 1)..(FirstQ - 1) : ~Graph(n)
           /\ LastQ \in FirstQ..Eof
           /\ \/ LastQ = Eof
              \/ LastQ > FirstQ /\ Graph(LastQ) /\ (At(LastQ) = "]" \/ At(LastQ + 1) = "NUL")
           /\ \A n \in (FirstQ + 1)..(LastQ - 1) :
                 Graph(n) => ~(At(n) = "]" \/ At(n + 1) = "NUL")
<1> DEFINE S == {n \in (FirstQ + 1)..Eof : Graph(n) /\ (At(n) = "]" \/ At(n + 1) = "NUL")} \cup {Eof}
<1>1. text \in Seq(Symbols) /\ Start \in 1..Len(text) /\ Eof = Len(text) + 1 /\ Len(text) \in Nat
  BY StartFacts, EofFacts DEF Reading, Placed
<1>2. Start + 1 \in 1..Eof
  BY <1>1
<1>3. /\ FirstQ \in (Start + 1)..Eof
      /\ FirstQ = Eof \/ Graph(FirstQ)
      /\ \A n \in (Start + 1)..(FirstQ - 1) : ~Graph(n)
  BY <1>1, <1>2, WordFacts DEF FirstQ
<1>4. S \in SUBSET Nat /\ S # {}
  BY <1>1, <1>3
<1>5. LastQ \in S /\ \A n \in S : LastQ <= n
  <2>1. LastQ = Min(S)
    BY DEF LastQ
  <2> HIDE DEF S
  <2> QED BY <1>4, <2>1, LeastOf
<1>6. LastQ \in FirstQ..Eof /\ LastQ \in Nat /\ FirstQ \in Nat
  BY <1>1, <1>3, <1>5
<1>7. \/ LastQ = Eof
      \/ LastQ > FirstQ /\ Graph(LastQ) /\ (At(LastQ) = "]" \/ At(LastQ + 1) = "NUL")
  BY <1>3, <1>5, <1>6
<1>8. ASSUME NEW n \in (FirstQ + 1)..(LastQ - 1), Graph(n), At(n) = "]" \/ At(n + 1) = "NUL"
      PROVE  FALSE
  <2>1. n \in (FirstQ + 1)..Eof /\ ~(LastQ <= n)
    BY <1>1, <1>6
  <2>2. n \in S
    BY <1>8, <2>1
  <2> QED BY <1>5, <2>1, <2>2
<1> QED BY <1>3, <1>6, <1>7, <1>8

(* The tokens of the words between brackets.                                 *)
LEMMA FillsQualifiers ==
    ASSUME Reading, Qualified
    PROVE  Fills([n \in DOMAIN Qualifiers |->
                     Token("Q", "NO", Qualifiers[n], Behind(Qualifiers[n]))], Behind(LastQ))
<1> DEFINE qs == Qualifiers
           ws == WordsIn(FirstQ + 1, LastQ - 1)
           ts == [n \in DOMAIN qs |-> Token("Q", "NO", qs[n], Behind(qs[n]))]
           e == Behind(LastQ)
           F == FirstQ
           L == LastQ
<1>1. text \in Seq(Symbols) /\ Start \in 1..Len(text) /\ Eof = Len(text) + 1 /\ Len(text) \in Nat /\ Graph(Start)
      /\ DOMAIN text = 1..Len(text)
  BY StartFacts, EofFacts DEF Reading, Placed
<1>2. Here = "[" /\ ~Graph(Start - 1) /\ At(F) # "]"
  BY DEF Qualified
<1>3. /\ F \in (Start + 1)..Eof
      /\ F = Eof \/ Graph(F)
      /\ \A n \in (Start + 1)..(F - 1) : ~Graph(n)
      /\ L \in F..Eof
      /\ \/ L = Eof
         \/ L > F /\ Graph(L) /\ (At(L) = "]" \/ At(L + 1) = "NUL")
      /\ \A n \in (F + 1)..(L - 1) : Graph(n) => ~(At(n) = "]" \/ At(n + 1) = "NUL")
  BY QualifierPlaces
<1>4. qs = <<F>> \o ws
  BY DEF Qualifiers
<1>5. /\ L - 1 >= F => Lists(ws, F + 1, L - 1)
      /\ L - 1 < F => ws = <<>>
  <2>1. F + 1 \in Nat /\ L - 1 \in Int
    BY <1>1, <1>3
  <2>2. L - 1 >= F => L - 1 >= (F + 1) - 1
    BY <1>1, <1>3
  <2>3. L - 1 < F => L - 1 < F + 1
    BY <1>1, <1>3
  <2> QED BY <2>1, <2>2, <2>3, WordsInFacts
<1>6. e = IF L = Eof THEN Eof ELSE L + 1
  BY DEF Behind
<1>7. \A p : Behind(p) = IF p = Eof THEN Eof ELSE p + 1
  BY DEF Behind
<1> HIDE DEF e, F, L, ws
<1>8. F \in Nat /\ L \in Nat /\ e \in Nat /\ Start \in Nat /\ Eof \in Nat
  BY <1>1, <1>3, <1>6
<1>9. /\ ws \in Seq(Nat) /\ Len(ws) \in Nat
      /\ (ws = <<>> \/ Len(ws) <= L - 1 - F)
      /\ \A i \in 1..Len(ws) : F + 1 <= ws[i] /\ ws[i] <= L - 1 /\ Graph(ws[i]) /\ ws[i] \in Nat
      /\ \A i \in 1..(Len(ws) - 1) : ws[i] < ws[i + 1]
      /\ \A p \in (F + 1)..(L - 1) : Graph(p) => \E i \in 1..Len(ws) : ws[i] = p
  <2>1. CASE L - 1 >= F
    <3>1. Lists(ws, F + 1, L - 1)
      BY <1>5, <2>1
    <3> QED BY <1>8, <3>1 DEF Lists
  <2>2. CASE L - 1 < F
    <3>1. ws = <<>>
      BY <1>5, <2>2
    <3>2. \A p \in (F + 1)..(L - 1) : FALSE
      BY <1>8, <2>2
    <3> QED BY <3>1, <3>2
  <2> QED BY <1>8, <2>1, <2>2
<1>10. /\ qs \in Seq(Nat) /\ Len(qs) = Len(ws) + 1 /\ DOMAIN qs = 1..(Len(ws) + 1)
       /\ qs[1] = F /\ \A n \in 2..(Len(ws) + 1) : qs[n] = ws[n - 1] /\ n - 1 \in 1..Len(ws)
  BY <1>4, <1>8, <1>9
<1> HIDE DEF qs
<1>11. \A n \in DOMAIN qs : qs[n] \in Nat /\ F <= qs[n] /\ qs[n] <= L /\ qs[n] <= Eof
                            /\ (qs[n] = L => L = F)
  <2> SUFFICES ASSUME NEW n \in 1..(Len(ws) + 1)
               PROVE  qs[n] \in Nat /\ F <= qs[n] /\ qs[n] <= L /\ qs[n] <= Eof /\ (qs[n] = L => L = F)
    BY <1>10
  <2>1. CASE n = 1
    BY <1>3, <1>8, <1>10, <2>1
  <2>2. CASE n # 1
    <3>1. n \in 2..(Len(ws) + 1)
      BY <1>9, <2>2
    <3>2. qs[n] = ws[n - 1] /\ n - 1 \in 1..Len(ws)
      BY <1>10, <3>1
    <3>3. F + 1 <= qs[n] /\ qs[n] <= L - 1 /\ qs[n] \in Nat
      BY <1>9, <3>2
    <3> QED BY <1>3, <1>8, <3>3
  <2> QED BY <2>1, <2>2
<1>12. \A n \in DOMAIN qs : Behind(qs[n]) \in Nat /\ qs[n] <= Behind(qs[n]) /\ Behind(qs[n]) <= e
                            /\ (qs[n] # Eof => qs[n] < Behind(qs[n]))
  <2> SUFFICES ASSUME NEW n \in DOMAIN qs
               PROVE  /\ Behind(qs[n]) \in Nat /\ qs[n] <= Behind(qs[n]) /\ Behind(qs[n]) <= e
                      /\ (qs[n] # Eof => qs[n] < Behind(qs[n]))
    OBVIOUS
  <2> DEFINE q == qs[n]
  <2>1. q \in Nat /\ F <= q /\ q <= L /\ q <= Eof
    BY <1>11
  <2>2. Behind(q) = IF q = Eof THEN Eof ELSE q + 1
    BY <1>7
  <2> HIDE DEF q
  <2>3. Behind(q) \in Nat /\ q <= Behind(q) /\ Behind(q) <= e /\ (q # Eof => q < Behind(q))
    BY <1>3, <1>6, <1>8, <2>1, <2>2
  <2> QED BY <2>3 DEF q
<1>13. /\ ts \in Seq(TokenSet) /\ Len(ts) = Len(ws) + 1 /\ DOMAIN ts = DOMAIN qs
       /\ \A n \in DOMAIN ts : /\ ts[n].type = "Q" /\ ts[n].start = qs[n] /\ ts[n].end = Behind(qs[n])
  <2>1. \A n \in DOMAIN qs : LET t == Token("Q", "NO", qs[n], Behind(qs[n]))
                             IN  t \in TokenSet /\ t.type = "Q" /\ t.start = qs[n] /\ t.end = Behind(qs[n])
    <3> SUFFICES ASSUME NEW n \in DOMAIN qs
                 PROVE  LET t == Token("Q", "NO", qs[n], Behind(qs[n]))
                        IN  t \in TokenSet /\ t.type = "Q" /\ t.start = qs[n] /\ t.end = Behind(qs[n])
      OBVIOUS
    <3>1. qs[n] \in Nat /\ Behind(qs[n]) \in Nat
      BY <1>11, <1>12
    <3>2. "Q" \in Types /\ "NO" \in Subtypes
      BY TypeNames
    <3> QED BY <3>1, <3>2, TokenFacts
  <2>2. ts \in [1..(Len(ws) + 1) -> TokenSet]
    BY <1>10, <2>1
  <2>3. \A n \in DOMAIN ts : ts[n] = Token("Q", "NO", qs[n], Behind(qs[n]))
    OBVIOUS
  <2>4. DOMAIN ts = DOMAIN qs
    OBVIOUS
  <2>5. Len(ws) + 1 \in Nat
    BY <1>9
  <2> HIDE DEF ts
  <2>6. ts \in Seq(TokenSet) /\ Len(ts) = Len(ws) + 1
    BY <2>2, <2>5, SeqFacts
  <2>7. \A n \in DOMAIN ts : ts[n].type = "Q" /\ ts[n].start = qs[n] /\ ts[n].end = Behind(qs[n])
    BY <2>1, <2>3, <2>4
  <2> QED BY <2>4, <2>6, <2>7
<1>14. DOMAIN ts = 1..(Len(ws) + 1) /\ 1 \in DOMAIN ts /\ ts # <<>>
  BY <1>9, <1>10, <1>13
<1> HIDE DEF ts
<1>15. e \in (Start + 1)..Eof
  BY <1>1, <1>3, <1>6, <1>8
<1>16. \A n \in DOMAIN ts : ts[n].start <= ts[n].end /\ ts[n].end <= e
  BY <1>12, <1>13
<1>17. Len(ts) <= e - Start /\ (Len(ts) = e - Start => Start = Len(text))
  <2> DEFINE w == Len(ws)
  <2>1. w \in Nat /\ (w = 0 \/ w <= L - 1 - F)
    BY <1>9
  <2>2. Len(ts) = w + 1
    BY <1>13
  <2> HIDE DEF w
  <2>3. /\ Start + 1 <= F /\ F <= L /\ L <= Eof /\ (L = Eof \/ L > F)
        /\ Start <= Len(text) /\ Eof = Len(text) + 1
    BY <1>1, <1>3, <1>8
  <2> DEFINE s == Start
             m == Len(text)
  <2>4. s \in Nat /\ m \in Nat /\ Eof \in Nat /\ F \in Nat /\ L \in Nat /\ e \in Nat
    BY <1>1, <1>8
  <2>5. s + 1 <= F /\ F <= L /\ L <= Eof /\ (L = Eof \/ L > F) /\ s <= m /\ Eof = m + 1
    BY <2>3
  <2> HIDE DEF s, m
  <2>6. CASE L = Eof
    <3>1. e = m + 1 /\ L = m + 1
      BY <1>6, <2>5, <2>6
    <3>2. w + 1 <= e - s /\ (w + 1 = e - s => s = m)
      BY <2>1, <2>4, <2>5, <3>1
    <3> QED BY <2>2, <3>2 DEF s, m
  <2>7. CASE L # Eof
    <3>1. e = L + 1 /\ L > F
      BY <1>6, <2>5, <2>7
    <3>2. w + 1 < e - s
      BY <2>1, <2>4, <2>5, <3>1
    <3>3. w + 1 <= e - s /\ w + 1 # e - s
      BY <2>1, <2>4, <3>2
    <3> QED BY <2>2, <3>3 DEF s
  <2> QED BY <2>6, <2>7
<1>18. ASSUME SignsAlone, NEW n \in DOMAIN ts PROVE ~Sign(ts[n].start)
  <2>1. ts[n].start = qs[n] /\ n \in DOMAIN qs
    BY <1>13
  <2> DEFINE q == qs[n]
  <2>2. q \in Nat /\ F <= q /\ q <= L /\ (q = L => L = F)
    BY <1>11, <2>1
  <2> HIDE DEF q
  <2>3. CASE q \in 1..Len(text)
    <3>1. \A r \in Start..q : At(r) # "]"
      <4> SUFFICES ASSUME NEW r \in Start..q, At(r) = "]" PROVE FALSE
        OBVIOUS
      <4>1. Graph(r) /\ r \in Nat /\ r # Start
        <5>1. r \in Nat
          BY <1>8, <2>2
        <5>2. At(r) \in Specials
          BY SpecialKinds
        <5>3. Graph(r)
          BY <1>1, <5>1, <5>2, AtFacts
        <5> QED BY <1>2, <5>1, <5>3 DEF Here
      <4>2. ~(r \in (Start + 1)..(F - 1)) /\ ~(r \in (F + 1)..(L - 1)) /\ r # F
        BY <1>2, <1>3, <4>1
      <4>3. r = L
        BY <1>3, <1>8, <2>2, <4>1, <4>2
      <4> QED BY <1>8, <2>2, <4>2, <4>3
    <3>2. Start \in 1..q /\ At(Start) = "["
      BY <1>1, <1>2, <1>3, <1>8, <2>2 DEF Here
    <3>3. Bracketed(q)
      BY <3>1, <3>2 DEF Bracketed
    <3> QED BY <1>1, <1>18, <2>1, <2>3, <3>3 DEF SignsAlone, q
  <2>4. CASE q \notin 1..Len(text)
    <3>1. At(q) = "NUL"
      BY <1>1, <2>2, <2>4, AtFacts
    <3> QED BY <2>1, <3>1 DEF Sign, q
  <2> QED BY <2>3, <2>4
<1>19. \A n \in 1..(Len(ts) - 1) : ts[n].end <= ts[n + 1].start
  <2> SUFFICES ASSUME NEW n \in 1..Len(ws) PROVE ts[n].end <= ts[n + 1].start
    BY <1>9, <1>13
  <2>1. n \in DOMAIN ts /\ n + 1 \in DOMAIN ts /\ n + 1 \in 2..(Len(ws) + 1) /\ (n + 1) - 1 = n
    BY <1>9, <1>14
  <2>2. ts[n].end = Behind(qs[n]) /\ ts[n + 1].start = qs[n + 1] /\ qs[n + 1] = ws[n]
    BY <1>10, <1>13, <2>1
  <2>3. F + 1 <= ws[n] /\ ws[n] <= L - 1 /\ ws[n] \in Nat
    BY <1>9
  <2>4. qs[n] < ws[n]
    <3>1. CASE n = 1
      BY <1>8, <1>10, <2>3, <3>1
    <3>2. CASE n # 1
      <4>1. n \in 2..(Len(ws) + 1) /\ n - 1 \in 1..(Len(ws) - 1) /\ (n - 1) + 1 = n
        BY <1>9, <3>2
      <4>2. qs[n] = ws[n - 1]
        BY <1>10, <4>1
      <4>3. ws[n - 1] < ws[(n - 1) + 1]
        BY <1>9, <4>1
      <4> QED BY <4>1, <4>2, <4>3
    <3> QED BY <3>1, <3>2
  <2>5. qs[n] \in Nat
    BY <1>11, <1>13, <2>1
  <2>6. Behind(qs[n]) = qs[n] + 1
    BY <1>3, <1>7, <1>8, <2>3, <2>4, <2>5
  <2> QED BY <2>2, <2>3, <2>4, <2>5, <2>6
<1>20. ASSUME BracketsClosed, NEW p \in Start..(e - 1), Graph(p)
       PROVE  Holds(ts, p) \/ Marks(ts, p)
  <2>1. p \in Nat /\ p \in 1..Len(text)
    BY <1>1, <1>8, <1>20, AtFacts
  <2>2. CASE At(p) \in {"[", "]"}
    <3>1. ts[1].type = "Q"
      BY <1>13, <1>14
    <3> QED BY <1>14, <2>2, <3>1 DEF Marks
  <2>3. CASE p = F
    <3>1. ts[1].start = p /\ p < ts[1].end
      <4>1. p # Eof
        BY <1>1, <2>1
      <4>2. qs[1] = p /\ 1 \in DOMAIN qs
        BY <1>10, <1>13, <1>14, <2>3
      <4> QED BY <1>12, <1>13, <1>14, <4>1, <4>2
    <3> QED BY <1>14, <2>1, <3>1 DEF Holds
  <2>4. CASE p \in (F + 1)..(L - 1)
    <3>1. PICK i \in 1..Len(ws) : ws[i] = p
      BY <1>9, <1>20, <2>4
    <3>2. i + 1 \in 2..(Len(ws) + 1) /\ (i + 1) - 1 = i /\ i + 1 \in DOMAIN ts
      BY <1>9, <1>14
    <3>3. qs[i + 1] = p
      BY <1>10, <3>1, <3>2
    <3>4. p # Eof
      BY <1>1, <2>1
    <3>5. ts[i + 1].start = p /\ p < ts[i + 1].end
      BY <1>12, <1>13, <3>2, <3>3, <3>4
    <3> QED BY <2>1, <3>2, <3>5 DEF Holds
  <2>5. CASE p = L
    <3>1. L # Eof
      BY <1>1, <2>1, <2>5
    <3>2. L > F /\ Graph(L) /\ (At(L) = "]" \/ At(L + 1) = "NUL")
      BY <1>3, <3>1
    <3>3. PICK q \in Start..Len(text) : At(q) = "]"
      BY <1>1, <1>2, <1>20 DEF BracketsClosed, Here
    <3>4. q \in Nat /\ Graph(q) /\ q # Start /\ q # F
      <4>1. q \in Nat
        BY <1>8, <3>3
      <4>2. At(q) \in Specials
        BY <3>3, SpecialKinds
      <4> QED BY <1>1, <1>2, <3>3, <4>1, <4>2, AtFacts DEF Here
    <3>5. ~(q \in (Start + 1)..(F - 1)) /\ ~(q \in (F + 1)..(L - 1))
      BY <1>3, <3>3, <3>4
    <3>6. q >= L
      BY <1>3, <1>8, <3>3, <3>4, <3>5
    <3>7. CASE q = L
      BY <2>2, <2>5, <3>3, <3>7
    <3>8. CASE q > L
      <4>1. L + 1 \in 1..Len(text) /\ L + 1 \in Int
        BY <1>1, <1>8, <3>3, <3>4, <3>8
      <4>2. At(L + 1) # "NUL"
        BY <1>1, <4>1, AtFacts
      <4> QED BY <2>2, <2>5, <3>2, <4>2
    <3> QED BY <1>8, <3>4, <3>6, <3>7, <3>8
  <2>6. CASE p = Start
    BY <1>2, <2>2, <2>6 DEF Here
  <2>7. ~(p \in (Start + 1)..(F - 1))
    BY <1>3, <1>20
  <2>8. p <= L
    BY <1>1, <1>3, <1>6, <1>8, <2>1
  <2> QED BY <1>3, <1>8, <2>1, <2>3, <2>4, <2>5, <2>6, <2>7, <2>8
<1>21. Cover(ts, e)
  <2>1. \A n \in DOMAIN ts : ts[n].type # "UNWRITTEN" /\ Start <= ts[n].start
    BY <1>3, <1>8, <1>11, <1>13
  <2> QED BY <1>19, <1>20, <2>1 DEF Cover
<1>22. Fills(ts, e)
  <2>1. SignsAlone => \A n \in DOMAIN ts : Signed(ts[n])
    BY <1>13, <1>18 DEF Signed, Alone
  <2> QED BY <1>2, <1>13, <1>14, <1>15, <1>16, <1>17, <1>21, <2>1 DEF Fills
<1> QED BY <1>22 DEF ts, e, qs, L

(* Where the lock behind a colon is. *)
LEMMA LockPlaces ==
    ASSUME Reading, Name(Lock) \/ Underscore
    PROVE  /\ Lock \in (Start + 1)..Len(text)
           /\ At(Lock) \in Words
           /\ Lists(LockModifiers, Start + 1, Lock - 1)
           /\ \A n \in (Start + 1)..(Lock - 1) : Graph(n) => At(n) \in Modifiers
<1>1. text \in Seq(Symbols) /\ Start \in 1..Len(text) /\ Eof = Len(text) + 1 /\ Len(text) \in Nat
  BY StartFacts, EofFacts DEF Reading, Placed
<1>2. Start + 1 \in 1..Eof
  BY <1>1
<1>3. Lock \in (Start + 1)..Eof /\ \A n \in (Start + 1)..(Lock - 1) : Graph(n) => At(n) \in Modifiers
  BY <1>1, <1>2, PastFacts DEF Lock
<1>4. At(Lock) \in Words
  BY SymbolFacts DEF Name, Underscore
<1>5. Lock \in 1..Len(text)
  <2>1. Lock \in Int
    BY <1>1, <1>3
  <2> QED BY <1>1, <1>4, <2>1, AtFacts, SymbolFacts
<1>6. Lists(LockModifiers, Start + 1, Lock - 1)
  <2>1. Start + 1 \in Nat /\ Lock - 1 \in Int /\ Lock - 1 >= (Start + 1) - 1
    BY <1>1, <1>3
  <2> QED BY <2>1, WordsInFacts DEF LockModifiers
<1> QED BY <1>1, <1>3, <1>4, <1>5, <1>6

LockToken == IF Underscore THEN Of("RSPE", Lock)
             ELSE Token(IF At(Lock) = "scope" THEN "RSCOPE" ELSE "R", "NO", Lock, Lock + 1)
LockTokens == [n \in DOMAIN LockModifiers |-> Of("RSPE", LockModifiers[n])] \o <<LockToken>>

(* Token t holds the word at p, or its underscore. *)
Keeps(t, p) == (t.start <= p /\ p < t.end) \/ (Underscoring(t) /\ t.start = p)

(* The tokens of the modifiers and of the lock. *)
LEMMA LockTokensFacts ==
    ASSUME Reading, Name(Lock) \/ Underscore
    PROVE  LET ts == LockTokens
               k == Len(LockModifiers)
           IN  /\ k \in Nat /\ k <= Lock - Start - 1
               /\ ts \in Seq(TokenSet) /\ Len(ts) = k + 1
               /\ ts[k + 1].start = Lock /\ ts[k + 1].end \in {Lock, Lock + 1}
               /\ \A n \in 1..(k + 1) :
                     /\ Signed(ts[n]) /\ ts[n].type # "UNWRITTEN"
                     /\ Start + 1 <= ts[n].start /\ ts[n].start <= ts[n].end /\ ts[n].end <= Lock + 1
                     /\ ts[n].start \in Nat /\ ts[n].end \in Nat
               /\ \A n \in 1..k : ts[n].end <= ts[n + 1].start
               /\ \A p \in (Start + 1)..Lock : Graph(p) => \E n \in 1..(k + 1) : Keeps(ts[n], p)
<1> DEFINE ms == LockModifiers
           k == Len(ms)
           tm == Turned(ms)
           t == LockToken
           ts == tm \o <<t>>
           L == Lock
<1>1. text \in Seq(Symbols) /\ Start \in 1..Len(text) /\ Len(text) \in Nat
  BY StartFacts, EofFacts DEF Reading, Placed
<1>2. /\ L \in (Start + 1)..Len(text)
      /\ At(L) \in Words
      /\ Lists(ms, Start + 1, L - 1)
      /\ \A n \in (Start + 1)..(L - 1) : Graph(n) => At(n) \in Modifiers
  BY LockPlaces
<1>3. /\ t \in TokenSet /\ t.start = L /\ t.end \in {L, L + 1} /\ t.type # "UNWRITTEN"
      /\ Signed(t) /\ Keeps(t, L)
  <2>1. L \in Nat /\ L + 1 \in Nat
    BY <1>1, <1>2
  <2>2. ~Sign(L) /\ ~Paren(L)
    BY <1>2, SpecialKinds, SymbolFacts DEF Sign, Paren
  <2>3. CASE Underscore
    <3> DEFINE last == IF Chars(At(L)) = 1 THEN L + 1 ELSE L
               sub == First(At(L))
    <3>1. At(L) \in Underscored /\ t = Token("RSPE", sub, L, last)
      BY <2>3 DEF Underscore, LockToken, Of
    <3>2. "RSPE" \in Types /\ sub \in Subtypes
      BY <3>1, TypeNames DEF First
    <3>3. last \in Nat /\ last \in {L, L + 1}
      BY <2>1
    <3>4. /\ t \in TokenSet /\ t.start = L /\ t.end = last /\ t.type = "RSPE"
          /\ t.subtype = First(At(L))
      <4>1. /\ t \in TokenSet /\ t.start = L /\ t.end = last /\ t.type = "RSPE"
            /\ t.subtype = sub
        <5> HIDE DEF t, L, last, sub
        <5> QED BY <2>1, <3>1, <3>2, <3>3, TokenFacts
      <4> QED BY <4>1
    <3> HIDE DEF t, L, last, sub
    <3> QED BY <2>1, <2>2, <3>1, <3>3, <3>4 DEF Signed, Alone, Keeps, Underscoring
  <2>4. CASE ~Underscore
    <3> DEFINE type == IF At(L) = "scope" THEN "RSCOPE" ELSE "R"
    <3>1. type \in Types /\ "NO" \in Subtypes /\ type \notin {"UNWRITTEN", "LSPE", "RSPE"}
      BY TypeNames
    <3>2. t = Token(type, "NO", L, L + 1)
      BY <2>4 DEF LockToken
    <3>3. t \in TokenSet /\ t.start = L /\ t.end = L + 1 /\ t.type = type
      <4> HIDE DEF t, L, type
      <4> QED BY <2>1, <3>1, <3>2, TokenFacts
    <3> HIDE DEF t, type, L
    <3> QED BY <2>1, <2>2, <3>1, <3>3 DEF Signed, Alone, Keeps
  <2> QED BY <2>3, <2>4
<1> HIDE DEF ms, t, L
<1>4. L \in Nat /\ Start \in Nat /\ Start + 1 <= L
  BY <1>1, <1>2
<1>5. /\ ms \in Seq(Nat) /\ k \in Nat /\ k <= L - Start - 1
      /\ \A i \in 1..k : Start + 1 <= ms[i] /\ ms[i] <= L - 1 /\ Graph(ms[i]) /\ ms[i] \in Nat
      /\ \A i \in 1..(k - 1) : ms[i] < ms[i + 1]
      /\ \A p \in (Start + 1)..(L - 1) : Graph(p) => \E i \in 1..k : ms[i] = p
  BY <1>2, <1>4 DEF Lists
<1>6. \A i \in 1..k : At(ms[i]) \in Modifiers
  BY <1>2, <1>4, <1>5
<1>7. /\ tm \in Seq(TokenSet) /\ Len(tm) = k
      /\ \A n \in 1..k : /\ tm[n].start = ms[n] /\ tm[n].end = ms[n] + 1
                         /\ tm[n].type = "RSPE" /\ Signed(tm[n])
  BY <1>1, <1>5, <1>6, TurnedFacts
<1> HIDE DEF tm, k
<1>8. /\ ts \in Seq(TokenSet) /\ Len(ts) = k + 1 /\ ts[k + 1] = t /\ \A n \in 1..k : ts[n] = tm[n]
  BY <1>3, <1>5, <1>7
<1> HIDE DEF ts
<1>9. \A n \in 1..(k + 1) :
         /\ Signed(ts[n]) /\ ts[n].type # "UNWRITTEN"
         /\ Start + 1 <= ts[n].start /\ ts[n].start <= ts[n].end /\ ts[n].end <= L + 1
         /\ ts[n].start \in Nat /\ ts[n].end \in Nat
  <2> SUFFICES ASSUME NEW n \in 1..(k + 1)
               PROVE  /\ Signed(ts[n]) /\ ts[n].type # "UNWRITTEN"
                      /\ Start + 1 <= ts[n].start /\ ts[n].start <= ts[n].end /\ ts[n].end <= L + 1
                      /\ ts[n].start \in Nat /\ ts[n].end \in Nat
    OBVIOUS
  <2>1. CASE n = k + 1
    BY <1>3, <1>4, <1>8, <2>1
  <2>2. CASE n # k + 1
    <3>1. n \in 1..k
      BY <1>5, <2>2
    <3>2. ts[n].start = ms[n] /\ ts[n].end = ms[n] + 1 /\ ts[n].type = "RSPE" /\ Signed(ts[n])
      BY <1>7, <1>8, <3>1
    <3>3. ms[n] \in Nat /\ Start + 1 <= ms[n] /\ ms[n] <= L - 1
      BY <1>5, <3>1
    <3> QED BY <1>4, <3>2, <3>3
  <2> QED BY <2>1, <2>2
<1>10. \A n \in 1..k : ts[n].end <= ts[n + 1].start
  <2> SUFFICES ASSUME NEW n \in 1..k PROVE ts[n].end <= ts[n + 1].start
    OBVIOUS
  <2>1. ts[n].end = ms[n] + 1 /\ ms[n] \in Nat /\ ms[n] <= L - 1
    BY <1>5, <1>7, <1>8
  <2>2. CASE n = k
    BY <1>3, <1>4, <1>8, <2>1, <2>2
  <2>3. CASE n # k
    <3>1. n \in 1..(k - 1) /\ n + 1 \in 1..k
      BY <1>5, <2>3
    <3>2. ts[n + 1].start = ms[n + 1] /\ ms[n + 1] \in Nat /\ ms[n] < ms[n + 1]
      BY <1>5, <1>7, <1>8, <3>1
    <3> QED BY <2>1, <3>2
  <2> QED BY <2>2, <2>3
<1>11. ASSUME NEW p \in (Start + 1)..L, Graph(p)
       PROVE  \E n \in 1..(k + 1) : Keeps(ts[n], p)
  <2>1. CASE p = L
    <3>1. Keeps(ts[k + 1], p) /\ k + 1 \in 1..(k + 1)
      BY <1>3, <1>5, <1>8, <2>1
    <3> QED BY <3>1
  <2>2. CASE p # L
    <3>1. p \in (Start + 1)..(L - 1) /\ p \in Nat
      BY <1>4, <2>2
    <3>2. PICK n \in 1..k : ms[n] = p
      BY <1>5, <1>11, <3>1
    <3>3. ts[n].start = p /\ ts[n].end = p + 1 /\ n \in 1..(k + 1)
      BY <1>5, <1>7, <1>8, <3>2
    <3> QED BY <3>1, <3>3 DEF Keeps
  <2> QED BY <2>1, <2>2
<1>12. LockTokens = ts
  BY DEF LockTokens, ts, tm, t, ms, Turned
<1> QED BY <1>3, <1>5, <1>8, <1>9, <1>10, <1>11, <1>12 DEF k, ms, L

(* Without a parenthesis behind the lock. *)
LEMMA FillsLock ==
    ASSUME Reading, Here = ":", Name(Lock) \/ Underscore
    PROVE  Fills(LockTokens, Lock + 1)
<1> DEFINE ts == LockTokens
           k == Len(LockModifiers)
           L == Lock
           e == L + 1
<1>1. Start \in 1..Len(text) /\ Eof = Len(text) + 1 /\ Len(text) \in Nat
  BY StartFacts, EofFacts DEF Reading, Placed
<1>2. L \in (Start + 1)..Len(text)
  BY LockPlaces
<1>3. /\ k \in Nat /\ k <= L - Start - 1
      /\ ts \in Seq(TokenSet) /\ Len(ts) = k + 1
      /\ ts[k + 1].start = L /\ ts[k + 1].end \in {L, L + 1}
      /\ \A n \in 1..(k + 1) :
            /\ Signed(ts[n]) /\ ts[n].type # "UNWRITTEN"
            /\ Start + 1 <= ts[n].start /\ ts[n].start <= ts[n].end /\ ts[n].end <= L + 1
            /\ ts[n].start \in Nat /\ ts[n].end \in Nat
      /\ \A n \in 1..k : ts[n].end <= ts[n + 1].start
      /\ \A p \in (Start + 1)..L : Graph(p) => \E n \in 1..(k + 1) : Keeps(ts[n], p)
  BY LockTokensFacts
<1> HIDE DEF ts, k, L
<1>4. DOMAIN ts = 1..(k + 1) /\ ts # <<>> /\ 1 \in DOMAIN ts /\ L \in Nat /\ Start \in Nat
  BY <1>1, <1>2, <1>3
<1>5. \A p \in Start..(e - 1) : Graph(p) => Holds(ts, p) \/ Marks(ts, p)
  <2> SUFFICES ASSUME NEW p \in Start..L, Graph(p) PROVE Holds(ts, p) \/ Marks(ts, p)
    BY <1>4
  <2>1. CASE p = Start
    BY <1>4, <2>1 DEF Marks, Here
  <2>2. CASE p # Start
    <3>1. p \in (Start + 1)..L
      BY <1>4, <2>2
    <3>2. PICK n \in DOMAIN ts : Keeps(ts[n], p)
      BY <1>3, <1>4, <3>1
    <3> QED BY <3>2 DEF Keeps, Underscoring, Holds, Marks
  <2> QED BY <2>1, <2>2
<1>6. \A n \in DOMAIN ts : ts[n].type # "UNWRITTEN" /\ Start <= ts[n].start /\ Signed(ts[n])
                           /\ ts[n].start <= ts[n].end /\ ts[n].end <= e
  BY <1>3, <1>4
<1>7. \A n \in 1..(Len(ts) - 1) : ts[n].end <= ts[n + 1].start
  BY <1>3
<1>8. Cover(ts, e)
  BY <1>5, <1>6, <1>7 DEF Cover
<1>9. e \in (Start + 1)..Eof /\ Len(ts) <= e - Start /\ Len(ts) # e - Start
  BY <1>1, <1>2, <1>3, <1>4
<1>10. Fills(ts, e)
  BY <1>3, <1>4, <1>6, <1>8, <1>9 DEF Fills
<1> QED BY <1>10 DEF ts, L

(* The parenthesis is written behind the first of them. *)
LEMMA FillsParenthesis ==
    ASSUME Reading, Here = ":", Name(Lock) \/ Underscore, At(Lock + 1) = "("
    PROVE  Fills(WithParenthesis(LockTokens, Lock + 1), Lock + 2)
<1> DEFINE made == LockTokens
           k == Len(LockModifiers)
           L == Lock
           e == L + 2
           t == Of("RSPE", L + 1)
           ts == WithParenthesis(made, L + 1)
<1>1. text \in Seq(Symbols) /\ Start \in 1..Len(text) /\ Eof = Len(text) + 1 /\ Len(text) \in Nat
      /\ DOMAIN text = 1..Len(text)
  BY StartFacts, EofFacts DEF Reading, Placed
<1>2. L \in (Start + 1)..Len(text) /\ Lists(LockModifiers, Start + 1, L - 1)
      /\ \A n \in (Start + 1)..(L - 1) : Graph(n) => At(n) \in Modifiers
  BY LockPlaces
<1>3. /\ k \in Nat /\ k <= L - Start - 1
      /\ made \in Seq(TokenSet) /\ Len(made) = k + 1
      /\ made[k + 1].start = L /\ made[k + 1].end \in {L, L + 1}
      /\ \A n \in 1..(k + 1) :
            /\ Signed(made[n]) /\ made[n].type # "UNWRITTEN"
            /\ Start + 1 <= made[n].start /\ made[n].start <= made[n].end /\ made[n].end <= L + 1
            /\ made[n].start \in Nat /\ made[n].end \in Nat
      /\ \A n \in 1..k : made[n].end <= made[n + 1].start
      /\ \A p \in (Start + 1)..L : Graph(p) => \E n \in 1..(k + 1) : Keeps(made[n], p)
  BY LockTokensFacts
<1>4. At(L + 1) = "("
  OBVIOUS
<1>5. ts = [Append(made, Unwritten) EXCEPT ![2] = t]
  BY DEF WithParenthesis
<1>6. L \in Nat /\ Start \in Nat /\ L + 1 \in 1..Len(text)
  <2>1. L \in Nat /\ Start \in Nat /\ L + 1 \in Int
    BY <1>1, <1>2
  <2>2. At(L + 1) # "NUL"
    BY <1>4
  <2> HIDE DEF L
  <2> QED BY <1>1, <2>1, <2>2, AtFacts
<1>7. t \in TokenSet /\ t.type = "RSPE" /\ t.start = L + 1 /\ t.end = L + 2 /\ Signed(t)
  <2>1. "RSPE" \in Types /\ At(L + 1) \in Subtypes
    BY <1>4, TypeNames, SpecialKinds
  <2>2. L + 1 \in Nat /\ L + 2 \in Nat /\ t = Token("RSPE", At(L + 1), L + 1, L + 2)
    <3>1. At(L + 1) \in Specials
      BY <1>4, SpecialKinds
    <3>2. Of("RSPE", L + 1) = Token("RSPE", At(L + 1), L + 1, (L + 1) + 1)
      BY <3>1, OfSpecial
    <3> QED BY <1>6, <3>2
  <2>3. ~Sign(L + 1)
    BY <1>4, SpecialKinds DEF Sign
  <2> HIDE DEF t, L
  <2>4. /\ t \in TokenSet /\ t.type = "RSPE" /\ t.subtype = At(L + 1)
        /\ t.start = L + 1 /\ t.end = L + 2
    BY <2>1, <2>2, TokenFacts
  <2>5. t.end = t.start + 1
    <3>1. L \in Nat
      BY <1>6
    <3> QED BY <2>4, <3>1
  <2>6. First(At(L + 1)) = At(L + 1)
    BY <1>4, FirstFacts, SpecialKinds
  <2> QED BY <2>3, <2>4, <2>5, <2>6 DEF Signed, Alone
<1>8. Unwritten \in TokenSet /\ Unwritten.type = "UNWRITTEN" /\ Unwritten.start = 0 /\ Unwritten.end = 0
      /\ Signed(Unwritten)
  <2>1. Unwritten \in TokenSet /\ Unwritten.type = "UNWRITTEN" /\ Unwritten.start = 0 /\ Unwritten.end = 0
    BY TypeNames, TokenFacts DEF Unwritten
  <2>2. At(0) = "NUL"
    BY <1>1, AtFacts
  <2> QED BY <2>1, <2>2 DEF Signed, Sign, Alone
<1> HIDE DEF made, L, t, ts
<1>9. /\ ts \in Seq(TokenSet) /\ Len(ts) = k + 2 /\ DOMAIN ts = 1..(k + 2) /\ ts # <<>>
      /\ ts[1] = made[1] /\ ts[2] = t
      /\ \A n \in 3..(k + 1) : ts[n] = made[n]
      /\ k > 0 => ts[k + 2] = Unwritten
  <2> DEFINE w == Append(made, Unwritten)
  <2>1. w \in Seq(TokenSet) /\ Len(w) = k + 2 /\ w[k + 2] = Unwritten /\ \A n \in 1..(k + 1) : w[n] = made[n]
    BY <1>3, <1>8
  <2>a. ts = [w EXCEPT ![2] = t]
    BY <1>5
  <2> HIDE DEF w, k
  <2>2. k \in Nat /\ 2 \in 1..(k + 2) /\ w \in [1..(k + 2) -> TokenSet] /\ ts = [w EXCEPT ![2] = t]
    BY <1>3, <2>1, <2>a
  <2>3. ts \in [1..(k + 2) -> TokenSet] /\ ts[2] = t /\ \A n \in 1..(k + 2) : n # 2 => ts[n] = w[n]
    BY <1>7, <2>2
  <2>4. ts \in Seq(TokenSet) /\ Len(ts) = k + 2 /\ DOMAIN ts = 1..(k + 2)
    BY <2>2, <2>3
  <2>5. ts # <<>>
    BY <2>2, <2>4
  <2>6. 1 \in 1..(k + 2) /\ 1 \in 1..(k + 1) /\ \A n \in 3..(k + 1) : n \in 1..(k + 2) /\ n \in 1..(k + 1) /\ n # 2
    BY <2>2
  <2>7. k > 0 => k + 2 \in 1..(k + 2) /\ k + 2 # 2
    BY <2>2
  <2> QED BY <2>1, <2>3, <2>4, <2>5, <2>6, <2>7
<1> HIDE DEF k
<1>10. \A n \in 1..(k + 2) : Signed(ts[n]) /\ ts[n].start <= ts[n].end /\ ts[n].end <= e
  <2> SUFFICES ASSUME NEW n \in 1..(k + 2)
               PROVE  Signed(ts[n]) /\ ts[n].start <= ts[n].end /\ ts[n].end <= e
    OBVIOUS
  <2>1. CASE ts[n] = t
    BY <1>6, <1>7, <2>1
  <2>2. CASE ts[n] = Unwritten
    BY <1>6, <1>8, <2>2
  <2>3. CASE n \in 1..(k + 1) /\ ts[n] = made[n]
    <3>1. made[n].start \in Nat /\ made[n].end \in Nat /\ made[n].start <= made[n].end /\ made[n].end <= L + 1
          /\ Signed(made[n])
      BY <1>3, <2>3
    <3> QED BY <1>6, <2>3, <3>1
  <2>4. n = 1 \/ n = 2 \/ n \in 3..(k + 1) \/ (n = k + 2 /\ k > 0)
    BY <1>3
  <2>5. 1 \in 1..(k + 1) /\ \A m \in 3..(k + 1) : m \in 1..(k + 1)
    BY <1>3
  <2> QED BY <1>9, <2>1, <2>2, <2>3, <2>4, <2>5
<1>11. e \in (Start + 1)..Eof /\ Len(ts) <= e - Start /\ Len(ts) # e - Start
  <2>1. Len(ts) = k + 2
    BY <1>9
  <2>2. k \in Nat /\ k + 1 <= L - Start
    <3>1. k \in Nat /\ k <= L - Start - 1 /\ L \in Nat /\ Start \in Nat
      BY <1>3, <1>6
    <3> HIDE DEF k
    <3> QED BY <3>1
  <2>3. /\ L \in Nat /\ Start \in Nat /\ Start + 1 <= L /\ e = L + 2 /\ e \in Nat /\ e <= Eof
        /\ Eof \in Nat
    BY <1>1, <1>2, <1>6
  <2> HIDE DEF e, L
  <2>4. e \in (Start + 1)..Eof /\ k + 2 <= e - Start /\ k + 2 # e - Start
    BY <2>2, <2>3
  <2> QED BY <2>1, <2>4
<1>12. CASE k = 0
  <2>1. made[1].start = L /\ made[1].end \in {L, L + 1} /\ made[1].type # "UNWRITTEN"
    BY <1>3, <1>12
  <2>2. DOMAIN ts = {1, 2} /\ Len(ts) = 2
    BY <1>9, <1>12
  <2>3. \A n \in DOMAIN ts : ts[n].type # "UNWRITTEN" /\ Start <= ts[n].start
    <3>1. made[1].type # "UNWRITTEN" /\ Start <= made[1].start
      BY <1>2, <1>6, <2>1
    <3>2. t.type # "UNWRITTEN" /\ Start <= t.start
      BY <1>2, <1>6, <1>7
    <3> QED BY <1>9, <2>2, <3>1, <3>2
  <2>4. \A n \in 1..(Len(ts) - 1) : ts[n].end <= ts[n + 1].start
    <3> SUFFICES ASSUME NEW n \in 1..1 PROVE ts[n].end <= ts[n + 1].start
      BY <2>2
    <3>1. n = 1 /\ n + 1 = 2
      OBVIOUS
    <3> QED BY <1>6, <1>7, <1>9, <2>1, <3>1
  <2>5. \A p \in Start..(e - 1) : Graph(p) => Holds(ts, p) \/ Marks(ts, p)
    <3> SUFFICES ASSUME NEW p \in Start..(L + 1), Graph(p) PROVE Holds(ts, p) \/ Marks(ts, p)
      BY <1>6
    <3>1. CASE p = Start
      BY <2>2, <3>1 DEF Marks, Here
    <3>2. CASE p = L + 1
      <4>1. t.start <= p /\ p < t.end
        BY <1>6, <1>7, <3>2
      <4>2. 2 \in DOMAIN ts /\ ts[2] = t
        BY <1>9, <2>2
      <4> QED BY <4>1, <4>2 DEF Holds
    <3>3. CASE p # Start /\ p # L + 1
      <4>1. p \in (Start + 1)..L
        BY <1>6, <3>3
      <4>2. PICK n \in 1..1 : Keeps(made[n], p)
        BY <1>3, <1>12, <4>1
      <4>3. Keeps(ts[1], p)
        BY <1>9, <4>2
      <4> QED BY <2>2, <4>3 DEF Keeps, Underscoring, Holds, Marks
    <3> QED BY <3>1, <3>2, <3>3
  <2>6. Cover(ts, e)
    BY <2>3, <2>4, <2>5 DEF Cover
  <2>7. Fills(ts, e)
    BY <1>9, <1>10, <1>11, <2>6 DEF Fills
  <2> QED BY <2>7 DEF ts, made, L
<1>13. CASE k # 0
  <2>1. k > 0 /\ k + 2 \in DOMAIN ts
    BY <1>3, <1>9, <1>13
  <2>2. \E n \in DOMAIN ts : ts[n].type = "UNWRITTEN"
    BY <1>8, <1>9, <2>1
  <2>3. LockModifiers # <<>>
    BY <1>13 DEF k
  <2>4. Name(L)
    BY <2>3 DEF Underscore, L
  <2>5. PICK m \in (Start + 1)..(L - 1) : Graph(m)
    <3>1. 1 \in 1..Len(LockModifiers)
      BY <1>3, <2>1 DEF k
    <3>2. /\ LockModifiers[1] \in Nat /\ Start + 1 <= LockModifiers[1] /\ LockModifiers[1] <= L - 1
          /\ Graph(LockModifiers[1])
      BY <1>2, <3>1 DEF Lists
    <3>3. LockModifiers[1] \in (Start + 1)..(L - 1)
      BY <1>6, <3>2
    <3> QED BY <3>2, <3>3
  <2>6. At(Before(L)) \in Modifiers
    <3> DEFINE S == {n \in 1..(L - 1) : Graph(n)} \cup {0}
               b == Before(L)
    <3>1. b = Max(S)
      BY DEF Before
    <3>2. S \in SUBSET (0..L) /\ S # {} /\ m \in S
      BY <1>6, <2>5
    <3>3. b \in S /\ \A x \in S : x <= b
      <4> HIDE DEF S, b
      <4> QED BY <1>6, <3>1, <3>2, GreatestOf
    <3> HIDE DEF b
    <3>4. m <= b /\ m \in Nat /\ m >= Start + 1
      BY <1>6, <2>5, <3>2, <3>3
    <3>5. b \in 1..(L - 1) /\ Graph(b)
      BY <1>6, <3>3, <3>4
    <3>6. b \in (Start + 1)..(L - 1)
      BY <1>6, <3>4, <3>5
    <3> QED BY <1>2, <3>5, <3>6 DEF b
  <2>7. BehindModifiers
    <3>1. L + 1 \in DOMAIN text /\ (L + 1) - 1 = L
      BY <1>1, <1>6
    <3> QED BY <1>4, <2>4, <2>6, <3>1 DEF BehindModifiers
  <2>8. ASSUME NEW n \in DOMAIN ts, ts[n].type = "UNWRITTEN" PROVE ts[n].start = 0
    <3>1. n = 1 \/ n = 2 \/ n \in 3..(k + 1) \/ n = k + 2
      BY <1>3, <1>9
    <3>2. CASE n = 2
      BY <1>7, <1>9, <2>8, <3>2
    <3>3. CASE n = k + 2
      BY <1>8, <1>9, <2>1, <3>3
    <3>4. CASE n = 1 \/ n \in 3..(k + 1)
      <4>1. n \in 1..(k + 1) /\ ts[n] = made[n]
        BY <1>3, <1>9, <3>4
      <4>2. made[n].type # "UNWRITTEN"
        BY <1>3, <4>1
      <4> QED BY <2>8, <4>1, <4>2
    <3> QED BY <3>1, <3>2, <3>3, <3>4
  <2>9. Fills(ts, e)
    BY <1>9, <1>10, <1>11, <2>2, <2>7, <2>8 DEF Fills
  <2> QED BY <2>9 DEF ts, made, L
<1> QED BY <1>12, <1>13

-----------------------------------------------------------------------------
(* One turn keeps the invariant                                              *)

(* The text stays, and with it what is said of it alone. *)
LEMMA SameText ==
    ASSUME text' = text
    PROVE  /\ Eof' = Eof /\ Offset' = Offset
           /\ (SignsAlone' <=> SignsAlone) /\ (BracketsClosed' <=> BracketsClosed)
           /\ (BehindModifiers' <=> BehindModifiers)
           /\ \A p : At(p)' = At(p) /\ (Graph(p)' <=> Graph(p)) /\ (Sign(p)' <=> Sign(p))
<1>1. \A p : At(p)' = At(p)
  BY DEF At
<1>2. Eof' = Eof /\ Offset' = Offset
  BY DEF Eof, Offset
<1>3. \A p : (Graph(p)' <=> Graph(p)) /\ (Sign(p)' <=> Sign(p))
  BY DEF Graph, Sign, At
<1>4. (SignsAlone' <=> SignsAlone) /\ (BracketsClosed' <=> BracketsClosed)
  BY DEF SignsAlone, BracketsClosed, Bracketed, Sign, At
<1>5. BehindModifiers' <=> BehindModifiers
  BY DEF BehindModifiers, Before, Name, Graph, At
<1> QED BY <1>1, <1>2, <1>3, <1>4, <1>5

LEMMA SameSigned ==
    ASSUME text' = text
    PROVE  \A t : (Paren(t)' <=> Paren(t)) /\ (Signed(t)' <=> Signed(t))
BY DEF Signed, Alone, Underscoring, Paren, Sign, At

LEMMA JoinFacts ==
    ASSUME NEW S, NEW a \in Seq(S), NEW b \in Seq(S), NEW c, c = a \o b
    PROVE  /\ c \in Seq(S) /\ Len(c) = Len(a) + Len(b) /\ DOMAIN c = 1..(Len(a) + Len(b))
           /\ Len(a) \in Nat /\ Len(b) \in Nat /\ DOMAIN a = 1..Len(a) /\ DOMAIN b = 1..Len(b)
           /\ \A n \in DOMAIN a : n \in DOMAIN c /\ c[n] = a[n]
           /\ \A n \in DOMAIN b : Len(a) + n \in DOMAIN c /\ c[Len(a) + n] = b[n]
           /\ \A n \in DOMAIN c : n \in DOMAIN a \/ (n - Len(a) \in DOMAIN b /\ c[n] = b[n - Len(a)])
OBVIOUS

(* The positions the offsets are asked for. *)
LEMMA EndFacts ==
    ASSUME Placed
    PROVE  /\ end - 1 \in 0..Len(text) /\ end \in Nat /\ Start \in Nat /\ end <= Start /\ Start <= Eof
           /\ Eof = Len(text) + 1 /\ Len(text) \in Nat /\ Eof \in Nat
           /\ Offset[end - 1] \in Nat
<1>1. end \in 1..Eof /\ Eof = Len(text) + 1 /\ Len(text) \in Nat /\ text \in Seq(Symbols)
  BY EofFacts DEF Placed
<1>2. Start \in end..Eof
  BY StartFacts
<1>3. end - 1 \in 0..Len(text)
  BY <1>1
<1>4. Offset[end - 1] \in Nat
  BY <1>1, <1>3, OffsetFacts
<1> QED BY <1>1, <1>2, <1>3, <1>4

(* What was read up to e is worth at least as many characters. *)
LEMMA Worth ==
    ASSUME Placed, NEW e \in end..Eof
    PROVE  /\ e - 1 \in 0..Len(text) /\ Offset[e - 1] \in Nat
           /\ Offset[e - 1] >= Offset[end - 1] + (e - end)
<1>1. /\ end - 1 \in 0..Len(text) /\ end \in Nat
      /\ Eof = Len(text) + 1 /\ Len(text) \in Nat
  BY EndFacts
<1>2. e - 1 \in (end - 1)..Len(text) /\ e - 1 \in 0..Len(text) /\ (e - 1) - (end - 1) = e - end
  BY <1>1
<1>3. Offset[e - 1] >= Offset[end - 1] + ((e - 1) - (end - 1)) /\ Offset[e - 1] \in Nat
  BY <1>1, <1>2, OffsetGrows, OffsetFacts DEF Placed
<1> QED BY <1>2, <1>3

(* The tokens of one turn are appended. *)
LEMMA TakenKeeps ==
    ASSUME IInv, pc = "lex", Here # "NUL", NEW ts, NEW e, Fills(ts, e), Taken(ts, e),
           nest' \in Nat, nest' < e
    PROVE  IInv'
<1>1. /\ text \in Seq(Symbols) /\ Placed
      /\ tokens \in Seq(TokenSet)
      /\ quoted \in BOOLEAN /\ opened \in Seq(Openers)
      /\ \A n \in DOMAIN tokens :
            /\ tokens[n].start <= tokens[n].end /\ tokens[n].end <= end
            /\ tokens[n].type = "UNWRITTEN" => tokens[n].start = 0
  BY DEF IInv, TypeInv, Placed
<1>2. /\ tokens' = tokens \o ts /\ end' = e
      /\ text' = text /\ pc' = "lex" /\ opened' = opened /\ quoted' = quoted /\ skipped' = skipped
  BY DEF Taken, scanVars
<1>3. /\ ts \in Seq(TokenSet) /\ ts # <<>>
      /\ e \in (Start + 1)..Eof
      /\ Len(ts) <= e - Start
      /\ \A n \in DOMAIN ts : ts[n].start <= ts[n].end /\ ts[n].end <= e
      /\ Len(ts) = e - Start =>
            \/ Here = "[" /\ Start = Len(text) /\ ~Graph(Start - 1)
            \/ \A p \in Start..(e - 1) : Graph(p) /\ Holds(ts, p)
      /\ SignsAlone => \A n \in DOMAIN ts : Signed(ts[n])
      /\ \/ Cover(ts, e)
         \/ /\ BehindModifiers /\ \E n \in DOMAIN ts : ts[n].type = "UNWRITTEN"
            /\ \A n \in DOMAIN ts : ts[n].type = "UNWRITTEN" => ts[n].start = 0
  BY DEF Fills
<1> DEFINE k == Len(tokens)
           j == Len(ts)
<1>4. /\ tokens' \in Seq(TokenSet) /\ Len(tokens') = k + j /\ DOMAIN tokens' = 1..(k + j)
      /\ k \in Nat /\ j \in Nat /\ DOMAIN tokens = 1..k /\ DOMAIN ts = 1..j
      /\ \A n \in DOMAIN tokens : n \in DOMAIN tokens' /\ tokens'[n] = tokens[n]
      /\ \A n \in DOMAIN ts : k + n \in DOMAIN tokens' /\ tokens'[k + n] = ts[n]
      /\ \A n \in DOMAIN tokens' : n \in DOMAIN tokens \/ (n - k \in DOMAIN ts /\ tokens'[n] = ts[n - k])
  <2> DEFINE w == tokens'
  <2>1. w = tokens \o ts
    BY <1>2
  <2> HIDE DEF w
  <2>2. /\ w \in Seq(TokenSet) /\ Len(w) = k + j /\ DOMAIN w = 1..(k + j)
        /\ k \in Nat /\ j \in Nat /\ DOMAIN tokens = 1..k /\ DOMAIN ts = 1..j
        /\ \A n \in DOMAIN tokens : n \in DOMAIN w /\ w[n] = tokens[n]
        /\ \A n \in DOMAIN ts : k + n \in DOMAIN w /\ w[k + n] = ts[n]
        /\ \A n \in DOMAIN w : n \in DOMAIN tokens \/ (n - k \in DOMAIN ts /\ w[n] = ts[n - k])
    BY <1>1, <1>3, <2>1, JoinFacts
  <2> QED BY <2>2 DEF w
<1>5. /\ end - 1 \in 0..Len(text) /\ end \in Nat /\ Start \in Nat /\ end <= Start /\ Start <= Eof
      /\ Eof = Len(text) + 1 /\ Len(text) \in Nat /\ Eof \in Nat /\ Offset[end - 1] \in Nat
  BY <1>1, EndFacts
<1>6. /\ e \in Nat /\ Start + 1 <= e /\ e <= Eof /\ e \in end..Eof /\ e \in 1..Eof
  BY <1>3, <1>5
<1>7. /\ Start \in 1..Len(text) /\ Graph(Start) /\ \A n \in end..(Start - 1) : ~Graph(n)
  BY <1>1, StartFacts
<1>8. /\ Eof' = Eof /\ Offset' = Offset
      /\ (SignsAlone' <=> SignsAlone) /\ (BracketsClosed' <=> BracketsClosed)
      /\ (BehindModifiers' <=> BehindModifiers)
      /\ \A p : At(p)' = At(p) /\ (Graph(p)' <=> Graph(p)) /\ (Sign(p)' <=> Sign(p))
  BY <1>2, SameText
<1>9. j >= 1
  BY <1>3, <1>4
<1> HIDE DEF k, j
<1>10. TypeInv'
  <2>1. Placed'
    BY <1>1, <1>2, <1>6, <1>8 DEF Placed
  <2>2. \A n \in DOMAIN tokens' :
           /\ tokens'[n].start <= tokens'[n].end /\ tokens'[n].end <= e
           /\ tokens'[n].type = "UNWRITTEN" => tokens'[n].start = 0
    <3> SUFFICES ASSUME NEW n \in DOMAIN tokens'
                 PROVE  /\ tokens'[n].start <= tokens'[n].end /\ tokens'[n].end <= e
                        /\ tokens'[n].type = "UNWRITTEN" => tokens'[n].start = 0
      OBVIOUS
    <3>1. CASE n \in DOMAIN tokens
      <4>1. /\ tokens[n].start <= tokens[n].end /\ tokens[n].end <= end
            /\ tokens[n].type = "UNWRITTEN" => tokens[n].start = 0
        BY <1>1, <3>1
      <4>2. tokens[n] \in TokenSet
        BY <1>1, <3>1
      <4>3. tokens[n].end \in Nat
        BY <4>2 DEF TokenSet
      <4> QED BY <1>4, <1>5, <1>6, <3>1, <4>1, <4>3
    <3>2. CASE n - k \in DOMAIN ts /\ tokens'[n] = ts[n - k]
      <4>1. ts[n - k].type = "UNWRITTEN" => ts[n - k].start = 0
        BY <1>3, <3>2 DEF Cover
      <4> QED BY <1>3, <3>2, <4>1
    <3> QED BY <1>4, <3>1, <3>2
  <2>3. "lex" \in Phases /\ "lex" # "scan"
    BY DEF Phases
  <2> QED BY <1>1, <1>2, <1>4, <2>1, <2>2, <2>3 DEF TypeInv
<1>11. CountInv' /\ DenseInv'
  <2>1. /\ Offset[e - 1] \in Nat /\ Offset[e - 1] >= Offset[end - 1] + (e - end)
        /\ e - 1 \in 0..Len(text)
    BY <1>1, <1>6, Worth
  <2>2. k <= Offset[end - 1]
    BY DEF IInv, CountInv, k
  <2>3. j <= e - Start
    BY <1>3 DEF j
  <2> DEFINE o == Offset[end - 1]
             oe == Offset[e - 1]
             s == Start
  <2>4. o \in Nat /\ oe \in Nat /\ s \in Nat /\ end <= s /\ s + 1 <= e /\ oe >= o + (e - end) /\ k <= o
        /\ j <= e - s
    BY <1>5, <1>6, <2>1, <2>2, <2>3
  <2> HIDE DEF o, oe, s
  <2>5. k + j <= oe
    BY <1>4, <1>5, <1>6, <2>4
  <2>6. k + j = oe => k = o /\ j = e - s /\ s = end /\ oe = o + (e - end)
    BY <1>4, <1>5, <1>6, <2>4
  <2>7. CountInv'
    BY <1>2, <1>4, <1>8, <2>5 DEF CountInv, oe
  <2>8. ASSUME k + j = oe, NEW p \in 1..(e - 1)
        PROVE  Graph(p) /\ Inside(p)' /\ Chars(At(p)) = 1
    <3>1. k = Offset[end - 1] /\ j = e - Start /\ Start = end /\ Offset[e - 1] = Offset[end - 1] + (e - end)
      BY <2>6, <2>8 DEF o, oe, s
    <3>2. \A q \in 1..(end - 1) : Graph(q) /\ Inside(q) /\ Chars(At(q)) = 1
      BY <3>1 DEF IInv, DenseInv, k
    <3>3. ~(Here = "[" /\ Start = Len(text) /\ ~Graph(Start - 1))
      <4> SUFFICES ASSUME Here = "[", Start = Len(text), ~Graph(Start - 1) PROVE FALSE
        OBVIOUS
      <4>1. Start = 1
        <5> SUFFICES ASSUME Start # 1 PROVE FALSE
          OBVIOUS
        <5>1. Start - 1 \in 1..(end - 1)
          BY <1>5, <1>7, <3>1
        <5> QED BY <3>2, <5>1
      <4>2. Len(text) = 1 /\ At(1) = "["
        BY <4>1 DEF Here
      <4> QED BY <4>2 DEF IInv, LoneInv
    <3>4. \A q \in Start..(e - 1) : Graph(q) /\ Holds(ts, q)
      BY <1>3, <3>1, <3>3 DEF j
    <3>5. CASE p < end
      <4>1. p \in 1..(end - 1)
        BY <1>5, <3>5
      <4>2. Graph(p) /\ Inside(p) /\ Chars(At(p)) = 1
        BY <3>2, <4>1
      <4>3. Inside(p)'
        BY <1>4, <4>2 DEF Inside
      <4> QED BY <4>2, <4>3
    <3>6. CASE p >= end
      <4>1. p \in Start..(e - 1)
        BY <1>5, <1>6, <3>1, <3>6
      <4>2. Graph(p) /\ Holds(ts, p)
        BY <3>4, <4>1
      <4>3. Inside(p)'
        <5>1. PICK n \in DOMAIN ts : ts[n].start <= p /\ p < ts[n].end
          BY <4>2 DEF Holds
        <5>2. k + n \in DOMAIN tokens' /\ tokens'[k + n] = ts[n]
          BY <1>4
        <5> QED BY <5>1, <5>2 DEF Inside
      <4>4. Chars(At(p)) = 1
        <5> DEFINE a == end - 1
                   b == e - 1
        <5>1. /\ a \in 0..Len(text) /\ b \in a..Len(text)
              /\ p \in (a + 1)..b
          BY <1>5, <1>6, <3>6
        <5>2. Offset[b] = Offset[a] + (b - a)
          <6>1. b - a = e - end
            BY <1>5, <1>6
          <6> QED BY <3>1, <6>1
        <5> HIDE DEF a, b
        <5> QED BY <1>1, <5>1, <5>2, OffsetDense
      <4> QED BY <4>2, <4>3, <4>4
    <3> QED BY <1>5, <3>5, <3>6
  <2>9. DenseInv'
    <3>1. \A p : Chars(At(p))' = Chars(At(p))
      BY <1>8 DEF Chars
    <3>2. k + j = Offset[e - 1] => \A p \in 1..(e - 1) : Graph(p) /\ Inside(p)' /\ Chars(At(p)) = 1
      BY <2>8 DEF oe
    <3> QED BY <1>2, <1>4, <1>8, <3>1, <3>2 DEF DenseInv
  <2> QED BY <2>7, <2>9
<1>12. ASSUME Written'
       PROVE  Written /\ Cover(ts, e)
  <2>1. \A n \in DOMAIN tokens' : tokens'[n].type # "UNWRITTEN"
    BY <1>12 DEF Written
  <2>2. Written
    BY <1>4, <2>1 DEF Written
  <2>3. \A n \in DOMAIN ts : ts[n].type # "UNWRITTEN"
    BY <1>4, <2>1
  <2> QED BY <1>3, <2>2, <2>3
<1>13. OrderInv'
  <2> SUFFICES ASSUME Written', NEW n \in 1..(Len(tokens') - 1)
               PROVE  tokens'[n].end <= tokens'[n + 1].start
    BY DEF OrderInv
  <2>0. n \in 1..(k + j - 1) /\ n \in Nat
    BY <1>4
  <2>1. Written /\ Cover(ts, e)
    BY <1>12
  <2>2. \A m \in 1..(k - 1) : tokens[m].end <= tokens[m + 1].start
    BY <2>1 DEF IInv, OrderInv, k
  <2>3. /\ \A m \in DOMAIN ts : Start <= ts[m].start
        /\ \A m \in 1..(j - 1) : ts[m].end <= ts[m + 1].start
    BY <2>1 DEF Cover, j
  <2>4. CASE n < k
    <3>1. n \in 1..(k - 1) /\ n \in DOMAIN tokens /\ n + 1 \in DOMAIN tokens
      BY <1>4, <2>4
    <3> QED BY <1>4, <2>2, <3>1
  <2>5. CASE n = k
    <3>1. n \in DOMAIN tokens /\ 1 \in DOMAIN ts
      BY <1>4, <1>9, <2>5
    <3>2. tokens'[n] = tokens[n] /\ tokens'[n + 1] = ts[1]
      BY <1>4, <2>5, <3>1
    <3>3. tokens[n] \in TokenSet /\ ts[1] \in TokenSet
      BY <1>1, <1>3, <3>1
    <3>4. tokens[n].end \in Nat /\ ts[1].start \in Nat
      BY <3>3 DEF TokenSet
    <3>5. tokens[n].end <= end /\ Start <= ts[1].start
      BY <1>1, <2>3, <3>1
    <3> QED BY <1>5, <3>2, <3>4, <3>5
  <2>6. CASE n > k
    <3> DEFINE m == n - k
    <3>1. m \in 1..(j - 1) /\ m \in DOMAIN ts /\ m + 1 \in DOMAIN ts
          /\ k + m = n /\ k + (m + 1) = n + 1
      BY <1>4, <2>0, <2>6
    <3> HIDE DEF m
    <3>2. tokens'[k + m] = ts[m] /\ tokens'[k + (m + 1)] = ts[m + 1]
      BY <1>4, <3>1
    <3>3. tokens'[n] = ts[m] /\ tokens'[n + 1] = ts[m + 1]
      BY <3>1, <3>2, Zenon
    <3> QED BY <2>3, <3>1, <3>3
  <2> QED BY <1>4, <2>0, <2>4, <2>5, <2>6
<1>14. CoverInv'
  <2> SUFFICES ASSUME Written', SignsAlone, BracketsClosed,
                      NEW p \in 1..Len(text), p < e, Graph(p), p \notin skipped
               PROVE  Inside(p)' \/ Mark(p)'
    <3>1. DOMAIN text = 1..Len(text)
      BY <1>1
    <3> QED BY <1>2, <1>8, <3>1 DEF CoverInv
  <2>1. Written /\ Cover(ts, e)
    BY <1>12
  <2>2. CASE p < end
    <3>1. p \in DOMAIN text
      BY <1>1
    <3>2. Inside(p) \/ Mark(p)
      BY <2>1, <2>2, <3>1 DEF IInv, CoverInv
    <3>3. Inside(p) => Inside(p)'
      BY <1>4 DEF Inside
    <3>4. Mark(p) => Mark(p)'
      BY <1>4, <1>8 DEF Mark, Is
    <3> QED BY <3>2, <3>3, <3>4
  <2>3. CASE p >= end
    <3>1. p \in Start..(e - 1)
      BY <1>5, <1>6, <1>7, <2>3
    <3>2. Holds(ts, p) \/ Marks(ts, p)
      BY <2>1, <3>1 DEF Cover
    <3>3. Holds(ts, p) => Inside(p)'
      <4> SUFFICES ASSUME Holds(ts, p) PROVE Inside(p)'
        OBVIOUS
      <4>1. PICK n \in DOMAIN ts : ts[n].start <= p /\ p < ts[n].end
        BY DEF Holds
      <4>2. k + n \in DOMAIN tokens' /\ tokens'[k + n] = ts[n]
        BY <1>4
      <4> QED BY <4>1, <4>2 DEF Inside
    <3>4. Marks(ts, p) => Mark(p)'
      <4> SUFFICES ASSUME Marks(ts, p) PROVE Mark(p)'
        OBVIOUS
      <4>1. PICK n \in DOMAIN ts :
               \/ At(p) = ":"
               \/ ts[n].type = "LIT" /\ p \in {ts[n].start - 1, ts[n].end}
                                     /\ At(p) \in {"GRAVE", "BACKSLASH"}
               \/ ts[n].type = "Q" /\ At(p) \in {"[", "]"}
               \/ ts[n].type = "PL" /\ At(p) = "." /\ p = ts[n].start - 1
               \/ ts[n].type = "LSCOPE" /\ At(p) \in {"~", ","} /\ ts[n].subtype \in {"ELSE", "ELSE_IF"}
               \/ ts[n].type = "RSPE" /\ At(p) \in Underscored /\ p = ts[n].start
        BY DEF Marks
      <4>2. k + n \in DOMAIN tokens' /\ tokens'[k + n] = ts[n] /\ At(p)' = At(p)
        BY <1>4, <1>8
      <4> QED BY <4>1, <4>2 DEF Mark, Is
    <3> QED BY <3>2, <3>3, <3>4
  <2> QED BY <1>5, <2>2, <2>3
<1>15. SignsInv'
  <2> SUFFICES ASSUME SignsAlone, NEW n \in DOMAIN tokens' PROVE Signed(tokens'[n])
    BY <1>2, <1>8, SameSigned DEF SignsInv
  <2>1. CASE n \in DOMAIN tokens
    BY <1>4, <2>1 DEF IInv, SignsInv
  <2>2. CASE n - k \in DOMAIN ts /\ tokens'[n] = ts[n - k]
    BY <1>3, <2>2
  <2> QED BY <1>4, <2>1, <2>2
<1>19. SkippedInv'
  <2>1. skipped \subseteq 1..(end - 1)
    BY DEF IInv, SkippedInv
  <2>2. skipped \subseteq 1..(e - 1)
    BY <1>5, <1>6, <2>1
  <2>3. ASSUME Written', NEW n \in DOMAIN tokens'
        PROVE  /\ tokens'[n].start >= 1
               /\ \A p \in skipped : ~(tokens'[n].start <= p /\ p < tokens'[n].end)
    <3>1. CASE n \in DOMAIN tokens
      BY <1>4, <1>12, <2>3, <3>1 DEF IInv, SkippedInv
    <3>2. CASE n - k \in DOMAIN ts /\ tokens'[n] = ts[n - k]
      <4> DEFINE t == ts[n - k]
      <4>1. t \in TokenSet /\ Start <= t.start
        BY <1>3, <1>12, <2>3, <3>2 DEF Cover
      <4>2. t.start \in Nat /\ Start <= t.start
        BY <4>1 DEF TokenSet
      <4> HIDE DEF t
      <4>3. t.start >= 1 /\ \A p \in 1..(end - 1) : ~(t.start <= p)
        BY <1>5, <1>7, <4>2
      <4> QED BY <2>1, <3>2, <4>3 DEF t
    <3> QED BY <1>4, <3>1, <3>2
  <2> QED BY <1>2, <2>2, <2>3 DEF SkippedInv
<1>16. LoneInv'
  <2>1. ~(Len(text) = 1 /\ At(1) = "[")
    BY DEF IInv, LoneInv
  <2> QED BY <1>2, <1>8, <2>1 DEF LoneInv
<1>17. UnwrittenOnlyBehindModifiers'
  <2> SUFFICES ASSUME ~Written' PROVE BehindModifiers
    BY <1>8 DEF UnwrittenOnlyBehindModifiers, BehindModifiers
  <2>1. CASE ~Written
    BY <2>1 DEF IInv, UnwrittenOnlyBehindModifiers, BehindModifiers
  <2>2. CASE Written
    <3>1. ~\A n \in DOMAIN ts : ts[n].type # "UNWRITTEN"
      BY <1>4, <2>2 DEF Written
    <3> QED BY <1>3, <3>1 DEF Cover
  <2> QED BY <2>1, <2>2
<1>18. UndefinedOnlyUnclosed' /\ AbortsOnlyDense'
  BY <1>2 DEF UndefinedOnlyUnclosed, AbortsOnlyDense
<1> QED BY <1>10, <1>11, <1>13, <1>14, <1>15, <1>16, <1>17, <1>18, <1>19 DEF IInv

(* `then` takes tokens back, each of which is the sign it begins with. *)
LEMMA AbsorbedKeeps ==
    ASSUME IInv, pc = "lex", Here # "NUL", NEW a \in 1..Len(tokens),
           \A n \in (Len(tokens) - a + 1)..Len(tokens) : Sign(tokens[n].start),
           NEW subtype \in {"ELSE", "ELSE_IF"},
           tokens' = Append(SubSeq(tokens, 1, Len(tokens) - a), Token("LSCOPE", subtype, Start, Start + 1)),
           ~Sign(Start), ~Paren(Start), end' = Start + 1, UNCHANGED <<text, pc, scanVars, nest, skipped>>
    PROVE  IInv'
<1>1. /\ text \in Seq(Symbols) /\ Placed
      /\ tokens \in Seq(TokenSet) /\ nest \in Nat /\ nest < end
      /\ quoted \in BOOLEAN /\ opened \in Seq(Openers)
      /\ \A n \in DOMAIN tokens :
            /\ tokens[n].start <= tokens[n].end /\ tokens[n].end <= end
            /\ tokens[n].type = "UNWRITTEN" => tokens[n].start = 0
  BY DEF IInv, TypeInv, Placed
<1>2. /\ text' = text /\ pc' = "lex" /\ opened' = opened /\ quoted' = quoted /\ skipped' = skipped
      /\ nest' = nest /\ end' = Start + 1
  BY DEF scanVars
<1> DEFINE t == Token("LSCOPE", subtype, Start, Start + 1)
           k == Len(tokens) - a
<1>3. /\ end - 1 \in 0..Len(text) /\ end \in Nat /\ Start \in Nat /\ end <= Start /\ Start <= Eof
      /\ Eof = Len(text) + 1 /\ Len(text) \in Nat /\ Eof \in Nat /\ Offset[end - 1] \in Nat
  BY <1>1, EndFacts
<1>4. /\ Start \in 1..Len(text) /\ Graph(Start) /\ \A n \in end..(Start - 1) : ~Graph(n)
  BY <1>1, StartFacts
<1>5. /\ t \in TokenSet /\ t.type = "LSCOPE" /\ t.subtype = subtype /\ t.start = Start /\ t.end = Start + 1
  <2>1. "LSCOPE" \in Types
    BY TypeNames
  <2>2. subtype \in Subtypes
    BY TypeNames
  <2>3. Start \in Nat /\ Start + 1 \in Nat
    BY <1>3
  <2> QED BY <2>1, <2>2, <2>3 DEF Token, TokenSet
<1> HIDE DEF t
<1>6. /\ Len(tokens) \in Nat /\ a \in Nat /\ a >= 1 /\ k \in Nat /\ k + a = Len(tokens) /\ k < Len(tokens)
      /\ DOMAIN tokens = 1..Len(tokens)
  BY <1>1
<1>7. /\ tokens' \in Seq(TokenSet) /\ Len(tokens') = k + 1 /\ DOMAIN tokens' = 1..(k + 1)
      /\ tokens'[k + 1] = t /\ k + 1 \in DOMAIN tokens'
      /\ \A n \in 1..k : n \in DOMAIN tokens /\ n \in DOMAIN tokens' /\ tokens'[n] = tokens[n]
  <2> DEFINE kept == SubSeq(tokens, 1, k)
  <2>1. kept \in Seq(TokenSet) /\ Len(kept) = k /\ \A n \in 1..k : kept[n] = tokens[n]
    BY <1>1, <1>6
  <2>2. tokens' = Append(kept, t)
    BY DEF t
  <2> HIDE DEF kept, k
  <2>3. tokens' \in Seq(TokenSet) /\ Len(tokens') = k + 1 /\ tokens'[k + 1] = t
        /\ \A n \in 1..k : tokens'[n] = kept[n]
    <3> DEFINE w == Append(kept, t)
    <3>1. w \in Seq(TokenSet) /\ Len(w) = k + 1 /\ w[k + 1] = t /\ \A n \in 1..k : w[n] = kept[n]
      BY <1>5, <1>6, <2>1
    <3>2. tokens' = w
      BY <2>2
    <3> HIDE DEF w
    <3> QED BY <3>1, <3>2, Zenon
  <2>4. DOMAIN tokens' = 1..(k + 1) /\ k + 1 \in 1..(k + 1)
        /\ \A n \in 1..k : n \in 1..Len(tokens) /\ n \in 1..(k + 1)
    BY <1>6, <2>3
  <2> QED BY <1>6, <2>1, <2>3, <2>4
<1>8. \A n \in DOMAIN tokens : n \in 1..k \/ Sign(tokens[n].start)
  BY <1>6
<1> HIDE DEF k
<1>9. \A n \in DOMAIN tokens' : n \in 1..k \/ n = k + 1
  BY <1>6, <1>7
<1>10. /\ Eof' = Eof /\ Offset' = Offset
       /\ (SignsAlone' <=> SignsAlone) /\ (BracketsClosed' <=> BracketsClosed)
       /\ (BehindModifiers' <=> BehindModifiers)
       /\ \A p : At(p)' = At(p) /\ (Graph(p)' <=> Graph(p)) /\ (Sign(p)' <=> Sign(p))
  BY <1>2, SameText
<1>11. ~Sign(0)
  <2>1. At(0) = "NUL"
    BY <1>1, <1>3, AtFacts
  <2> QED BY <2>1 DEF Sign
<1>12. TypeInv'
  <2>1. Start + 1 \in 1..Eof /\ end <= Start + 1
    BY <1>3, <1>4
  <2>2. Placed'
    BY <1>1, <1>2, <1>10, <2>1 DEF Placed
  <2>3. \A n \in DOMAIN tokens' :
           /\ tokens'[n].start <= tokens'[n].end /\ tokens'[n].end <= Start + 1
           /\ tokens'[n].type = "UNWRITTEN" => tokens'[n].start = 0
    <3> SUFFICES ASSUME NEW n \in DOMAIN tokens'
                 PROVE  /\ tokens'[n].start <= tokens'[n].end /\ tokens'[n].end <= Start + 1
                        /\ tokens'[n].type = "UNWRITTEN" => tokens'[n].start = 0
      OBVIOUS
    <3>1. CASE n \in 1..k
      <4>1. /\ tokens[n].start <= tokens[n].end /\ tokens[n].end <= end
            /\ tokens[n].type = "UNWRITTEN" => tokens[n].start = 0
        BY <1>1, <1>7, <3>1
      <4>2. tokens[n] \in TokenSet
        BY <1>1, <1>7, <3>1
      <4>3. tokens[n].end \in Nat
        BY <4>2 DEF TokenSet
      <4>4. tokens[n].end <= Start + 1
        BY <1>3, <4>1, <4>3
      <4>5. tokens'[n] = tokens[n]
        BY <1>7, <3>1
      <4> QED BY <4>1, <4>4, <4>5
    <3>2. CASE n = k + 1
      BY <1>3, <1>5, <1>7, <3>2
    <3> QED BY <1>9, <3>1, <3>2
  <2>4. "lex" \in Phases /\ "lex" # "scan"
    BY DEF Phases
  <2>5. nest < Start + 1
    BY <1>1, <1>3
  <2> QED BY <1>1, <1>2, <1>7, <2>2, <2>3, <2>4, <2>5 DEF TypeInv
<1>13. CountInv' /\ DenseInv'
  <2>1. Start + 1 \in end..Eof
    BY <1>3, <1>4
  <2>2. Offset[(Start + 1) - 1] \in Nat /\ Offset[(Start + 1) - 1] >= Offset[end - 1] + ((Start + 1) - end)
    BY <1>1, <2>1, Worth
  <2>3. Len(tokens) <= Offset[end - 1]
    BY DEF IInv, CountInv
  <2> DEFINE o == Offset[end - 1]
             oe == Offset[(Start + 1) - 1]
             s == Start
             l == Len(tokens)
  <2>4. o \in Nat /\ oe \in Nat /\ s \in Nat /\ end <= s /\ oe >= o + ((s + 1) - end) /\ l <= o
        /\ l \in Nat /\ k < l
    BY <1>3, <1>6, <2>2, <2>3
  <2> HIDE DEF o, oe, s, l
  <2>5. k + 1 < oe
    <3>1. oe \in Nat /\ end \in Nat /\ k \in Nat
      BY <1>3, <1>6, <2>2 DEF oe
    <3>2. oe >= o + 1
      BY <2>4, <3>1
    <3> QED BY <2>4, <3>1, <3>2
  <2>6. k + 1 <= oe /\ k + 1 # oe
    BY <1>6, <2>4, <2>5
  <2> QED BY <1>2, <1>7, <1>10, <2>6 DEF CountInv, DenseInv, oe
<1>14. Written' => Written
  <2> SUFFICES ASSUME Written', NEW n \in DOMAIN tokens PROVE tokens[n].type # "UNWRITTEN"
    BY DEF Written
  <2>1. CASE n \in 1..k
    BY <1>7, <2>1 DEF Written
  <2>2. CASE Sign(tokens[n].start)
    BY <1>1, <1>11, <2>2
  <2> QED BY <1>8, <2>1, <2>2
<1>15. OrderInv'
  <2> SUFFICES ASSUME Written', NEW n \in 1..(Len(tokens') - 1)
               PROVE  tokens'[n].end <= tokens'[n + 1].start
    BY DEF OrderInv
  <2>1. n \in 1..k
    BY <1>6, <1>7
  <2>2. CASE n = k
    <3>1. tokens[n].end <= end /\ tokens[n] \in TokenSet
      BY <1>1, <1>7, <2>1
    <3>2. tokens[n].end \in Nat
      BY <3>1 DEF TokenSet
    <3>3. tokens[n].end <= Start
      BY <1>3, <3>1, <3>2
    <3>4. tokens'[n] = tokens[n] /\ tokens'[n + 1].start = Start
      BY <1>5, <1>7, <2>1, <2>2
    <3> QED BY <3>3, <3>4
  <2>3. CASE n # k
    <3>1. n \in 1..(Len(tokens) - 1) /\ n + 1 \in 1..k
      BY <1>6, <2>1, <2>3
    <3>2. tokens[n].end <= tokens[n + 1].start
      BY <1>14, <3>1 DEF IInv, OrderInv
    <3> QED BY <1>7, <2>1, <3>1, <3>2
  <2> QED BY <2>2, <2>3
<1>16. CoverInv'
  <2> SUFFICES ASSUME Written', SignsAlone, BracketsClosed,
                      NEW p \in 1..Len(text), p < Start + 1, Graph(p), p \notin skipped
               PROVE  Inside(p)' \/ Mark(p)'
    <3>1. DOMAIN text = 1..Len(text)
      BY <1>1
    <3> QED BY <1>2, <1>10, <3>1 DEF CoverInv
  <2>1. At(p)' = At(p)
    BY <1>10
  <2>2. CASE p < end
    <3>1. p \in DOMAIN text
      BY <1>1
    <3>2. Inside(p) \/ Mark(p)
      BY <1>14, <2>2, <3>1 DEF IInv, CoverInv
    <3>3. ASSUME NEW n \in DOMAIN tokens, n \notin 1..k
          PROVE  tokens[n].end = tokens[n].start + 1 /\ tokens[n].type \in {"LSPE", "LR"}
                 /\ tokens[n].start \in Nat /\ Sign(tokens[n].start)
      <4>1. Sign(tokens[n].start)
        BY <1>8, <3>3
      <4>2. tokens[n] \in TokenSet
        BY <1>1
      <4> QED BY <4>1, <4>2 DEF IInv, SignsInv, Signed, TokenSet
    <3>4. CASE Inside(p)
      <4>1. PICK n \in DOMAIN tokens : tokens[n].start <= p /\ p < tokens[n].end
        BY <3>4 DEF Inside
      <4>2. CASE n \in 1..k
        BY <1>7, <4>1, <4>2 DEF Inside
      <4>3. CASE n \notin 1..k
        <5>1. tokens[n].end = tokens[n].start + 1 /\ tokens[n].start \in Nat /\ Sign(tokens[n].start)
          BY <3>3, <4>3
        <5>2. p = tokens[n].start
          BY <4>1, <5>1
        <5>3. At(p) \in {"~", ","}
          BY <5>1, <5>2 DEF Sign
        <5>4. tokens'[k + 1].type = "LSCOPE" /\ tokens'[k + 1].subtype \in {"ELSE", "ELSE_IF"}
          BY <1>5, <1>7
        <5> QED BY <1>7, <2>1, <5>3, <5>4 DEF Mark, Is
      <4> QED BY <4>2, <4>3
    <3>5. CASE Mark(p)
      <4>1. PICK n \in DOMAIN tokens :
               \/ At(p) = ":"
               \/ tokens[n].type = "LIT" /\ p \in {tokens[n].start - 1, tokens[n].end}
                                         /\ At(p) \in {"GRAVE", "BACKSLASH"}
               \/ tokens[n].type = "Q" /\ At(p) \in {"[", "]"}
               \/ tokens[n].type = "PL" /\ At(p) = "." /\ p = tokens[n].start - 1
               \/ tokens[n].type = "LSCOPE" /\ At(p) \in {"~", ","} /\ tokens[n].subtype \in {"ELSE", "ELSE_IF"}
               \/ tokens[n].type = "RSPE" /\ At(p) \in Underscored /\ p = tokens[n].start
        BY <3>5 DEF Mark, Is
      <4>2. CASE n \in 1..k
        <5>1. n \in DOMAIN tokens' /\ tokens'[n] = tokens[n]
          BY <1>7, <4>2
        <5> QED BY <2>1, <4>1, <5>1 DEF Mark, Is
      <4>3. CASE n \notin 1..k
        <5>1. At(p) = ":"
          BY <3>3, <4>1, <4>3
        <5> QED BY <1>7, <2>1, <5>1 DEF Mark
      <4> QED BY <4>2, <4>3
    <3> QED BY <3>2, <3>4, <3>5
  <2>3. CASE p >= end
    <3>1. p = Start
      <4>1. ~(p \in end..(Start - 1))
        BY <1>4
      <4> QED BY <1>3, <2>3, <4>1
    <3>2. tokens'[k + 1].start <= p /\ p < tokens'[k + 1].end
      BY <1>3, <1>5, <1>7, <3>1
    <3> QED BY <1>7, <3>2 DEF Inside
  <2> QED BY <1>3, <2>2, <2>3
<1>17. SignsInv'
  <2> SUFFICES ASSUME SignsAlone, NEW n \in DOMAIN tokens' PROVE Signed(tokens'[n])
    BY <1>2, <1>10, SameSigned DEF SignsInv
  <2>1. CASE n \in 1..k
    BY <1>7, <2>1 DEF IInv, SignsInv
  <2>2. CASE n = k + 1
    BY <1>5, <1>7, <2>2 DEF Signed, Alone
  <2> QED BY <1>9, <2>1, <2>2
<1>21. SkippedInv'
  <2>1. skipped \subseteq 1..(end - 1)
    BY DEF IInv, SkippedInv
  <2>2. skipped \subseteq 1..((Start + 1) - 1)
    BY <1>3, <2>1
  <2>3. ASSUME Written', NEW n \in DOMAIN tokens'
        PROVE  /\ tokens'[n].start >= 1
               /\ \A p \in skipped : ~(tokens'[n].start <= p /\ p < tokens'[n].end)
    <3>1. CASE n \in 1..k
      BY <1>7, <1>14, <2>3, <3>1 DEF IInv, SkippedInv
    <3>2. CASE n = k + 1
      <4>1. Start >= 1 /\ \A p \in 1..(end - 1) : ~(Start <= p)
        BY <1>3, <1>4
      <4> QED BY <1>5, <1>7, <2>1, <3>2, <4>1
    <3> QED BY <1>9, <3>1, <3>2
  <2> QED BY <1>2, <2>2, <2>3 DEF SkippedInv
<1>18. LoneInv'
  <2>1. ~(Len(text) = 1 /\ At(1) = "[")
    BY DEF IInv, LoneInv
  <2> QED BY <1>2, <1>10, <2>1 DEF LoneInv
<1>19. UnwrittenOnlyBehindModifiers'
  <2>1. ASSUME ~Written' PROVE ~Written
    <3>1. PICK n \in DOMAIN tokens' : tokens'[n].type = "UNWRITTEN"
      BY <2>1 DEF Written
    <3>2. n # k + 1
      BY <1>5, <1>7, <3>1
    <3> QED BY <1>7, <1>9, <3>1, <3>2 DEF Written
  <2>2. ~Written' => BehindModifiers
    BY <2>1 DEF IInv, UnwrittenOnlyBehindModifiers, BehindModifiers
  <2> QED BY <1>10, <2>2 DEF UnwrittenOnlyBehindModifiers, BehindModifiers
<1>20. UndefinedOnlyUnclosed' /\ AbortsOnlyDense'
  BY <1>2 DEF UndefinedOnlyUnclosed, AbortsOnlyDense
<1> QED BY <1>12, <1>13, <1>15, <1>16, <1>17, <1>18, <1>19, <1>20, <1>21 DEF IInv


-----------------------------------------------------------------------------
(* The steps of the scan                                                     *)

LEMMA LeastIn ==
    ASSUME NEW a \in Nat, NEW b \in Nat, NEW S \in SUBSET (a..b), S # {}
    PROVE  Min(S) \in S /\ Min(S) \in a..b
<1>1. S \in SUBSET Nat
  OBVIOUS
<1> QED BY <1>1, LeastOf

(* Where a comment of one line ends. *)
LEMMA LineFacts ==
    ASSUME text \in Seq(Symbols), NEW p \in 1..Eof
    PROVE  LineEnd(p) \in p..Eof
<1> DEFINE S == {n \in p..Eof : At(n) \in {"NL", "NUL"}}
<1>1. Eof \in Nat /\ Eof \notin 1..Len(text)
  BY EofFacts
<1>2. Eof \in S
  <2>1. At(Eof) = "NUL"
    BY <1>1, AtFacts
  <2> QED BY <1>1, <2>1
<1>3. S \in SUBSET (p..Eof) /\ S # {} /\ p \in Nat
  BY <1>2
<1>4. LineEnd(p) = Min(S)
  BY DEF LineEnd
<1> HIDE DEF S
<1> QED BY <1>1, <1>3, <1>4, LeastIn

(* A comment begins with three symbols. *)
LEMMA OpensFacts ==
    ASSUME Reading, NEW c, Opens(Start, c)
    PROVE  Start + 3 \in 1..Eof
<1>1. text \in Seq(Symbols) /\ Start \in 1..Len(text) /\ Eof = Len(text) + 1 /\ Len(text) \in Nat
  BY StartFacts, EofFacts DEF Reading, Placed
<1>2. At(Start + 2) # "NUL" /\ Start + 2 \in Int
  BY <1>1 DEF Opens
<1>3. Start + 2 \in 1..Len(text)
  BY <1>1, <1>2, AtFacts
<1> QED BY <1>1, <1>3

LEMMA EndsFacts ==
    ASSUME Reading, NEW c, Opens(Start, c), NEW lasts, Ends(Start + 3, lasts) # {}
    PROVE  LET n == Min(Ends(Start + 3, lasts))
           IN  n \in (Start + 3)..(Eof - 2) /\ At(n + 2) \in lasts
<1> DEFINE S == Ends(Start + 3, lasts)
           n == Min(S)
<1>1. Start + 3 \in Nat /\ Eof \in Nat /\ Start \in Nat
  BY StartFacts, EofFacts, OpensFacts DEF Reading, Placed
<1>2. S \in SUBSET ((Start + 3)..(Eof - 2)) /\ S # {}
  BY DEF Ends
<1>3. S \in SUBSET Nat
  BY <1>1, <1>2
<1>4. n \in S
  <2> HIDE DEF S
  <2> QED BY <1>2, <1>3, LeastOf
<1>5. n \in (Start + 3)..(Eof - 2) /\ At(n + 2) \in lasts
  <2> HIDE DEF n
  <2> QED BY <1>4 DEF Ends
<1> QED BY <1>5

(* A comment for which no end is found is not closed. *)
LEMMA EndlessFacts ==
    ASSUME Reading, Opens(Start, "|"), NEW lasts, "|" \in lasts, Ends(Start + 3, lasts) = {}
    PROVE  \E p \in DOMAIN text : Opens(p, "|") /\ ~Closed(p)
<1>1. text \in Seq(Symbols) /\ Start \in 1..Len(text) /\ Eof = Len(text) + 1 /\ Len(text) \in Nat
      /\ DOMAIN text = 1..Len(text)
  BY StartFacts, EofFacts DEF Reading, Placed
<1>2. ~Closed(Start)
  <2> SUFFICES ASSUME NEW n \in (Start + 3)..Len(text), At(n) = "-", At(n + 1) = "-", At(n + 2) = "|"
               PROVE  FALSE
    BY DEF Closed
  <2>1. n + 2 \in Int /\ At(n + 2) # "NUL"
    BY <1>1
  <2>2. n + 2 \in 1..Len(text)
    BY <1>1, <2>1, AtFacts
  <2>3. n \in (Start + 3)..(Eof - 2)
    BY <1>1, <2>2
  <2> QED BY <2>3 DEF Ends
<1> QED BY <1>1, <1>2

LEMMA ScanKeeps ==
    ASSUME IInv, pc = "scan", UNCHANGED <<text, tokenVars>>,
           end' \in 1..Eof, pc' \in {"scan", "lex", "rejected", "undefined"},
           opened' \in Seq(Openers), quoted' \in BOOLEAN, pc' = "lex" => end' = 1,
           Len(text) = 1 /\ At(1) = "[" =>
               pc' \in {"scan", "rejected"} /\ (end' = 1 \/ opened' # <<>>),
           pc' = "undefined" => \E p \in DOMAIN text : Opens(p, "|") /\ ~Closed(p)
    PROVE  IInv'
<1>1. /\ text \in Seq(Symbols) /\ Placed /\ tokens = <<>> /\ nest = 0 /\ skipped = {}
      /\ text' = text /\ tokens' = <<>> /\ nest' = 0 /\ skipped' = {}
  BY DEF IInv, TypeInv, Placed, tokenVars
<1>2. /\ Eof' = Eof /\ Offset' = Offset
      /\ (BehindModifiers' <=> BehindModifiers)
      /\ \A p : At(p)' = At(p)
  BY <1>1, SameText
<1>3. Len(tokens') = 0 /\ DOMAIN tokens' = {} /\ tokens' \in Seq(TokenSet)
  BY <1>1
<1> DEFINE e == end'
<1>4. e - 1 \in 0..Len(text) /\ Len(text) \in Nat /\ Eof = Len(text) + 1 /\ 0 \in 0..Len(text) /\ e \in Nat
  <2>1. Len(text) \in Nat /\ Eof = Len(text) + 1 /\ e \in 1..Eof
    BY <1>1, EofFacts
  <2> HIDE DEF e
  <2> QED BY <2>1
<1>5. Offset[e - 1] \in Nat /\ Offset[e - 1] >= e - 1
  <2> HIDE DEF e
  <2>1. e - 1 \in 0..Len(text) /\ (e - 1) - 0 = e - 1 /\ e - 1 \in Int
    BY <1>4
  <2>2. Offset[e - 1] >= Offset[0] + ((e - 1) - 0) /\ Offset[0] = 0 /\ Offset[e - 1] \in Nat
    BY <1>1, <1>4, <2>1, OffsetGrows, OffsetFacts
  <2>3. Offset[0] + ((e - 1) - 0) = e - 1
    BY <2>1, <2>2
  <2> QED BY <2>2, <2>3
<1>6. TypeInv'
  <2>1. Placed'
    BY <1>1, <1>2 DEF Placed
  <2>2. pc' \in Phases
    BY DEF Phases, Outcomes
  <2>3. nest' \in Nat /\ nest' < end'
    BY <1>1, <1>4
  <2> QED BY <1>1, <1>3, <2>1, <2>2, <2>3 DEF TypeInv
<1>7. CountInv' /\ DenseInv'
  <2>1. Len(tokens') <= Offset[e - 1]
    BY <1>3, <1>5
  <2>2. Len(tokens') = Offset[e - 1] => e = 1
    <3>1. e \in Nat /\ e >= 1
      BY <1>4
    <3> DEFINE o == Offset[e - 1]
    <3>2. o \in Nat /\ o >= e - 1
      BY <1>5
    <3> HIDE DEF o, e
    <3>3. 0 = o => e = 1
      BY <3>1, <3>2
    <3> QED BY <1>3, <3>3 DEF o
  <2>3. e = 1 => 1..(e - 1) = {}
    BY <1>4
  <2> QED BY <1>1, <1>2, <2>1, <2>2, <2>3 DEF CountInv, DenseInv
<1>8. OrderInv' /\ SignsInv' /\ SkippedInv'
  BY <1>1, <1>3 DEF OrderInv, SignsInv, SkippedInv
<1>9. CoverInv'
  <2> SUFFICES ASSUME pc' \in {"lex", "accepted"}, NEW p \in DOMAIN text', p < end' \/ pc' = "accepted"
               PROVE  FALSE
    BY DEF CoverInv
  <2>1. end' = 1 /\ p \in 1..Len(text) /\ p < end'
    BY <1>1
  <2> QED BY <1>4, <2>1
<1>10. LoneInv'
  BY <1>1, <1>2 DEF LoneInv
<1>11. UnwrittenOnlyBehindModifiers'
  BY <1>3 DEF UnwrittenOnlyBehindModifiers, Written
<1>12. UndefinedOnlyUnclosed'
  <2>1. \A p : (Opens(p, "|")' <=> Opens(p, "|")) /\ (Closed(p)' <=> Closed(p))
    BY <1>1 DEF Opens, Closed, At
  <2> QED BY <1>1, <2>1 DEF UndefinedOnlyUnclosed
<1>13. AbortsOnlyDense'
  BY DEF AbortsOnlyDense
<1> QED BY <1>6, <1>7, <1>8, <1>9, <1>10, <1>11, <1>12, <1>13 DEF IInv

(* What the scan finds in the text `[`. *)
LEMMA LoneFacts ==
    ASSUME IInv, pc = "scan", Len(text) = 1, At(1) = "["
    PROVE  Here = "[" \/ (Here = "NUL" /\ opened # <<>>)
<1>1. Placed /\ text \in Seq(Symbols) /\ (end = 1 \/ opened # <<>>)
  BY DEF IInv, TypeInv, LoneInv, Placed
<1>2. /\ Start \in end..Eof /\ (Here = "NUL" <=> Start = Eof) /\ \A n \in end..(Start - 1) : ~Graph(n)
      /\ end \in 1..Eof /\ Eof = 2
  BY <1>1, StartFacts, EofFacts DEF Placed
<1>3. Start = 1 \/ Start = 2
  BY <1>2
<1>4. CASE Start = 1
  BY <1>4 DEF Here
<1>5. CASE Start = 2
  <2>1. end # 1
    <3>1. Graph(1)
      BY DEF Graph, Blanks
    <3>2. end = 1 => 1 \in end..(Start - 1)
      BY <1>5
    <3> QED BY <1>2, <3>1, <3>2
  <2> QED BY <1>1, <1>2, <1>5, <2>1
<1> QED BY <1>3, <1>4, <1>5

(* What the invariant says when the scan looks at a word. *)
LEMMA ScanFacts ==
    ASSUME IInv, pc = "scan"
    PROVE  /\ text \in Seq(Symbols) /\ Placed /\ opened \in Seq(Openers) /\ quoted \in BOOLEAN
           /\ end \in 1..Eof /\ Eof \in Nat /\ 1 \in 1..Eof
           /\ Here # "NUL" => Reading /\ Start \in 1..Len(text) /\ Start + 1 \in 1..Eof /\ Graph(Start)
<1>1. text \in Seq(Symbols) /\ Placed /\ opened \in Seq(Openers) /\ quoted \in BOOLEAN
  BY DEF IInv, TypeInv, Placed
<1>2. end \in 1..Eof /\ Eof = Len(text) + 1 /\ Len(text) \in Nat
  BY <1>1, EofFacts DEF Placed
<1>3. Here # "NUL" => Reading /\ Start \in 1..Len(text) /\ Graph(Start)
  BY <1>1, StartFacts DEF Reading
<1>4. Start \in 1..Len(text) => Start + 1 \in 1..Eof
  BY <1>2
<1> QED BY <1>1, <1>2, <1>3, <1>4

LEMMA ScanCharacterKeeps == ASSUME IInv, ScanCharacter PROVE IInv'
<1>1. /\ pc = "scan" /\ Here = "BACKSLASH" /\ opened' = opened /\ quoted' = quoted
      /\ UNCHANGED <<text, tokenVars>>
  BY DEF ScanCharacter, Scanning, scanVars
<1>2. CASE Character(Start)
  <2>1. end' = Start + 3 /\ pc' = "scan"
    BY <1>1, <1>2 DEF ScanCharacter, Passed
  <2>2. Start + 3 \in 1..Eof
    <3>1. Start \in 1..Len(text) /\ text \in Seq(Symbols) /\ Eof = Len(text) + 1 /\ Len(text) \in Nat
      BY <1>1, ScanFacts, EofFacts
    <3>2. Start + 2 \in Int /\ At(Start + 2) # "NUL"
      BY <1>2, <3>1 DEF Character
    <3>3. Start + 2 \in 1..Len(text)
      BY <3>1, <3>2, AtFacts
    <3> QED BY <3>1, <3>3
  <2> QED BY <1>1, <2>1, <2>2, ScanFacts, LoneFacts, ScanKeeps
<1>3. CASE ~Character(Start)
  <2>1. end' = end /\ pc' = "rejected"
    BY <1>3 DEF ScanCharacter, Refused
  <2> QED BY <1>1, <2>1, ScanFacts, LoneFacts, ScanKeeps
<1> QED BY <1>2, <1>3

LEMMA ScanOpenerKeeps == ASSUME IInv, ScanOpener PROVE IInv'
<1>1. /\ pc = "scan" /\ Here \in Openers /\ opened' = Append(opened, Here) /\ quoted' = quoted
      /\ UNCHANGED <<text, tokenVars>> /\ end' = Start + 1 /\ pc' = "scan"
  BY DEF ScanOpener, Scanning, Passed
<1>2. Here # "NUL"
  BY <1>1 DEF Openers
<1>3. Start + 1 \in 1..Eof /\ opened \in Seq(Openers) /\ quoted \in BOOLEAN
  BY <1>1, <1>2, ScanFacts
<1>4. opened' \in Seq(Openers) /\ opened' # <<>>
  BY <1>1, <1>3
<1> QED BY <1>1, <1>3, <1>4, ScanKeeps

LEMMA ScanCloserKeeps == ASSUME IInv, ScanCloser PROVE IInv'
<1>1. /\ pc = "scan" /\ Here \in Closers /\ quoted' = quoted /\ UNCHANGED <<text, tokenVars>>
  BY DEF ScanCloser, Scanning
<1>2. Here # "NUL" /\ Here # "["
  BY <1>1 DEF Closers
<1>3. Start + 1 \in 1..Eof /\ opened \in Seq(Openers) /\ quoted \in BOOLEAN /\ end \in 1..Eof
  BY <1>1, <1>2, ScanFacts
<1>4. ~(Len(text) = 1 /\ At(1) = "[")
  BY <1>1, <1>2, LoneFacts
<1>5. CASE opened # <<>> /\ opened[Len(opened)] = Match[Here]
  <2>1. /\ opened' = SubSeq(opened, 1, Len(opened) - 1) /\ end' = Start + 1 /\ pc' = "scan"
    BY <1>1, <1>5 DEF ScanCloser, Passed
  <2>2. opened' \in Seq(Openers)
    <3>1. Len(opened) \in Nat /\ Len(opened) >= 1
      BY <1>3, <1>5
    <3> QED BY <1>3, <2>1, <3>1
  <2> QED BY <1>1, <1>3, <1>4, <2>1, <2>2, ScanKeeps
<1>6. CASE ~(opened # <<>> /\ opened[Len(opened)] = Match[Here])
  <2>1. opened' = opened /\ end' = end /\ pc' = "rejected"
    BY <1>6 DEF ScanCloser, Refused
  <2> QED BY <1>1, <1>3, <1>4, <2>1, ScanKeeps
<1> QED BY <1>5, <1>6

LEMMA ScanColonKeeps == ASSUME IInv, ScanColon PROVE IInv'
<1>1. /\ pc = "scan" /\ Here = ":" /\ opened' = opened /\ quoted' = quoted
      /\ UNCHANGED <<text, tokenVars>>
      /\ (end' = Start + 1 /\ pc' = "scan") \/ (end' = end /\ pc' = "rejected")
  BY DEF ScanColon, Scanning, scanVars, Passed, Refused
<1>2. Start + 1 \in 1..Eof /\ end \in 1..Eof /\ opened \in Seq(Openers) /\ quoted \in BOOLEAN
  BY <1>1, ScanFacts
<1>3. ~(Len(text) = 1 /\ At(1) = "[")
  BY <1>1, LoneFacts
<1> QED BY <1>1, <1>2, <1>3, ScanKeeps

LEMMA ScanLineCommentKeeps == ASSUME IInv, ScanLineComment PROVE IInv'
<1>1. /\ pc = "scan" /\ Here = "!" /\ Opens(Start, "!") /\ opened' = opened /\ quoted' = quoted
      /\ UNCHANGED <<text, tokenVars>> /\ end' = LineEnd(Start + 3) /\ pc' = "scan"
  BY DEF ScanLineComment, Scanning, Passed
<1>2. Reading /\ text \in Seq(Symbols) /\ opened \in Seq(Openers) /\ quoted \in BOOLEAN /\ Eof \in Nat
  BY <1>1, ScanFacts
<1>3. Start + 3 \in 1..Eof
  BY <1>1, <1>2, OpensFacts
<1>4. end' \in 1..Eof
  <2>1. LineEnd(Start + 3) \in (Start + 3)..Eof
    BY <1>2, <1>3, LineFacts
  <2> DEFINE a == Start + 3
  <2>2. end' \in a..Eof /\ a \in 1..Eof
    BY <1>1, <1>3, <2>1
  <2> HIDE DEF a
  <2> QED BY <1>2, <2>2
<1>5. ~(Len(text) = 1 /\ At(1) = "[")
  BY <1>1, LoneFacts
<1> QED BY <1>1, <1>2, <1>4, <1>5, ScanKeeps

LEMMA ScanCommentKeeps == ASSUME IInv, ScanComment PROVE IInv'
<1> DEFINE found == Ends(Start + 3, {"|", "NUL"})
<1>1. /\ pc = "scan" /\ Here = "|" /\ Opens(Start, "|") /\ opened' = opened /\ quoted' = quoted
      /\ UNCHANGED <<text, tokenVars>>
  BY DEF ScanComment, Scanning
<1>2. /\ Reading /\ text \in Seq(Symbols) /\ opened \in Seq(Openers) /\ quoted \in BOOLEAN /\ Eof \in Nat
      /\ end \in 1..Eof /\ Start \in 1..Len(text)
  BY <1>1, ScanFacts
<1>3. ~(Len(text) = 1 /\ At(1) = "[")
  BY <1>1, LoneFacts
<1>4. CASE found = {}
  <2>1. end' = end /\ pc' = "undefined"
    BY <1>4 DEF ScanComment
  <2>2. \E p \in DOMAIN text : Opens(p, "|") /\ ~Closed(p)
    BY <1>1, <1>2, <1>4, EndlessFacts
  <2> QED BY <1>1, <1>2, <1>3, <2>1, <2>2, ScanKeeps
<1>5. CASE found # {}
  <2>1. end' = Min(found) + 2 /\ pc' = "scan"
    BY <1>1, <1>5 DEF ScanComment, Passed
  <2>2. Min(found) \in (Start + 3)..(Eof - 2)
    BY <1>1, <1>2, <1>5, EndsFacts
  <2> DEFINE n == Min(found)
  <2> HIDE DEF n
  <2>3. n \in (Start + 3)..(Eof - 2) /\ end' = n + 2
    BY <2>1, <2>2 DEF n
  <2>4. end' \in 1..Eof
    BY <1>2, <2>3
  <2> QED BY <1>1, <1>2, <1>3, <2>1, <2>4, ScanKeeps
<1> QED BY <1>4, <1>5

LEMMA ScanSpecialKeeps == ASSUME IInv, ScanSpecial PROVE IInv'
<1> DEFINE S == {n \in (Start + 1)..Eof : At(n) \notin Modifiers}
<1>1. /\ pc = "scan" /\ Here \in Specials \ (Openers \cup Closers \cup {":"})
      /\ opened' = opened /\ UNCHANGED <<text, tokenVars>> /\ pc' = "scan"
      /\ end' = (IF ~quoted /\ Here \in {"!", "|"} THEN Start + 1 ELSE Min(S))
      /\ quoted' = (quoted # (Here = "GRAVE"))
  BY DEF ScanSpecial, Scanning, Passed
<1>2. Here # "NUL" /\ Here # "["
  BY <1>1, SymbolFacts DEF Openers
<1>3. /\ Start + 1 \in 1..Eof /\ opened \in Seq(Openers) /\ Eof \in Nat /\ text \in Seq(Symbols)
      /\ Start \in 1..Len(text) /\ Eof \notin 1..Len(text)
  BY <1>1, <1>2, ScanFacts, EofFacts
<1>4. ~(Len(text) = 1 /\ At(1) = "[")
  BY <1>1, <1>2, LoneFacts
<1>5. Min(S) \in (Start + 1)..Eof
  <2>1. At(Eof) = "NUL"
    BY <1>3, AtFacts
  <2>2. Eof \in (Start + 1)..Eof
    BY <1>3
  <2>3. Eof \in S
    BY <2>1, <2>2 DEF Modifiers, Leveling
  <2>4. S \in SUBSET ((Start + 1)..Eof) /\ S # {} /\ Start + 1 \in Nat
    BY <1>3, <2>3
  <2> HIDE DEF S
  <2> QED BY <1>3, <2>4, LeastIn
<1>6. end' \in 1..Eof
  <2> DEFINE m == Min(S)
             a == Start + 1
  <2>1. m \in a..Eof /\ a \in 1..Eof /\ (end' = a \/ end' = m)
    BY <1>1, <1>3, <1>5
  <2> HIDE DEF m, a
  <2> QED BY <1>3, <2>1
<1>7. quoted' \in BOOLEAN
  BY <1>1
<1> QED BY <1>1, <1>3, <1>4, <1>6, <1>7, ScanKeeps

LEMMA ScanWordKeeps == ASSUME IInv, ScanWord PROVE IInv'
<1>1. /\ pc = "scan" /\ Here \in Words /\ opened' = opened /\ quoted' = quoted
      /\ UNCHANGED <<text, tokenVars>> /\ end' = Start + 1 /\ pc' = "scan"
  BY DEF ScanWord, Scanning, scanVars, Passed
<1>2. Here # "NUL" /\ Here # "["
  BY <1>1, SymbolFacts, SpecialKinds
<1>3. Start + 1 \in 1..Eof /\ opened \in Seq(Openers) /\ quoted \in BOOLEAN
  BY <1>1, <1>2, ScanFacts
<1>4. ~(Len(text) = 1 /\ At(1) = "[")
  BY <1>1, <1>2, LoneFacts
<1> QED BY <1>1, <1>3, <1>4, ScanKeeps

LEMMA EndScanKeeps == ASSUME IInv, EndScan PROVE IInv'
<1>1. /\ pc = "scan" /\ Here = "NUL" /\ opened' = opened /\ quoted' = quoted
      /\ UNCHANGED <<text, tokenVars>>
  BY DEF EndScan, Scanning, scanVars
<1>2. opened \in Seq(Openers) /\ quoted \in BOOLEAN /\ end \in 1..Eof /\ 1 \in 1..Eof
  BY <1>1, ScanFacts
<1>3. CASE opened = <<>> /\ ~quoted
  <2>1. pc' = "lex" /\ end' = 1
    BY <1>3 DEF EndScan
  <2>2. ~(Len(text) = 1 /\ At(1) = "[")
    BY <1>1, <1>3, LoneFacts
  <2> QED BY <1>1, <1>2, <2>1, <2>2, ScanKeeps
<1>4. CASE ~(opened = <<>> /\ ~quoted)
  <2>1. pc' = "rejected" /\ end' = end
    BY <1>4 DEF EndScan, Refused
  <2>2. Len(text) = 1 /\ At(1) = "[" => end' = 1 \/ opened' # <<>>
    BY <1>1, <2>1 DEF IInv, LoneInv
  <2> QED BY <1>1, <1>2, <2>1, <2>2, ScanKeeps
<1> QED BY <1>3, <1>4

-----------------------------------------------------------------------------
(* The steps that make no token                                              *)

LEMMA SameTokens ==
    ASSUME text' = text, tokens' = tokens
    PROVE  /\ (Written' <=> Written)
           /\ \A p : (Inside(p)' <=> Inside(p)) /\ (Mark(p)' <=> Mark(p))
<1>1. Written' <=> Written
  BY DEF Written
<1>2. \A p : Inside(p)' <=> Inside(p)
  BY DEF Inside
<1>3. \A p : Mark(p)' <=> Mark(p)
  BY DEF Mark, Is, At
<1> QED BY <1>1, <1>2, <1>3

(* What a step of pc alone leaves as it is. *)
LEMMA SameKeeps ==
    ASSUME IInv, UNCHANGED <<text, end, scanVars, tokenVars>>, pc' \in Phases,
           pc' = pc \/ pc' # "scan"
    PROVE  /\ TypeInv' /\ CountInv' /\ DenseInv' /\ OrderInv' /\ SignsInv'
           /\ SkippedInv' /\ UnwrittenOnlyBehindModifiers'
<1>1. /\ text' = text /\ end' = end /\ opened' = opened /\ quoted' = quoted
      /\ tokens' = tokens /\ nest' = nest /\ skipped' = skipped
  BY DEF scanVars, tokenVars
<1>2. /\ Eof' = Eof /\ Offset' = Offset
      /\ (SignsAlone' <=> SignsAlone) /\ (BehindModifiers' <=> BehindModifiers)
      /\ \A p : At(p)' = At(p) /\ (Graph(p)' <=> Graph(p)) /\ (Sign(p)' <=> Sign(p))
  BY <1>1, SameText
<1>3. (Written' <=> Written) /\ \A p : Inside(p)' <=> Inside(p)
  BY <1>1, SameTokens
<1>4. TypeInv'
  <2>1. Placed'
    BY <1>1, <1>2 DEF IInv, TypeInv, Placed
  <2> QED BY <1>1, <2>1 DEF IInv, TypeInv
<1>5. CountInv'
  BY <1>1, <1>2 DEF IInv, CountInv
<1>6. DenseInv'
  <2>1. DenseInv
    BY DEF IInv
  <2>2. \A x : Chars(x)' = Chars(x)
    BY DEF Chars
  <2> QED BY <1>1, <1>2, <1>3, <2>1, <2>2 DEF DenseInv
<1>7. OrderInv'
  BY <1>1, <1>3 DEF IInv, OrderInv
<1>8. SignsInv' /\ SkippedInv'
  <2>1. SignsInv'
    BY <1>1, <1>2, SameSigned DEF IInv, SignsInv
  <2>2. SkippedInv'
    BY <1>1, <1>3 DEF IInv, SkippedInv
  <2> QED BY <2>1, <2>2
<1>9. UnwrittenOnlyBehindModifiers'
  BY <1>2, <1>3 DEF IInv, UnwrittenOnlyBehindModifiers, BehindModifiers
<1> QED BY <1>4, <1>5, <1>6, <1>7, <1>8, <1>9

LEMMA StutterKeeps == ASSUME IInv, UNCHANGED vars PROVE IInv'
<1>1. /\ text' = text /\ end' = end /\ pc' = pc /\ opened' = opened /\ tokens' = tokens /\ skipped' = skipped
      /\ UNCHANGED <<text, end, scanVars, tokenVars>>
  BY DEF vars, scanVars, tokenVars
<1>2. pc \in Phases
  BY DEF IInv, TypeInv
<1>3. /\ TypeInv' /\ CountInv' /\ DenseInv' /\ OrderInv' /\ SignsInv'
      /\ SkippedInv' /\ UnwrittenOnlyBehindModifiers'
  BY <1>1, <1>2, SameKeeps
<1>4. /\ (SignsAlone' <=> SignsAlone) /\ (BracketsClosed' <=> BracketsClosed)
      /\ \A p : At(p)' = At(p) /\ (Graph(p)' <=> Graph(p))
  BY <1>1, SameText
<1>5. (Written' <=> Written) /\ \A p : (Inside(p)' <=> Inside(p)) /\ (Mark(p)' <=> Mark(p))
  BY <1>1, SameTokens
<1>6. CoverInv'
  BY <1>1, <1>4, <1>5 DEF IInv, CoverInv
<1>7. LoneInv'
  BY <1>1, <1>4 DEF IInv, LoneInv
<1>8. UndefinedOnlyUnclosed'
  <2>1. \A p : (Opens(p, "|")' <=> Opens(p, "|")) /\ (Closed(p)' <=> Closed(p))
    BY <1>1 DEF Opens, Closed, At
  <2> QED BY <1>1, <1>5, <2>1 DEF IInv, UndefinedOnlyUnclosed
<1>9. AbortsOnlyDense'
  <2>1. \A x : Chars(x)' = Chars(x)
    BY DEF Chars
  <2> QED BY <1>1, <1>4, <1>5, <2>1 DEF IInv, AbortsOnlyDense
<1> QED BY <1>3, <1>6, <1>7, <1>8, <1>9 DEF IInv

(* As many tokens as characters: every character has been read into one.     *)
LEMMA DenseFacts ==
    ASSUME IInv, Len(tokens) >= Length, NEW p \in DOMAIN text
    PROVE  Inside(p) /\ Chars(At(p)) = 1
<1>1. Placed /\ text \in Seq(Symbols) /\ tokens \in Seq(TokenSet) /\ Len(tokens) <= Offset[end - 1]
  BY DEF IInv, TypeInv, CountInv, Placed
<1>2. /\ end - 1 \in 0..Len(text) /\ end \in Nat /\ Eof = Len(text) + 1 /\ Len(text) \in Nat
      /\ Offset[end - 1] \in Nat /\ Len(tokens) \in Nat /\ DOMAIN text = 1..Len(text)
  BY <1>1, EndFacts
<1>3. Len(text) \in (end - 1)..Len(text) /\ Len(text) \in 0..Len(text)
  BY <1>2
<1>4. Offset[Len(text)] >= Offset[end - 1] + (Len(text) - (end - 1)) /\ Offset[Len(text)] \in Nat
  BY <1>1, <1>2, <1>3, OffsetGrows, OffsetFacts
<1> DEFINE o == Offset[end - 1]
           w == Offset[Len(text)]
           k == Len(tokens)
           l == Len(text)
<1>5. /\ k >= w /\ k <= o /\ w >= o + (l - (end - 1)) /\ end - 1 <= l
      /\ o \in Nat /\ w \in Nat /\ k \in Nat /\ l \in Nat
  BY <1>1, <1>2, <1>4 DEF Length
<1> HIDE DEF o, w, k, l
<1>6. end - 1 = l /\ k = o
  BY <1>2, <1>5
<1>7. p \in 1..(end - 1)
  BY <1>2, <1>6 DEF l
<1> QED BY <1>6, <1>7 DEF IInv, DenseInv, k, o

(* The end of create_lexer. *)
LEMMA OutcomeKeeps ==
    ASSUME IInv, pc = "lex", UNCHANGED <<text, end, scanVars, tokenVars>>, pc' \in Outcomes,
           pc' = "undefined" /\ Written => \E p \in DOMAIN text : Opens(p, "|") /\ ~Closed(p),
           pc' = "accepted" => Here = "NUL",
           pc' = "aborted" => Len(tokens) >= Length
    PROVE  IInv'
<1>1. text' = text /\ end' = end /\ opened' = opened /\ tokens' = tokens /\ skipped' = skipped
  BY DEF scanVars, tokenVars
<1>2. /\ TypeInv' /\ CountInv' /\ DenseInv' /\ OrderInv' /\ SignsInv'
      /\ SkippedInv' /\ UnwrittenOnlyBehindModifiers'
  BY SameKeeps DEF Phases, Outcomes
<1>3. /\ (SignsAlone' <=> SignsAlone) /\ (BracketsClosed' <=> BracketsClosed)
      /\ \A p : At(p)' = At(p) /\ (Graph(p)' <=> Graph(p))
  BY <1>1, SameText
<1>4. (Written' <=> Written) /\ \A p : (Inside(p)' <=> Inside(p)) /\ (Mark(p)' <=> Mark(p))
  BY <1>1, SameTokens
<1>5. CoverInv'
  <2> SUFFICES ASSUME Written, SignsAlone, BracketsClosed, pc' = "accepted",
                      NEW p \in DOMAIN text, Graph(p), p \notin skipped
               PROVE  Inside(p) \/ Mark(p)
    BY <1>1, <1>3, <1>4 DEF CoverInv, Outcomes
  <2>1. Placed /\ text \in Seq(Symbols)
    BY DEF IInv, TypeInv, Placed
  <2>2. Start = Eof /\ \A n \in end..(Start - 1) : ~Graph(n)
    BY <2>1, StartFacts
  <2>3. p \in 1..Len(text) /\ Eof = Len(text) + 1 /\ Len(text) \in Nat /\ end \in 1..Eof
    BY <2>1, EofFacts DEF Placed
  <2>4. p < end
    <3>1. ~(p \in end..(Eof - 1))
      BY <2>2
    <3> QED BY <2>3, <3>1
  <2> QED BY <2>4 DEF IInv, CoverInv
<1>6. LoneInv'
  <2>1. ~(Len(text) = 1 /\ At(1) = "[")
    BY DEF IInv, LoneInv
  <2> QED BY <1>1, <1>3, <2>1 DEF LoneInv
<1>7. UndefinedOnlyUnclosed'
  <2>1. \A p : (Opens(p, "|")' <=> Opens(p, "|")) /\ (Closed(p)' <=> Closed(p))
    BY <1>1 DEF Opens, Closed, At
  <2> QED BY <1>1, <1>4, <2>1 DEF UndefinedOnlyUnclosed
<1>8. AbortsOnlyDense'
  <2>1. \A x : Chars(x)' = Chars(x)
    BY DEF Chars
  <2>2. pc' = "aborted" => \A p \in DOMAIN text : Inside(p) /\ Chars(At(p)) = 1
    BY DenseFacts
  <2> QED BY <1>1, <1>3, <1>4, <2>1, <2>2 DEF AbortsOnlyDense
<1> QED BY <1>2, <1>5, <1>6, <1>7, <1>8 DEF IInv

(* A comment is passed over. *)
LEMMA SkippedKeeps ==
    ASSUME IInv, pc = "lex", Here # "NUL", NEW e \in (Start + 1)..Eof,
           end' = e, skipped' = skipped \cup Start..(e - 1),
           UNCHANGED <<text, pc, scanVars, tokens, nest>>
    PROVE  IInv'
<1>1. /\ Placed /\ text \in Seq(Symbols) /\ tokens \in Seq(TokenSet) /\ nest \in Nat /\ nest < end
      /\ quoted \in BOOLEAN /\ opened \in Seq(Openers) /\ Len(tokens) <= Offset[end - 1]
      /\ \A n \in DOMAIN tokens :
            /\ tokens[n].start <= tokens[n].end /\ tokens[n].end <= end
            /\ tokens[n].type = "UNWRITTEN" => tokens[n].start = 0
  BY DEF IInv, TypeInv, CountInv, Placed
<1>2. /\ text' = text /\ pc' = "lex" /\ opened' = opened /\ quoted' = quoted
      /\ tokens' = tokens /\ nest' = nest
  BY DEF scanVars
<1>3. /\ end - 1 \in 0..Len(text) /\ end \in Nat /\ Start \in Nat /\ end <= Start /\ Start <= Eof
      /\ Eof = Len(text) + 1 /\ Len(text) \in Nat /\ Eof \in Nat /\ Offset[end - 1] \in Nat
  BY <1>1, EndFacts
<1>4. e \in Nat /\ end < e /\ Start < e /\ e \in end..Eof /\ e \in 1..Eof
  BY <1>3
<1>5. /\ Eof' = Eof /\ Offset' = Offset
      /\ (SignsAlone' <=> SignsAlone) /\ (BracketsClosed' <=> BracketsClosed)
      /\ (BehindModifiers' <=> BehindModifiers)
      /\ \A p : At(p)' = At(p) /\ (Graph(p)' <=> Graph(p)) /\ (Sign(p)' <=> Sign(p))
  BY <1>2, SameText
<1>6. (Written' <=> Written) /\ \A p : (Inside(p)' <=> Inside(p)) /\ (Mark(p)' <=> Mark(p))
  BY <1>2, SameTokens
<1>7. TypeInv'
  <2>1. Placed'
    BY <1>1, <1>2, <1>4, <1>5 DEF Placed
  <2>2. \A n \in DOMAIN tokens : tokens[n].end <= e
    <3> SUFFICES ASSUME NEW n \in DOMAIN tokens PROVE tokens[n].end <= e
      OBVIOUS
    <3>1. tokens[n] \in TokenSet /\ tokens[n].end <= end
      BY <1>1
    <3>2. tokens[n].end \in Nat
      BY <3>1 DEF TokenSet
    <3> QED BY <1>3, <1>4, <3>1, <3>2
  <2>3. nest < e
    BY <1>1, <1>3, <1>4
  <2>4. "lex" \in Phases
    BY DEF Phases
  <2> QED BY <1>1, <1>2, <2>1, <2>2, <2>3, <2>4 DEF TypeInv
<1>8. CountInv' /\ DenseInv'
  <2>1. Offset[e - 1] \in Nat /\ Offset[e - 1] >= Offset[end - 1] + (e - end)
    BY <1>1, <1>4, Worth
  <2> DEFINE o == Offset[end - 1]
             oe == Offset[e - 1]
             k == Len(tokens)
  <2>2. o \in Nat /\ oe \in Nat /\ oe >= o + (e - end) /\ k <= o /\ k \in Nat
    BY <1>1, <1>3, <2>1
  <2> HIDE DEF o, oe, k
  <2>3. k <= oe /\ k # oe
    BY <1>3, <1>4, <2>2
  <2> QED BY <1>2, <1>5, <2>3 DEF CountInv, DenseInv, k, oe
<1>9. OrderInv' /\ SignsInv'
  BY <1>2, <1>5, <1>6, SameSigned DEF IInv, OrderInv, SignsInv
<1>14. SkippedInv'
  <2>1. skipped' \subseteq 1..(e - 1)
    <3>1. skipped \subseteq 1..(end - 1)
      BY DEF IInv, SkippedInv
    <3>2. \A p \in 1..(end - 1) : p \in 1..(e - 1)
      BY <1>3, <1>4
    <3>3. \A p \in Start..(e - 1) : p \in 1..(e - 1)
      BY <1>1, <1>3, <1>4 DEF Placed
    <3> QED BY <3>1, <3>2, <3>3
  <2>2. ASSUME Written, NEW n \in DOMAIN tokens, NEW p \in Start..(e - 1)
        PROVE  ~(p < tokens[n].end)
    <3>1. tokens[n] \in TokenSet /\ tokens[n].end <= end
      BY <1>1
    <3>2. tokens[n].end \in Nat
      BY <3>1 DEF TokenSet
    <3> QED BY <1>3, <1>4, <3>1, <3>2
  <2>3. Written => \A n \in DOMAIN tokens :
           /\ tokens[n].start >= 1
           /\ \A p \in skipped' : ~(tokens[n].start <= p /\ p < tokens[n].end)
    BY <2>2 DEF IInv, SkippedInv
  <2> QED BY <1>2, <1>6, <2>1, <2>3 DEF SkippedInv
<1>10. CoverInv'
  <2> SUFFICES ASSUME Written, SignsAlone, BracketsClosed,
                      NEW p \in DOMAIN text, p < e, Graph(p), p \notin skipped, p \notin Start..(e - 1)
               PROVE  Inside(p) \/ Mark(p)
    BY <1>2, <1>5, <1>6 DEF CoverInv
  <2>1. p \in 1..Len(text)
    BY <1>1
  <2>2. p < Start
    BY <1>3, <1>4, <2>1
  <2>3. p \notin end..(Start - 1)
    BY <1>1, StartFacts
  <2>4. p < end
    BY <1>3, <2>1, <2>2, <2>3
  <2> QED BY <2>4 DEF IInv, CoverInv
<1>11. LoneInv'
  <2>1. ~(Len(text) = 1 /\ At(1) = "[")
    BY DEF IInv, LoneInv
  <2> QED BY <1>2, <1>5, <2>1 DEF LoneInv
<1>12. UnwrittenOnlyBehindModifiers'
  BY <1>5, <1>6 DEF IInv, UnwrittenOnlyBehindModifiers, BehindModifiers
<1>13. UndefinedOnlyUnclosed' /\ AbortsOnlyDense'
  BY <1>2 DEF UndefinedOnlyUnclosed, AbortsOnlyDense
<1> QED BY <1>7, <1>8, <1>9, <1>10, <1>11, <1>12, <1>13, <1>14 DEF IInv

LEMMA LexFacts ==
    ASSUME IInv, pc = "lex", Here # "NUL"
    PROVE  /\ Reading /\ Start \in 1..Len(text) /\ Graph(Start) /\ Start \in Nat /\ Eof \in Nat
           /\ nest \in Nat /\ nest < Start /\ tokens \in Seq(TokenSet)
<1>1. Placed /\ nest \in Nat /\ nest < end /\ tokens \in Seq(TokenSet)
  BY DEF IInv, TypeInv
<1>2. end \in Nat /\ Start \in Nat /\ end <= Start /\ Eof \in Nat
  BY <1>1, EndFacts
<1>3. Start \in 1..Len(text) /\ Graph(Start)
  BY <1>1, StartFacts
<1> QED BY <1>1, <1>2, <1>3 DEF Reading

LEMMA SkipCommentKeeps == ASSUME IInv, SkipComment PROVE IInv'
<1> DEFINE ends == Ends(Start + 3, {"|"})
           e == IF Here = "!" THEN LineEnd(Start + 3) ELSE Min(ends) + 3
<1>1. /\ pc = "lex" /\ Here # "NUL" /\ UNCHANGED <<text, scanVars, tokens, nest>>
      /\ Opens(Start, "!") \/ Opens(Start, "|")
  BY DEF SkipComment, Taking, Applies
<1>2. /\ Reading /\ Start \in 1..Len(text) /\ Start \in Nat /\ text \in Seq(Symbols)
      /\ Eof = Len(text) + 1 /\ Len(text) \in Nat
  BY <1>1, LexFacts, EofFacts DEF Reading, Placed
<1>3. Here = "!" \/ (Here = "|" /\ Opens(Start, "|"))
  BY <1>1 DEF Opens, Here
<1>4. CASE Here = "|" /\ ends = {}
  <2>1. pc' = "undefined" /\ end' = end /\ skipped' = skipped
    BY <1>4 DEF SkipComment
  <2>2. UNCHANGED <<text, end, scanVars, tokenVars>>
    BY <1>1, <2>1 DEF tokenVars
  <2>3. \E p \in DOMAIN text : Opens(p, "|") /\ ~Closed(p)
    BY <1>2, <1>3, <1>4, EndlessFacts
  <2> QED BY <1>1, <2>1, <2>2, <2>3, OutcomeKeeps DEF Outcomes
<1>5. CASE ~(Here = "|" /\ ends = {})
  <2>1. end' = e /\ pc' = pc /\ skipped' = skipped \cup Start..(e - 1)
    BY <1>5 DEF SkipComment, Passed
  <2>2. Start + 3 \in 1..Eof
    BY <1>1, <1>2, OpensFacts
  <2>3. e \in (Start + 1)..Eof
    <3>1. CASE Here = "!"
      <4>1. LineEnd(Start + 3) \in (Start + 3)..Eof
        BY <1>2, <2>2, LineFacts
      <4> QED BY <1>2, <3>1, <4>1
    <3>2. CASE Here # "!"
      <4>1. Min(ends) \in (Start + 3)..(Eof - 2) /\ At(Min(ends) + 2) = "|"
        BY <1>2, <1>3, <1>5, <3>2, EndsFacts
      <4> DEFINE n == Min(ends)
      <4>2. n \in (Start + 3)..(Eof - 2) /\ At(n + 2) # "NUL" /\ e = n + 3
        BY <3>2, <4>1
      <4> HIDE DEF n, e
      <4>3. n + 2 \in Int
        BY <1>2, <4>2
      <4>4. n + 2 \in 1..Len(text)
        BY <1>2, <4>2, <4>3, AtFacts
      <4> QED BY <1>2, <4>2, <4>4
    <3> QED BY <3>1, <3>2
  <2> HIDE DEF e
  <2> QED BY <1>1, <2>1, <2>3, SkippedKeeps
<1> QED BY <1>4, <1>5

LEMMA RejectKeeps == ASSUME IInv, Reject PROVE IInv'
BY OutcomeKeeps DEF Reject, Taking, Outcomes

LEMMA ReadUnwrittenKeeps == ASSUME IInv, ReadUnwritten PROVE IInv'
<1>1. /\ pc = "lex" /\ pc' = "undefined" /\ UNCHANGED <<text, end, scanVars, tokenVars>>
      /\ TypeOf(Len(tokens)) = "UNWRITTEN"
  BY DEF ReadUnwritten, ReadsUnwritten
<1>2. ~Written
  <2>1. Len(tokens) # 0 /\ tokens[Len(tokens)].type = "UNWRITTEN"
    BY <1>1 DEF TypeOf
  <2>2. tokens \in Seq(TokenSet)
    BY DEF IInv, TypeInv
  <2>3. Len(tokens) \in DOMAIN tokens
    BY <2>1, <2>2
  <2> QED BY <2>1, <2>3 DEF Written
<1> QED BY <1>1, <1>2, OutcomeKeeps DEF Outcomes

LEMMA EndOfTextKeeps == ASSUME IInv, EndOfText PROVE IInv'
<1>1. /\ pc = "lex" /\ Here = "NUL" /\ UNCHANGED <<text, end, scanVars, tokenVars>>
      /\ pc' = IF tokens = <<>> THEN "rejected"
               ELSE IF Len(tokens) + 1 <= Length THEN "accepted" ELSE "aborted"
  BY DEF EndOfText
<1>2. pc' = "aborted" => Len(tokens) >= Length
  <2>1. tokens \in Seq(TokenSet) /\ text \in Seq(Symbols)
    BY DEF IInv, TypeInv, Placed
  <2>2. Length \in Nat /\ Len(tokens) \in Nat
    <3>1. Len(text) \in 0..Len(text)
      BY <2>1
    <3> QED BY <2>1, <3>1, OffsetFacts DEF Length
  <2>3. pc' = "aborted" => ~(Len(tokens) + 1 <= Length)
    BY <1>1
  <2> QED BY <2>2, <2>3
<1> QED BY <1>1, <1>2, OutcomeKeeps DEF Outcomes

-----------------------------------------------------------------------------
(* The steps that make tokens                                                *)

LEMMA TurnKeeps ==
    ASSUME IInv, pc = "lex", Here # "NUL", NEW ts, NEW e, Fills(ts, e), Taken(ts, e),
           nest' = nest \/ nest' = nest + 1 \/ (nest > 0 /\ nest' = nest - 1)
    PROVE  IInv'
<1>1. nest \in Nat /\ nest < Start /\ Start \in Nat /\ Eof \in Nat
  BY LexFacts
<1>2. e \in (Start + 1)..Eof
  BY DEF Fills
<1>3. nest' \in Nat /\ nest' < e
  BY <1>1, <1>2
<1> QED BY <1>3, TakenKeeps

LEMMA TakeCommandKeeps == ASSUME IInv, TakeCommand PROVE IInv'
<1>1. /\ pc = "lex" /\ Here # "NUL" /\ Here \in Commands /\ nest' = nest
      /\ Taken(<<Of("COM", Start)>>, Start + 1)
  BY DEF TakeCommand, Taking, Applies
<1>2. Reading
  BY <1>1, LexFacts
<1>3. Here \in Specials /\ ~Sign(Start) /\ ~Paren(Start)
  BY <1>1, SpecialKinds DEF Sign, Paren, Here, Commands
<1>4. Fills(<<Of("COM", Start)>>, Start + 1)
  BY <1>2, <1>3, FillsSpecial
<1> QED BY <1>1, <1>4, TurnKeeps

LEMMA TakeIdentifierKeeps == ASSUME IInv, TakeIdentifier PROVE IInv'
<1> DEFINE ts == <<Token("ID", "NO", Start, Start + 1)>>
<1>1. pc = "lex" /\ Here # "NUL" /\ Name(Start) /\ nest' = nest /\ Taken(ts, Start + 1)
  BY DEF TakeIdentifier, Taking, Applies
<1>2. Reading
  BY <1>1, LexFacts
<1>3. ~Sign(Start) /\ ~Paren(Start)
  BY <1>1, SymbolFacts, SpecialKinds DEF Sign, Paren, Name
<1>4. "ID" \in Types /\ "NO" \in Subtypes /\ "ID" \notin {"UNWRITTEN", "LSPE", "RSPE"}
  BY TypeNames
<1>5. Fills(ts, Start + 1)
  BY <1>2, <1>3, <1>4, FillsWord
<1> QED BY <1>1, <1>5, TurnKeeps

LEMMA TakeQualifiersKeeps == ASSUME IInv, TakeQualifiers PROVE IInv'
<1> DEFINE ts == [n \in DOMAIN Qualifiers |->
                     Token("Q", "NO", Qualifiers[n], Behind(Qualifiers[n]))]
<1>1. pc = "lex" /\ Here # "NUL" /\ Qualified /\ nest' = nest /\ Taken(ts, Behind(LastQ))
  BY DEF TakeQualifiers, Taking, Applies
<1>2. Reading
  BY <1>1, LexFacts
<1>3. Fills(ts, Behind(LastQ))
  BY <1>1, <1>2, FillsQualifiers
<1> HIDE DEF ts
<1> QED BY <1>1, <1>3, TurnKeeps

LEMMA TakeLeftRightKeeps == ASSUME IInv, TakeLeftRight PROVE IInv'
<1> DEFINE ts == <<Token("LR", "NO", Start, Start + 1)>>
<1>1. pc = "lex" /\ Here # "NUL" /\ nest' = nest /\ Taken(ts, Start + 1)
  BY DEF TakeLeftRight, Taking
<1>2. Reading
  BY <1>1, LexFacts
<1>3. "LR" \in Types /\ "NO" \in Subtypes /\ "LR" # "UNWRITTEN"
  BY TypeNames
<1>4. Fills(ts, Start + 1)
  BY <1>2, <1>3, FillsWord
<1> QED BY <1>1, <1>4, TurnKeeps

LEMMA TakeLockKeeps == ASSUME IInv, TakeLock PROVE IInv'
<1>1. pc = "lex" /\ Here = ":" /\ (Name(Lock) \/ Underscore)
  BY DEF TakeLock, Taking, Applies
<1>2. IF At(Lock + 1) = "("
      THEN Taken(WithParenthesis(LockTokens, Lock + 1), Lock + 2) /\ nest' = nest + 1
      ELSE Taken(LockTokens, Lock + 1) /\ nest' = nest
  BY DEF TakeLock, LockTokens, LockToken
<1>3. Reading /\ Here # "NUL"
  BY <1>1, LexFacts
<1>4. CASE At(Lock + 1) = "("
  <2>1. Fills(WithParenthesis(LockTokens, Lock + 1), Lock + 2)
    BY <1>1, <1>3, <1>4, FillsParenthesis
  <2> QED BY <1>1, <1>2, <1>3, <1>4, <2>1, TurnKeeps
<1>5. CASE At(Lock + 1) # "("
  <2>1. Fills(LockTokens, Lock + 1)
    BY <1>1, <1>3, FillsLock
  <2> QED BY <1>1, <1>2, <1>3, <1>5, <2>1, TurnKeeps
<1> QED BY <1>4, <1>5

(* `then` behind `~`, behind `,` and `~`, or any other key. *)
LEMMA TakeLeftKeeps == ASSUME IInv, TakeLeft PROVE IInv'
<1> DEFINE Left(type, subtype) == Token(type, subtype, Start, Start + 1)
           made == CASE Here = "scope" -> Left("LSCOPE", "NO")
                     [] Here = "then"  -> Left("LSCOPE", <<"IF", "ELSE", "ELSE_IF">>[Absorbed + 1])
                     [] Here = "imod"  -> Left("L", "IMOD")
                     [] Here = "omod"  -> Left("L", "OMOD")
                     [] OTHER          -> Left("L", "NO")
           kept == SubSeq(tokens, 1, Len(tokens) - IF Here = "then" THEN Absorbed ELSE 0)
<1>1. /\ pc = "lex" /\ Here # "NUL" /\ Name(Start)
      /\ tokens' = Append(kept, made) /\ end' = Start + 1
      /\ UNCHANGED <<text, pc, scanVars, nest, skipped>>
  BY DEF TakeLeft, Taking, Applies
<1>2. /\ Reading /\ tokens \in Seq(TokenSet) /\ Len(tokens) \in Nat /\ DOMAIN tokens = 1..Len(tokens)
  BY <1>1, LexFacts
<1>3. ~Sign(Start) /\ ~Paren(Start)
  BY <1>1, SymbolFacts, SpecialKinds DEF Sign, Paren, Name
<1>4. Absorbed \in {0, 1, 2}
  BY DEF Absorbed
<1>5. CASE Here = "then" /\ Absorbed # 0
  <2>1. /\ Begins(Len(tokens), "~") /\ Absorbed \in {1, 2}
        /\ Absorbed = 2 => Begins(Len(tokens) - 1, ",")
    <3>1. ~Begins(Len(tokens), "~") => Absorbed = 0
      BY DEF Absorbed
    <3>2. ~Begins(Len(tokens) - 1, ",") => Absorbed = 0 \/ Absorbed = 1
      BY DEF Absorbed
    <3>3. Absorbed = 1 \/ Absorbed = 2
      BY <1>4, <1>5
    <3>4. (Absorbed = 1 => Absorbed # 0) /\ (Absorbed = 2 => Absorbed # 0 /\ Absorbed # 1)
      OBVIOUS
    <3>5. Absorbed \in {1, 2}
      BY <3>3
    <3> QED BY <3>1, <3>2, <3>3, <3>4, <3>5, Zenon
  <2>2. /\ Len(tokens) > 0 /\ Sign(tokens[Len(tokens)].start)
        /\ Absorbed = 2 => Len(tokens) > 1 /\ Sign(tokens[Len(tokens) - 1].start)
    <3>1. Len(tokens) > 0 /\ At(tokens[Len(tokens)].start) = "~"
      BY <2>1 DEF Begins
    <3>2. Absorbed = 2 => Len(tokens) - 1 > 0 /\ At(tokens[Len(tokens) - 1].start) = ","
      BY <2>1 DEF Begins
    <3>3. Len(tokens) - 1 > 0 => Len(tokens) > 1
      <4> DEFINE k == Len(tokens)
      <4> HIDE DEF k
      <4>1. k \in Nat
        BY <1>2 DEF k
      <4>2. k - 1 > 0 => k > 1
        BY <4>1
      <4> QED BY <4>2 DEF k
    <3> QED BY <3>1, <3>2, <3>3, Zenon DEF Sign
  <2>3. CASE Absorbed = 1
    <3>1. 1 \in 1..Len(tokens) /\ \A n \in (Len(tokens) - 1 + 1)..Len(tokens) : n = Len(tokens)
      BY <1>2, <2>2
    <3>2. \A n \in (Len(tokens) - 1 + 1)..Len(tokens) : Sign(tokens[n].start)
      BY <2>2, <3>1
    <3>3. made = Token("LSCOPE", "ELSE", Start, Start + 1)
      BY <1>5, <2>3
    <3>4. kept = SubSeq(tokens, 1, Len(tokens) - 1)
      BY <1>5, <2>3
    <3>5. tokens' = Append(SubSeq(tokens, 1, Len(tokens) - 1), Token("LSCOPE", "ELSE", Start, Start + 1))
      <4> HIDE DEF made, kept
      <4> QED BY <1>1, <3>3, <3>4
    <3> HIDE DEF made, kept
    <3> QED BY <1>1, <1>3, <3>1, <3>2, <3>5, AbsorbedKeeps
  <2>4. CASE Absorbed = 2
    <3>1. /\ 2 \in 1..Len(tokens)
          /\ \A n \in (Len(tokens) - 2 + 1)..Len(tokens) : n = Len(tokens) - 1 \/ n = Len(tokens)
      <4> DEFINE k == Len(tokens)
      <4>1. k \in Nat /\ k > 1
        BY <1>2, <2>2, <2>4
      <4> HIDE DEF k
      <4>2. 2 \in 1..k /\ \A n \in (k - 2 + 1)..k : n = k - 1 \/ n = k
        BY <4>1
      <4> QED BY <4>2 DEF k
    <3>2. \A n \in (Len(tokens) - 2 + 1)..Len(tokens) : Sign(tokens[n].start)
      BY <2>2, <2>4, <3>1
    <3>3. made = Token("LSCOPE", "ELSE_IF", Start, Start + 1)
      BY <1>5, <2>4
    <3>4. kept = SubSeq(tokens, 1, Len(tokens) - 2)
      BY <1>5, <2>4
    <3>5. tokens' = Append(SubSeq(tokens, 1, Len(tokens) - 2), Token("LSCOPE", "ELSE_IF", Start, Start + 1))
      <4> HIDE DEF made, kept
      <4> QED BY <1>1, <3>3, <3>4
    <3> HIDE DEF made, kept
    <3> QED BY <1>1, <1>3, <3>1, <3>2, <3>5, AbsorbedKeeps
  <2> QED BY <2>1, <2>3, <2>4
<1>6. CASE ~(Here = "then" /\ Absorbed # 0)
  <2>1. kept = tokens
    <3>1. (IF Here = "then" THEN Absorbed ELSE 0) = 0
      BY <1>6
    <3>2. Len(tokens) - 0 = Len(tokens)
      BY <1>2
    <3>3. SubSeq(tokens, 1, Len(tokens)) = tokens
      BY <1>2
    <3> QED BY <3>1, <3>2, <3>3
  <2>2. \E type \in {"LSCOPE", "L"}, subtype \in {"NO", "IF", "IMOD", "OMOD"} :
            made = Token(type, subtype, Start, Start + 1)
    <3>1. CASE Here = "then"
      <4>1. Absorbed = 0
        BY <1>6, <3>1
      <4>2. made = Token("LSCOPE", "IF", Start, Start + 1)
        BY <3>1, <4>1
      <4> HIDE DEF made
      <4> QED BY <4>2
    <3>2. CASE Here = "scope"
      <4>1. made = Token("LSCOPE", "NO", Start, Start + 1)
        BY <3>2
      <4> HIDE DEF made
      <4> QED BY <4>1
    <3>3. CASE Here = "imod"
      <4>1. made = Token("L", "IMOD", Start, Start + 1)
        BY <3>3
      <4> HIDE DEF made
      <4> QED BY <4>1
    <3>4. CASE Here = "omod"
      <4>1. made = Token("L", "OMOD", Start, Start + 1)
        BY <3>4
      <4> HIDE DEF made
      <4> QED BY <4>1
    <3>5. CASE Here \notin {"then", "scope", "imod", "omod"}
      <4>1. made = Token("L", "NO", Start, Start + 1)
        BY <3>5
      <4> HIDE DEF made
      <4> QED BY <4>1
    <3> QED BY <3>1, <3>2, <3>3, <3>4, <3>5
  <2> HIDE DEF made, kept
  <2>3. PICK type \in {"LSCOPE", "L"}, subtype \in {"NO", "IF", "IMOD", "OMOD"} :
            made = Token(type, subtype, Start, Start + 1)
    BY <2>2
  <2>4. type \in Types /\ subtype \in Subtypes /\ type \notin {"UNWRITTEN", "LSPE", "RSPE"}
    BY TypeNames
  <2>5. Fills(<<Token(type, subtype, Start, Start + 1)>>, Start + 1)
    BY <1>2, <1>3, <2>4, FillsWord
  <2>6. Fills(<<made>>, Start + 1)
    BY <2>3, <2>5
  <2>7. tokens' = tokens \o <<made>>
    <3>1. Append(tokens, made) = tokens \o <<made>>
      BY <1>2
    <3> QED BY <1>1, <2>1, <3>1
  <2>8. Taken(<<made>>, Start + 1) /\ nest' = nest
    BY <1>1, <2>7 DEF Taken
  <2> QED BY <1>1, <2>6, <2>8, TurnKeeps
<1> QED BY <1>5, <1>6

LEMMA TakePeriodLeftKeeps == ASSUME IInv, TakePeriodLeft PROVE IInv'
<1> DEFINE ts == <<Token("PL", "NO", Start + 1, Start + 2)>>
<1>1. pc = "lex" /\ Here = "." /\ Name(Start + 1) /\ nest' = nest /\ Taken(ts, Start + 2)
  BY DEF TakePeriodLeft, Taking, Applies
<1>2. Reading
  BY <1>1, LexFacts
<1>3. Fills(ts, Start + 2)
  BY <1>1, <1>2, FillsPeriod
<1> QED BY <1>1, <1>3, TurnKeeps

LEMMA TakeLiteralKeeps == ASSUME IInv, TakeLiteral PROVE IInv'
<1>1. pc = "lex" /\ Here # "NUL" /\ Literal /\ nest' = nest
  BY DEF TakeLiteral, Taking, Applies
<1>2. Reading /\ text \in Seq(Symbols) /\ Start \in 1..Len(text) /\ Eof = Len(text) + 1 /\ Len(text) \in Nat
  BY <1>1, LexFacts, EofFacts DEF Reading, Placed
<1>3. "BACKSLASH" \notin Numbers /\ "GRAVE" \notin Numbers
  BY SymbolFacts, SpecialKinds
<1>4. "LIT_CHAR" \in Subtypes /\ "LIT_STR" \in Subtypes
  BY TypeNames
<1>5. CASE Here = "BACKSLASH"
  <2>1. Taken(<<Token("LIT", "LIT_CHAR", Start + 1, Start + 2)>>, Start + 3)
    BY <1>5 DEF TakeLiteral
  <2>2. Start + 2 \in (Start + 1)..Len(text) /\ At(Start + 2) = Here
    <3>1. Character(Start)
      BY <1>1, <1>3, <1>5 DEF Literal
    <3>2. At(Start + 2) = "BACKSLASH" /\ Start + 2 \in Int
      BY <1>2, <3>1 DEF Character
    <3>3. Start + 2 \in 1..Len(text)
      BY <1>2, <3>2, AtFacts
    <3> QED BY <1>2, <1>5, <3>2, <3>3
  <2>3. Fills(<<Token("LIT", "LIT_CHAR", Start + 1, Start + 2)>>, (Start + 2) + 1)
    BY <1>2, <1>4, <1>5, <2>2, FillsDelimited
  <2>4. (Start + 2) + 1 = Start + 3
    BY <1>2
  <2> QED BY <1>1, <2>1, <2>3, <2>4, TurnKeeps
<1>6. CASE Here = "GRAVE"
  <2> DEFINE S == {n \in (Start + 1)..Eof : At(n) = "GRAVE"} \cup {Eof}
             q == StringEnd
  <2>1. Taken(<<Token("LIT", "LIT_STR", Start + 1, q)>>, q + 1)
    BY <1>6 DEF TakeLiteral
  <2>2. q # Eof /\ q = Min(S)
    BY <1>1, <1>3, <1>6 DEF Literal, StringEnd
  <2>3. S \in SUBSET Nat /\ S # {}
    BY <1>2
  <2>4. q \in S
    <3> HIDE DEF S, q
    <3> QED BY <2>2, <2>3, LeastOf
  <2> HIDE DEF q
  <2>5. q \in (Start + 1)..Eof /\ At(q) = "GRAVE"
    BY <2>2, <2>4
  <2>6. q \in (Start + 1)..Len(text) /\ At(q) = Here
    BY <1>2, <1>6, <2>2, <2>5
  <2>7. Fills(<<Token("LIT", "LIT_STR", Start + 1, q)>>, q + 1)
    BY <1>2, <1>4, <1>6, <2>6, FillsDelimited
  <2> QED BY <1>1, <2>1, <2>7, TurnKeeps
<1>7. CASE Here \notin {"BACKSLASH", "GRAVE"}
  <2>1. Taken(<<Token("LIT", "LIT_NUM", Start, NumberEnd)>>, NumberEnd)
    BY <1>7 DEF TakeLiteral
  <2>2. Here \in Numbers
    BY <1>1, <1>7 DEF Literal
  <2>3. Fills(<<Token("LIT", "LIT_NUM", Start, NumberEnd)>>, NumberEnd)
    BY <1>2, <2>2, FillsNumber
  <2> QED BY <1>1, <2>1, <2>3, TurnKeeps
<1> QED BY <1>5, <1>6, <1>7

LEMMA TakeModifiersKeeps == ASSUME IInv, TakeModifiers PROVE IInv'
<1> DEFINE colon == PastWords(Start, Modifiers)
           left == WordsIn(Start, colon - 1)
           ts == [n \in DOMAIN left |-> Of("RSPE", left[n])]
<1>1. pc = "lex" /\ Here # "NUL" /\ Here \in Modifiers /\ nest' = nest /\ Taken(ts, colon)
  BY DEF TakeModifiers, Taking, Applies
<1>2. Reading
  BY <1>1, LexFacts
<1>3. Fills(ts, colon)
  BY <1>1, <1>2, FillsModifiers
<1> HIDE DEF ts, colon
<1> QED BY <1>1, <1>3, TurnKeeps

LEMMA TakeOpeningKeeps == ASSUME IInv, TakeOpening PROVE IInv'
<1>1. /\ pc = "lex" /\ Here = ":" /\ At(Start + 1) = "(" /\ nest' = nest + 1
      /\ Taken(<<Of("RSPE", Start + 1)>>, Start + 2)
  BY DEF TakeOpening, Taking, Applies
<1>2. Reading
  BY <1>1, LexFacts
<1>3. Fills(<<Of("RSPE", Start + 1)>>, Start + 2)
  BY <1>1, <1>2, FillsOpening
<1> QED BY <1>1, <1>3, TurnKeeps

LEMMA TakeClosingKeeps == ASSUME IInv, TakeClosing PROVE IInv'
<1>1. /\ pc = "lex" /\ Here = ")" /\ nest > 0 /\ nest' = nest - 1
      /\ Taken(<<Of("RSPE", Start)>>, Start + 1)
  BY DEF TakeClosing, Taking, Applies, Closing
<1>2. Reading
  BY <1>1, LexFacts
<1>3. Here \in Specials /\ ~Sign(Start)
  BY <1>1, SpecialKinds DEF Sign, Here
<1>4. Fills(<<Of("RSPE", Start)>>, Start + 1)
  BY <1>2, <1>3, FillsSpecial
<1> QED BY <1>1, <1>4, TurnKeeps

LEMMA TakeSpecialKeeps == ASSUME IInv, TakeSpecial PROVE IInv'
<1>1. /\ pc = "lex" /\ Here # "NUL" /\ nest' = nest
      /\ Here \in Specials
      /\ Taken(<<IF Here = ":" THEN Token("COLON_LONELY", "NO", Start, Start + 1)
                 ELSE Of("LSPE", Start)>>, Start + 1)
  BY SpecialKinds DEF TakeSpecial, Taking, Applies
<1>2. Reading
  BY <1>1, LexFacts
<1>3. CASE Here = ":"
  <2>1. /\ "COLON_LONELY" \in Types /\ "NO" \in Subtypes
        /\ "COLON_LONELY" \notin {"UNWRITTEN", "LSPE", "RSPE"}
    BY TypeNames
  <2>2. ~Sign(Start) /\ ~Paren(Start)
    BY <1>3 DEF Sign, Paren, Here
  <2>3. Fills(<<Token("COLON_LONELY", "NO", Start, Start + 1)>>, Start + 1)
    BY <1>2, <2>1, <2>2, FillsWord
  <2> QED BY <1>1, <1>3, <2>3, TurnKeeps
<1>4. CASE Here # ":"
  <2>1. Fills(<<Of("LSPE", Start)>>, Start + 1)
    BY <1>1, <1>2, FillsSpecial
  <2> QED BY <1>1, <1>4, <2>1, TurnKeeps
<1> QED BY <1>3, <1>4

-----------------------------------------------------------------------------
(* The theorems                                                              *)

LEMMA InitLemma == ASSUME Init PROVE IInv
<1>1. /\ text \in Sources /\ pc = "scan" /\ end = 1 /\ opened = <<>> /\ quoted = FALSE
      /\ tokens = <<>> /\ nest = 0 /\ skipped = {}
  BY DEF Init, Begin
<1>2. text \in Seq(Symbols)
  BY <1>1, LexerAssumption
<1>3. Eof = Len(text) + 1 /\ Len(text) \in Nat /\ 0 \in 0..Len(text) /\ Offset[0] = 0
  BY <1>2, EofFacts, OffsetFacts
<1>4. Len(tokens) = 0 /\ DOMAIN tokens = {} /\ tokens \in Seq(TokenSet) /\ opened \in Seq(Openers)
  BY <1>1
<1>5. TypeInv
  <2>1. Placed
    BY <1>1, <1>2, <1>3 DEF Placed
  <2>2. "scan" \in Phases
    BY DEF Phases
  <2>3. nest \in Nat /\ nest < end
    BY <1>1
  <2> QED BY <1>1, <1>4, <2>1, <2>2, <2>3 DEF TypeInv
<1>6. CountInv /\ DenseInv
  <2>1. end - 1 = 0 /\ 1..(end - 1) = {}
    BY <1>1
  <2>2. Len(tokens) <= Offset[end - 1]
    <3>1. Len(tokens) = 0 /\ Offset[end - 1] = 0
      BY <1>3, <1>4, <2>1
    <3> QED BY <3>1
  <2> QED BY <2>1, <2>2 DEF CountInv, DenseInv
<1>7. OrderInv /\ SignsInv /\ SkippedInv
  BY <1>1, <1>4 DEF OrderInv, SignsInv, SkippedInv
<1>8. CoverInv
  BY <1>1 DEF CoverInv
<1>9. LoneInv
  BY <1>1 DEF LoneInv
<1>10. UnwrittenOnlyBehindModifiers
  BY <1>4 DEF UnwrittenOnlyBehindModifiers, Written
<1>11. UndefinedOnlyUnclosed /\ AbortsOnlyDense
  BY <1>1 DEF UndefinedOnlyUnclosed, AbortsOnlyDense
<1> QED BY <1>5, <1>6, <1>7, <1>8, <1>9, <1>10, <1>11 DEF IInv

LEMMA StepLemma == ASSUME IInv, [Next]_vars PROVE IInv'
<1>1. CASE UNCHANGED vars
  BY <1>1, StutterKeeps
<1>2. CASE ScanCharacter
  BY <1>2, ScanCharacterKeeps
<1>3. CASE ScanOpener
  BY <1>3, ScanOpenerKeeps
<1>4. CASE ScanCloser
  BY <1>4, ScanCloserKeeps
<1>5. CASE ScanColon
  BY <1>5, ScanColonKeeps
<1>6. CASE ScanLineComment
  BY <1>6, ScanLineCommentKeeps
<1>7. CASE ScanComment
  BY <1>7, ScanCommentKeeps
<1>8. CASE ScanSpecial
  BY <1>8, ScanSpecialKeeps
<1>9. CASE ScanWord
  BY <1>9, ScanWordKeeps
<1>10. CASE EndScan
  BY <1>10, EndScanKeeps
<1>11. CASE SkipComment
  BY <1>11, SkipCommentKeeps
<1>12. CASE TakeCommand
  BY <1>12, TakeCommandKeeps
<1>13. CASE TakeIdentifier
  BY <1>13, TakeIdentifierKeeps
<1>14. CASE TakeQualifiers
  BY <1>14, TakeQualifiersKeeps
<1>15. CASE TakeLeftRight
  BY <1>15, TakeLeftRightKeeps
<1>16. CASE TakeLock
  BY <1>16, TakeLockKeeps
<1>17. CASE TakeLeft
  BY <1>17, TakeLeftKeeps
<1>18. CASE TakePeriodLeft
  BY <1>18, TakePeriodLeftKeeps
<1>19. CASE TakeLiteral
  BY <1>19, TakeLiteralKeeps
<1>20. CASE TakeModifiers
  BY <1>20, TakeModifiersKeeps
<1>21. CASE TakeOpening
  BY <1>21, TakeOpeningKeeps
<1>22. CASE TakeClosing
  BY <1>22, TakeClosingKeeps
<1>23. CASE TakeSpecial
  BY <1>23, TakeSpecialKeeps
<1>24. CASE ReadUnwritten
  BY <1>24, ReadUnwrittenKeeps
<1>25. CASE Reject
  BY <1>25, RejectKeeps
<1>26. CASE EndOfText
  BY <1>26, EndOfTextKeeps
<1>27. CASE Returned
  BY <1>27, StutterKeeps DEF Returned
<1> QED BY <1>1, <1>2, <1>3, <1>4, <1>5, <1>6, <1>7, <1>8, <1>9, <1>10, <1>11, <1>12, <1>13,
           <1>14, <1>15, <1>16, <1>17, <1>18, <1>19, <1>20, <1>21, <1>22, <1>23, <1>24, <1>25,
           <1>26, <1>27 DEF Next

(* What the lexer keeps of a text at each turn of its two loops.             *)
THEOREM Invariant == Spec => []IInv
<1>1. Init => IInv
  BY InitLemma
<1>2. IInv /\ [Next]_vars => IInv'
  BY StepLemma
<1> QED BY <1>1, <1>2, PTL DEF Spec

(* lexer_scan_errors and create_lexer never look for a word behind the last  *)
(* null character of the source, and no handler writes a token behind the    *)
(* array that create_lexer allocates before it knows how many there will be: *)
(* each makes at most as many tokens as the characters it passes over.       *)
THEOREM WithinBounds == Spec => []TypeOK
<1>1. IInv => TypeOK
  <2> SUFFICES ASSUME IInv PROVE TypeOK
    OBVIOUS
  <2>1. /\ Placed /\ text \in Seq(Symbols) /\ end \in 1..Eof /\ pc \in Phases /\ quoted \in BOOLEAN
        /\ opened \in Seq(Openers) /\ tokens \in Seq(TokenSet) /\ nest \in Nat /\ nest < end
        /\ Len(tokens) <= Offset[end - 1]
    BY DEF IInv, TypeInv, CountInv, Placed
  <2>2. /\ end - 1 \in 0..Len(text) /\ end \in Nat /\ Eof = Len(text) + 1 /\ Len(text) \in Nat
        /\ Eof \in Nat /\ Offset[end - 1] \in Nat /\ Len(tokens) \in Nat
    BY <2>1, EndFacts
  <2>3. nest \in 0..Len(text)
    BY <2>1, <2>2
  <2>4. ASSUME NEW n \in DOMAIN tokens
        PROVE  /\ tokens[n].type \in Types
               /\ tokens[n].subtype \in SubtypesOfWords \cup Specials \cup {"UNDERSCORE"}
               /\ tokens[n].start <= tokens[n].end /\ tokens[n].end <= Eof
    <3>1. tokens[n] \in TokenSet /\ tokens[n].start <= tokens[n].end /\ tokens[n].end <= end
      BY <2>1 DEF IInv, TypeInv
    <3>2. tokens[n].end \in Nat
      BY <3>1 DEF TokenSet
    <3>3. tokens[n].end <= Eof
      BY <2>1, <2>2, <3>1, <3>2
    <3> QED BY <3>1, <3>3 DEF TokenSet, Subtypes
  <2>5. Len(tokens) <= Length
    <3>1. Len(text) \in (end - 1)..Len(text) /\ Len(text) \in 0..Len(text)
      BY <2>2
    <3>2. Offset[Len(text)] >= Offset[end - 1] + (Len(text) - (end - 1)) /\ Offset[Len(text)] \in Nat
      BY <2>1, <2>2, <3>1, OffsetGrows, OffsetFacts
    <3> DEFINE o == Offset[end - 1]
               w == Offset[Len(text)]
               k == Len(tokens)
               l == Len(text)
    <3>3. /\ k <= o /\ w >= o + (l - (end - 1)) /\ end - 1 <= l
          /\ o \in Nat /\ w \in Nat /\ k \in Nat /\ l \in Nat
      BY <2>1, <2>2, <3>2
    <3> HIDE DEF o, w, k, l
    <3>4. k <= w
      BY <2>2, <3>3
    <3> QED BY <3>4 DEF Length, k, w
  <2> QED BY <2>1, <2>3, <2>4, <2>5 DEF TypeOK
<1> QED BY <1>1, Invariant, PTL

(* Whichever handler made them: as long as every token was written, the      *)
(* tokens stand in the order of the text and do not overlap; and what an     *)
(* accepted text whose signs stand alone (SignsAlone) and whose brackets are *)
(* closed (BracketsClosed) holds outside of comments is in a token, is a     *)
(* mark that one stands for, or follows the underscore that a lock begins    *)
(* with, the only character of it that its token keeps.                      *)
THEOREM CoversText == Spec => []TokensCoverText
<1>1. IInv => TokensCoverText
  BY DEF IInv, OrderInv, CoverInv, TokensCoverText
<1> QED BY <1>1, Invariant, PTL

(* if_RSPE_and_R_create_tokens leaves a token unwritten only where an        *)
(* opening parenthesis follows a lock that has modifiers.                    *)
THEOREM LeavesUnwritten == Spec => []UnwrittenOnlyBehindModifiers
<1>1. IInv => UnwrittenOnlyBehindModifiers
  BY DEF IInv
<1> QED BY <1>1, Invariant, PTL

(* The lexer reads behind the text, or what it has not written, only for a   *)
(* text with a comment that is not closed or behind such a lock.             *)
THEOREM ReadsWhatIsThere == Spec => []UndefinedOnlyUnclosed
<1>1. IInv => UndefinedOnlyUnclosed
  BY DEF IInv
<1> QED BY <1>1, Invariant, PTL

(* The assertion at the end of create_lexer, that there are fewer tokens     *)
(* than characters, fails only if every character is a token.                *)
THEOREM AbortsDense == Spec => []AbortsOnlyDense
<1>1. IInv => AbortsOnlyDense
  BY DEF IInv
<1> QED BY <1>1, Invariant, PTL


-----------------------------------------------------------------------------
(* The depth of parentheses in the text                                      *)

(* How many parentheses are open behind a position, but for those in S.      *)
Weight(p, S) ==
    IF p \in S THEN 0
    ELSE IF At(p) = "(" THEN 1
    ELSE IF At(p) = ")" THEN -1 ELSE 0
Level(S) ==
    LET upTo[n \in 0..Len(text)] == IF n = 0 THEN 0 ELSE upTo[n - 1] + Weight(n, S)
    IN  upTo

LEMMA WeightFacts ==
    ASSUME NEW p, NEW S
    PROVE  /\ Weight(p, S) \in {0, 1, -1}
           /\ ~Paren(p) \/ p \in S => Weight(p, S) = 0
BY DEF Weight, Paren

LEMMA LevelFacts ==
    ASSUME text \in Seq(Symbols), NEW S
    PROVE  /\ Level(S)[0] = 0
           /\ \A n \in 1..Len(text) : Level(S)[n] = Level(S)[n - 1] + Weight(n, S)
           /\ \A n \in 0..Len(text) : Level(S)[n] \in Int
<1> DEFINE l == Len(text)
           w == Level(S)
           d == [n \in 1..l |-> Weight(n, S)]
           Solves(f) == f = [n \in 0..l |-> IF n = 0 THEN 0 ELSE f[n - 1] + Weight(n, S)]
<1>1. l \in Nat
  OBVIOUS
<1>2. \A n \in 0..l : n # 0 => d[n] = Weight(n, S)
  OBVIOUS
<1>3. \E f : Solves(f)
  <2>1. PICK f : f = [k \in 0..l |-> IF k = 0 THEN 0 ELSE f[k - 1] + d[k]]
    <3> HIDE DEF l, d
    <3> QED BY <1>1, SumExists
  <2> HIDE DEF l, d
  <2>2. Solves(f)
    BY <1>2, <2>1
  <2> QED BY <2>2
<1>4. Solves(w)
  <2>1. w = CHOOSE f : Solves(f)
    BY DEF Level
  <2> HIDE DEF Solves, w
  <2> QED BY <1>3, <2>1
<1> HIDE DEF w
<1>5. w[0] = 0 /\ \A n \in 1..l : w[n] = w[n - 1] + Weight(n, S)
  <2> HIDE DEF l
  <2> QED BY <1>1, <1>4
<1> HIDE DEF Solves
<1>6. \A n \in 0..l : w[n] \in Int
  <2> DEFINE Bad == {n \in 0..l : w[n] \notin Int}
  <2> SUFFICES ASSUME Bad # {} PROVE FALSE
    OBVIOUS
  <2>1. PICK n \in Bad : \A m \in Bad : n <= m
    <3>1. Bad \in SUBSET Nat
      BY <1>1
    <3> HIDE DEF Bad
    <3> QED BY <3>1, LeastNat
  <2> HIDE DEF l
  <2>2. n \in 1..l
    BY <1>1, <1>5, <2>1
  <2>3. n - 1 \in 0..l /\ ~(n <= n - 1)
    BY <1>1, <2>2
  <2>4. w[n - 1] \in Int
    BY <2>1, <2>3
  <2>5. Weight(n, S) \in Int
    BY WeightFacts
  <2>6. w[n] = w[n - 1] + Weight(n, S)
    BY <1>5, <2>2
  <2>7. w[n] \in Int
    BY <2>4, <2>5, <2>6
  <2> QED BY <2>1, <2>7
<1> QED BY <1>5, <1>6 DEF w

(* It stays where there is no parenthesis that counts, *)
LEMMA LevelFlat ==
    ASSUME text \in Seq(Symbols), NEW S, NEW a \in 0..Len(text), NEW b \in 0..Len(text),
           \A p \in (a + 1)..b : Weight(p, S) = 0
    PROVE  \A n \in a..b : Level(S)[n] = Level(S)[a]
<1> DEFINE w == Level(S)
           Bad == {n \in a..b : w[n] # w[a]}
<1> SUFFICES ASSUME Bad # {} PROVE FALSE
  OBVIOUS
<1>1. PICK n \in Bad : \A m \in Bad : n <= m
  <2>1. Bad \in SUBSET Nat
    OBVIOUS
  <2> HIDE DEF Bad
  <2> QED BY <2>1, LeastNat
<1>2. n \in a..b /\ w[n] # w[a] /\ n # a
  BY <1>1
<1>3. n \in (a + 1)..b /\ n \in 1..Len(text) /\ n - 1 \in a..b /\ n - 1 \in 0..Len(text) /\ ~(n <= n - 1)
  BY <1>2
<1>4. w[n - 1] = w[a]
  BY <1>1, <1>3
<1>5. w[n] = w[n - 1] + Weight(n, S) /\ Weight(n, S) = 0 /\ w[n - 1] \in Int
  BY <1>3, LevelFacts
<1> HIDE DEF w
<1>6. w[n] = w[n - 1]
  <2> DEFINE v == w[n - 1]
  <2>1. v \in Int /\ w[n] = v + 0
    BY <1>5
  <2> HIDE DEF v
  <2>2. w[n] = v
    BY <2>1
  <2> QED BY <2>2 DEF v
<1> QED BY <1>2, <1>4, <1>6

(* and where what counts is the same. *)
LEMMA LevelSame ==
    ASSUME text \in Seq(Symbols), NEW S, NEW T, NEW b \in 0..Len(text),
           \A p \in 1..b : Weight(p, S) = Weight(p, T)
    PROVE  \A n \in 0..b : Level(S)[n] = Level(T)[n]
<1> DEFINE v == Level(S)
           w == Level(T)
           Bad == {n \in 0..b : v[n] # w[n]}
<1> SUFFICES ASSUME Bad # {} PROVE FALSE
  OBVIOUS
<1>1. PICK n \in Bad : \A m \in Bad : n <= m
  <2>1. Bad \in SUBSET Nat
    OBVIOUS
  <2> HIDE DEF Bad
  <2> QED BY <2>1, LeastNat
<1>2. n \in 0..b /\ v[n] # w[n]
  BY <1>1
<1>3. v[0] = w[0]
  BY LevelFacts
<1>4. n \in 1..b /\ n \in 1..Len(text) /\ n - 1 \in 0..b /\ ~(n <= n - 1)
  <2> HIDE DEF v, w
  <2> QED BY <1>2, <1>3
<1>5. v[n - 1] = w[n - 1]
  BY <1>1, <1>4
<1>6. v[n] = v[n - 1] + Weight(n, S) /\ w[n] = w[n - 1] + Weight(n, T)
  BY <1>4, LevelFacts
<1>7. Weight(n, S) = Weight(n, T)
  BY <1>4
<1> HIDE DEF v, w
<1> QED BY <1>2, <1>5, <1>6, <1>7, Zenon

-----------------------------------------------------------------------------
(* The scan counts the parentheses                                           *)

(* The open parentheses among the delimiters o. *)
Count(o) == Cardinality({n \in DOMAIN o : o[n] = "("})

LEMMA CountNone == Count(<<>>) = 0
<1>1. {n \in DOMAIN <<>> : <<>>[n] = "("} = {}
  OBVIOUS
<1> QED BY <1>1, FS_EmptySet DEF Count

LEMMA CountFacts ==
    ASSUME NEW o \in Seq(Openers)
    PROVE  IsFiniteSet({n \in DOMAIN o : o[n] = "("}) /\ Count(o) \in Nat
<1> DEFINE S == {n \in DOMAIN o : o[n] = "("}
<1>1. S \subseteq 1..Len(o) /\ Len(o) \in Nat
  OBVIOUS
<1>2. IsFiniteSet(1..Len(o))
  BY <1>1, FS_Interval
<1>3. IsFiniteSet(S)
  <2> HIDE DEF S
  <2> QED BY <1>1, <1>2, FS_Subset
<1>4. Count(o) = Cardinality(S)
  BY DEF Count
<1> HIDE DEF S
<1>5. Cardinality(S) \in Nat
  BY <1>3, FS_CardinalityType
<1> QED BY <1>3, <1>4, <1>5 DEF S

LEMMA CountMore ==
    ASSUME NEW o \in Seq(Openers), NEW q \in Seq(Openers), Len(q) = Len(o) + 1,
           \A n \in 1..Len(o) : q[n] = o[n]
    PROVE  Count(q) = Count(o) + IF q[Len(q)] = "(" THEN 1 ELSE 0
<1> DEFINE S == {n \in DOMAIN o : o[n] = "("}
           T == {n \in DOMAIN q : q[n] = "("}
           l == Len(o)
<1>1. /\ l \in Nat /\ DOMAIN o = 1..l /\ DOMAIN q = 1..(l + 1) /\ Len(q) = l + 1
      /\ l + 1 \notin 1..l /\ \A n \in 1..(l + 1) : n \in 1..l \/ n = l + 1
      /\ l + 1 \in 1..(l + 1) /\ \A n \in 1..l : n \in 1..(l + 1)
  OBVIOUS
<1>2. \A n \in 1..l : q[n] = o[n]
  OBVIOUS
<1>3. IsFiniteSet(S) /\ Count(o) = Cardinality(S) /\ Count(q) = Cardinality(T) /\ Count(o) \in Nat
  BY CountFacts DEF Count
<1> HIDE DEF l
<1>4. CASE q[l + 1] = "("
  <2>1. T = S \cup {l + 1} /\ l + 1 \notin S
    BY <1>1, <1>2, <1>4
  <2> HIDE DEF S, T
  <2>2. Cardinality(S \cup {l + 1}) = Cardinality(S) + 1
    BY <1>3, <2>1, FS_AddElement
  <2> QED BY <1>1, <1>3, <1>4, <2>1, <2>2
<1>5. CASE q[l + 1] # "("
  <2>1. T = S
    BY <1>1, <1>2, <1>5
  <2> HIDE DEF S, T
  <2>2. Count(q) = Count(o)
    BY <1>3, <2>1
  <2> QED BY <1>1, <1>3, <1>5, <2>2
<1> QED BY <1>4, <1>5

(* No parenthesis is a character literal. *)
PlainLiterals ==
    \A p \in DOMAIN text : Paren(p) => ~(At(p - 1) = "BACKSLASH" /\ At(p + 1) = "BACKSLASH")

(* The parentheses that are open in the text read so far, but for comments,  *)
(* are those in the memory area of the scan.                                 *)
DepthInv ==
    /\ pc = "scan" =>
          \A p \in scanned : p \in 1..(end - 1) \/ (p = end /\ ~Paren(p))
    /\ PlainLiterals /\ pc = "scan" =>
          /\ Level(scanned)[end - 1] = Count(opened)
          /\ \A n \in 0..(end - 1) : Level(scanned)[n] >= 0
    /\ PlainLiterals /\ pc \in {"lex", "accepted"} =>
          /\ Level(scanned)[Len(text)] = 0
          /\ \A n \in 0..Len(text) : Level(scanned)[n] >= 0

LEMMA SameLevel ==
    ASSUME text' = text
    PROVE  /\ (PlainLiterals' <=> PlainLiterals)
           /\ \A S : Level(S)' = Level(S)
           /\ \A p : Paren(p)' <=> Paren(p)
<1>1. \A p : Paren(p)' <=> Paren(p)
  BY DEF Paren, At
<1>2. PlainLiterals' <=> PlainLiterals
  BY DEF PlainLiterals, Paren, At
<1>3. \A S : Level(S)' = Level(S)
  BY DEF Level, Weight, At
<1> QED BY <1>1, <1>2, <1>3

(* The scan passes over the word at Start and over what follows it up to e,  *)
(* C being what of it is a comment.                                          *)
LEMMA PassKeeps ==
    ASSUME IInv, DepthInv, pc = "scan", Here # "NUL", text' = text, pc' = "scan",
           NEW e \in (Start + 1)..Eof, end' = e,
           NEW C \in SUBSET (Start..e), scanned' = scanned \cup C, e \in C => ~Paren(e),
           opened' \in Seq(Openers),
           PlainLiterals => \A p \in (Start + 1)..(e - 1) : Paren(p) => p \in C,
           Count(opened') = Count(opened) + Weight(Start, C)
    PROVE  DepthInv'
<1> DEFINE S == scanned
           T == scanned'
<1>1. /\ text \in Seq(Symbols) /\ Placed /\ opened \in Seq(Openers) /\ Reading
      /\ Start \in 1..Len(text) /\ Graph(Start)
  BY ScanFacts
<1>2. /\ end - 1 \in 0..Len(text) /\ end \in Nat /\ Start \in Nat /\ end <= Start /\ Start <= Eof
      /\ Eof = Len(text) + 1 /\ Len(text) \in Nat /\ Eof \in Nat
  BY <1>1, EndFacts
<1>3. e \in Nat /\ Start + 1 <= e /\ e <= Eof /\ e - 1 \in 0..Len(text)
  BY <1>2
<1>4. \A p \in S : p \in 1..(end - 1) \/ (p = end /\ ~Paren(p))
  BY DEF DepthInv
<1>5. \A p \in T : p \in 1..(e - 1) \/ (p = e /\ ~Paren(p))
  <2> SUFFICES ASSUME NEW p \in T PROVE p \in 1..(e - 1) \/ (p = e /\ ~Paren(p))
    OBVIOUS
  <2>1. CASE p \in S
    <3>1. p \in 1..(end - 1) \/ p = end
      BY <1>4, <2>1
    <3>2. p \in 1..(e - 1)
      <4>1. end \in 1..Eof
        BY <1>1 DEF Placed
      <4> QED BY <1>2, <1>3, <3>1, <4>1
    <3> QED BY <3>2
  <2>2. CASE p \in C
    <3>1. p \in Start..e
      BY <2>2
    <3>2. p = e \/ p \in 1..(e - 1)
      BY <1>1, <1>2, <1>3, <3>1
    <3> QED BY <2>2, <3>2
  <2> QED BY <2>1, <2>2
<1> HIDE DEF T
<1>6. ASSUME PlainLiterals
      PROVE  /\ Level(T)[e - 1] = Count(opened')
             /\ \A n \in 0..(e - 1) : Level(T)[n] >= 0
  <2> DEFINE v == Level(S)
             w == Level(T)
             c == Count(opened)
  <2>1. v[end - 1] = c /\ \A n \in 0..(end - 1) : v[n] >= 0
    BY <1>6 DEF DepthInv
  <2>2. c \in Nat /\ Count(opened') \in Nat
    BY <1>1, CountFacts
  <2>3. \A p \in 1..(end - 1) : Weight(p, S) = Weight(p, T)
    <3> SUFFICES ASSUME NEW p \in 1..(end - 1) PROVE p \in S <=> p \in T
      BY DEF Weight
    <3>1. p \notin C
      BY <1>2
    <3> QED BY <3>1 DEF T
  <2>4. \A n \in 0..(end - 1) : v[n] = w[n]
    BY <1>1, <1>2, <2>3, LevelSame
  <2>5. \A p \in ((end - 1) + 1)..(Start - 1) : Weight(p, T) = 0
    <3> SUFFICES ASSUME NEW p \in end..(Start - 1) PROVE Weight(p, T) = 0
      BY <1>2
    <3>1. ~Graph(p) /\ p \in Int
      BY <1>1, StartFacts
    <3>2. ~Paren(p)
      BY <1>1, <3>1, SpecialKinds, AtFacts DEF Paren
    <3> QED BY <3>2, WeightFacts
  <2>6. \A n \in (end - 1)..(Start - 1) : w[n] = w[end - 1]
    <3>1. Start - 1 \in 0..Len(text)
      BY <1>1, <1>2
    <3> QED BY <1>1, <1>2, <2>5, <3>1, LevelFlat
  <2>7. Weight(Start, T) = Weight(Start, C)
    <3>1. CASE Start \in C
      BY <3>1 DEF T, Weight
    <3>2. CASE Start \notin C /\ Start \in S
      <4>1. ~Paren(Start)
        BY <1>2, <1>4, <3>2
      <4> QED BY <4>1, WeightFacts
    <3>3. CASE Start \notin C /\ Start \notin S
      BY <3>3 DEF T, Weight
    <3> QED BY <3>1, <3>2, <3>3
  <2>8. w[Start] = Count(opened')
    <3>1. w[Start] = w[Start - 1] + Weight(Start, T)
      BY <1>1, LevelFacts
    <3>2. w[Start - 1] = w[end - 1] /\ w[end - 1] = v[end - 1]
      <4>1. Start - 1 \in (end - 1)..(Start - 1) /\ end - 1 \in 0..(end - 1)
        BY <1>2
      <4> QED BY <2>4, <2>6, <4>1
    <3> HIDE DEF v, w
    <3>3. w[Start] = c + Weight(Start, C)
      BY <2>1, <2>7, <3>1, <3>2
    <3> QED BY <3>3
  <2>9. \A n \in Start..(e - 1) : w[n] = w[Start]
    <3>1. Start \in 0..Len(text)
      BY <1>1
    <3>2. \A p \in (Start + 1)..(e - 1) : Weight(p, T) = 0
      <4> SUFFICES ASSUME NEW p \in (Start + 1)..(e - 1) PROVE ~Paren(p) \/ p \in T
        BY WeightFacts
      <4> QED BY <1>6 DEF T
    <3> QED BY <1>1, <1>3, <3>1, <3>2, LevelFlat
  <2> HIDE DEF v, w, c
  <2>10. w[e - 1] = Count(opened')
    <3>1. e - 1 \in Start..(e - 1)
      BY <1>2, <1>3
    <3> QED BY <2>8, <2>9, <3>1
  <2>11. ASSUME NEW n \in 0..(e - 1) PROVE w[n] >= 0
    <3>1. CASE n \in 0..(end - 1)
      BY <2>1, <2>4, <3>1
    <3>2. CASE n \in (end - 1)..(Start - 1)
      <4>1. w[n] = c
        <5>1. end - 1 \in 0..(end - 1)
          BY <1>2
        <5> QED BY <2>1, <2>4, <2>6, <3>2, <5>1
      <4> QED BY <2>2, <4>1
    <3>3. CASE n \in Start..(e - 1)
      BY <2>2, <2>8, <2>9, <3>3
    <3> QED BY <1>2, <1>3, <3>1, <3>2, <3>3
  <2> QED BY <2>10, <2>11 DEF w
<1>7. (PlainLiterals' <=> PlainLiterals) /\ Level(scanned)' = Level(T) /\ \A p : Paren(p)' <=> Paren(p)
  <2>1. Level(scanned)' = Level(T)
    BY DEF Level, Weight, At, T
  <2> QED BY <2>1, SameLevel
<1>8. pc' = "scan" /\ end' = e /\ scanned' = T
  BY DEF T
<1>9. "scan" \notin {"lex", "accepted"}
  OBVIOUS
<1> QED BY <1>5, <1>6, <1>7, <1>8, <1>9 DEF DepthInv

LEMMA LeaveKeeps == ASSUME pc' \notin {"scan", "lex", "accepted"} PROVE DepthInv'
BY DEF DepthInv

LEMMA CharacterPasses == ASSUME IInv, DepthInv, ScanCharacter PROVE DepthInv'
<1>1. /\ pc = "scan" /\ Here = "BACKSLASH" /\ opened' = opened /\ scanned' = scanned /\ text' = text
  BY DEF ScanCharacter, Scanning, scanVars
<1>2. CASE Character(Start)
  <2>1. end' = Start + 3 /\ pc' = "scan"
    BY <1>1, <1>2 DEF ScanCharacter, Passed
  <2>2. /\ Start \in 1..Len(text) /\ text \in Seq(Symbols) /\ Eof = Len(text) + 1 /\ Len(text) \in Nat
        /\ opened \in Seq(Openers) /\ DOMAIN text = 1..Len(text)
    BY <1>1, ScanFacts, EofFacts
  <2>3. At(Start + 2) = "BACKSLASH" /\ Start + 2 \in 1..Len(text)
    <3>1. Start + 2 \in Int /\ At(Start + 2) = "BACKSLASH"
      BY <1>2, <2>2 DEF Character
    <3> QED BY <2>2, <3>1, AtFacts
  <2>4. Start + 3 \in (Start + 1)..Eof
    BY <2>2, <2>3
  <2>5. PlainLiterals => \A p \in (Start + 1)..((Start + 3) - 1) : ~Paren(p)
    <3> SUFFICES ASSUME PlainLiterals, NEW p \in (Start + 1)..((Start + 3) - 1), Paren(p) PROVE FALSE
      OBVIOUS
    <3>1. p = Start + 1 \/ p = Start + 2
      BY <2>2
    <3>2. p # Start + 2
      BY <2>3 DEF Paren
    <3>3. p - 1 = Start /\ p + 1 = Start + 2 /\ p \in DOMAIN text
      BY <2>2, <2>3, <3>1, <3>2
    <3> QED BY <1>1, <2>3, <3>3 DEF PlainLiterals, Here
  <2>6. Weight(Start, {}) = 0
    <3>1. ~Paren(Start)
      BY <1>1 DEF Paren, Here
    <3> QED BY <3>1, WeightFacts
  <2>7. Count(opened') = Count(opened) + Weight(Start, {})
    <3>1. Count(opened) \in Nat
      BY <2>2, CountFacts
    <3> QED BY <1>1, <2>6, <3>1
  <2>8. scanned' = scanned \cup {} /\ {} \in SUBSET (Start..(Start + 3)) /\ opened' \in Seq(Openers)
    BY <1>1, <2>2
  <2> QED BY <1>1, <2>1, <2>4, <2>5, <2>7, <2>8, PassKeeps
<1>3. CASE ~Character(Start)
  <2>1. pc' = "rejected"
    BY <1>3 DEF ScanCharacter, Refused
  <2> QED BY <2>1, LeaveKeeps
<1> QED BY <1>2, <1>3

(* A word that is passed over alone, and changes nothing but its delimiters. *)
LEMMA WordPasses ==
    ASSUME IInv, DepthInv, pc = "scan", Here # "NUL", text' = text, pc' = "scan", end' = Start + 1,
           scanned' = scanned, opened' \in Seq(Openers),
           Count(opened') = Count(opened) + Weight(Start, {})
    PROVE  DepthInv'
<1>1. Start \in 1..Len(text) /\ Start + 1 \in 1..Eof
  BY ScanFacts
<1>2. Start + 1 \in (Start + 1)..Eof /\ \A p \in (Start + 1)..((Start + 1) - 1) : FALSE
  BY <1>1
<1>3. scanned' = scanned \cup {} /\ {} \in SUBSET (Start..(Start + 1))
  OBVIOUS
<1> QED BY <1>2, <1>3, PassKeeps

LEMMA OpenerPasses == ASSUME IInv, DepthInv, ScanOpener PROVE DepthInv'
<1>1. /\ pc = "scan" /\ Here \in Openers /\ opened' = Append(opened, Here) /\ scanned' = scanned
      /\ text' = text /\ end' = Start + 1 /\ pc' = "scan"
  BY DEF ScanOpener, Scanning, Passed
<1>2. Here # "NUL" /\ Here # ")"
  BY <1>1 DEF Openers
<1>3. opened \in Seq(Openers)
  BY <1>1, ScanFacts
<1>4. /\ opened' \in Seq(Openers) /\ Len(opened') = Len(opened) + 1 /\ opened'[Len(opened')] = Here
      /\ \A n \in 1..Len(opened) : opened'[n] = opened[n]
  BY <1>1, <1>3
<1>5. Count(opened') = Count(opened) + IF opened'[Len(opened')] = "(" THEN 1 ELSE 0
  BY <1>3, <1>4, CountMore
<1>6. Weight(Start, {}) = IF Here = "(" THEN 1 ELSE 0
  BY <1>2 DEF Weight, Here
<1> QED BY <1>1, <1>2, <1>4, <1>5, <1>6, WordPasses

LEMMA CloserPasses == ASSUME IInv, DepthInv, ScanCloser PROVE DepthInv'
<1>1. pc = "scan" /\ Here \in Closers /\ scanned' = scanned /\ text' = text
  BY DEF ScanCloser, Scanning
<1>2. Here # "NUL" /\ Here # "("
  BY <1>1 DEF Closers
<1>3. opened \in Seq(Openers)
  BY <1>1, ScanFacts
<1>4. CASE opened # <<>> /\ opened[Len(opened)] = Match[Here]
  <2>1. /\ opened' = SubSeq(opened, 1, Len(opened) - 1) /\ end' = Start + 1 /\ pc' = "scan"
    BY <1>1, <1>4 DEF ScanCloser, Passed
  <2> DEFINE q == opened'
  <2>2. q \in Seq(Openers) /\ Len(opened) = Len(q) + 1 /\ \A n \in 1..Len(q) : opened[n] = q[n]
    <3> DEFINE l == Len(opened)
    <3>1. l \in Nat /\ l >= 1
      BY <1>3, <1>4
    <3>2. SubSeq(opened, 1, l - 1) \in Seq(Openers) /\ Len(SubSeq(opened, 1, l - 1)) = l - 1
          /\ \A n \in 1..(l - 1) : SubSeq(opened, 1, l - 1)[n] = opened[n]
      BY <1>3, <3>1
    <3>3. q = SubSeq(opened, 1, l - 1)
      BY <2>1
    <3> HIDE DEF q, l
    <3>4. q \in Seq(Openers) /\ Len(q) = l - 1 /\ \A n \in 1..(l - 1) : q[n] = opened[n]
      BY <3>2, <3>3, Zenon
    <3>5. Len(opened) = Len(q) + 1
      BY <3>1, <3>4 DEF l
    <3> QED BY <3>4, <3>5
  <2>3. Count(opened) = Count(q) + IF opened[Len(opened)] = "(" THEN 1 ELSE 0
    <3> HIDE DEF q
    <3> QED BY <1>3, <2>2, CountMore
  <2>4. opened[Len(opened)] = "(" <=> Here = ")"
    <3>1. Match[Here] = "(" <=> Here = ")"
      BY <1>1 DEF Match, Closers
    <3> QED BY <1>4, <3>1
  <2>5. Weight(Start, {}) = IF Here = ")" THEN -1 ELSE 0
    BY <1>2 DEF Weight, Here
  <2>6. Count(q) \in Nat
    BY <2>2, CountFacts
  <2>7. Count(q) = Count(opened) + Weight(Start, {})
    <3> HIDE DEF q
    <3> QED BY <2>3, <2>4, <2>5, <2>6
  <2> QED BY <1>1, <1>2, <2>1, <2>2, <2>7, WordPasses
<1>5. CASE ~(opened # <<>> /\ opened[Len(opened)] = Match[Here])
  <2>1. pc' = "rejected"
    BY <1>5 DEF ScanCloser, Refused
  <2> QED BY <2>1, LeaveKeeps
<1> QED BY <1>4, <1>5

(* What neither is a parenthesis nor changes the delimiters. *)
LEMMA FlatPasses ==
    ASSUME IInv, DepthInv, pc = "scan", Here # "NUL", text' = text, pc' = "scan",
           NEW e \in (Start + 1)..Eof, end' = e, NEW C \in SUBSET (Start..e),
           scanned' = scanned \cup C, e \in C => ~Paren(e), opened' = opened, ~Paren(Start),
           \A p \in (Start + 1)..(e - 1) : Paren(p) => p \in C
    PROVE  DepthInv'
<1>1. opened \in Seq(Openers)
  BY ScanFacts
<1>2. Count(opened) \in Nat /\ Weight(Start, C) = 0
  BY <1>1, CountFacts, WeightFacts
<1>3. Count(opened') = Count(opened) + Weight(Start, C)
  BY <1>2
<1>4. opened' \in Seq(Openers)
  BY <1>1
<1> QED BY <1>3, <1>4, PassKeeps

LEMMA ColonPasses == ASSUME IInv, DepthInv, ScanColon PROVE DepthInv'
<1>1. /\ pc = "scan" /\ Here = ":" /\ opened' = opened /\ scanned' = scanned /\ text' = text
      /\ (end' = Start + 1 /\ pc' = "scan") \/ pc' = "rejected"
  BY DEF ScanColon, Scanning, scanVars, Passed, Refused
<1>2. Start \in 1..Len(text) /\ Start + 1 \in 1..Eof
  BY <1>1, ScanFacts
<1>3. ~Paren(Start)
  BY <1>1 DEF Paren, Here
<1>4. Start + 1 \in (Start + 1)..Eof /\ \A p \in (Start + 1)..((Start + 1) - 1) : FALSE
  BY <1>2
<1>5. scanned' = scanned \cup {} /\ {} \in SUBSET (Start..(Start + 1))
  BY <1>1
<1> QED BY <1>1, <1>3, <1>4, <1>5, FlatPasses, LeaveKeeps

LEMMA PlainWordPasses == ASSUME IInv, DepthInv, ScanWord PROVE DepthInv'
<1>1. /\ pc = "scan" /\ Here \in Words /\ opened' = opened /\ scanned' = scanned /\ text' = text
      /\ end' = Start + 1 /\ pc' = "scan"
  BY DEF ScanWord, Scanning, scanVars, Passed
<1>2. Here # "NUL" /\ ~Paren(Start)
  BY <1>1, SymbolFacts, SpecialKinds DEF Paren, Here
<1>3. Start \in 1..Len(text) /\ Start + 1 \in 1..Eof
  BY <1>1, <1>2, ScanFacts
<1>4. Start + 1 \in (Start + 1)..Eof /\ \A p \in (Start + 1)..((Start + 1) - 1) : FALSE
  BY <1>3
<1>5. scanned' = scanned \cup {} /\ {} \in SUBSET (Start..(Start + 1))
  BY <1>1
<1> QED BY <1>1, <1>2, <1>4, <1>5, FlatPasses

LEMMA LineCommentPasses == ASSUME IInv, DepthInv, ScanLineComment PROVE DepthInv'
<1> DEFINE e == LineEnd(Start + 3)
           C == Start..(e - 1)
<1>1. /\ pc = "scan" /\ Here = "!" /\ Opens(Start, "!") /\ opened' = opened /\ text' = text
      /\ end' = e /\ pc' = "scan" /\ scanned' = scanned \cup Start..(end' - 1)
  BY DEF ScanLineComment, Scanning, Passed
<1>2. /\ Reading /\ text \in Seq(Symbols) /\ Start \in 1..Len(text) /\ Eof = Len(text) + 1 /\ Len(text) \in Nat
  BY <1>1, ScanFacts, EofFacts
<1>3. Start + 3 \in 1..Eof
  BY <1>1, <1>2, OpensFacts
<1>4. e \in (Start + 3)..Eof
  BY <1>2, <1>3, LineFacts
<1> HIDE DEF e
<1>5. /\ e \in (Start + 1)..Eof /\ C \in SUBSET (Start..e) /\ e \notin C
      /\ \A p \in (Start + 1)..(e - 1) : p \in C
  BY <1>2, <1>4
<1>6. ~Paren(Start)
  BY <1>1 DEF Paren, Here
<1>7. scanned' = scanned \cup C
  BY <1>1
<1> HIDE DEF C
<1> QED BY <1>1, <1>5, <1>6, <1>7, FlatPasses

LEMMA CommentPasses == ASSUME IInv, DepthInv, ScanComment PROVE DepthInv'
<1> DEFINE found == Ends(Start + 3, {"|", "NUL"})
           e == Min(found) + 2
           C == Start..Min({e, Len(text)})
<1>1. /\ pc = "scan" /\ Here = "|" /\ Opens(Start, "|") /\ opened' = opened /\ text' = text
  BY DEF ScanComment, Scanning
<1>2. /\ Reading /\ text \in Seq(Symbols) /\ Start \in 1..Len(text) /\ Eof = Len(text) + 1 /\ Len(text) \in Nat
  BY <1>1, ScanFacts, EofFacts
<1>3. CASE found = {}
  <2>1. pc' = "undefined"
    BY <1>3 DEF ScanComment
  <2> QED BY <2>1, LeaveKeeps
<1>4. CASE found # {}
  <2>1. end' = e /\ pc' = "scan" /\ scanned' = scanned \cup C
    BY <1>1, <1>4 DEF ScanComment, Passed
  <2>2. Min(found) \in (Start + 3)..(Eof - 2) /\ At(Min(found) + 2) \in {"|", "NUL"}
    BY <1>1, <1>2, <1>4, EndsFacts
  <2>3. e \in (Start + 5)..Eof /\ ~Paren(e)
    <3> DEFINE n == Min(found)
    <3>1. n \in (Start + 3)..(Eof - 2) /\ e = n + 2
      BY <2>2
    <3> HIDE DEF n
    <3>2. n + 2 \in (Start + 5)..Eof
      BY <1>2, <3>1
    <3> QED BY <2>2, <3>1, <3>2 DEF Paren
  <2> HIDE DEF e
  <2> DEFINE b == Min({e, Len(text)})
  <2>4. b \in {e, Len(text)} /\ b <= e /\ b <= Len(text)
    <3>1. {e, Len(text)} \in SUBSET Nat /\ {e, Len(text)} # {}
      BY <1>2, <2>3
    <3> QED BY <3>1, LeastOf
  <2>5. C = Start..b
    OBVIOUS
  <2> HIDE DEF b, C
  <2>6. /\ e \in (Start + 1)..Eof /\ C \in SUBSET (Start..e)
        /\ \A p \in (Start + 1)..(e - 1) : p \in C
    BY <1>2, <2>3, <2>4, <2>5
  <2>7. ~Paren(Start) /\ Here # "NUL"
    BY <1>1 DEF Paren, Here
  <2> QED BY <1>1, <2>1, <2>3, <2>6, <2>7, FlatPasses
<1> QED BY <1>3, <1>4

LEMMA SpecialPasses == ASSUME IInv, DepthInv, ScanSpecial PROVE DepthInv'
<1> DEFINE S == {n \in (Start + 1)..Eof : At(n) \notin Modifiers}
           e == IF ~quoted /\ Here \in {"!", "|"} THEN Start + 1 ELSE Min(S)
<1>1. /\ pc = "scan" /\ Here \in Specials \ (Openers \cup Closers \cup {":"})
      /\ opened' = opened /\ scanned' = scanned /\ text' = text /\ pc' = "scan" /\ end' = e
  BY DEF ScanSpecial, Scanning, Passed
<1>2. Here # "NUL" /\ ~Paren(Start)
  BY <1>1, SymbolFacts DEF Paren, Openers, Closers, Here
<1>3. /\ text \in Seq(Symbols) /\ Start \in 1..Len(text) /\ Eof = Len(text) + 1 /\ Len(text) \in Nat
  BY <1>1, <1>2, ScanFacts, EofFacts
<1>4. Min(S) \in (Start + 1)..Eof /\ \A n \in S : Min(S) <= n
  <2>1. At(Eof) = "NUL"
    <3>1. Eof \in Int /\ Eof \notin 1..Len(text)
      BY <1>3
    <3> QED BY <1>3, <3>1, AtFacts
  <2>2. Eof \in (Start + 1)..Eof
    BY <1>3
  <2>3. Eof \in S
    BY <2>1, <2>2 DEF Modifiers, Leveling
  <2>4. S \in SUBSET ((Start + 1)..Eof) /\ S \in SUBSET Nat /\ S # {} /\ Start + 1 \in Nat /\ Eof \in Nat
    BY <1>3, <2>3
  <2> HIDE DEF S
  <2> QED BY <2>4, LeastIn, LeastOf
<1>5. e \in (Start + 1)..Eof /\ \A p \in (Start + 1)..(e - 1) : ~Paren(p)
  <2>1. CASE e = Start + 1
    <3> HIDE DEF e
    <3> QED BY <1>3, <2>1
  <2>2. CASE e = Min(S)
    <3> DEFINE m == Min(S)
    <3>1. m \in (Start + 1)..Eof /\ e = m
      BY <1>4, <2>2
    <3>2. ASSUME NEW p \in (Start + 1)..(m - 1) PROVE At(p) \in Modifiers
      <4>1. p \in (Start + 1)..Eof /\ ~(m <= p)
        <5> HIDE DEF m
        <5> QED BY <1>3, <3>1
      <4>2. p \notin S
        BY <1>4, <4>1
      <4> QED BY <4>1, <4>2
    <3>3. \A p \in (Start + 1)..(m - 1) : ~Paren(p)
      BY <3>2 DEF Paren, Modifiers, Leveling
    <3> HIDE DEF m, e
    <3> QED BY <3>1, <3>3
  <2>3. e = Start + 1 \/ e = Min(S)
    OBVIOUS
  <2> QED BY <2>1, <2>2, <2>3
<1> HIDE DEF e
<1>6. scanned' = scanned \cup {} /\ {} \in SUBSET (Start..e)
  BY <1>1
<1> QED BY <1>1, <1>2, <1>5, <1>6, FlatPasses

(* At the end of the text nothing is open. *)
LEMMA ScanEnds == ASSUME IInv, DepthInv, EndScan PROVE DepthInv'
<1>1. pc = "scan" /\ Here = "NUL" /\ scanned' = scanned /\ text' = text
  BY DEF EndScan, Scanning, scanVars
<1>2. CASE opened = <<>> /\ ~quoted
  <2>1. pc' = "lex"
    BY <1>2 DEF EndScan
  <2>2. /\ text \in Seq(Symbols) /\ Placed
    BY <1>1, ScanFacts
  <2>3. /\ end - 1 \in 0..Len(text) /\ end \in Nat /\ end <= Start /\ Start = Eof
        /\ Eof = Len(text) + 1 /\ Len(text) \in Nat
    BY <1>1, <2>2, EndFacts, StartFacts
  <2>4. (PlainLiterals' <=> PlainLiterals) /\ Level(scanned)' = Level(scanned) /\ Len(text)' = Len(text)
    <3>1. Level(scanned)' = Level(scanned)
      BY <1>1 DEF Level, Weight, At
    <3> QED BY <1>1, <3>1, SameLevel
  <2>5. ASSUME PlainLiterals
        PROVE  /\ Level(scanned)[Len(text)] = 0
               /\ \A n \in 0..Len(text) : Level(scanned)[n] >= 0
    <3> DEFINE w == Level(scanned)
    <3>1. w[end - 1] = 0 /\ \A n \in 0..(end - 1) : w[n] >= 0
      BY <1>1, <1>2, <2>5, CountNone DEF DepthInv
    <3>2. \A p \in ((end - 1) + 1)..Len(text) : Weight(p, scanned) = 0
      <4> SUFFICES ASSUME NEW p \in end..Len(text) PROVE Weight(p, scanned) = 0
        BY <2>3
      <4>1. p \in end..(Start - 1) /\ p \in Int
        BY <2>3
      <4>2. ~Graph(p)
        BY <2>2, <4>1, StartFacts
      <4>3. ~Paren(p)
        BY <2>2, <4>1, <4>2, SpecialKinds, AtFacts DEF Paren
      <4> QED BY <4>3, WeightFacts
    <3>3. Len(text) \in 0..Len(text)
      BY <2>3
    <3>4. \A n \in (end - 1)..Len(text) : w[n] = w[end - 1]
      BY <2>2, <2>3, <3>2, <3>3, LevelFlat
    <3> HIDE DEF w
    <3>5. \A n \in 0..Len(text) : n \in 0..(end - 1) \/ n \in (end - 1)..Len(text)
      BY <2>3
    <3>6. Len(text) \in (end - 1)..Len(text)
      BY <2>3
    <3>7. \A n \in (end - 1)..Len(text) : w[n] = 0 /\ w[n] >= 0
      BY <3>1, <3>4
    <3> QED BY <3>1, <3>5, <3>6, <3>7 DEF w
  <2>6. pc' # "scan" /\ scanned' = scanned
    BY <1>1, <2>1
  <2> QED BY <2>4, <2>5, <2>6 DEF DepthInv
<1>3. CASE ~(opened = <<>> /\ ~quoted)
  <2>1. pc' = "rejected"
    BY <1>3 DEF EndScan, Refused
  <2> QED BY <2>1, LeaveKeeps
<1> QED BY <1>2, <1>3

(* create_lexer leaves what the scan found. *)
LEMMA LexDepth ==
    ASSUME DepthInv, pc \in {"lex", "accepted"}, UNCHANGED <<text, scanVars>>, pc' # "scan"
    PROVE  DepthInv'
<1>1. text' = text /\ scanned' = scanned
  BY DEF scanVars
<1>2. (PlainLiterals' <=> PlainLiterals) /\ Level(scanned)' = Level(scanned) /\ Len(text)' = Len(text)
  <2>1. Level(scanned)' = Level(scanned)
    BY <1>1 DEF Level, Weight, At
  <2> QED BY <1>1, <2>1, SameLevel
<1> QED BY <1>1, <1>2 DEF DepthInv

LEMMA StutterDepth == ASSUME DepthInv, UNCHANGED vars PROVE DepthInv'
<1>1. text' = text /\ scanned' = scanned /\ pc' = pc /\ end' = end /\ opened' = opened
  BY DEF vars
<1>2. (PlainLiterals' <=> PlainLiterals) /\ Level(scanned)' = Level(scanned) /\ \A p : Paren(p)' <=> Paren(p)
  <2>1. Level(scanned)' = Level(scanned)
    BY <1>1 DEF Level, Weight, At
  <2> QED BY <1>1, <2>1, SameLevel
<1> QED BY <1>1, <1>2 DEF DepthInv

(* create_lexer does not touch what the scan leaves. *)
LEMMA LexLeaves ==
    ASSUME SkipComment \/ TakeCommand \/ TakeIdentifier \/ TakeQualifiers
           \/ TakeLeftRight \/ TakeLock \/ TakeLeft \/ TakePeriodLeft \/ TakeLiteral
           \/ TakeModifiers \/ TakeOpening \/ TakeClosing \/ TakeSpecial
           \/ ReadUnwritten \/ Reject \/ EndOfText
    PROVE  pc = "lex" /\ UNCHANGED <<text, scanVars>> /\ pc' # "scan"
<1> DEFINE Leaves == pc = "lex" /\ UNCHANGED <<text, scanVars>> /\ pc' # "scan"
<1>1. \A h : Taking(h) => pc = "lex"
  BY DEF Taking
<1>2. \A ts, p : pc = "lex" /\ Taken(ts, p) => Leaves
  BY DEF Taken
<1>3. CASE SkipComment
  BY <1>1, <1>3 DEF SkipComment, Passed
<1>4. CASE TakeCommand \/ TakeIdentifier \/ TakeQualifiers \/ TakeLeftRight
  <2>1. pc = "lex" /\ \E ts, p : Taken(ts, p)
    BY <1>1, <1>4 DEF TakeCommand, TakeIdentifier, TakeQualifiers, TakeLeftRight
  <2> QED BY <1>2, <2>1
<1>5. CASE TakePeriodLeft \/ TakeModifiers \/ TakeOpening \/ TakeClosing \/ TakeSpecial
  <2>1. pc = "lex" /\ \E ts, p : Taken(ts, p)
    BY <1>1, <1>5 DEF TakePeriodLeft, TakeModifiers, TakeOpening, TakeClosing, TakeSpecial
  <2> QED BY <1>2, <2>1
<1>6. CASE TakeLock
  <2>1. pc = "lex" /\ \E ts, p : Taken(ts, p)
    BY <1>1, <1>6 DEF TakeLock
  <2> QED BY <1>2, <2>1
<1>7. CASE TakeLiteral
  <2>1. pc = "lex" /\ \E ts, p : Taken(ts, p)
    BY <1>1, <1>7 DEF TakeLiteral
  <2> QED BY <1>2, <2>1
<1>8. CASE TakeLeft
  BY <1>1, <1>8 DEF TakeLeft
<1>9. CASE ReadUnwritten \/ Reject \/ EndOfText
  BY <1>1, <1>9 DEF ReadUnwritten, Reject, EndOfText
<1> QED BY <1>3, <1>4, <1>5, <1>6, <1>7, <1>8, <1>9

LEMMA DepthStep == ASSUME IInv, DepthInv, [Next]_vars PROVE DepthInv'
<1>1. CASE UNCHANGED vars
  BY <1>1, StutterDepth
<1>2. CASE ScanCharacter \/ ScanOpener \/ ScanCloser \/ ScanColon
  BY <1>2, CharacterPasses, OpenerPasses, CloserPasses, ColonPasses
<1>3. CASE ScanLineComment \/ ScanComment \/ ScanSpecial \/ ScanWord \/ EndScan
  BY <1>3, LineCommentPasses, CommentPasses, SpecialPasses, PlainWordPasses, ScanEnds
<1>4. CASE \/ SkipComment \/ TakeCommand \/ TakeIdentifier \/ TakeQualifiers
           \/ TakeLeftRight \/ TakeLock \/ TakeLeft \/ TakePeriodLeft \/ TakeLiteral
           \/ TakeModifiers \/ TakeOpening \/ TakeClosing \/ TakeSpecial
           \/ ReadUnwritten \/ Reject \/ EndOfText
  BY <1>4, LexLeaves, LexDepth
<1>5. CASE Returned
  BY <1>5, StutterDepth DEF Returned
<1> QED BY <1>1, <1>2, <1>3, <1>4, <1>5 DEF Next

LEMMA DepthInit == ASSUME Init PROVE DepthInv
<1>1. text \in Sources /\ pc = "scan" /\ end = 1 /\ opened = <<>> /\ scanned = {}
  BY DEF Init, Begin
<1>2. text \in Seq(Symbols)
  BY <1>1, LexerAssumption
<1>3. end - 1 = 0 /\ Level(scanned)[0] = 0 /\ Count(opened) = 0
  BY <1>1, <1>2, LevelFacts, CountNone
<1>4. ASSUME NEW n \in 0..(end - 1) PROVE Level(scanned)[n] >= 0
  <2>1. n = 0
    BY <1>3
  <2> QED BY <1>3, <2>1
<1> QED BY <1>1, <1>3, <1>4 DEF DepthInv

(* lexer_scan_errors lets a text through only if, outside of what it takes   *)
(* for comments, every parenthesis closes one that was opened before: the    *)
(* memory area it keeps the delimiters in holds those that are open.         *)
THEOREM DepthInvariant == Spec => []DepthInv
<1>1. Init => DepthInv
  BY DepthInit
<1>2. IInv /\ DepthInv /\ [Next]_vars => DepthInv'
  BY DepthStep
<1> QED BY <1>1, <1>2, Invariant, PTL DEF Spec

-----------------------------------------------------------------------------
(* The tokens count the parentheses                                          *)

(* Where the two passes agree and no other token is a parenthesis. *)
Settled ==
    /\ pc = "accepted" /\ Written /\ SignsAlone /\ BracketsClosed
    /\ scanned = skipped /\ NoParenthesisElsewhere

(* What token n adds to the depth, and the last position it holds. *)
Adds(n) == IF ~Parenthesis(n) THEN 0 ELSE IF tokens[n].subtype = "(" THEN 1 ELSE -1
Reach(n) == IF n = 0 THEN 0 ELSE tokens[n].end - 1

LEMMA AddsFacts == ASSUME NEW n PROVE Adds(n) \in Int
BY DEF Adds

LEMMA DepthFacts ==
    ASSUME tokens \in Seq(TokenSet)
    PROVE  /\ Depth[0] = 0
           /\ \A n \in 1..Len(tokens) : Depth[n] = Depth[n - 1] + Adds(n)
<1> DEFINE l == Len(tokens)
           d == [n \in 1..l |-> Adds(n)]
           Solves(f) == f = [n \in 0..l |-> IF n = 0 THEN 0 ELSE f[n - 1] + Adds(n)]
           Given(f) == f = [n \in 0..l |->
                              IF n = 0 THEN 0
                              ELSE f[n - 1] + IF ~Parenthesis(n) THEN 0
                                              ELSE IF tokens[n].subtype = "(" THEN 1 ELSE -1]
<1>1. l \in Nat
  OBVIOUS
<1>2. \A n \in 0..l : n # 0 => d[n] = Adds(n)
  OBVIOUS
<1>3. \E f : Solves(f)
  <2>1. PICK f : f = [k \in 0..l |-> IF k = 0 THEN 0 ELSE f[k - 1] + d[k]]
    <3> HIDE DEF l, d
    <3> QED BY <1>1, SumExists
  <2> HIDE DEF l, d
  <2>2. Solves(f)
    BY <1>2, <2>1
  <2> QED BY <2>2
<1>4. \A f : Given(f) <=> Solves(f)
  <2> HIDE DEF l
  <2> QED BY DEF Adds
<1>5. Given(Depth)
  <2>1. Depth = CHOOSE f : Given(f)
    BY DEF Depth
  <2>2. \E f : Given(f)
    <3> HIDE DEF Given, Solves
    <3> QED BY <1>3, <1>4
  <2> HIDE DEF Given
  <2> QED BY <2>1, <2>2
<1>6. Solves(Depth)
  <2> HIDE DEF Given, Solves
  <2> QED BY <1>4, <1>5
<1>7. Depth[0] = 0 /\ \A n \in 1..l : Depth[n] = Depth[n - 1] + Adds(n)
  <2> HIDE DEF l
  <2> QED BY <1>1, <1>6
<1> QED BY <1>7

(* Every token lies within the text, and behind all those before it. *)
LEMMA TokenPlaces ==
    ASSUME IInv, Written
    PROVE  /\ text \in Seq(Symbols) /\ tokens \in Seq(TokenSet)
           /\ \A n \in 1..Len(tokens) :
                 /\ tokens[n].start \in Nat /\ tokens[n].end \in Nat
                 /\ 1 <= tokens[n].start /\ tokens[n].start <= tokens[n].end
                 /\ tokens[n].end <= Len(text) + 1
           /\ \A m \in 1..Len(tokens) : \A n \in (m + 1)..Len(tokens) : tokens[m].end <= tokens[n].start
<1>1. /\ Placed /\ tokens \in Seq(TokenSet) /\ text \in Seq(Symbols) /\ end \in 1..Eof
      /\ \A n \in DOMAIN tokens : tokens[n].start <= tokens[n].end /\ tokens[n].end <= end
      /\ \A n \in DOMAIN tokens : tokens[n].start >= 1
      /\ \A n \in 1..(Len(tokens) - 1) : tokens[n].end <= tokens[n + 1].start
  BY DEF IInv, TypeInv, Placed, SkippedInv, OrderInv
<1>2. Eof = Len(text) + 1 /\ Len(text) \in Nat /\ Len(tokens) \in Nat /\ DOMAIN tokens = 1..Len(tokens)
  BY <1>1, EofFacts
<1>3. ASSUME NEW n \in 1..Len(tokens)
      PROVE  /\ tokens[n].start \in Nat /\ tokens[n].end \in Nat
             /\ 1 <= tokens[n].start /\ tokens[n].start <= tokens[n].end
             /\ tokens[n].end <= Len(text) + 1
  <2>1. tokens[n].start \in Nat /\ tokens[n].end \in Nat
    <3>1. tokens[n] \in TokenSet
      BY <1>1
    <3> QED BY <3>1 DEF TokenSet
  <2>2. tokens[n].start <= tokens[n].end /\ tokens[n].end <= end /\ tokens[n].start >= 1
    BY <1>1, <1>2
  <2> DEFINE a == tokens[n].start
             b == tokens[n].end
  <2>3. a \in Nat /\ b \in Nat /\ a <= b /\ b <= end /\ a >= 1 /\ end <= Len(text) + 1 /\ end \in Nat
    BY <1>1, <1>2, <2>1, <2>2
  <2> HIDE DEF a, b
  <2>4. 1 <= a /\ b <= Len(text) + 1
    BY <1>2, <2>3
  <2> QED BY <2>3, <2>4 DEF a, b
<1>4. ASSUME NEW m \in 1..Len(tokens)
      PROVE  \A n \in (m + 1)..Len(tokens) : tokens[m].end <= tokens[n].start
  <2> DEFINE Bad == {n \in (m + 1)..Len(tokens) : ~(tokens[m].end <= tokens[n].start)}
  <2> SUFFICES ASSUME Bad # {} PROVE FALSE
    OBVIOUS
  <2>1. PICK n \in Bad : \A k \in Bad : n <= k
    <3>1. Bad \in SUBSET Nat
      BY <1>2
    <3> HIDE DEF Bad
    <3> QED BY <3>1, LeastNat
  <2>2. n \in (m + 1)..Len(tokens) /\ ~(tokens[m].end <= tokens[n].start)
    BY <2>1
  <2>3. /\ n - 1 \in 1..(Len(tokens) - 1) /\ n - 1 \in 1..Len(tokens) /\ (n - 1) + 1 = n
        /\ n \in 1..Len(tokens) /\ ~(n <= n - 1) /\ (n - 1 = m \/ n - 1 \in (m + 1)..Len(tokens))
    BY <1>2, <2>2
  <2>4. tokens[n - 1].end <= tokens[n].start
    BY <1>1, <2>3
  <2> DEFINE a == tokens[m].end
             b == tokens[n - 1].start
             c == tokens[n - 1].end
             s == tokens[n].start
  <2>5. a \in Nat /\ b \in Nat /\ c \in Nat /\ s \in Nat /\ b <= c /\ c <= s /\ ~(a <= s)
    BY <1>3, <2>2, <2>3, <2>4
  <2>6. a = c \/ a <= b
    <3>1. CASE n - 1 = m
      BY <3>1
    <3>2. CASE n - 1 \in (m + 1)..Len(tokens)
      <4>1. n - 1 \notin Bad
        BY <1>2, <2>1, <2>2
      <4> QED BY <3>2, <4>1
    <3> QED BY <2>3, <3>1, <3>2
  <2> HIDE DEF a, b, c, s
  <2> QED BY <2>5, <2>6
<1> QED BY <1>1, <1>3, <1>4

(* What is in no token counts for nothing. *)
LEMMA OutsideWeight ==
    ASSUME IInv, Settled, NEW p \in 1..Len(text), ~Inside(p)
    PROVE  Weight(p, scanned) = 0
<1>1. text \in Seq(Symbols) /\ DOMAIN text = 1..Len(text) /\ p \in Int
  BY EofFacts DEF IInv, TypeInv, Placed
<1>2. CASE ~Graph(p)
  <2>1. ~Paren(p)
    BY <1>1, <1>2, AtFacts, SpecialKinds DEF Paren
  <2> QED BY <2>1, WeightFacts
<1>3. CASE p \in skipped
  <2>1. p \in scanned
    BY <1>3 DEF Settled
  <2> QED BY <2>1, WeightFacts
<1>4. CASE Graph(p) /\ p \notin skipped
  <2>1. Mark(p)
    BY <1>1, <1>4 DEF IInv, CoverInv, Settled
  <2>2. ~Paren(p)
    BY <2>1, SymbolFacts, SpecialKinds DEF Mark, Paren
  <2> QED BY <2>2, WeightFacts
<1> QED BY <1>2, <1>3, <1>4

(* What stands between a token and the one before it, or behind the last,    *)
(* is in none.                                                               *)
LEMMA BetweenTokens ==
    ASSUME IInv, Written, NEW n \in 0..Len(tokens), NEW p \in (Reach(n) + 1)..Len(text),
           n < Len(tokens) => p < tokens[n + 1].start
    PROVE  ~Inside(p)
<1>1. Len(tokens) \in Nat /\ DOMAIN tokens = 1..Len(tokens) /\ p \in Int /\ Len(text) \in Nat
  BY TokenPlaces
<1> SUFFICES ASSUME NEW m \in 1..Len(tokens), tokens[m].start <= p, p < tokens[m].end
             PROVE  FALSE
  BY <1>1 DEF Inside
<1> DEFINE a == tokens[m].start
           b == tokens[m].end
<1>2. a \in Nat /\ b \in Nat /\ a <= p /\ p < b /\ a <= b
  BY TokenPlaces
<1>3. CASE m <= n
  <2> DEFINE c == tokens[n].start
             e == tokens[n].end
  <2>1. n \in 1..Len(tokens) /\ n # 0 /\ (m = n \/ n \in (m + 1)..Len(tokens))
    BY <1>1, <1>3
  <2>2. c \in Nat /\ e \in Nat /\ c <= e /\ Reach(n) = e - 1
    BY <2>1, TokenPlaces DEF Reach
  <2>3. b = e \/ b <= c
    BY <2>1, TokenPlaces
  <2> HIDE DEF a, b, c, e
  <2>4. e <= p
    BY <2>2
  <2> QED BY <1>1, <1>2, <2>2, <2>3, <2>4
<1>4. CASE ~(m <= n)
  <2> DEFINE c == tokens[n + 1].start
             e == tokens[n + 1].end
  <2>1. n + 1 \in 1..Len(tokens) /\ n < Len(tokens) /\ (m = n + 1 \/ m \in ((n + 1) + 1)..Len(tokens))
    BY <1>1, <1>4
  <2>2. c \in Nat /\ e \in Nat /\ c <= e /\ p < c
    BY <2>1, TokenPlaces
  <2>3. a = c \/ e <= a
    BY <2>1, TokenPlaces
  <2> HIDE DEF a, b, c, e
  <2> QED BY <1>1, <1>2, <2>2, <2>3
<1> QED BY <1>3, <1>4

LEMMA ReachFacts ==
    ASSUME IInv, Written
    PROVE  /\ Reach(0) = 0
           /\ \A n \in 0..Len(tokens) : Reach(n) \in 0..Len(text)
           /\ \A n \in 1..Len(tokens) : Reach(n - 1) < tokens[n].start
<1>1. Len(tokens) \in Nat /\ Len(text) \in Nat /\ Reach(0) = 0
  BY TokenPlaces DEF Reach
<1>2. ASSUME NEW n \in 1..Len(tokens) PROVE Reach(n) \in 0..Len(text) /\ Reach(n) = tokens[n].end - 1
  <2> DEFINE e == tokens[n].end
             s == tokens[n].start
  <2>1. e \in Nat /\ s \in Nat /\ 1 <= s /\ s <= e /\ e <= Len(text) + 1 /\ n # 0
    BY TokenPlaces
  <2>2. Reach(n) = e - 1
    BY <2>1 DEF Reach
  <2> HIDE DEF e, s
  <2>3. Reach(n) \in 0..Len(text)
    BY <1>1, <2>1, <2>2
  <2> QED BY <2>2, <2>3 DEF e
<1>3. ASSUME NEW n \in 1..Len(tokens) PROVE Reach(n - 1) < tokens[n].start
  <2> DEFINE s == tokens[n].start
  <2>1. s \in Nat /\ 1 <= s
    BY TokenPlaces
  <2>2. CASE n = 1
    <3>1. Reach(n - 1) = 0
      BY <2>2 DEF Reach
    <3> HIDE DEF s
    <3>2. Reach(n - 1) < s
      BY <2>1, <3>1
    <3> QED BY <3>2 DEF s
  <2>3. CASE n # 1
    <3>1. n - 1 \in 1..Len(tokens) /\ n \in ((n - 1) + 1)..Len(tokens)
      BY <1>1, <2>3
    <3> DEFINE e == tokens[n - 1].end
    <3>2. e <= s /\ e \in Nat /\ Reach(n - 1) = e - 1
      BY <1>2, <3>1, TokenPlaces
    <3> HIDE DEF s, e
    <3>3. Reach(n - 1) < s
      BY <2>1, <3>2
    <3> QED BY <3>3 DEF s
  <2> QED BY <2>2, <2>3
<1>4. \A n \in 0..Len(tokens) : n = 0 \/ n \in 1..Len(tokens)
  BY <1>1
<1>5. 0 \in 0..Len(text)
  BY <1>1
<1> QED BY <1>1, <1>2, <1>3, <1>4, <1>5

(* A token adds what the text it holds does. *)
LEMMA TokenAdds ==
    ASSUME IInv, Settled, NEW n \in 1..Len(tokens)
    PROVE  Level(scanned)[Reach(n)] = Level(scanned)[Reach(n - 1)] + Adds(n)
<1> DEFINE w == Level(scanned)
           t == tokens[n]
           s == tokens[n].start
           e == tokens[n].end
           r == Reach(n - 1)
           l == Len(text)
<1>1. /\ text \in Seq(Symbols) /\ t \in TokenSet /\ l \in Nat /\ n \in DOMAIN tokens
      /\ s \in Nat /\ e \in Nat /\ 1 <= s /\ s <= e /\ e <= l + 1
  BY TokenPlaces DEF Settled
<1>2. Reach(n) = e - 1 /\ r \in 0..l /\ r < s
  <2>1. n - 1 \in 0..Len(tokens) /\ n # 0
    OBVIOUS
  <2> QED BY <2>1, ReachFacts DEF Settled, Reach
<1>3. /\ s - 1 \in 0..l /\ e - 1 \in 0..l /\ s - 1 \in r..(s - 1) /\ e - 1 \in (s - 1)..(e - 1)
      /\ r \in 0..l /\ (s - 1) + 1 = s
  <2> HIDE DEF s, e, r, l
  <2> QED BY <1>1, <1>2
<1>4. ASSUME NEW p \in (r + 1)..(s - 1) PROVE Weight(p, scanned) = 0
  <2>1. p \in (r + 1)..l /\ p \in 1..l /\ p < s
    <3> HIDE DEF s, e, r, l
    <3> QED BY <1>1, <1>2
  <2>2. n - 1 \in 0..Len(tokens) /\ (n - 1) + 1 = n
    OBVIOUS
  <2>3. ~Inside(p)
    BY <2>1, <2>2, BetweenTokens DEF Settled
  <2> QED BY <2>1, <2>3, OutsideWeight
<1>5. w[s - 1] = w[r]
  <2>1. \A q \in r..(s - 1) : w[q] = w[r]
    <3> HIDE DEF s, e, r, l
    <3> QED BY <1>1, <1>3, <1>4, LevelFlat DEF l
  <2> QED BY <1>3, <2>1
<1>6. w[r] \in Int /\ w[s - 1] \in Int
  BY <1>1, <1>3, LevelFacts
<1>7. CASE t.type \in {"LR", "Q", "LIT"}
  <2>1. \A p \in s..(e - 1) : Weight(p, scanned) = 0
    <3>1. \A p \in s..(e - 1) : ~Paren(p)
      BY <1>1, <1>7 DEF Settled, NoParenthesisElsewhere, Paren
    <3> QED BY <3>1, WeightFacts
  <2>2. \A q \in (s - 1)..(e - 1) : w[q] = w[s - 1]
    <3>1. \A p \in ((s - 1) + 1)..(e - 1) : Weight(p, scanned) = 0
      BY <1>3, <2>1
    <3> DEFINE a == s - 1
               b == e - 1
    <3>2. a \in 0..Len(text) /\ b \in 0..Len(text) /\ \A p \in (a + 1)..b : Weight(p, scanned) = 0
      BY <1>3, <3>1
    <3>3. \A q \in a..b : w[q] = w[a]
      <4> HIDE DEF a, b, s, e, r, l
      <4> QED BY <1>1, <3>2, LevelFlat
    <3> QED BY <3>3
  <2>3. w[e - 1] = w[s - 1]
    BY <1>3, <2>2
  <2>4. Adds(n) = 0
    BY <1>7 DEF Adds, Parenthesis
  <2> HIDE DEF w
  <2>5. w[Reach(n)] = w[r]
    BY <1>2, <1>5, <2>3
  <2>6. w[r] = w[r] + 0
    BY <1>6
  <2> QED BY <2>4, <2>5, <2>6 DEF w
<1>8. CASE t.type \notin {"LR", "Q", "LIT"} /\ Underscoring(t) /\ e = s
  <2>1. At(s) \in Words /\ t.subtype = First(At(s))
    BY <1>1, <1>8, SymbolFacts DEF IInv, SignsInv, Settled, Signed, Alone, Underscoring, Written
  <2>2. Adds(n) = 0
    BY <2>1, FirstFacts DEF Adds, Parenthesis
  <2>3. Reach(n) = s - 1
    BY <1>2, <1>8
  <2> HIDE DEF w
  <2>4. w[Reach(n)] = w[r] + Adds(n)
    BY <1>5, <1>6, <2>2, <2>3
  <2> QED BY <2>4 DEF w
<1>9. CASE t.type \notin {"LR", "Q", "LIT"} /\ ~(Underscoring(t) /\ e = s)
  <2>0. /\ e = s + 1
        /\ t.type \in {"LSPE", "RSPE"} => t.subtype = First(At(s))
        /\ t.type \notin {"LSPE", "RSPE"} => ~Paren(s)
    BY <1>1, <1>9 DEF IInv, SignsInv, Settled, Signed, Alone, Written
  <2>1. /\ e = s + 1
        /\ t.type \in {"LSPE", "RSPE"} => (t.subtype \in {"(", ")"} \/ Paren(s) => t.subtype = At(s))
        /\ t.type \notin {"LSPE", "RSPE"} => ~Paren(s)
    <3>1. t.subtype = First(At(s)) /\ (t.subtype \in {"(", ")"} \/ Paren(s)) => t.subtype = At(s)
      BY FirstFacts, SymbolFacts, SpecialKinds DEF First, Paren
    <3> QED BY <2>0, <3>1
  <2>2. s \notin scanned
    <3>1. s <= s /\ s < e
      <4> HIDE DEF s, e
      <4> QED BY <1>1, <2>1
    <3> QED BY <1>1, <3>1 DEF IInv, SkippedInv, Settled
  <2>3. Weight(s, scanned) = Adds(n)
    <3>1. CASE t.type \in {"LSPE", "RSPE"}
      BY <2>1, <2>2, <3>1 DEF Weight, Adds, Parenthesis, Paren
    <3>2. CASE t.type \notin {"LSPE", "RSPE"}
      <4>1. Weight(s, scanned) = 0
        BY <2>1, <3>2, WeightFacts
      <4> QED BY <3>2, <4>1 DEF Adds, Parenthesis
    <3> QED BY <3>1, <3>2
  <2>4. s \in 1..l /\ Reach(n) = s
    <3> HIDE DEF s, e, l
    <3> QED BY <1>1, <1>2, <2>1
  <2>5. w[s] = w[s - 1] + Weight(s, scanned)
    BY <1>1, <2>4, LevelFacts
  <2> HIDE DEF w
  <2>6. w[Reach(n)] = w[r] + Adds(n)
    BY <1>5, <2>3, <2>4, <2>5
  <2> QED BY <2>6 DEF w
<1> QED BY <1>7, <1>8, <1>9

LEMMA Balanced ==
    ASSUME IInv, DepthInv, Settled
    PROVE  Depth[Len(tokens)] = 0 /\ \A n \in DOMAIN tokens : Depth[n] >= 0
<1> DEFINE w == Level(scanned)
           k == Len(tokens)
<1>1. text \in Seq(Symbols) /\ tokens \in Seq(TokenSet) /\ Len(text) \in Nat
  BY TokenPlaces DEF Settled
<1>2. k \in Nat /\ DOMAIN tokens = 1..k
  BY <1>1
<1>3. w[Len(text)] = 0 /\ \A n \in 0..Len(text) : w[n] >= 0
  <2>1. PlainLiterals
    BY DEF Settled, NoParenthesisElsewhere, PlainLiterals, Paren
  <2> QED BY <2>1 DEF DepthInv, Settled
<1>4. Reach(0) = 0 /\ \A n \in 0..k : Reach(n) \in 0..Len(text)
  BY ReachFacts DEF Settled
<1>5. w[0] = 0
  BY <1>1, LevelFacts
<1>6. \A n \in 0..k : Depth[n] = w[Reach(n)]
  <2> DEFINE Bad == {n \in 0..k : Depth[n] # w[Reach(n)]}
  <2> SUFFICES ASSUME Bad # {} PROVE FALSE
    OBVIOUS
  <2>1. PICK n \in Bad : \A m \in Bad : n <= m
    <3>1. Bad \in SUBSET Nat
      BY <1>2
    <3> HIDE DEF Bad
    <3> QED BY <3>1, LeastNat
  <2> HIDE DEF k
  <2>2. n \in 0..k /\ Depth[n] # w[Reach(n)]
    BY <2>1
  <2>3. n # 0
    BY <1>1, <1>4, <1>5, <2>2, DepthFacts
  <2>4. n \in 1..k /\ n - 1 \in 0..k /\ ~(n <= n - 1)
    BY <1>2, <2>2, <2>3
  <2>5. Depth[n - 1] = w[Reach(n - 1)]
    BY <2>1, <2>4
  <2>6. Depth[n] = Depth[n - 1] + Adds(n)
    BY <1>1, <2>4, DepthFacts DEF k
  <2>7. w[Reach(n)] = w[Reach(n - 1)] + Adds(n)
    BY <2>4, TokenAdds DEF k
  <2> HIDE DEF w
  <2> QED BY <2>2, <2>5, <2>6, <2>7
<1>7. w[Reach(k)] = 0
  <2> DEFINE r == Reach(k)
  <2>1. k \in 0..k /\ r \in 0..Len(text) /\ Len(text) \in r..Len(text) /\ Len(text) \in 0..Len(text)
    <3>1. k \in 0..k
      BY <1>2
    <3>2. r \in 0..Len(text)
      BY <1>4, <3>1
    <3> HIDE DEF r, k
    <3> QED BY <1>1, <3>1, <3>2
  <2>2. ASSUME NEW p \in (r + 1)..Len(text) PROVE Weight(p, scanned) = 0
    <3>1. ~Inside(p)
      BY <1>2, <2>1, BetweenTokens DEF Settled
    <3>2. p \in 1..Len(text)
      <4> HIDE DEF r
      <4> QED BY <1>1, <2>1
    <3> QED BY <3>1, <3>2, OutsideWeight
  <2>3. \A q \in r..Len(text) : w[q] = w[r]
    <3> HIDE DEF r
    <3> QED BY <1>1, <2>1, <2>2, LevelFlat
  <2> HIDE DEF w
  <2> QED BY <1>3, <2>1, <2>3
<1>8. \A n \in 1..k : n \in 0..k
  BY <1>2
<1>9. k \in 0..k
  BY <1>2
<1> HIDE DEF w
<1> QED BY <1>2, <1>3, <1>4, <1>6, <1>7, <1>8, <1>9

(* The parentheses that lexer_scan_errors has found balanced are those that  *)
(* create_lexer makes tokens of: none is lost by a handler that looks ahead, *)
(* made twice, or given up again with what `then` absorbs.  The parser gets  *)
(* balanced tokens from every text of whose comments the passes agree and    *)
(* that has no parenthesis in a literal, as a qualifier or the left of a     *)
(* colon.                                                                    *)
THEOREM ClosesWhatItOpens == Spec => []ParenthesesBalanced
<1>1. IInv /\ DepthInv => ParenthesesBalanced
  <2> SUFFICES ASSUME IInv, DepthInv, Settled
               PROVE  Depth[Len(tokens)] = 0 /\ \A n \in DOMAIN tokens : Depth[n] >= 0
    BY DEF ParenthesesBalanced, Settled
  <2> QED BY Balanced
<1> QED BY <1>1, Invariant, DepthInvariant, PTL
=============================================================================

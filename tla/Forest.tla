------------------------------- MODULE Forest -------------------------------
(***************************************************************************)
(* The shape of a forest as create_parser returns it and create_tac takes  *)
(* it for granted: nodes in postorder, where the nodes of a scope and of   *)
(* what it initializes stand side by side.  Parser checks that what it     *)
(* accepts has this shape, and the theorems about Quadruples start from    *)
(* it.                                                                     *)
(***************************************************************************)
EXTENDS Integers, Sequences, FiniteSets

HasType(nodes, n, type) == n \in DOMAIN nodes /\ nodes[n].type = type

(* The types of the nodes that the parser writes. *)
ForestTypes ==
    {"Q", "MOD", "ID", "KEY", "LIT", "ADD", "MUL", "ASSIGN", "CALLEE", "LPAR", "EXP",
     "GRP_Q", "GRP_MOD", "GRP_R_PARES", "PARAM", "TYPE_VAR", "TYPE_PAL", "TYPE_PAL_VOID",
     "DECL_VAR", "DECL_LAB", "DECL_PAL", "INIT_VAR", "INIT_LAB", "INIT_PAL", "SCOPE", "SCOPE_END"}

IsForest(nodes) == nodes \in Seq([type : ForestTypes, arity : Nat, token : Nat])

Childless == {"PARAM", "SCOPE_END"}
Parents == {"ADD", "MUL", "ASSIGN", "EXP", "SCOPE", "INIT_LAB", "INIT_PAL", "DECL_LAB", "DECL_PAL"}

Arities(nodes) ==
    \A n \in DOMAIN nodes :
        /\ nodes[n].type \in Childless => nodes[n].arity = 0
        /\ nodes[n].type \in Parents => nodes[n].arity > 0

(* A scope ends right before it, an initialization follows the scope or the  *)
(* expression it holds, and its declaration follows it.                      *)
SideBySide(nodes) ==
    \A n \in DOMAIN nodes :
        /\ nodes[n].type = "SCOPE_END" => HasType(nodes, n + 1, "SCOPE")
        /\ nodes[n].type = "SCOPE" => HasType(nodes, n - 1, "SCOPE_END")
        /\ nodes[n].type = "INIT_LAB" =>
              HasType(nodes, n - 1, "SCOPE") /\ HasType(nodes, n + 1, "DECL_LAB")
        /\ nodes[n].type = "INIT_PAL" =>
              HasType(nodes, n - 1, "SCOPE") /\ HasType(nodes, n + 1, "DECL_PAL")
        /\ nodes[n].type = "INIT_VAR" =>
              HasType(nodes, n - 1, "EXP") /\ HasType(nodes, n + 1, "DECL_VAR")

(* The nodes a quadruple or an operand may be made of; a call makes two.     *)
Writers(nodes) ==
    {n \in DOMAIN nodes :
        \/ nodes[n].arity = 0
        \/ nodes[n].type \in {"CALLEE", "SCOPE", "DECL_LAB", "DECL_PAL"}}
Callees(nodes) == {n \in DOMAIN nodes : nodes[n].type = "CALLEE"}

(* The source has a character for each. *)
HasRoom(nodes, length) ==
    /\ length \in Nat
    /\ Cardinality(Writers(nodes)) + Cardinality(Callees(nodes)) <= length

WellShaped(nodes, length) ==
    IsForest(nodes) /\ Arities(nodes) /\ SideBySide(nodes) /\ HasRoom(nodes, length)

=============================================================================

----------------------------- MODULE Quadruples -----------------------------
(***************************************************************************)
(* The three-address code of src/src/tac: create_tac walks the forest of   *)
(* the parser from left to right, keeps the names that are visible in a    *)
(* symbol table (tac_stab.c) and writes the quadruples (tac_quadruple.c),  *)
(* those of an expression from its postorder nodes with a stack of         *)
(* operands (tac_expression.c).                                            *)
(*                                                                         *)
(* One action visits one node.  Nodes are 1..Len(nodes) as in the code,    *)
(* whose null node 0 and sentinel are left out, and so are the null entry  *)
(* of the symbol table, which matches no name, and the null quadruples.    *)
(***************************************************************************)
EXTENDS Forest

CONSTANT Forests    \* what the parser may return: [tokens, nodes, length]

VARIABLES
    tokens,         \* lexer->tokens
    nodes,          \* parser->nodes
    length,         \* lexer->source->length
    pc,             \* the loop being run, or the outcome
    start_subtree,  \* the first node of the subtree each node is the root of
    stack,          \* stack_index: roots of the subtrees to visit
    entries,        \* stab.stack_entry: nodes of the visible declarations
    watermarks,     \* stab.stack_watermark
    quads,          \* quadlist
    offset_entry,   \* the node the program starts at, or 0
    count_param,    \* parameters of the PAL being visited
    prototype,      \* the nodes of the last PAL without a body
    i, end, dst,    \* node, root and destination of the expression being read
    operands,       \* stack_buffer
    dropped         \* some push found its stack full

vars == <<tokens, nodes, length, pc, start_subtree, stack, entries, watermarks, quads,
          offset_entry, count_param, prototype, i, end, dst, operands, dropped>>
input == <<tokens, nodes, length>>
expression == <<i, end, dst, operands>>

Outcomes == {"done", "rejected", "aborted", "undefined"}
Phases == {"measure", "visit", "expression"} \cup Outcomes

(* A definition whose name starts with Mut is no part of the model: it is   *)
(* the definition it precedes as a plausible mistake would write it.         *)

-----------------------------------------------------------------------------
(* Stacks, items and quadruples.                                             *)

Top(s) == s[Len(s)]
Rest(s) == SubSeq(s, 1, Len(s) - 1)
Last(s, n) == SubSeq(s, Len(s) - n + 1, Len(s))

(* memory_stack_push for each of xs: a full stack drops the rest, and no     *)
(* caller looks.                                                             *)
Full(s, xs, capacity) == Len(s) + Len(xs) > capacity
Pushed(s, xs, capacity) == IF Full(s, xs, capacity) THEN SubSeq(s \o xs, 1, capacity) ELSE s \o xs

EntryRoom == Len(nodes) + 1
WatermarkRoom == Len(nodes) + 2

(* Quadruples are the only thing that is written. *)
Emit(qs) ==
    /\ quads' = Pushed(quads, qs, length)
    /\ dropped' = (dropped \/ Full(quads, qs, length))

Item(type, n) == [type |-> type, node |-> n]
NoItem == Item("NO", 0)
Quad(op, n, to, from1, from2) ==
    [op |-> op, node |-> n, dst |-> to, src1 |-> from1, src2 |-> from2]

TypeAt(n) == IF n \in DOMAIN nodes THEN nodes[n].type ELSE "NO"
Text(n) == tokens[nodes[n].token].text

(* tac_stab_lookup: the last declaration of the name, 0 if there is none.    *)
Lookup(n) ==
    LET found == {e \in DOMAIN entries : Text(entries[e]) = Text(n)}
    IN  IF found = {} THEN 0
        ELSE entries[CHOOSE e \in found : \A e2 \in found : e2 <= e]

Named(n) == TypeAt(n) \in {"KEY", "ID"}

(* get_operand; its assertions are in Unexpected. *)
Operand(n) ==
    IF TypeAt(n) = "LIT" THEN Item("LIT", n)
    ELSE IF Named(n) THEN Item("KEY", Lookup(n))
    ELSE Item("TEMP", n)

-----------------------------------------------------------------------------

(* Up to `count` subtrees side by side, from the one that ends at `last`     *)
(* to the left, until one starts at the first node of all.                   *)
Before(n) == IF n = 0 THEN 0 ELSE start_subtree[n] - 1
Siblings(last, count) ==
    LET root[c \in 1..count] == IF c = 1 THEN last ELSE Before(root[c - 1])
    IN  [c \in {d \in 1..count : root[d] > 0} |-> root[c]]

Start ==
    /\ pc = "measure"
    /\ start_subtree = <<>>
    /\ stack = <<>>
    /\ entries = <<>>
    /\ watermarks = <<>>
    /\ quads = <<>>
    /\ offset_entry = 0
    /\ count_param = 0
    /\ prototype = {}
    /\ i = 0 /\ end = 0 /\ dst = 0
    /\ operands = <<>>
    /\ dropped = FALSE

Init ==
    /\ \E f \in Forests : tokens = f.tokens /\ nodes = f.nodes /\ length = f.length
    /\ Start

Measuring == pc = "measure" /\ Len(start_subtree) < Len(nodes)
Children == nodes[Len(start_subtree) + 1].arity

(* The next node of the forest: as many of the subtrees before it as it has  *)
(* children are its own, and the one at the very left starts where it does.  *)
MeasureSubtree ==
    /\ Measuring
    /\ Children <= Len(stack)
    /\ LET n == Len(start_subtree) + 1
           first == IF Children = 0 THEN n ELSE Last(stack, Children)[1]
       IN  /\ start_subtree' = Append(start_subtree, first)
           /\ stack' = Append(SubSeq(stack, 1, Len(stack) - Children), first)
    /\ UNCHANGED <<input, pc, entries, watermarks, quads, offset_entry, count_param,
                   prototype, expression, dropped>>

(* The scope of the whole program, and its instructions to visit. *)
StartVisit ==
    /\ pc = "measure"
    /\ nodes # <<>>
    /\ Len(start_subtree) = Len(nodes)
    /\ stack' = Siblings(Len(nodes), Len(nodes))
    /\ watermarks' = <<0>>
    /\ pc' = "visit"
    /\ UNCHANGED <<input, start_subtree, entries, quads, offset_entry, count_param, prototype,
                   expression, dropped>>

-----------------------------------------------------------------------------
(* Visiting a node.                                                          *)

Node == Top(stack)
FirstNode == start_subtree[Node]
Visiting(type) == pc = "visit" /\ stack # <<>> /\ TypeAt(Node) = type
(* A missing operand may have taken the ID of the declaration it is in. *)
Declaring(type) == Visiting(type) /\ TypeAt(FirstNode) = "ID"

MutLastChild == Node
LastChild == Node - 1

(* The children, so that the left one is visited next. *)
Descend ==
    /\ stack' = Rest(stack) \o Siblings(LastChild, nodes[Node].arity)
    /\ UNCHANGED <<input, pc, start_subtree, expression>>

(* tac_stab_push_entry; the scope pushed next restores to behind this entry. *)
DeclareName(scopes, qs) ==
    /\ entries' = Pushed(entries, <<FirstNode>>, EntryRoom)
    /\ watermarks' = Pushed(watermarks, scopes, WatermarkRoom)
    /\ quads' = Pushed(quads, qs, length)
    /\ dropped' = (\/ dropped
                   \/ Full(entries, <<FirstNode>>, EntryRoom)
                   \/ Full(watermarks, scopes, WatermarkRoom)
                   \/ Full(quads, qs, length))

Key(n) == Item("KEY", n)
ScopeQuad(op) == Quad(op, Node, NoItem, Key(FirstNode), NoItem)

MutScopeIsEntry == TypeAt(FirstNode - 1) = "GRP_Q" /\ TypeAt(FirstNode - 2) = "Q"

(* scope_is_entry: the qualifier right before the subtree is `entry`.        *)
ScopeIsEntry ==
    /\ TypeAt(FirstNode - 1) = "GRP_Q"
    /\ TypeAt(FirstNode - 2) = "Q"
    /\ Text(FirstNode - 2) = "entry"
EntryOffset == IF ScopeIsEntry THEN Node ELSE offset_entry

DeclareVariable ==
    /\ Declaring("DECL_VAR")
    /\ DeclareName(<<>>, <<>>)
    /\ Descend
    /\ UNCHANGED <<offset_entry, count_param, prototype>>

(* A label without a body is a place to jump to. *)
DeclareLabel ==
    /\ Declaring("DECL_LAB")
    /\ TypeAt(Node - 1) # "INIT_LAB"
    /\ DeclareName(<<>>, <<ScopeQuad("SCOPE")>>)
    /\ offset_entry' = EntryOffset
    /\ Descend
    /\ UNCHANGED <<count_param, prototype>>

(* The parameters of a PAL without a body are passed over. *)
DeclarePrototype ==
    /\ Declaring("DECL_PAL")
    /\ TypeAt(Node - 1) # "INIT_PAL"
    /\ DeclareName(<<>>, <<ScopeQuad("PAL")>>)
    /\ prototype' = FirstNode..(Node - 1)
    /\ Descend
    /\ UNCHANGED <<offset_entry, count_param>>

DeclareScope ==
    /\ \/ Declaring("DECL_LAB") /\ TypeAt(Node - 1) = "INIT_LAB"
       \/ Declaring("DECL_PAL") /\ TypeAt(Node - 1) = "INIT_PAL"
    /\ LET op == IF TypeAt(Node) = "DECL_LAB" THEN "SCOPE_START_LAB" ELSE "SCOPE_START_PAL"
       IN  DeclareName(<<Len(entries) + 1>>, <<ScopeQuad(op)>>)
    /\ offset_entry' = EntryOffset
    /\ count_param' = 0
    /\ Descend
    /\ UNCHANGED prototype

DeclareParameter ==
    /\ Visiting("PARAM")
    /\ Node \notin prototype
    /\ DeclareName(<<>>, <<Quad("PARAM", Node, Key(FirstNode), NoItem, Item("COUNT", count_param))>>)
    /\ count_param' = count_param + 1
    /\ Descend
    /\ UNCHANGED <<offset_entry, prototype>>

MutAnonymousScope == Visiting("SCOPE") /\ TypeAt(Node + 1) # "INIT_PAL"

(* The scope of a label or of a PAL was opened with its declaration. *)
AnonymousScope ==
    Visiting("SCOPE") /\ TypeAt(Node + 1) \notin {"INIT_LAB", "INIT_PAL"}

OpenScope ==
    /\ AnonymousScope
    /\ watermarks' = Pushed(watermarks, <<Len(entries)>>, WatermarkRoom)
    /\ quads' = Pushed(quads, <<Quad("SCOPE_START", Node, NoItem, NoItem, NoItem)>>, length)
    /\ dropped' = (dropped \/ Full(watermarks, <<0>>, WatermarkRoom) \/ Full(quads, <<0>>, length))
    /\ offset_entry' = EntryOffset
    /\ Descend
    /\ UNCHANGED <<entries, count_param, prototype>>

EndOp == CASE TypeAt(Node + 2) = "INIT_LAB" -> "SCOPE_END_LAB"
           [] TypeAt(Node + 2) = "INIT_PAL" -> "SCOPE_END_PAL"
           [] OTHER                         -> "SCOPE_END"

MutRestored == entries
Restored == SubSeq(entries, 1, Top(watermarks))

(* tac_stab_pop_scope: the names declared since the scope was opened go.     *)
CloseScope ==
    /\ Visiting("SCOPE_END")
    /\ watermarks # <<>>
    /\ entries' = Restored
    /\ watermarks' = Rest(watermarks)
    /\ Emit(<<Quad(EndOp, Node, NoItem, NoItem, NoItem)>>)
    /\ Descend
    /\ UNCHANGED <<offset_entry, count_param, prototype>>

Declarations == {"DECL_VAR", "DECL_LAB", "DECL_PAL"}

PassOver ==
    /\ pc = "visit" /\ stack # <<>>
    /\ TypeAt(Node) \notin {"SCOPE_END", "EXP"}
    /\ TypeAt(Node) \in Declarations => TypeAt(FirstNode) # "ID"
    /\ TypeAt(Node) = "PARAM" => Node \in prototype
    /\ ~AnonymousScope
    /\ Descend
    /\ UNCHANGED <<entries, watermarks, quads, offset_entry, count_param, prototype, dropped>>

-----------------------------------------------------------------------------
(* The quadruples of an expression: tac_create_expression.                   *)

StartExpression ==
    /\ Visiting("EXP")
    /\ pc' = "expression"
    /\ i' = FirstNode
    /\ end' = Node
    /\ dst' = IF TypeAt(Node + 1) = "INIT_VAR" THEN start_subtree[Node + 2] ELSE 0
    /\ stack' = Rest(stack)
    /\ UNCHANGED <<input, start_subtree, entries, watermarks, quads, offset_entry,
                   count_param, prototype, operands, dropped>>

Algebraic == {"ADD", "MUL", "ASSIGN"}

(* What node i needs of the operands: the arguments of a call, left and      *)
(* right of an operator; behind the last node, the value of a declaration.   *)
Needed ==
    IF i = end THEN IF dst = 0 THEN 0 ELSE 1
    ELSE CASE TypeAt(i) = "CALLEE"     -> nodes[i].arity
           [] TypeAt(i) \in Algebraic  -> 2
           [] OTHER                    -> 0
Taken == Last(operands, Needed)
Left == SubSeq(operands, 1, Len(operands) - Len(Taken))

(* The operands get_operand is called with, and those it finds. *)
Asked == {Taken[x] : x \in DOMAIN Taken} \cup (IF i = end /\ dst # 0 THEN {dst} ELSE {})
Found(n) ==
    IF Named(n) THEN Lookup(n) # 0 ELSE TypeAt(n) \in {"LIT", "ADD", "MUL", "CALLEE"}

Evaluating ==
    /\ pc = "expression"
    /\ Len(operands) >= Needed
    /\ \A n \in Asked : Found(n)
Reading == Evaluating /\ i < end

(* Node i is done, and n is the operand that stands for it. *)
Produce(n, qs) ==
    /\ operands' = Pushed(Left, <<n>>, length)
    /\ quads' = Pushed(quads, qs, length)
    /\ dropped' = (dropped \/ Full(Left, <<n>>, length) \/ Full(quads, qs, length))
    /\ i' = i + 1
    /\ UNCHANGED <<input, pc, start_subtree, stack, entries, watermarks, offset_entry,
                   count_param, prototype, end, dst>>

ReadLeaf ==
    /\ Reading
    /\ nodes[i].arity = 0 /\ TypeAt(i) # "CALLEE"
    /\ Produce(i, <<>>)

MutArgument(x) == Operand(Taken[Len(Taken) - x + 1])
Argument(x) == Operand(Taken[x])

MutArguments == [x \in 1..(Len(Taken) - 1) |-> Quad("ARG", i, NoItem, Argument(x), NoItem)]
Arguments == [x \in DOMAIN Taken |-> Quad("ARG", i, NoItem, Argument(x), NoItem)]

ReadCall ==
    /\ Reading
    /\ TypeAt(i) = "CALLEE"
    /\ Produce(i, Arguments \o
                  <<Quad("CALL", i, Item("TEMP", i), Item("PAL", i), Item("COUNT", nodes[i].arity))>>)

MutResult == i
(* The value of an assignment is whatever stands on its right. *)
Result == Taken[2]

ReadAssignment ==
    /\ Reading
    /\ TypeAt(i) = "ASSIGN"
    /\ Produce(Result, <<Quad("MOVE", i, Operand(Taken[1]), Operand(Taken[2]), NoItem)>>)

ReadOperator ==
    /\ Reading
    /\ TypeAt(i) \in {"ADD", "MUL"}
    /\ Produce(i, <<Quad(TypeAt(i), i, Item("TEMP", i), Operand(Taken[1]), Operand(Taken[2]))>>)

(* The value of a declaration is moved to it; that of an instruction stays   *)
(* on the stack of operands.                                                 *)
EndExpression ==
    /\ Evaluating
    /\ i = end
    /\ operands' = Left
    /\ Emit(IF dst = 0 THEN <<>>
            ELSE <<Quad("MOVE", dst, Operand(dst), Operand(Taken[1]), NoItem)>>)
    /\ pc' = "visit"
    /\ UNCHANGED <<input, start_subtree, stack, entries, watermarks, offset_entry,
                   count_param, prototype, i, end, dst>>

Stop(outcome) ==
    /\ pc' = outcome
    /\ UNCHANGED <<input, start_subtree, stack, entries, watermarks, quads, offset_entry,
                   count_param, prototype, expression, dropped>>

(* get_operand asserts that a name has an entry in the symbol table and that *)
(* anything else is a value; a node with children that is neither a call nor *)
(* an operator is another assertion.                                         *)
Unexpected ==
    /\ pc = "expression"
    /\ Len(operands) >= Needed
    /\ \/ i < end /\ nodes[i].arity > 0 /\ TypeAt(i) \notin {"CALLEE"} \cup Algebraic
       \/ \E n \in Asked : ~Found(n)
    /\ Stop("aborted")

(* The parser does not see that an operand is missing, as in `();` or `a+;`. *)
(* Then the children of a node are read below stack_index, or an operand     *)
(* below stack_buffer, unless an earlier instruction has left one there.     *)
MissingOperand ==
    /\ \/ Measuring /\ Children > Len(stack)
       \/ pc = "expression" /\ Needed > Len(operands)
    /\ Stop("undefined")

(* A declaration whose name went to an operand that is missing has opened no *)
(* scope, and its SCOPE_END closes another; tac_stab_pop_scope asserts that  *)
(* there is one, of which SCOPE_0 is the last.                               *)
NoScopeLeft ==
    /\ Visiting("SCOPE_END")
    /\ watermarks = <<>>
    /\ Stop("aborted")

-----------------------------------------------------------------------------

(* The last quadruple is null, for which the list is made longer. *)
Finish ==
    /\ pc = "visit"
    /\ stack = <<>>
    /\ Stop("done")

(* A source of semicolons has no nodes. *)
RejectEmpty ==
    /\ pc = "measure"
    /\ nodes = <<>>
    /\ Stop("rejected")

Returned == pc \in Outcomes /\ UNCHANGED vars

Next ==
    \/ MeasureSubtree \/ StartVisit \/ RejectEmpty
    \/ DeclareVariable \/ DeclareLabel \/ DeclarePrototype \/ DeclareScope \/ DeclareParameter
    \/ OpenScope \/ CloseScope \/ PassOver
    \/ StartExpression \/ ReadLeaf \/ ReadCall \/ ReadAssignment \/ ReadOperator
    \/ EndExpression \/ Unexpected \/ MissingOperand \/ NoScopeLeft
    \/ Finish
    \/ Returned

Spec == Init /\ [][Next]_vars

(* create_tac runs on one thread and never waits. *)
FairSpec == Spec /\ WF_vars(Next)

-----------------------------------------------------------------------------

(* The forest has the shape the parser gives it: an assumption.              *)
Parsed == WellShaped(nodes, length)

(* Every operand names a node the tables of the register allocator have a    *)
(* place for, and every node on a stack is one of the forest's.              *)
TypeOK ==
    /\ pc \in Phases
    /\ \A x \in DOMAIN stack : stack[x] \in DOMAIN nodes
    /\ \A x \in DOMAIN entries : TypeAt(entries[x]) \in {"ID", "PARAM"}
    /\ \A x \in DOMAIN operands : TypeAt(operands[x]) \notin {"ASSIGN", "EXP"}
    /\ \A p \in DOMAIN quads : \A item \in {quads[p].dst, quads[p].src1, quads[p].src2} :
          item.type \in {"KEY", "TEMP", "LIT"} => item.node \in DOMAIN nodes
    /\ offset_entry \in {0} \cup DOMAIN nodes

(* No quadruple, name, scope or operand is lost: the lists, sized by the     *)
(* characters of the source and the number of nodes, are long enough for     *)
(* whatever the walk adds, and memory_stack_push never returns the false     *)
(* that none of its callers looks at.                                        *)
NothingDropped == ~dropped

Opening == {"SCOPE_START", "SCOPE_START_LAB", "SCOPE_START_PAL"}
Closing == {"SCOPE_END", "SCOPE_END_LAB", "SCOPE_END_PAL"}

Depth ==
    LET upTo[p \in 0..Len(quads)] ==
            IF p = 0 THEN 0
            ELSE upTo[p - 1] + (IF quads[p].op \in Opening THEN 1 ELSE 0)
                             - (IF quads[p].op \in Closing THEN 1 ELSE 0)
    IN  upTo

(* Every declaration begins with its name: no operand is missing before it   *)
(* and none is left over, as in `@b:A = f() g();`.                           *)
Headed ==
    \A n \in DOMAIN start_subtree :
        TypeAt(n) \in Declarations => TypeAt(start_subtree[n]) = "ID"

(* The scopes of the symbol table are those of the quadruples: a frame for   *)
(* SCOPE_0 and one for each scope the quadruples have opened and not closed, *)
(* though a label's or a PAL's is opened at its declaration and closed at a  *)
(* node two levels deeper; no frame restores to names that are gone, and at  *)
(* the end every scope is closed.  It takes that the declarations are Headed.*)
ScopesNest ==
    pc \in {"visit", "expression", "done", "aborted"} /\ Headed =>
        LET depth == Depth IN
        /\ Len(watermarks) = depth[Len(quads)] + 1
        /\ \A p \in DOMAIN quads : depth[p] >= 0
        /\ \A x \in DOMAIN watermarks :
              /\ watermarks[x] <= Len(entries)
              /\ x > 1 => watermarks[x - 1] <= watermarks[x]
        /\ pc = "done" => Len(watermarks) = 1

Temporary(item) == item.type = "TEMP"

(* What the register allocator and the encoder rely on (Emitted of RegSlots, *)
(* Arity of X64Code): a temporary is the result of one operator or call and  *)
(* is read or moved to only after it, except that the value of a declaration *)
(* that is not Headed may be moved to an operand; the arguments of a call,   *)
(* as many as it counts, are the quadruples right before it.                 *)
FeedsAllocator ==
    LET Results(n) == {p \in DOMAIN quads : quads[p].op \in {"ADD", "MUL", "CALL"}
                                              /\ quads[p].dst = Item("TEMP", n)}
    IN  \A p \in DOMAIN quads :
          LET q == quads[p] IN
          /\ \A item \in {q.src1, q.src2} \cup (IF q.op = "MOVE" /\ Headed THEN {q.dst} ELSE {}) :
                Temporary(item) => \E r \in Results(item.node) : r < p
          /\ q.op \in {"ADD", "MUL", "CALL"} =>
                Temporary(q.dst) /\ Results(q.dst.node) = {p}
          /\ q.op \notin {"ADD", "MUL"} => q.src2.type \in {"NO", "COUNT"}
          /\ q.op = "PARAM" => q.dst.type = "KEY"
          /\ q.op = "ARG" =>
                p < Len(quads) /\ quads[p + 1].op \in {"ARG", "CALL"} /\ quads[p + 1].node = q.node
          /\ q.op = "CALL" =>
                q.src2.node =
                    Cardinality({a \in DOMAIN quads : quads[a].op = "ARG" /\ quads[a].node = q.node})

(* The assertion of get_operand: a name has an entry in the symbol table.    *)
NamesFound == pc = "aborted" => \A n \in Asked : Named(n) => Lookup(n) # 0

(* The assertion of tac_stab_pop_scope: a scope that ends is on the stack.   *)
ScopeToClose ==
    pc = "visit" /\ stack # <<>> /\ TypeAt(Top(stack)) = "SCOPE_END" => watermarks # <<>>

(* create_tac returns or aborts: every node is visited once.                 *)
Terminates == <>(pc \in Outcomes)

=============================================================================

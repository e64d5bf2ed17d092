------------------------------- MODULE Parser -------------------------------
(***************************************************************************)
(* The parser of src/src/parser: from the tokens of the lexer it writes    *)
(* the parse forest in postorder, each node with its number of children    *)
(* (create_parser and the handlers it calls).  Three stacks drive it: the  *)
(* open scopes, the operators of the instruction being read, and the       *)
(* operators of the expression being read (a shunting-yard).               *)
(*                                                                         *)
(* One action is one handler of create_parser's loop, or one iteration of  *)
(* the loop of a handler that has one.  tokens[0] and the null sentinel    *)
(* behind the tokens are left out, and so is the null node 0.              *)
(***************************************************************************)
EXTENDS Forest

CONSTANTS
    Texts,          \* what a token may spell
    ScopePrefixes,  \* the texts of a type that are `scope` or a prefix of it
    Sources,        \* the token lists the lexer may return
    Blanks,         \* characters of the source that no token needs
    StackSize       \* capacity of each of the three stacks

(* ADD stands for + and -, MUL for * and /, MOD for imod and omod; COM is   *)
(* the @ of a declaration, TYPE and TSCOPE are locks, TLPAR and TRPAR the   *)
(* parentheses on the right side of a colon, RSPE its other specials; OTHER *)
(* is any token no handler knows, NO is the null token.                      *)
Kinds == {"KEY", "LIT", "LPAR", "RPAR", "COMMA", "ADD", "MUL", "ASSIGN",
          "SEMI", "PERIOD", "SCOPE", "COM", "ID", "TYPE", "TSCOPE",
          "TLPAR", "TRPAR", "RSPE", "Q", "MOD", "OTHER", "NO"}
Token == [kind : Kinds, text : Texts]

(* The fewest characters a token takes in the source.  The colon of a       *)
(* declaration is counted with its ID, a bracket with its qualifier.         *)
Width == [x \in Kinds |-> CASE x \in {"TSCOPE", "SCOPE"} -> 5
                            [] x = "MOD"                 -> 4
                            [] x \in {"Q", "ID"}         -> 2
                            [] OTHER                     -> 1]

(* x and y side by side need a blank, a colon or another bracket.            *)
Apart(x, y) ==
    \/ {x, y} \subseteq {"KEY", "LIT", "TYPE", "TSCOPE", "SCOPE", "MOD"}
    \/ y = "Q" /\ x # "Q"

(* The colon of a parameter needs a blank on one side.                       *)
Parameterized(x, y) == x = "KEY" /\ y \in {"TYPE", "TSCOPE"}
Between(x, y) == (IF Apart(x, y) THEN 1 ELSE 0) + (IF Parameterized(x, y) THEN 1 ELSE 0)

(* The length of the shortest source with these tokens.  The lexer has       *)
(* asserted that the source has more characters than tokens.                 *)
ShortestSource(s) ==
    LET before(n) == IF n = 1 THEN "NO" ELSE s[n - 1].kind
        upTo[n \in 0..Len(s)] ==
            IF n = 0 THEN 0
            ELSE upTo[n - 1] + Width[s[n].kind] + Between(before(n), s[n].kind)
    IN  IF upTo[Len(s)] > Len(s) THEN upTo[Len(s)] ELSE Len(s) + 1

ASSUME ParserAssumption ==
    /\ ScopePrefixes \subseteq Texts
    /\ Sources \subseteq Seq(Token)
    /\ Blanks \in Nat
    /\ StackSize \in Nat /\ StackSize > 2

(* A definition whose name starts with Mut is no part of the model: it is   *)
(* the definition it precedes as a plausible mistake would write it.         *)

VARIABLES
    tokens,     \* lexer->tokens
    length,     \* lexer->source->length, the capacity of parser->nodes
    pc,         \* the loop being run, or the outcome
    i,          \* token position
    nodes,      \* parser->nodes; the code's j is Len(nodes) + 1
    contexts,   \* stack_context
    operators,  \* stack_operator
    buffer,     \* stack_buffer
    decl,       \* type_DECL of the declaration being read, or "NO"
    dropped     \* some push found its stack full

vars == <<tokens, length, pc, i, nodes, contexts, operators, buffer, decl, dropped>>
input == <<tokens, length>>

(* undefined: what lies behind the tokens has been read. *)
Outcomes == {"accepted", "rejected", "aborted", "undefined"}
Phases == {"instruction", "type", "typed", "parameter", "close", "init",
           "expression", "terminator"} \cup Outcomes

-----------------------------------------------------------------------------
(* The stacks.                                                               *)

Top(s) == s[Len(s)]
Rest(s) == SubSeq(s, 1, Len(s) - 1)

(* memory_stack_push: a full stack drops the item, and no caller looks. *)
Pushed(s, x) == IF Len(s) < StackSize THEN Append(s, x) ELSE s
Full(s) == Len(s) >= StackSize

(* A node, and an operator that waits on a stack to become one. *)
Node(type, arity, p) == [type |-> type, arity |-> arity, token |-> p]
Leaf(type, p) == Node(type, 0, p)

(* A node was written: the operator on top has n children more. *)
Counted(ops, n) == IF ops = <<>> THEN ops ELSE [ops EXCEPT ![Len(ops)].arity = @ + n]

Context(type, watermark, p) ==
    [type |-> type, watermark |-> watermark, children |-> 0, token |-> p]
Child(ctxs, n) == [ctxs EXCEPT ![Len(ctxs)].children = @ + n]

(* The token at p, the null token behind the last one.                       *)
At(p) == IF p \in DOMAIN tokens THEN tokens[p].kind ELSE "NO"

Exit(p) == At(p) \in {"NO", "SEMI"}
StartsExpression(p) == At(p) \in {"KEY", "LIT", "LPAR"}
Lock(p) == At(p) \in {"TYPE", "TSCOPE"}
Algebraic == {"ADD", "MUL", "ASSIGN"}
Callee(p) == At(p) = "KEY" /\ At(p + 1) = "LPAR"

MutWrite(ns, next) ==
    /\ nodes' = nodes \o ns
    /\ pc' = IF Len(nodes) + Len(ns) + 1 < length THEN next ELSE "aborted"

(* Write ns and go on with `next`; parser_create_leaf_raw and _operator_raw  *)
(* assert that there is room for a node.                                     *)
Write(ns, next) ==
    /\ nodes' = nodes \o ns
    /\ pc' = IF Len(nodes) + Len(ns) < length THEN next ELSE "aborted"

Begin ==
    /\ pc = "instruction"
    /\ i = 1
    /\ nodes = <<>>
    /\ contexts = <<Context("SCOPE_0", 0, 0)>>
    /\ operators = <<>>
    /\ buffer = <<>>
    /\ decl = "NO"
    /\ dropped = FALSE

Start == length = ShortestSource(tokens) + Blanks /\ Begin

Init == tokens \in Sources /\ Start

-----------------------------------------------------------------------------
(* Instructions.                                                             *)

Reading(phase) == pc = phase /\ (phase = "instruction" => i <= Len(tokens))

(* if_GRP_Q_create_operator: all the qualifiers in a row are one group. *)
GroupQualifiers ==
    /\ Reading("instruction")
    /\ \E last \in i..Len(tokens) :
        /\ \A p \in i..last : At(p) = "Q"
        /\ At(last + 1) # "Q"
        /\ LET ops == Counted(Pushed(operators, Node("GRP_Q", 0, i)), last - i + 1)
           IN  /\ Write([x \in 1..(last - i + 1) |-> Leaf("Q", i + x - 1)] \o <<Top(ops)>>,
                        "instruction")
               /\ operators' = Rest(ops)
        /\ i' = last + 1
    /\ contexts' = Child(contexts, 1)
    /\ dropped' = (dropped \/ Full(operators))
    /\ UNCHANGED <<input, buffer, decl>>

(* if_LSCOPE_create_context *)
OpenScope ==
    /\ Reading("instruction")
    /\ At(i) = "SCOPE"
    /\ contexts' = Pushed(contexts, Context("SCOPE", Len(operators), i))
    /\ dropped' = (dropped \/ Full(contexts))
    /\ i' = i + 1
    /\ UNCHANGED <<input, pc, nodes, operators, buffer, decl>>

(* if_EXP_create_operator as an instruction *)
StartExpression ==
    /\ Reading("instruction")
    /\ StartsExpression(i)
    /\ operators' = Pushed(operators, Node("EXP", 0, i))
    /\ dropped' = (dropped \/ Full(operators))
    /\ decl' = "NO"
    /\ pc' = "expression"
    /\ UNCHANGED <<input, i, nodes, contexts, buffer>>

(* if_MOD_create_operator *)
ImportModules ==
    /\ Reading("instruction")
    /\ At(i) = "MOD"
    /\ \E last \in i..Len(tokens) :
        /\ \A p \in (i + 1)..last : At(p) = "KEY"
        /\ At(last + 1) # "KEY"
        /\ operators' = Counted(Pushed(operators, Node("GRP_MOD", 0, i)), last - i)
        /\ Write([x \in 1..(last - i) |-> Leaf("MOD", i + x)], "terminator")
        /\ i' = last + 1
    /\ dropped' = (dropped \/ Full(operators))
    /\ UNCHANGED <<input, contexts, buffer, decl>>

(* The instruction is a label, a PAL if some right-hand parenthesis opens    *)
(* before the instruction ends, and a variable otherwise.                    *)
Declared ==
    IF At(i + 2) = "NO" \/ tokens[i + 2].text \in ScopePrefixes THEN "DECL_LAB"
    ELSE IF \E p \in (i + 2)..Len(tokens) :
                At(p) = "TLPAR" /\ \A p2 \in (i + 2)..p : ~Exit(p2)
         THEN "DECL_PAL"
         ELSE "DECL_VAR"

(* if_DECL_create_operator up to if_ID_create_leaf *)
Declare ==
    /\ Reading("instruction")
    /\ At(i) = "COM"
    /\ At(i + 1) = "ID"
    /\ decl' = Declared
    /\ operators' = Counted(Pushed(operators, Node(Declared, 0, i)), 1)
    /\ dropped' = (dropped \/ Full(operators))
    /\ Write(<<Leaf("ID", i + 1)>>, "type")
    /\ i' = i + 2
    /\ UNCHANGED <<input, contexts, buffer>>

(* if_TYPE_create_operator: the type of a variable or of a returned value. *)
TypeVar ==
    /\ Reading("type")
    /\ Lock(i)
    /\ operators' = Counted(operators, 1)
    /\ Write(<<Leaf("TYPE_VAR", i)>>, "typed")
    /\ i' = i + 1
    /\ UNCHANGED <<input, contexts, buffer, decl, dropped>>

(* No parameters follow; another special of the right side is taken for a    *)
(* type and not consumed.                                                    *)
EndType ==
    /\ \/ pc = "typed" /\ At(i) # "TLPAR"
       \/ pc = "type" /\ At(i) \in {"TRPAR", "RSPE"}
    /\ pc' = "init"
    /\ UNCHANGED <<input, i, nodes, contexts, operators, buffer, decl, dropped>>

(* The `(` of a PAL's parameters; without a returned type, or without a      *)
(* parameter, a void type stands for what is missing.                        *)
OpenParameters ==
    /\ pc \in {"type", "typed"}
    /\ At(i) = "TLPAR"
    /\ LET void == <<Leaf("TYPE_PAL_VOID", i)>>
           returned == IF pc = "type" THEN void ELSE <<>>
           empty == At(i + 1) = "TRPAR"
           group == Pushed(Counted(operators, Len(returned)), Node("GRP_R_PARES", 0, i))
       IN  /\ operators' = IF empty THEN Counted(group, 1) ELSE group
           /\ Write(returned \o IF empty THEN void ELSE <<>>,
                    IF empty THEN "close" ELSE "parameter")
    /\ dropped' = (dropped \/ Full(operators))
    /\ i' = i + 1
    /\ UNCHANGED <<input, contexts, buffer, decl>>

(* if_PARAM_create_leaf and its type; a comma may also end the list. *)
Parameter ==
    /\ Reading("parameter")
    /\ At(i) = "KEY"
    /\ Lock(i + 1)
    /\ At(i + 2) \in {"TRPAR", "COMMA"}
    /\ i' = IF At(i + 2) = "COMMA" THEN i + 3 ELSE i + 2
    /\ operators' = Counted(operators, 2)
    /\ Write(<<Leaf("PARAM", i), Leaf("TYPE_VAR", i + 1)>>,
             IF At(i') = "TRPAR" THEN "close" ELSE "parameter")
    /\ UNCHANGED <<input, contexts, buffer, decl, dropped>>

(* The start of the type: the position behind the last ID written. *)
TypeStart ==
    LET id == CHOOSE n \in DOMAIN nodes :
                 nodes[n].type = "ID" /\ \A n2 \in (n + 1)..Len(nodes) : nodes[n2].type # "ID"
    IN  nodes[id].token + 1

(* The `)`: the group and the returned type, two children of the            *)
(* declaration, become the one child TYPE_PAL.                               *)
CloseParameters ==
    /\ Reading("close")
    /\ operators' = Counted(Counted(Rest(operators), 1 - 2), 1)
    /\ Write(<<Top(operators), Node("TYPE_PAL", 2, TypeStart)>>, "init")
    /\ i' = i + 1
    /\ UNCHANGED <<input, contexts, buffer, decl, dropped>>

MutAfterDeclaration(ops) == "instruction"

(* if_DECL_create_operator returned true: a scope follows its INIT. *)
AfterDeclaration(ops) ==
    IF Top(ops).type \in {"INIT_LAB", "INIT_PAL"} THEN "instruction" ELSE "terminator"

MutInitialized == i + 1
Initialized == IF At(i) = "ASSIGN" THEN i + 1 ELSE i

(* if_INIT_create_operator for a variable with a value *)
InitializeVariable ==
    /\ Reading("init")
    /\ decl = "DECL_VAR"
    /\ StartsExpression(Initialized)
    /\ LET init == Pushed(operators, Node("INIT_VAR", 0, Initialized))
       IN  /\ operators' = Pushed(init, Node("EXP", 0, Initialized))
           /\ dropped' = (dropped \/ Full(init))
    /\ i' = Initialized
    /\ pc' = "expression"
    /\ UNCHANGED <<input, nodes, contexts, buffer, decl>>

(* A value that is no expression is left where it is. *)
InitializeNothing ==
    /\ Reading("init")
    /\ decl = "DECL_VAR"
    /\ ~StartsExpression(Initialized)
    /\ pc' = AfterDeclaration(operators)
    /\ UNCHANGED <<input, i, nodes, contexts, operators, buffer, decl, dropped>>

InitializeScope ==
    /\ Reading("init")
    /\ decl \in {"DECL_LAB", "DECL_PAL"}
    /\ LET init == IF decl = "DECL_LAB" THEN "INIT_LAB" ELSE "INIT_PAL"
           ops == Pushed(operators, Node(init, 0, Initialized))
       IN  IF At(Initialized) = "SCOPE"
           THEN /\ operators' = ops
                /\ dropped' = (dropped \/ Full(operators))
                /\ pc' = AfterDeclaration(ops)
           ELSE /\ pc' = AfterDeclaration(operators)
                /\ UNCHANGED <<operators, dropped>>
    /\ i' = Initialized
    /\ UNCHANGED <<input, nodes, contexts, buffer, decl>>

-----------------------------------------------------------------------------
(* Expressions: the loop of if_EXP_create_operator.                          *)

Precedence == [ADD |-> 1, MUL |-> 2, ASSIGN |-> 0, CALLEE |-> 0]

MutBinds(top, type) == top \in DOMAIN Precedence /\ Precedence[top] >= Precedence[type]

(* The operator on top of the buffer, no parenthesis, comes before the       *)
(* operator at hand.                                                         *)
Binds(top, type) ==
    /\ top \in DOMAIN Precedence
    /\ Precedence[top] >= Precedence[type]
    /\ type = "ASSIGN" => Precedence[top] # Precedence[type]

TopType == IF buffer = <<>> THEN "NO" ELSE Top(buffer).type

PushBuffer(x) ==
    /\ buffer' = Pushed(buffer, x)
    /\ dropped' = (dropped \/ Full(buffer))
    /\ i' = i + 1
    /\ UNCHANGED <<input, pc, nodes, contexts, operators, decl>>

(* The operator on top of the buffer is written as one of two operands. *)
PopBuffer ==
    /\ buffer' = Rest(buffer)
    /\ Write(<<Node(TopType, 2, Top(buffer).token)>>,
             IF At(i) = "RPAR" /\ Len(buffer) = 1 THEN "rejected" ELSE "expression")
    /\ UNCHANGED <<input, i, contexts, operators, decl, dropped>>

PushCallee ==
    /\ Reading("expression")
    /\ Callee(i)
    /\ PushBuffer(Node("CALLEE", 0, i))

Operand ==
    /\ Reading("expression")
    /\ At(i) \in {"KEY", "LIT"}
    /\ ~Callee(i)
    /\ Write(<<Leaf(At(i), i)>>, "expression")
    /\ i' = i + 1
    /\ UNCHANGED <<input, contexts, operators, buffer, decl, dropped>>

PopForOperator ==
    /\ Reading("expression")
    /\ At(i) \in Algebraic
    /\ Binds(TopType, At(i))
    /\ PopBuffer

PushOperator ==
    /\ Reading("expression")
    /\ At(i) \in Algebraic
    /\ ~Binds(TopType, At(i))
    /\ PushBuffer(Node(At(i), 0, i))

OpenParenthesis ==
    /\ Reading("expression")
    /\ At(i) = "LPAR"
    /\ PushBuffer(Node("LPAR", 0, i))

(* Up to the parenthesis that encloses the comma or that is closed.          *)
PopToParenthesis ==
    /\ Reading("expression")
    /\ At(i) \in {"COMMA", "RPAR"}
    /\ buffer # <<>>
    /\ TopType # "LPAR"
    /\ PopBuffer

(* Below the empty buffer lies the end of stack_operator's area, never the   *)
(* type of a parenthesis, and nothing is popped: a comma writes nodes until  *)
(* the assertion that there is room fails, a parenthesis writes one.         *)
RunBelowBuffer ==
    /\ Reading("expression")
    /\ At(i) \in {"COMMA", "RPAR"}
    /\ buffer = <<>>
    /\ pc' = IF At(i) = "COMMA" \/ Len(nodes) + 1 >= length THEN "aborted" ELSE "rejected"
    /\ UNCHANGED <<input, i, nodes, contexts, operators, buffer, decl, dropped>>

SeparateArguments ==
    /\ Reading("expression")
    /\ At(i) = "COMMA"
    /\ TopType = "LPAR"
    /\ buffer' = Counted(buffer, 1)
    /\ i' = i + 1
    /\ UNCHANGED <<input, pc, nodes, contexts, operators, decl, dropped>>

(* The parenthesis goes, and with it the callee before it.                   *)
CloseParenthesis ==
    /\ Reading("expression")
    /\ At(i) = "RPAR"
    /\ TopType = "LPAR"
    /\ LET under == Rest(buffer)
           arity == IF At(i - 1) = "LPAR" THEN 0 ELSE Top(buffer).arity + 1
       IN  IF under # <<>> /\ Top(under).type = "CALLEE"
           THEN /\ Write(<<Node("CALLEE", arity, Top(under).token)>>, "expression")
                /\ buffer' = Rest(under)
           ELSE /\ buffer' = under
                /\ UNCHANGED <<pc, nodes>>
    /\ i' = i + 1
    /\ UNCHANGED <<input, contexts, operators, decl, dropped>>

ExpressionEnds ==
    /\ Reading("expression")
    /\ At(i) \notin {"KEY", "LIT", "LPAR", "RPAR", "COMMA"} \cup Algebraic

PopRemaining ==
    /\ ExpressionEnds
    /\ buffer # <<>>
    /\ PopBuffer

(* The expression is one child of its EXP.  As a value of a declaration, EXP *)
(* and INIT_VAR are written at once.                                         *)
EndExpression ==
    /\ ExpressionEnds
    /\ buffer = <<>>
    /\ LET ops == [operators EXCEPT ![Len(operators)].arity = 1]
           init == Counted(Rest(ops), 1)
       IN  IF decl = "NO"
           THEN /\ operators' = ops
                /\ pc' = "terminator"
                /\ UNCHANGED nodes
           ELSE /\ operators' = Counted(Rest(init), 1)
                /\ Write(<<Top(ops), Top(init)>>, AfterDeclaration(Rest(init)))
    /\ UNCHANGED <<input, i, contexts, buffer, decl, dropped>>

-----------------------------------------------------------------------------
(* The end of an instruction.                                                *)

(* No handler took the token, or one has read its instruction. *)
Terminating ==
    \/ pc = "terminator"
    \/ Reading("instruction") /\ At(i) \notin {"Q", "SCOPE", "KEY", "LIT", "LPAR", "COM", "MOD"}

MutFlushed == [x \in DOMAIN operators |-> operators[Len(operators) - x + 1]]

(* parser_context_flush: the operators of the scope's last instruction.     *)
Flushed ==
    LET above == SubSeq(operators, Top(contexts).watermark + 1, Len(operators))
    IN  [x \in DOMAIN above |-> above[Len(above) - x + 1]]
Kept == SubSeq(operators, 1, Len(operators) - Len(Flushed))

MutAfterSemicolons == i
MutBehindSemicolons == IF i < Len(tokens) THEN i + 2 ELSE i + 1
AfterSemicolons ==
    CHOOSE p \in (i + 1)..(Len(tokens) + 1) :
        At(p) # "SEMI" /\ \A p2 \in i..(p - 1) : At(p2) = "SEMI"

(* `;`, and all that follow *)
EndInstruction ==
    /\ Terminating
    /\ At(i) = "SEMI"
    /\ Write(Flushed, "instruction")
    /\ operators' = Kept
    /\ contexts' = Child(contexts, Len(Flushed))
    /\ i' = AfterSemicolons
    /\ UNCHANGED <<input, buffer, decl, dropped>>

(* The INIT and the DECL the closed scope belongs to. *)
Initializes(ops, p) ==
    ops # <<>> /\ Top(ops).type \in {"INIT_LAB", "INIT_PAL"} /\ Top(ops).token = p

DeclOf == [INIT_LAB |-> "DECL_LAB", INIT_PAL |-> "DECL_PAL"]

(* if_LSCOPE_end_destroy_context: flush, then the scope, then the            *)
(* declaration it initializes.                                               *)
CloseScope ==
    /\ Terminating
    /\ At(i) = "PERIOD"
    /\ Top(contexts).type = "SCOPE"
    /\ LET scope == Top(contexts)
           written == Flushed \o
               <<Leaf("SCOPE_END", scope.token),
                 Node("SCOPE", scope.children + Len(Flushed) + 1, scope.token)>>
           under == Counted(Kept, 1)
           init == Top(under)
           opsDecl == Counted(Rest(under), 1)
           declared == /\ Initializes(under, scope.token)
                       /\ opsDecl # <<>>
                       /\ Top(opsDecl).type = DeclOf[init.type]
       IN  /\ IF Initializes(under, scope.token)
              THEN /\ Write(written \o <<Node(init.type, 1, init.token)>> \o
                                IF declared THEN <<Top(opsDecl)>> ELSE <<>>,
                            IF declared THEN "instruction" ELSE "aborted")
                   /\ operators' = IF declared THEN Counted(Rest(opsDecl), 1) ELSE opsDecl
              ELSE /\ Write(written, "instruction")
                   /\ operators' = under
           /\ contexts' = Child(Rest(contexts), 1)
    /\ i' = i + 1
    /\ UNCHANGED <<input, buffer, decl, dropped>>

(* No handler, `;` or `.` goes on from here: set_error(-1). *)
Malformed ==
    \/ pc = "instruction" /\ At(i) = "COM" /\ At(i + 1) # "ID" /\ i < Len(tokens)
    \/ pc = "type" /\ At(i) \notin {"TYPE", "TSCOPE", "TLPAR", "TRPAR", "RSPE"}
    \/ pc = "parameter" /\ ~(At(i) = "KEY" /\ Lock(i + 1) /\ At(i + 2) \in {"TRPAR", "COMMA"})
    \/ Terminating /\ At(i) # "SEMI" /\ ~(At(i) = "PERIOD" /\ Top(contexts).type = "SCOPE")

Reject ==
    /\ Malformed
    /\ pc' = "rejected"
    /\ UNCHANGED <<input, i, nodes, contexts, operators, buffer, decl, dropped>>

(* if_DECL_create_operator looks two tokens ahead before it has seen that an *)
(* ID comes next: behind a command at the end that is behind the null token. *)
ReadBehindTokens ==
    /\ Reading("instruction")
    /\ At(i) = "COM" /\ i = Len(tokens)
    /\ pc' = "undefined"
    /\ UNCHANGED <<input, i, nodes, contexts, operators, buffer, decl, dropped>>

(* All tokens are read: there must have been one, and no scope may be open. *)
EndOfSource ==
    /\ pc = "instruction"
    /\ i > Len(tokens)
    /\ pc' = IF i = 1 \/ Top(contexts).type # "SCOPE_0" THEN "rejected" ELSE "accepted"
    /\ UNCHANGED <<input, i, nodes, contexts, operators, buffer, decl, dropped>>

Returned == pc \in Outcomes /\ UNCHANGED vars

Next ==
    \/ GroupQualifiers \/ OpenScope \/ StartExpression \/ ImportModules
    \/ Declare \/ TypeVar \/ EndType \/ OpenParameters \/ Parameter \/ CloseParameters
    \/ InitializeVariable \/ InitializeNothing \/ InitializeScope
    \/ PushCallee \/ Operand \/ PopForOperator \/ PushOperator
    \/ OpenParenthesis \/ SeparateArguments \/ CloseParenthesis
    \/ PopToParenthesis \/ RunBelowBuffer \/ PopRemaining \/ EndExpression
    \/ EndInstruction \/ CloseScope \/ Reject \/ ReadBehindTokens \/ EndOfSource
    \/ Returned

Spec == Init /\ [][Next]_vars

(* The parser runs on one thread and never waits. *)
FairSpec == Spec /\ WF_vars(Next)

-----------------------------------------------------------------------------

(* The position never passes the sentinel, the nodes stay in their array,    *)
(* the stacks in theirs, SCOPE_0 is never closed, no operator of an          *)
(* expression outlives it, and, as long as no push was dropped, no open      *)
(* scope has lost an operator that lies under it.                            *)
TypeOK ==
    /\ pc \in Phases
    /\ i \in 1..(Len(tokens) + 1)
    /\ pc # "aborted" => Len(nodes) < length
    /\ Len(contexts) \in 1..StackSize
    /\ Len(operators) <= StackSize
    /\ Len(buffer) <= StackSize
    /\ contexts[1].type = "SCOPE_0"
    /\ buffer # <<>> => pc \in {"expression"} \cup Outcomes
    /\ ~dropped => \A n \in DOMAIN contexts : contexts[n].watermark <= Len(operators)

-----------------------------------------------------------------------------
(* The forest, read back from the arities as the TAC does.  An expression is *)
(* one tree, the one child of its EXP, whatever was written for it.          *)

ExpressionTypes == {"KEY", "LIT", "ADD", "MUL", "ASSIGN", "CALLEE", "LPAR"}

(* What a node adds to the number of complete trees. *)
Growth(node) ==
    IF node.type \in ExpressionTypes THEN 0
    ELSE IF node.type = "EXP" THEN 1
    ELSE 1 - node.arity

Trees(ns) ==
    LET upTo[n \in 0..Len(ns)] == IF n = 0 THEN 0 ELSE upTo[n - 1] + Growth(ns[n])
    IN  upTo

(* Every node finds its children among the complete trees before it, and the *)
(* children of a SCOPE are what was written since its token was read, all of *)
(* it and nothing else.                                                      *)
NestedForest ==
    LET trees == Trees(nodes) IN
    /\ \A n \in DOMAIN nodes : trees[n] >= 1 \/ nodes[n].type \in ExpressionTypes
    /\ \A n \in DOMAIN nodes : nodes[n].type = "SCOPE" =>
          \E before \in 0..(n - 1) :
              /\ {m \in 1..n : nodes[m].token >= nodes[n].token} = (before + 1)..n
              /\ trees[n] = trees[before] + 1
    /\ trees[Len(nodes)] = contexts[1].children

(* Whatever the tokens are, when the parser accepts them its stacks are      *)
(* empty, so that no instruction was left half written, no parenthesis was   *)
(* written for an operator, although the lexer balances parentheses over the *)
(* whole source and not in each expression, and the arities it counted with  *)
(* its watermarks are those of a forest nested as the scopes are.  A push    *)
(* that was dropped at the limit of a stack voids this.                      *)
AcceptedForest ==
    pc = "accepted" /\ ~dropped =>
        /\ operators = <<>> /\ buffer = <<>>
        /\ \A n \in DOMAIN nodes : nodes[n].type # "LPAR"
        /\ NestedForest

(* What the name and the type of a declaration end with: a `=` behind it      *)
(* opens the initialization, which INIT_VAR stands for.                      *)
DeclarationEnds == {"ID", "TYPE", "TSCOPE", "TRPAR"}

Named(p) ==
    \/ At(p) \in {"KEY", "LIT", "ADD", "MUL", "ID", "TYPE", "TSCOPE", "Q"}
    \/ At(p) = "ASSIGN" /\ At(p - 1) \notin DeclarationEnds

Naming == {"KEY", "LIT", "ADD", "MUL", "ASSIGN", "CALLEE", "ID", "PARAM", "TYPE_VAR", "Q", "MOD"}

(* An accepted source loses none of its names, literals, locks, qualifiers   *)
(* and operators, and uses none twice, for all the handlers that give back   *)
(* what they read and all the operators that wait on a stack.  The `=` of an *)
(* initialization is no operator.  A push that was dropped at the limit of a *)
(* stack voids this: an operator that waited there is lost.                  *)
EveryTokenOnce ==
    pc = "accepted" /\ ~dropped =>
        \A p \in DOMAIN tokens : Named(p) =>
            \E n \in DOMAIN nodes :
                /\ nodes[n].token = p /\ nodes[n].type \in Naming
                /\ \A n2 \in DOMAIN nodes :
                      nodes[n2].token = p /\ nodes[n2].type \in Naming => n2 = n

(* The assertions of parser_node.c and parser_scope.c fail for nothing but a *)
(* comma outside parentheses: the array of nodes, sized by the characters of *)
(* the source, is otherwise long enough for what a handler adds to the       *)
(* tokens (EXP, INIT, SCOPE_END and the void types), and a scope finds the   *)
(* operators it initializes.  One blank or newline in the source is needed:  *)
(* without any, the declarations `@f:();` have as many nodes as the source   *)
(* has characters.  A push that was dropped voids this too: the scope of a   *)
(* PAL whose operator was dropped finds that of another declaration.         *)
AbortsOnlyAtComma == pc = "aborted" /\ ~dropped => At(i) = "COMMA" /\ buffer = <<>>

(* What create_tac relies on and does not check: the nodes of a scope and of *)
(* an initialization stand side by side, whatever was flushed between them,  *)
(* every node that is taken for a parent is one, and the source has a        *)
(* character for each quadruple and each operand that is made of the nodes.  *)
FeedsQuadruples == pc = "accepted" /\ ~dropped => WellShaped(nodes, length)

(* The parser returns or aborts: every way around its loop reads a token.    *)
Terminates == <>(pc \in Outcomes)

=============================================================================

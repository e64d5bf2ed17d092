------------------------------ MODULE Programs ------------------------------
(***************************************************************************)
(* The programs of the language as trees, with the tokens that spell a     *)
(* tree and the postorder forest a parser should make of them.  It is the  *)
(* reference Parser is checked against, written from the shape of the      *)
(* nodes in src/headers/parser.h and independent of how the parser works.  *)
(*                                                                         *)
(* A tree is a tuple that starts with its form:                            *)
(*   expressions   <<"KEY", t>>, <<"LIT", t>>, <<op, left, right>>,        *)
(*                 <<"PAREN", e>>, <<"CALL", t, arguments>>,               *)
(*                 <<"NONE">>, an operand that is missing,                 *)
(*                 <<"BESIDE", left, right>>, an operator that is missing  *)
(*   instructions  <<"EXP", e>>, <<"VAR", t, type, values, equal>>,        *)
(*                 <<"LAB", t, bodies>>, <<"PAL", t, types, parameters,    *)
(*                 comma, bodies>>, <<"QUALIFIERS", texts>>,               *)
(*                 <<"MODULES", texts>>, <<"BLOCK", body>>                 *)
(* where values, types and bodies hold one item or none and a body is a    *)
(* sequence of instructions.                                               *)
(***************************************************************************)
EXTENDS Integers, Sequences

Tok(kind, text) == <<[kind |-> kind, text |-> text]>>
Nod(type, arity, p) == <<[type |-> type, arity |-> arity, token |-> p]>>

(* Tokens and nodes of a piece of source. *)
Code(toks, nods) == [toks |-> toks, nods |-> nods]
Nothing == Code(<<>>, <<>>)
Join(c, d) == Code(c.toks \o d.toks, c.nods \o d.nods)
Just(kind, text) == Code(Tok(kind, text), <<>>)
After(at, c) == at + Len(c.toks)

BinaryOps == {"ADD", "MUL", "ASSIGN"}
Level(e) == CASE e[1] = "ASSIGN" -> 0 [] e[1] = "ADD" -> 1 [] e[1] = "MUL" -> 2 [] OTHER -> 3

(* The trees that need no parentheses they do not have: + and * associate to *)
(* the left, = to the right.                                                 *)
Unambiguous(op, l, r) ==
    LET level == Level(<<op>>)
    IN  IF op = "ASSIGN" THEN Level(l) > level /\ Level(r) >= level
        ELSE Level(l) >= level /\ Level(r) > level

Binary(ls, rs) ==
    {<<t[1], t[2], t[3]>> :
        t \in {u \in BinaryOps \X ls \X rs : Unambiguous(u[1], u[2], u[3])}}

(* The expressions made of the expressions es with one more operator, pair   *)
(* of parentheses or call.                                                   *)
Composed(es) ==
    Binary(es, es)
    \cup {<<"PAREN", e>> : e \in es}
    \cup {<<"CALL", "f", args>> : args \in {<<>>} \cup {<<e>> : e \in es}
                                           \cup {<<e, d>> : e \in es, d \in es}}

RECURSIVE Exp(_, _), Arguments(_, _, _)

(* An expression whose first token is at `at`. *)
Exp(e, at) ==
    CASE e[1] = "NONE" -> Nothing
      [] e[1] \in {"KEY", "LIT"} -> Code(Tok(e[1], e[2]), Nod(e[1], 0, at))
      [] e[1] = "PAREN" ->
            Join(Join(Just("LPAR", "("), Exp(e[2], at + 1)), Just("RPAR", ")"))
      [] e[1] = "CALL" ->
            LET args == Arguments(e[3], 1, at + 2)
            IN  Code(Tok("KEY", e[2]) \o Tok("LPAR", "(") \o args.toks \o Tok("RPAR", ")"),
                     args.nods \o Nod("CALLEE", Len(e[3]), at))
      [] e[1] = "BESIDE" -> LET l == Exp(e[2], at) IN Join(l, Exp(e[3], After(at, l)))
      [] OTHER ->
            LET l == Exp(e[2], at)
                r == Exp(e[3], After(at, l) + 1)
            IN  Code(l.toks \o Tok(e[1], e[1]) \o r.toks,
                     l.nods \o r.nods \o Nod(e[1], 2, After(at, l)))

(* The arguments from the n-th on. *)
Arguments(args, n, at) ==
    IF n > Len(args) THEN Nothing
    ELSE LET comma == IF n > 1 THEN Just("COMMA", ",") ELSE Nothing
             arg == Exp(args[n], After(at, comma))
         IN  Join(Join(comma, arg), Arguments(args, n + 1, After(After(at, comma), arg)))

(* An expression and its EXP, without the token that ends it. *)
Expression(e, at) == LET c == Exp(e, at) IN Code(c.toks, c.nods \o Nod("EXP", 1, at))

(* The parameters <<t, type>> of a PAL, and its `(` at `at`. *)
Parameters(params, comma, at) ==
    LET Start(n) == at + 1 + 3 * (n - 1)
        toks[n \in 0..Len(params)] ==
            IF n = 0 THEN Tok("TLPAR", "(")
            ELSE toks[n - 1] \o (IF n > 1 THEN Tok("COMMA", ",") ELSE <<>>)
                 \o Tok("KEY", params[n][1]) \o Tok("TYPE", params[n][2])
        nods[n \in 0..Len(params)] ==
            IF n = 0 THEN <<>>
            ELSE nods[n - 1] \o Nod("PARAM", 0, Start(n)) \o Nod("TYPE_VAR", 0, Start(n) + 1)
    IN  IF params = <<>>
        THEN Code(Tok("TLPAR", "(") \o Tok("TRPAR", ")"),
                  Nod("TYPE_PAL_VOID", 0, at) \o Nod("GRP_R_PARES", 1, at))
        ELSE Code(toks[Len(params)] \o (IF comma THEN Tok("COMMA", ",") ELSE <<>>)
                      \o Tok("TRPAR", ")"),
                  nods[Len(params)] \o Nod("GRP_R_PARES", 2 * Len(params), at))

Semi == Just("SEMI", ";")

RECURSIVE Instruction(_, _), Body(_, _, _), Scope(_, _, _)

(* The instructions of a body from the n-th on. *)
Body(body, n, at) ==
    IF n > Len(body) THEN Nothing
    ELSE LET c == Instruction(body[n], at)
         IN  Join(c, Body(body, n + 1, After(at, c)))

(* `scope`, a body and `.`, and the node `init` they are the child of.       *)
Scope(body, init, at) ==
    LET c == Body(body, 1, at + 1)
    IN  Code(Tok("SCOPE", "scope") \o c.toks \o Tok("PERIOD", "."),
             c.nods \o Nod("SCOPE_END", 0, at) \o Nod("SCOPE", Len(body) + 1, at)
                 \o IF init = "NO" THEN <<>> ELSE Nod(init, 1, at))

Instruction(ins, at) ==
    CASE ins[1] = "EXP" -> Join(Expression(ins[2], at), Semi)
      [] ins[1] = "VAR" ->
            LET equal == IF ins[5] THEN Just("ASSIGN", "=") ELSE Nothing
                start == After(at + 3, equal)
                e == Expression(ins[4][1], start)
                init == IF ins[4] = <<>> THEN Nothing
                        ELSE Join(equal, Code(e.toks, e.nods \o Nod("INIT_VAR", 1, start)))
            IN  Code(Tok("COM", "@") \o Tok("ID", ins[2]) \o Tok("TYPE", ins[3])
                         \o init.toks \o Semi.toks,
                     Nod("ID", 0, at + 1) \o Nod("TYPE_VAR", 0, at + 2) \o init.nods
                         \o Nod("DECL_VAR", 2 + Len(ins[4]), at))
      [] ins[1] = "LAB" ->
            LET body == IF ins[3] = <<>> THEN Semi ELSE Scope(ins[3][1], "INIT_LAB", at + 3)
            IN  Code(Tok("COM", "@") \o Tok("ID", ins[2]) \o Tok("TSCOPE", "scope") \o body.toks,
                     Nod("ID", 0, at + 1) \o Nod("TYPE_VAR", 0, at + 2) \o body.nods
                         \o Nod("DECL_LAB", 2 + Len(ins[3]), at))
      [] ins[1] = "PAL" ->
            LET open == at + 2 + Len(ins[3])
                params == Parameters(ins[4], ins[5], open)
                body == IF ins[6] = <<>> THEN Semi
                        ELSE Scope(ins[6][1], "INIT_PAL", After(open, params))
                returned == IF ins[3] = <<>> THEN Nod("TYPE_PAL_VOID", 0, open)
                            ELSE Nod("TYPE_VAR", 0, at + 2)
            IN  Code(Tok("COM", "@") \o Tok("ID", ins[2])
                         \o (IF ins[3] = <<>> THEN <<>> ELSE Tok("TYPE", ins[3][1]))
                         \o params.toks \o body.toks,
                     Nod("ID", 0, at + 1) \o returned \o params.nods
                         \o Nod("TYPE_PAL", 2, at + 2) \o body.nods
                         \o Nod("DECL_PAL", 2 + Len(ins[6]), at))
      [] ins[1] = "QUALIFIERS" ->
            Code([x \in DOMAIN ins[2] |-> Tok("Q", ins[2][x])[1]],
                 [x \in DOMAIN ins[2] |-> Nod("Q", 0, at + x - 1)[1]]
                     \o Nod("GRP_Q", Len(ins[2]), at))
      [] ins[1] = "MODULES" ->
            Code(Tok("MOD", "imod") \o [x \in 1..Len(ins[2]) |-> Tok("KEY", ins[2][x])[1]]
                     \o Semi.toks,
                 [x \in 1..Len(ins[2]) |-> Nod("MOD", 0, at + x)[1]]
                     \o Nod("GRP_MOD", Len(ins[2]), at))
      [] ins[1] = "BLOCK" -> Scope(ins[2], "NO", at)

(* A program: the instructions of SCOPE_0. *)
Program(body) == Body(body, 1, 1)

=============================================================================

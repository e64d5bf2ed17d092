---------------------------- MODULE MCQuadruples ----------------------------
(***************************************************************************)
(* Quadruples on the forests of programs: which programs, what their       *)
(* quadruples do when they are run from the first to the last, and that    *)
(* this is what the program means.                                         *)
(***************************************************************************)
EXTENDS Quadruples

M == INSTANCE Meanings

VARIABLE program    \* the tree the forest is of

MCForests == {}

A == <<"KEY", "a">>
B == <<"KEY", "b">>
Lit == <<"LIT", "1">>
Var(name) == <<"VAR", name, "A", <<>>, FALSE>>
VarOf(name, e) == <<"VAR", name, "A", <<e>>, TRUE>>
Does(e) == <<"EXP", e>>
Pal(params, bodies) == <<"PAL", "f", <<>>, params, FALSE, bodies>>
Label(bodies) == <<"LAB", "l", bodies>>
Param(name) == <<name, "A">>

(* All expressions of two levels over two variables and a literal whose      *)
(* first level has the literal only beside a variable.                       *)
Level1 == {A, B} \cup M!Composed({A, B}) \cup {Lit, <<"ADD", A, Lit>>, <<"ASSIGN", A, Lit>>}
Expressions == Level1 \cup M!Composed(Level1)

(* Instructions about a name, and scopes that may declare it again. *)
Simple == {Var("a"), VarOf("a", A), VarOf("b", <<"ADD", A, Lit>>), Does(<<"ASSIGN", A, Lit>>)}
Small == {<<>>} \cup {<<x>> : x \in Simple} \cup {<<x, y>> : x \in Simple, y \in Simple}
Params == {<<>>, <<Param("a")>>, <<Param("b"), Param("a")>>}
Scopes(bodies) ==
    {<<"BLOCK", b>> : b \in bodies} \cup {Label(<<b>>) : b \in bodies}
    \cup {Pal(ps, <<b>>) : ps \in Params, b \in bodies}
Prototypes == {Label(<<>>)} \cup {Pal(ps, <<>>) : ps \in Params}

Uses == {VarOf("b", A), Does(<<"CALL", "f", <<A, B>>>>)}
Names ==
    {<<x, y, z>> : x \in Simple, y \in Scopes(Small), z \in Uses}
    \cup {<<x, y, z>> : x \in Scopes({<<>>, <<Var("a")>>}) \cup Prototypes,
                        y \in Scopes({<<VarOf("b", A)>>}) \cup Prototypes, z \in Uses}
    \cup {<<x, <<"BLOCK", <<Var("b"), y, z>>>>, z>> :
            x \in Simple, y \in Scopes({<<>>, <<Var("a")>>, <<VarOf("b", B)>>}), z \in Uses}

Qualifiers ==
    {<<"QUALIFIERS", ts>> : ts \in {<<"entry">>, <<"q">>, <<"q", "entry">>, <<"entry", "q">>}}
Marked == Prototypes \cup Scopes({<<>>, <<Var("a")>>, <<Label(<<>>)>>, <<<<"BLOCK", <<>>>>>>})
          \cup Scopes({<<<<"QUALIFIERS", <<"entry">>>>, Label(<<<<>>>>)>>}) \cup {Var("a")}
Starts ==
    {<<q, x>> : q \in Qualifiers, x \in Marked}
    \cup {<<q, x, <<"QUALIFIERS", <<"entry">>>>, y>> :
            q \in Qualifiers, x \in {Label(<<<<>>>>), <<"BLOCK", <<>>>>, Var("a")},
            y \in {Label(<<>>), Pal(<<>>, <<>>), Pal(<<>>, <<<<>>>>), <<"MODULES", <<"a">>>>}}

(* Expressions without some operand or operator, and what may stand before   *)
(* them.                                                                     *)
None == <<"NONE">>
Call == <<"CALL", "f", <<>>>>
Missing == {<<"PAREN", None>>, <<"ADD", A, None>>, <<"PAREN", <<"ASSIGN", None, A>>>>,
            <<"CALL", "f", <<<<"PAREN", None>>>>>>, <<"BESIDE", A, B>>,
            <<"BESIDE", <<"BESIDE", Call, Call>>, Call>>}
Unheaded == Scopes({<<Does(<<"PAREN", None>>)>>, <<Does(<<"BESIDE", A, A>>)>>})
Gaps ==
    {<<Does(e)>> : e \in Missing}
    \cup {<<x, y>> : x \in {Var("a"), Does(A), <<"BLOCK", <<>>>>, Label(<<>>)},
                     y \in {Does(e) : e \in Missing} \cup {VarOf("b", e) : e \in Missing}}
    \cup {<<x, <<"BLOCK", <<Does(A), y>>>>, x>> :
             x \in {Does(A), Label(<<<<>>>>)},
             y \in {Does(e) : e \in Missing} \cup {VarOf("b", e) : e \in Missing}}
    \cup {<<Var("a"), x, y>> : x \in Unheaded, y \in Unheaded}

MCPrograms ==
    {<<Var("a"), VarOf("b", e)>> : e \in Expressions}
    \cup {<<Var("a"), Var("b"), Does(e)>> : e \in Expressions}
    \cup Names \cup Starts \cup Gaps \cup {<<>>}

(* The parser accepts a source without instructions if it has a `;`. *)
Tokens(code) == IF code.toks = <<>> THEN M!Semi.toks ELSE code.toks

(* The source has more characters than tokens, as the lexer asserts. *)
Written(code) == Len(Tokens(code)) + 1

(* The theorems of QuadruplesProofs apply to every one of these programs.    *)
ASSUME ProgramsAreWellShaped ==
    \A p \in MCPrograms :
        LET code == M!Program(p) IN WellShaped(code.nods, Written(code))

MCInit ==
    /\ program \in MCPrograms
    /\ LET code == M!Program(program)
       IN  tokens = Tokens(code) /\ nodes = code.nods /\ length = Written(code)
    /\ Start

MCNext == Next /\ UNCHANGED program
MCSpec == MCInit /\ [][MCNext]_<<vars, program>> /\ WF_<<vars, program>>(MCNext)

-----------------------------------------------------------------------------

Declared(item) == nodes[item.node].token

(* The quadruples run one after the other. *)
Value(s, item) ==
    CASE item.type = "LIT" -> <<"LIT", Text(item.node)>>
      [] item.type = "KEY" -> M!Held(s, Declared(item))
      [] item.type = "TEMP" -> s.temps[item.node]

Run(s, q) ==
    CASE q.op = "MOVE" ->
            IF q.dst.type = "KEY" THEN M!Store(s, Declared(q.dst), Value(s, q.src1))
            ELSE IF q.dst.type = "TEMP" THEN [s EXCEPT !.temps[q.dst.node] = Value(s, q.src1)]
            ELSE s
      [] q.op \in {"ADD", "MUL"} ->
            [s EXCEPT !.temps[q.dst.node] = <<q.op, Value(s, q.src1), Value(s, q.src2)>>]
      [] q.op = "ARG" -> [s EXCEPT !.args = Append(@, Value(s, q.src1))]
      [] q.op = "CALL" ->
            LET at == nodes[q.node].token
            IN  [M!Happen(s, <<"CALL", at, s.args>>) EXCEPT
                    !.args = <<>>, !.temps[q.dst.node] = <<"RESULT", at>>]
      [] q.op = "PARAM" ->
            M!Happen(M!Hold(s, Declared(q.dst), <<"PARAM", q.src2.node>>),
                     <<"PARAM", Declared(q.dst), q.src2.node>>)
      [] OTHER ->
            M!Happen(s, IF q.src1 = NoItem THEN <<q.op>> ELSE <<q.op, Declared(q.src1)>>)

Execution ==
    LET upTo[p \in 0..Len(quads)] ==
            IF p = 0 THEN [held |-> <<>>, events |-> <<>>, args |-> <<>>,
                           temps |-> [n \in DOMAIN nodes |-> <<"NOTHING">>]]
            ELSE Run(upTo[p - 1], quads[p])
    IN  upTo[Len(quads)]

(* The quadruples do what the program means: every store, call and scope, in *)
(* order, on the declaration each name stands for where it is written and    *)
(* with the values of nested operators, assignments and calls.  A name is    *)
(* read when its operator is emitted and not where it stands, which is the   *)
(* same for expressions that are Undisturbed.                                *)
DoesWhatItMeans ==
    pc = "done" /\ M!Meaningful(program) => Execution.events = M!Meaning(program).events

(* The walk aborts on a use of a name that is not visible, and on no other   *)
(* program.                                                                  *)
AbortsOnlyUndeclared ==
    pc \in {"done", "aborted"} /\ M!Meaningful(program) =>
        (pc = "done" <=> M!Meaning(program).resolved)

StartsAt == IF offset_entry = 0 THEN 0 ELSE nodes[offset_entry].token

(* The program starts at the last scope or declaration right behind an       *)
(* [entry].                                                                  *)
StartsAtEntry == pc = "done" => StartsAt = M!EntryOf(program)

(* No scope behind an [entry] begins with a scope or declaration of its own. *)
EntryIsPlain ==
    \A n \in 2..Len(program) :
        M!MarksEntry(program[n - 1]) /\ program[n][1] = "BLOCK" /\ program[n][2] # <<>> =>
            ~M!HasEntry(program[n][2][1])

(* The same where the subtree behind the qualifier has no other scope that   *)
(* starts at its first node, which is all scope_is_entry looks at.           *)
StartsAtPlainEntry == EntryIsPlain => StartsAtEntry

=============================================================================

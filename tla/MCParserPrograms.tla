-------------------------- MODULE MCParserPrograms --------------------------
(***************************************************************************)
(* Parser on the programs of the language: which programs, and that each   *)
(* is parsed into its own forest.                                          *)
(***************************************************************************)
EXTENDS Parser, Programs

VARIABLE program    \* the tree the tokens spell

MCTexts == {"a", "b", "c", "f", "l", "q", "1", "A", "scope", "imod", "@", "(", ")", ",", ";", ".",
            "=", "ADD", "MUL", "ASSIGN"}

(* All expressions of two levels over a key and a literal, and the ones of   *)
(* three levels over a key whose last operator has a smaller side.           *)
Keys == {<<"KEY", "a">>}
Level1(es) == es \cup Composed(es)
Expressions ==
    Composed(Level1(Keys \cup {<<"LIT", "1">>}))
    \cup Binary(Level1(Level1(Keys)), Level1(Keys))
    \cup Binary(Level1(Keys), Level1(Level1(Keys)))

Values == {<<"KEY", "a">>, <<"ADD", <<"KEY", "a">>, <<"LIT", "1">>>>, <<"CALL", "f", <<>>>>}

Simple ==
    {<<"EXP", e>> : e \in Values}
    \cup {<<"VAR", "b", "A", values, equal>> :
            values \in {<<>>} \cup {<<e>> : e \in Values}, equal \in BOOLEAN}
    \cup {<<"QUALIFIERS", ts>> : ts \in {<<"q">>, <<"q", "q">>}}
    \cup {<<"MODULES", ts>> : ts \in {<<>>, <<"a">>, <<"a", "b">>}}

Signatures ==
    {<<types, <<>>, FALSE>> : types \in {<<>>, <<"A">>}}
    \cup {<<types, <<<<"a", "A">>>>, comma>> : types \in {<<>>, <<"A">>}, comma \in BOOLEAN}
    \cup {<<types, <<<<"a", "A">>, <<"b", "A">>>>, FALSE>> : types \in {<<>>, <<"A">>}}

(* The instructions that hold a body, with each of the bodies. *)
Enclosing(bodies) ==
    {<<"BLOCK", b>> : b \in bodies}
    \cup {<<"LAB", "l", <<b>>>> : b \in bodies}
    \cup {<<"PAL", "f", s[1], s[2], s[3], <<b>>>> : s \in Signatures, b \in bodies}

Prototypes == {<<"LAB", "l", <<>>>>} \cup {<<"PAL", "f", s[1], s[2], s[3], <<>>>> : s \in Signatures}

Instructions0 == Simple \cup Prototypes

(* A qualifier in front makes one instruction of two, as `[entry]` does.     *)
UpTo2(ins) == {<<>>} \cup {<<x>> : x \in ins} \cup {<<x, y>> : x \in ins, y \in ins}
Few == {<<"EXP", <<"KEY", "a">>>>, <<"VAR", "b", "A", <<<<"KEY", "a">>>>, TRUE>>,
        <<"QUALIFIERS", <<"q">>>>, <<"LAB", "l", <<>>>>}
Instructions1 == Enclosing(UpTo2(Few))
Nested == Enclosing(UpTo2(Few \cup {<<"BLOCK", <<>>>>, <<"LAB", "l", <<<<>>>>>>,
                                    <<"PAL", "f", <<>>, <<>>, FALSE, <<<<<<"EXP", <<"KEY", "a">>>>>>>>>>}))

(* The parser takes an expression in which an operand or operator is missing.*)
None == <<"NONE">>
Call == <<"CALL", "f", <<>>>>
Missing == {<<"PAREN", None>>, <<"ADD", <<"KEY", "a">>, None>>,
            <<"PAREN", <<"ASSIGN", None, <<"KEY", "a">>>>>>, <<"CALL", "f", <<<<"PAREN", None>>>>>>,
            <<"BESIDE", <<"KEY", "a">>, <<"KEY", "b">>>>, <<"BESIDE", Call, Call>>}
Gaps == {<<"EXP", e>> : e \in Missing} \cup {<<"VAR", "b", "A", <<e>>, TRUE>> : e \in Missing}

(* Qualifiers side by side are one group, whatever the tree says. *)
OneGroup(body) ==
    \A n \in 1..(Len(body) - 1) : ~(body[n][1] = "QUALIFIERS" /\ body[n + 1][1] = "QUALIFIERS")
RECURSIVE Spelled(_)
Spelled(body) ==
    /\ OneGroup(body)
    /\ \A n \in DOMAIN body :
          CASE body[n][1] = "BLOCK" -> Spelled(body[n][2])
            [] body[n][1] = "LAB" -> body[n][3] = <<>> \/ Spelled(body[n][3][1])
            [] body[n][1] = "PAL" -> body[n][6] = <<>> \/ Spelled(body[n][6][1])
            [] OTHER -> TRUE

MCPrograms ==
    {p \in {<<<<"EXP", e>>>> : e \in Expressions}
           \cup {<<x, y>> : x \in Instructions0, y \in Instructions0}
           \cup {<<x, y>> : x \in Few, y \in Gaps}
           \cup {<<x>> : x \in Nested}
           \cup {<<x, y>> : x \in Instructions1, y \in Few}
           \cup {<<y, x>> : x \in Instructions1, y \in Few} : Spelled(p)}

MCSources == {<<>>}

MCInit ==
    /\ program \in MCPrograms
    /\ tokens = Program(program).toks
    /\ Start

MCSpec == MCInit /\ [][Next /\ UNCHANGED program]_<<vars, program>>

(* The parser accepts every program of the language and makes its forest of  *)
(* it: precedence and associativity, arguments, parameters, implicit void    *)
(* types, and every instruction a child of the scope it is written in.       *)
ParsesItself ==
    pc \in Outcomes =>
        /\ pc = "accepted"
        /\ nodes = Program(program).nods
        /\ contexts[1].children = Len(program)

=============================================================================

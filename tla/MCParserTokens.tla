--------------------------- MODULE MCParserTokens ---------------------------
(***************************************************************************)
(* Parser on token lists that need not be programs: all lists of a few     *)
(* pieces that pass the delimiter check of lexer_error.c.                  *)
(***************************************************************************)
EXTENDS Parser

MCTexts == {"t", "scope"}
Pieces(kinds) == {<<[kind |-> x, text |-> "t"]>> : x \in kinds}
Piece(ks) == [n \in DOMAIN ks |-> [kind |-> ks[n], text |-> IF ks[n] = "TSCOPE" THEN "scope" ELSE "t"]]

Label == Piece(<<"COM", "ID", "TSCOPE">>)
Variable == Piece(<<"COM", "ID", "TYPE">>)
Pal == Piece(<<"COM", "ID", "TLPAR", "TRPAR">>)
PalOfOne == Piece(<<"COM", "ID", "TYPE", "TLPAR", "KEY", "TYPE", "TRPAR">>)

AllPieces ==
    Pieces({"KEY", "LPAR", "RPAR", "COMMA", "ADD", "ASSIGN", "SEMI", "PERIOD",
            "SCOPE", "COM", "Q", "MOD"})
    \cup {Label, Variable, Pal, PalOfOne}
FewPieces == Pieces({"KEY", "SEMI", "PERIOD", "SCOPE"}) \cup {Label, Pal}

ExpressionPieces == Pieces({"KEY", "LPAR", "RPAR", "COMMA", "ADD", "ASSIGN", "SEMI"})

(* Every closing parenthesis has an opening one before it. *)
Balanced(s) ==
    LET open == {"LPAR", "TLPAR"}
        close == {"RPAR", "TRPAR"}
        depth[n \in 0..Len(s)] ==
            IF n = 0 THEN 0
            ELSE depth[n - 1] + (IF s[n].kind \in open THEN 1
                                 ELSE IF s[n].kind \in close THEN -1 ELSE 0)
    IN  depth[Len(s)] = 0 /\ \A n \in 0..Len(s) : depth[n] >= 0

Joined(f) == LET upTo[n \in 0..Len(f)] == IF n = 0 THEN <<>> ELSE upTo[n - 1] \o f[n]
             IN  upTo[Len(f)]

(* The lists are chosen in the initial states, no set of them is built.      *)
MCSources == {<<>>}

Lists(pieces, n) ==
    \E f \in [1..n -> pieces] :
        /\ tokens = Joined(f)
        /\ Balanced(tokens)

(* Where the PAL is declared, the stack of operators is full. *)
DroppedPal ==
    Label \o Piece(<<"SCOPE">>) \o Label \o Piece(<<"SCOPE">>) \o Pal \o Piece(<<"SCOPE", "PERIOD">>)

MCInit ==
    /\ \/ tokens = DroppedPal
       \/ \E n \in 0..4 : Lists(AllPieces, n)
       \/ \E n \in 5..6 : Lists(FewPieces, n)
       \/ Lists(ExpressionPieces, 5)
    /\ Start

(* The declarations of PALs without parameters, `@f:();` and `@f:A();`. *)
MCPrototypes ==
    {Pal \o Piece(<<"SEMI">>), Piece(<<"COM", "ID", "TYPE", "TLPAR", "TRPAR", "SEMI">>)}

MCSpec == MCInit /\ [][Next]_vars /\ WF_vars(Next)

=============================================================================

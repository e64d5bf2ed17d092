------------------------------- MODULE MCLexer -------------------------------
(***************************************************************************)
(* Lexer on all texts of a few pieces, programs or not, and on the texts   *)
(* of programs of the language.                                            *)
(***************************************************************************)
EXTENDS Lexer, Spelling

(* The words of programs, apart from those of the other texts. *)
ProgramWords == {"x", "b", "f", "l", "q", "2"}
MCNames == {"a", "x", "b", "f", "l", "q", "A", "then", "scope", "imod", "omod"}
MCHexWords == {"1", "2", "A"}
MCWordLength == [w \in MCNames \cup {"1", "2", "_", "_x", "$"} |->
              CASE w \in {"then", "imod", "omod"} -> 4 [] w = "scope" -> 5 [] w = "_x" -> 2 [] OTHER -> 1]
MCSources == {<<>>}

-----------------------------------------------------------------------------
(* Texts that need not be programs.                                          *)

(* Two words side by side would be one; a blank is as good as many. *)
Wellspaced(t) ==
    \A n \in 1..(Len(t) - 1) :
        ~({t[n], t[n + 1]} \subseteq Words) /\ ~({t[n], t[n + 1]} \subseteq Blanks)

Each(xs) == {<<x>> : x \in xs}
Comment == {<<"|", "-", "-">>, <<"-", "-", "|">>}

Declaring == Each({"a", ":", "(", ")", "&", "@", "SP", "_", "_x"}) \cup {<<":", "&">>, <<"(", ")">>}
Commenting == Comment \cup {<<"!", "-", "-">>}
                 \cup Each({"a", "(", ")", "NL", "SP", ";", "GRAVE", ":", "[", "]", "-"})
Quoting == Each({"a", "1", "GRAVE", "BACKSLASH", "(", ")", "SP", "$"})
Choosing == Each({"then", "scope", "omod", "~", ",", ".", "a", "SP"}) \cup {<<"~", "then">>}
Qualifying == Each({"a", "[", "]", "SP", "NL", ":", "1"})

Nesting == Comment \cup Each({"a", "(", ")", "SP", ";", "GRAVE"})

(* Comments that one of the passes reads as code, on a larger scale. *)
Misreading == {<<":", "SP">>, <<"|", "-", "-", "a">>, <<"|", "-", "-", ":">>, <<"&">>, <<"a">>}
                 \cup Comment
(* What `then` takes for the sign before it, and a bracket behind a comment   *)
(* for the scan that is none.                                                *)
Absorbing == {<<"~">>, <<",">>, <<"GRAVE">>, <<"BACKSLASH">>, <<"SP", "then">>, <<"a", "SP">>,
              <<"[", "~", "]">>, <<"BACKSLASH", "~", "BACKSLASH">>}
Unclosing == {<<"1", "GRAVE", "1", "SP">>, <<"GRAVE", "!", "-", "-", "GRAVE">>, <<"SP", "[">>,
              <<"a", "SP">>, <<"a">>, <<"]">>}
(* Qualifiers that are a parenthesis or the mark of a string, and a bracket   *)
(* that the scan takes for a modifier.                                       *)
Bracing == {<<"[", "(">>, <<"+", "]", "SP">>, <<"SP">>, <<")", "]">>, <<"(">>, <<")">>, <<"a">>,
            <<"[", "GRAVE", "SP", "]", "SP", "a", "SP">>, <<"|", "-", "-", "SP", "-", "-", "|", "SP">>}
Numbering == {<<"1", "GRAVE", "1", "SP">>, <<"|", "-", "-", "(", "-", "-", "|", "SP">>, <<"(">>, <<")">>}

Pieces(pieces, n) ==
    \E f \in [1..n -> pieces] :
        /\ text = Joined(f)
        /\ Wellspaced(text)

AnyText ==
    \/ \E n \in 0..3 : \E pieces \in {Declaring, Commenting, Quoting, Choosing, Qualifying} :
          Pieces(pieces, n)
    \/ \E pieces \in {Declaring, Nesting, Quoting, Choosing, Qualifying, Misreading, Numbering,
                       Absorbing, Unclosing, Bracing} :
          Pieces(pieces, 4)

-----------------------------------------------------------------------------
(* The texts of programs.                                                    *)

Operands == {<<"KEY", "x">>, <<"LIT", "2">>}
Values == {<<"KEY", "x">>, <<"ADD", <<"KEY", "x">>, <<"LIT", "2">>>>, <<"CALL", "f", <<>>>>}
Signatures ==
    {<<types, params, comma>> :
        types \in {<<>>, <<"A">>}, comma \in BOOLEAN,
        params \in {<<>>, <<<<"x", "A">>>>, <<<<"x", "A">>, <<"b", "A">>>>}}
Single ==
    {<<"EXP", e>> : e \in Composed(Operands)}
    \cup {<<"VAR", "b", "A", values, equal>> :
            values \in {<<>>} \cup {<<e>> : e \in Values}, equal \in BOOLEAN}
    \cup {<<"QUALIFIERS", ts>> : ts \in {<<"q">>, <<"q", "q">>}}
    \cup {<<"MODULES", ts>> : ts \in {<<"x">>, <<"x", "b">>}}
    \cup {<<"LAB", "l", <<>>>>}
    \cup {<<"PAL", "f", s[1], s[2], s[3], <<>>>> : s \in Signatures}
Bodies == {<<x>> : x \in Single} \cup {<<<<"QUALIFIERS", <<"q">>>>, <<"BLOCK", <<>>>>>>}
Enclosing ==
    {<<"BLOCK", b>> : b \in Bodies} \cup {<<"LAB", "l", <<b>>>> : b \in Bodies \cup {<<<<"MODULES", <<>>>>>>}}
    \cup {<<"PAL", "f", s[1], s[2], s[3], <<b>>>> : s \in Signatures, b \in {<<>>, <<<<"EXP", <<"KEY", "x">>>>>>}}

(* Each way to write a program, with the tokens it was written from. *)
Spellings ==
    {LET ts == Program(<<x>>).toks IN [text |-> Spelled(style, ts), toks |-> ts] :
        x \in Single \cup Enclosing, style \in {"dense", "spaced", "commented"}}

-----------------------------------------------------------------------------

MCInit ==
    /\ AnyText \/ \E s \in Spellings : text = s.text
    /\ Begin

MCSpec == MCInit /\ [][Next]_vars /\ WF_vars(Next)

(* However a program is spelled, with as few blanks as possible or with      *)
(* comments between its tokens, the lexer finds the tokens it was spelled    *)
(* from, the parser's kinds and extents included.  Without any blank the     *)
(* assertion on the length of the source may fail instead.                   *)
LexesItself ==
    pc \in Outcomes /\ (\E n \in DOMAIN text : text[n] \in ProgramWords) =>
        \A s \in {x \in Spellings : x.text = text} :
            \/ pc = "aborted" /\ text[Len(text)] # "NL"
            \/ /\ pc = "accepted"
               /\ Len(tokens) = Len(s.toks)
               /\ \A n \in DOMAIN tokens :
                     /\ KindOf(tokens[n]) = s.toks[n].kind
                     /\ s.toks[n].kind \notin DOMAIN Symbol => At(tokens[n].start) = s.toks[n].text

=============================================================================

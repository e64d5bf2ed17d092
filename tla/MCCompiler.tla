----------------------------- MODULE MCCompiler ------------------------------
(***************************************************************************)
(* Compiler from the text of a program to the bytes of its binary: which   *)
(* texts are compiled, what a processor does with the bytes, and that this *)
(* is what the program means.                                              *)
(***************************************************************************)
EXTENDS Compiler, SequencesExt

S == INSTANCE Spelling
M == INSTANCE Meanings

-----------------------------------------------------------------------------
(* The words.                                                                *)

(* More variables than there are registers. *)
Variables == <<"a", "b", "c", "d", "e", "g", "h", "i", "j", "k", "m", "n", "o", "p", "r">>

MCNames == ToSet(Variables) \cup {"main", "exit", "entry", "l", "f", "A", "q", "scope", "imod"}

(* The number each literal stands for, as its eight bytes.  2_1_2 is written *)
(* with the mark between digits; the last one is 2^64 + 5.                   *)
NumberOf ==
    [n \in {"1", "2_1_2", "0xFF", "0b101", "0o17", "70000", "3000000000", "18446744073709551621"} |->
        CASE n = "1"          -> <<1, 0, 0, 0, 0, 0, 0, 0>>
          [] n = "2_1_2"        -> <<212, 0, 0, 0, 0, 0, 0, 0>>
          [] n = "0xFF"       -> <<255, 0, 0, 0, 0, 0, 0, 0>>
          [] n = "0b101"      -> <<5, 0, 0, 0, 0, 0, 0, 0>>
          [] n = "0o17"       -> <<15, 0, 0, 0, 0, 0, 0, 0>>
          [] n = "70000"      -> <<112, 17, 1, 0, 0, 0, 0, 0>>
          [] n = "3000000000" -> <<0, 94, 208, 178, 0, 0, 0, 0>>
          [] OTHER            -> <<5, 0, 0, 0, 0, 0, 0, 0>>]
Numerals == DOMAIN NumberOf
MCNumbers == (Numerals \ {"2_1_2"}) \cup {"2"}
MCHexWords == {"1", "2", "70000", "3000000000", "18446744073709551621", "A"}

MCCharacters ==
    [x \in MCNames \cup MCNumbers \cup {"GRAVE", "SP"} |->
        CASE x = "0xFF"       -> <<"0", "x", "F", "F">>
          [] x = "0b101"      -> <<"0", "b", "1", "0", "1">>
          [] x = "0o17"       -> <<"0", "o", "1", "7">>
          [] x = "70000"      -> <<"7", "0", "0", "0", "0">>
          [] x = "3000000000" -> <<"3">> \o [n \in 1..9 |-> "0"]
          [] x = "18446744073709551621" ->
                <<"1", "8", "4", "4", "6", "7", "4", "4", "0", "7",
                  "3", "7", "0", "9", "5", "5", "1", "6", "2", "1">>
          [] OTHER            -> <<x>>]

MCWordLength ==
    [w \in MCNames \cup MCNumbers |->
        CASE w \in {"main", "exit", "imod"} -> 4
          [] w \in {"scope", "entry"} -> 5
          [] OTHER -> Len(MCCharacters[w])]

-----------------------------------------------------------------------------
(* The programs.                                                             *)

A == <<"KEY", "a">>
B == <<"KEY", "b">>
Lit(n) == <<"LIT", n>>
Add(x, y) == <<"ADD", x, y>>
Var(name) == <<"VAR", name, "A", <<>>, FALSE>>
VarOf(name, e) == <<"VAR", name, "A", <<e>>, TRUE>>
Does(e) == <<"EXP", e>>
Call(name, args) == Does(<<"CALL", name, args>>)
Exit(e) == Call("exit", <<e>>)
Label(name, body) == <<"LAB", name, <<body>>>>
Entry == <<"QUALIFIERS", <<"entry">>>>

Constant == {<<Exit(Lit(n))>> : n \in Numerals} \cup {<<VarOf("a", Lit(n)), Exit(A)>> : n \in Numerals}
Additions ==
    {<<VarOf("a", Lit("1")), VarOf("b", Add(A, Lit(n))), Exit(B)>> : n \in Numerals}
    \cup {<<VarOf("a", Lit(n)), VarOf("b", Lit("1")), Exit(Add(A, B))>> : n \in Numerals}
Nested ==
    {<<VarOf("a", Lit("2_1_2")), VarOf("b", Lit("1")), Exit(e)>> :
        e \in {Add(Add(A, B), A), Add(A, <<"PAREN", Add(B, Lit("1"))>>), Add(Lit("0xFF"), A),
               Add(Lit("1"), Lit("1")), Add(B, <<"PAREN", Add(A, <<"PAREN", Add(B, A)>>)>>),
               <<"ADD", <<"PAREN", Add(A, B)>>, <<"PAREN", Add(B, A)>>>>}}
    \cup {<<Var("a"), Does(<<"ASSIGN", A, Lit("1")>>), Exit(A)>>,
          <<VarOf("a", Lit("1")), Exit(A), Exit(Lit("0o17"))>>}

(* All of n variables are read after all of them were written. *)
Total(n) == LET upTo[x \in 1..n] == IF x = 1 THEN A ELSE Add(upTo[x - 1], <<"KEY", Variables[x]>>)
            IN  upTo[n]
Many(n) == [x \in 1..n |-> VarOf(Variables[x], Lit("1"))] \o <<Exit(Total(n))>>

Bodies == Constant \cup Additions \cup Nested
Few == Nested \cup {<<Exit(Lit("1"))>>}

(* Where the program starts, and what is written before and behind it. *)
Other == Label("l", <<VarOf("c", Lit("70000")), Exit(<<"KEY", "c">>)>>)
Started(b) ==
    {<<Entry, Label("main", b)>>, <<Entry, <<"BLOCK", b>>>>,
     <<Entry, <<"PAL", "main", <<>>, <<>>, FALSE, <<b>>>>>>}
Placed(b) == {p \o <<Other>> : p \in Started(b)} \cup {<<Other>> \o p : p \in Started(b)}
                \cup {<<Entry, Other>> \o p : p \in Started(b)}

(* Programs of which the binary does something else or there is none. *)
Params(n) == [x \in 1..n |-> <<Variables[x], "A">>]
Beyond ==
    {<<VarOf("a", Lit("1")), Exit(<<"MUL", A, A>>)>>,
     <<VarOf("a", Lit("1")), Call("exit", <<>>)>>,
     <<Call("exit", <<>>)>>,
     <<VarOf("a", Lit("1")), Call("f", <<A, Lit("1")>>), Exit(A)>>,
     <<Exit(<<"CALL", "f", <<A>>>>)>>,
     <<VarOf("a", Lit("1")), Call("f", [x \in 1..10 |-> A])>>,
     <<Var("a"), Exit(A)>>, <<Exit(A)>>,
     <<<<"MODULES", <<"q">>>>, <<"QUALIFIERS", <<"q">>>>, Exit(Lit("1"))>>,
     <<<<"LAB", "l", <<>>>>, <<"PAL", "f", <<"A">>, <<>>, FALSE, <<>>>>>>}
    \cup {<<<<"PAL", "f", <<>>, Params(n), FALSE, <<<<Exit(A)>>>>>>>> : n \in {1, 7}}

-----------------------------------------------------------------------------
(* The texts.                                                                *)

(* The tokens of a program, its sums written as differences. *)
Differences(ts) == [n \in DOMAIN ts |-> IF ts[n].kind = "ADD" THEN [ts[n] EXCEPT !.text = "-"] ELSE ts[n]]
Tokens(p, op) == LET ts == M!Program(p).toks IN IF op = "SUB" THEN Differences(ts) ELSE ts

Compilations == {<<p, op, style>> :
                p \in Bodies \cup Beyond \cup UNION {Started(b) : b \in Few},
                op \in {"ADD"}, style \in {"spaced"}}
            \cup {<<p, "SUB", "spaced">> : p \in Additions \cup Nested}
            \cup {<<p, "ADD", "spaced">> : p \in UNION {Placed(b) : b \in Few}}
            \cup {<<Many(n), "ADD", "dense">> : n \in 13..15}
            \cup {<<p, "ADD", style>> : p \in Started(<<Exit(Lit("2_1_2"))>>), style \in {"dense", "commented"}}
Spellings == {[text |-> S!Spelled(x[3], Tokens(x[1], x[2])), program |-> x[1], op |-> x[2]] : x \in Compilations}

(* Texts no part, or only some of the parts, takes. *)
Rejected ==
    {<<>>, <<";">>, <<";", "NL">>, <<"a", "(", "NL">>, <<")", "NL">>, <<"a", "NL">>,
     <<"a", ";">>, <<"@", "f", ":", "&", "A", "(", ")", ";", "NL">>,
     <<"@", "f", ":", "(", "a", ":", "A", ")", ";", "NL">>, <<"(", ")", ";", "NL">>,
     <<"@", "a", ":", "&", "A", ";", "NL">>, <<"a", "<", "a", ";", "NL">>,
     <<"|", "-", "-", "SP", "a", "SP", "-", "-">>, <<"a", "+", ";", "NL">>,
     <<"exit", "(", "1", ")", ";", "SP", ".", "NL">>,
     <<"exit", "(", "1", ")", ";", "SP", "@", "NL">>,
     <<"exit", "(", "1", ")", ";", "SP", "a", "SP", "a", ";", "NL">>,
     <<"exit", "(", "GRAVE", "f", "SP", "1", "GRAVE", ")", ";", "NL">>,
     <<"exit", "(", "BACKSLASH", "a", "BACKSLASH", ")", ";", "NL">>}

MCSources == {x.text : x \in Spellings} \cup Rejected

-----------------------------------------------------------------------------
(* A processor.  Offsets into a file start at 0, sequences at 1.             *)

Byte(f, at) == f[at + 1]
Bytes(f, at, n) == SubSeq(f, at + 1, at + n)
Bit(n, b) == (n \div 2^b) % 2
Low24(bytes) == bytes[1] + 256 * (bytes[2] + 256 * bytes[3])

(* The instruction at an offset: the register field of a byte has three bits *)
(* and its fourth in the prefix, bit 2 for the second operand of the two and *)
(* bit 0 for the first.                                                      *)
Instruction(f, at) ==
    LET rex == Byte(f, at)
        code == Byte(f, at + 1)
        modrm == Byte(f, at + 2)
        rm == (modrm % 8) + 8 * Bit(rex, 0)
        reg == ((modrm \div 8) % 8) + 8 * Bit(rex, 2)
        Ins(op, dst, size) == [op |-> op, dst |-> dst, src |-> -1, imm |-> <<>>, size |-> size]
        Extended(imm) == imm \o [x \in 1..4 |-> IF imm[4] >= 128 THEN 255 ELSE 0]
        prefixed == rex \in 72..79 /\ Bit(rex, 1) = 0
        direct == modrm \div 64 = 3
    IN  CASE rex = 15 /\ code = 5 -> Ins("syscall", -1, 2)
          [] prefixed /\ code \in {1, 41, 137} /\ direct ->
                [Ins(CASE code = 1 -> "ADD" [] code = 41 -> "SUB" [] OTHER -> "mov", rm, 3)
                    EXCEPT !.src = reg]
          [] prefixed /\ code = 129 /\ direct /\ reg \in {0, 5} ->
                [Ins(IF reg = 0 THEN "ADD" ELSE "SUB", rm, 7)
                    EXCEPT !.imm = Extended(Bytes(f, at + 3, 4))]
          [] prefixed /\ code \in 184..191 ->
                [Ins("mov", code - 184 + 8 * Bit(rex, 0), 10) EXCEPT !.imm = Bytes(f, at + 2, 8)]
          [] OTHER -> Ins("fault", -1, 1)

(* Where the instructions of a file begin, the end of the file included. *)
Offsets(f) ==
    LET upTo[n \in 0..Len(f)] ==
            LET before == upTo[n - 1]
                last == before[Len(before)]
            IN  IF n = 0 THEN <<120>>
                ELSE IF last >= Len(f) THEN before
                ELSE Append(before, last + Instruction(f, last).size)
    IN  upTo[(Len(f) - 120) \div 2 + 1]

(* The registers hold terms; nothing is known of them at the start. *)
Processor == [reg |-> [r \in 0..15 |-> <<"INITIAL", r>>], exits |-> FALSE]
Executed(m, ins) ==
    LET operand == IF ins.src = -1 THEN <<"LIT", ins.imm>> ELSE m.reg[ins.src]
    IN  IF m.exits THEN m
        ELSE CASE ins.op = "syscall" -> [m EXCEPT !.exits = TRUE]
               [] ins.op = "mov"     -> [m EXCEPT !.reg[ins.dst] = operand]
               [] OTHER              -> [m EXCEPT !.reg[ins.dst] = <<ins.op, @, operand>>]
Executions(f, entry) ==
    LET from == SelectSeq(Offsets(f), LAMBDA at : at >= entry /\ at < Len(f))
    IN  FoldLeft(LAMBDA m, at : Executed(m, Instruction(f, at)), Processor, from)

-----------------------------------------------------------------------------
(* The status a program exits with, by what it means.                        *)

RECURSIVE Computed(_, _)

(* The term with the numbers in place of the literals. *)
Computed(v, op) ==
    CASE v[1] = "LIT" -> <<"LIT", NumberOf[v[2]]>>
      [] v[1] = "ADD" -> <<op, Computed(v[2], op), Computed(v[3], op)>>

RECURSIVE Computable(_)

(* The binary can know the value, and every number added fits its place. *)
Computable(v) ==
    CASE v[1] = "LIT" -> TRUE
      [] v[1] = "ADD" -> /\ Computable(v[2]) /\ Computable(v[3])
                         /\ v[3] # <<"LIT", "3000000000">>
      [] OTHER -> FALSE

(* The first call of exit behind the entry: a set of one or none. *)
ExitCalls(p) ==
    {calls[1] : calls \in {SelectSeq(M!Meaning(p).events,
                                     LAMBDA e : e[1] = "CALL" /\ e[2] > M!EntryOf(p)
                                                /\ M!Program(p).toks[e[2]].text = "exit")}
                          \ {<<>>}}

-----------------------------------------------------------------------------

(* e_entry, of which the address of the file is the upper part. *)
EntryOffset(f) == Low24(Bytes(f, 24, 3)) - 4194304

(* A program that ends in a call of exit makes a binary that exits with that *)
(* argument: through names, nested sums, registers whose number has a fourth *)
(* bit, every base of a literal, and from the scope that is marked as the    *)
(* entry, wherever it stands.  All variables are written once and behind the *)
(* entry.                                                                    *)
BinaryExits ==
    phase = "success" =>
        \A s \in {x \in Spellings : x.text = text} : \A call \in ExitCalls(s.program) :
            Len(call[3]) = 1 /\ Computable(call[3][1]) =>
                \A end \in {Executions(file, EntryOffset(file))} :
                    /\ end.exits
                    /\ end.reg[0] = <<"LIT", <<60, 0, 0, 0, 0, 0, 0, 0>>>>
                    /\ end.reg[7] = Computed(call[3][1], s.op)

(* The header describes the file that was written: one segment that is the   *)
(* whole file, and an entry at the first instruction of the quadruples of    *)
(* the marked scope, or at the first of all.                                 *)
InstructionsOf(q) ==
    CASE q.op = "MOVE" -> 1 [] Sums(q) -> 2 [] Exits(q) -> 3 [] OTHER -> 0
QuadsBeforeEntry ==
    LET marked == {p \in DOMAIN tac : Marks(tac[p]) /\ tac[p].node = offset_entry}
    IN  IF marked = {} THEN <<>> ELSE SubSeq(tac, 1, CHOOSE p \in marked : TRUE)
HeaderDescribesFile ==
    writing = "whole" =>
        LET Field(at) == Low24(Bytes(file, at, 3))
            before == FoldLeft(LAMBDA n, q : n + InstructionsOf(q), 0, QuadsBeforeEntry)
        IN  /\ Field(96) = Len(file) /\ Field(104) = Len(file)
            /\ Field(32) = 64 /\ Field(72) = 0 /\ Field(80) = 4194304
            /\ EntryOffset(file) = Offsets(file)[before + 1]

(* The processor reads of every instruction the operation, the registers and *)
(* the number it was written for, whichever of the sixteen registers.        *)
EncodingsDecode ==
    phase = "source" =>
        LET Reads(bytes, op, dst, src, imm) ==
                Instruction(bytes, 0) =
                    [op |-> op, dst |-> dst, src |-> src, imm |-> imm, size |-> Len(bytes)]
            imm == NumberOf["70000"]
        IN  \A dst \in 0..15 :
                /\ Reads(MovImm(dst, NumberOf["3000000000"]), "mov", dst, -1, NumberOf["3000000000"])
                /\ Reads(AluImm(Alu("+").digit, dst, imm), "ADD", dst, -1, imm)
                /\ Reads(AluImm(Alu("-").digit, dst, imm), "SUB", dst, -1, imm)
                /\ \A src \in 0..15 :
                      /\ Reads(MovReg(dst, src), "mov", dst, src, <<>>)
                      /\ Reads(RegReg(Alu("+").opcode, dst, src), "ADD", dst, src, <<>>)
                      /\ Reads(RegReg(Alu("-").opcode, dst, src), "SUB", dst, src, <<>>)

=============================================================================

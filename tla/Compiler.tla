------------------------------ MODULE Compiler -------------------------------
(***************************************************************************)
(* The compiler as src/main.c puts it together: the text goes through the  *)
(* lexer, the parser, the three-address code, the register allocator and   *)
(* the writer of the binary, each of which goes on from what the one       *)
(* before it returned.  The modules of the parts are instantiated here     *)
(* with the variables they share; a part takes its steps in its phase and  *)
(* waits otherwise.                                                        *)
(***************************************************************************)
EXTENDS Binary, FiniteSets

CONSTANTS
    Names, Numbers, HexWords, Underscored, Junk, WordLength, \* as in Lexer
    Sources,        \* the texts that are compiled
    MaxNodes,       \* bound on the nodes of a forest
    CountSpilled    \* bound on the spilled slots

ASSUME CompilerAssumption ==
    /\ MaxNodes \in Nat
    /\ CountSpilled \in Nat

VARIABLES
    phase,                                              \* where main is
    lexPc, lexEnd, opened, quoted, nest, scanned, skipped,
    length, parsePc, parseI, contexts, operators, buffer, decl, parseDropped,
    tacPc, start_subtree, stack, entries, watermarks, count_param, prototype,
    expI, expEnd, expDst, operands, tacDropped,
    regPc, regI, regK, quadCount, seen, ranges, poolReg, poolStack, active

lexing == <<text, lexPc, lexEnd, opened, quoted, lexed, nest, scanned, skipped>>
forest == <<tokens, length, nodes>>
parsing == <<parsePc, parseI, contexts, operators, buffer, decl, parseDropped>>
walking == <<tacPc, start_subtree, stack, entries, watermarks, tac, offset_entry, count_param,
             prototype, expI, expEnd, expDst, operands, tacDropped>>
allocating == <<regPc, regI, regK, quadCount, seen, lifetimes, ranges, poolReg, poolStack, active>>
vars == <<phase, lexing, forest, parsing, walking, allocating, binaryVars>>

Outcomes == {"success", "failure", "aborted", "undefined"}
Phases == {"source", "lexer", "parser", "tac", "regmap", "files", "binary"} \cup Outcomes

(* A definition whose name starts with Mut is no part of the model: it is   *)
(* the definition it precedes as a plausible mistake would write it.         *)

(* What only the initial states or the types of a part speak of is not       *)
(* needed here.                                                              *)
L == INSTANCE Lexer WITH
        Sources <- {}, pc <- lexPc, end <- lexEnd, tokens <- lexed
P == INSTANCE Parser WITH
        Texts <- {}, Sources <- {}, ScopePrefixes <- {"s", "sc", "sco", "scop", "scope"},
        Blanks <- 0, StackSize <- 1024,
        pc <- parsePc, i <- parseI, dropped <- parseDropped
T == INSTANCE Quadruples WITH
        Forests <- {}, quads <- tac,
        pc <- tacPc, i <- expI, end <- expEnd, dst <- expDst, dropped <- tacDropped
R == INSTANCE RegSlots WITH
        CountReg <- Len(X64), NodeCount <- 2 * MaxNodes,
        Temps <- {2 * n : n \in 1..MaxNodes}, Inputs <- {}, MaxQuads <- 0,
        pc <- regPc, i <- regI, k <- regK, quads <- seen

-----------------------------------------------------------------------------

(* What register.c sees of a quadruple. *)
Seen(q) ==
    [op   |-> CASE q.op \in {"ADD", "MUL"} -> "ALU"
                [] q.op \in {"MOVE", "ARG", "CALL", "PARAM"} -> q.op
                [] OTHER -> "SCOPE",
     dst  |-> Place(q.dst), src1 |-> Place(q.src1), src2 |-> Place(q.src2)]

(* Every part is at its start until main calls it; the number of quadruples  *)
(* is set when they are known.                                               *)
Begin ==
    /\ phase = "source"
    /\ L!Begin
    /\ tokens = <<>> /\ length = 0
    /\ P!Begin
    /\ T!Start
    /\ R!Init
    /\ Unwritten

Init == text \in Sources /\ Begin

(* create_x returned false before anything else, for want of memory, or has  *)
(* begun.                                                                    *)
Enters(x) == phase' \in {x, "failure"}

(* What main makes of a part that has not done its work. *)
Verdict(pc) == IF pc \in {"rejected", "failed"} THEN "failure" ELSE pc

(* An empty source is success. *)
OpenSource ==
    /\ phase = "source"
    /\ IF text = <<>> THEN phase' = "success" ELSE Enters("lexer")
    /\ UNCHANGED <<lexing, forest, parsing, walking, allocating, binaryVars>>

(* create_source closes the file it could not open and writes the sentinel   *)
(* into the content it could not allocate.                                   *)
CannotOpenSource ==
    /\ phase = "source"
    /\ phase' = "undefined"
    /\ UNCHANGED <<lexing, forest, parsing, walking, allocating, binaryVars>>

Lex ==
    /\ phase = "lexer" /\ lexPc \notin L!Outcomes
    /\ L!Next
    /\ UNCHANGED <<phase, forest, parsing, walking, allocating, binaryVars>>

(* The parser, and the printer of tokens before it, read every token. *)
Lexed ==
    /\ phase = "lexer" /\ lexPc \in L!Outcomes
    /\ IF lexPc # "accepted" THEN phase' = Verdict(lexPc) /\ UNCHANGED forest
       ELSE IF ~L!Written THEN phase' = "undefined" /\ UNCHANGED forest
       ELSE /\ Enters("parser")
            /\ tokens' = [n \in DOMAIN lexed |->
                             [kind |-> L!KindOf(lexed[n]), text |-> L!At(lexed[n].start)]]
            /\ length' = L!Length
            /\ UNCHANGED nodes
    /\ UNCHANGED <<lexing, parsing, walking, allocating, binaryVars>>

Parse ==
    /\ phase = "parser" /\ parsePc \notin P!Outcomes
    /\ P!Next
    /\ UNCHANGED <<phase, lexing, walking, allocating, binaryVars>>

(* The printer of the tree, if it has memory: it prints the last node, which *)
(* must not be the null node, and takes the children of a node from a stack  *)
(* of the trees before it.                                                   *)
TreesBefore ==
    LET upTo[n \in 1..(Len(nodes) + 1)] ==
            IF n = 1 THEN 0 ELSE upTo[n - 1] - nodes[n - 1].arity + 1
    IN  upTo
Printed ==
    IF nodes = <<>> THEN "aborted"
    ELSE IF \E n \in DOMAIN nodes : TreesBefore[n] < nodes[n].arity THEN "undefined"
    ELSE "tac"

MutParsed ==
    /\ phase = "parser" /\ parsePc \in P!Outcomes
    /\ phase' \in {"tac", "failure", Printed}
    /\ UNCHANGED <<lexing, forest, parsing, walking, allocating, binaryVars>>

Parsed ==
    /\ phase = "parser" /\ parsePc \in P!Outcomes
    /\ IF parsePc = "accepted" THEN phase' \in {"tac", "failure", Printed}
       ELSE phase' = Verdict(parsePc)
    /\ UNCHANGED <<lexing, forest, parsing, walking, allocating, binaryVars>>

Walk ==
    /\ phase = "tac" /\ tacPc \notin T!Outcomes
    /\ T!Next
    /\ UNCHANGED <<phase, lexing, parsing, allocating, binaryVars>>

Walked ==
    /\ phase = "tac" /\ tacPc \in T!Outcomes
    /\ Len(nodes) <= MaxNodes
    /\ IF tacPc = "done" THEN phase' = "regmap" /\ quadCount' = Len(tac)
       ELSE phase' = Verdict(tacPc) /\ UNCHANGED quadCount
    /\ UNCHANGED <<lexing, forest, parsing, walking, binaryVars>>
    /\ UNCHANGED <<regPc, regI, regK, seen, lifetimes, ranges, poolReg, poolStack, active>>

(* The quadruples are read in their order. *)
Allocate ==
    /\ phase = "regmap" /\ regPc \notin {"done", "failed"}
    /\ \/ R!Next
       \/ regI \in DOMAIN tac /\ R!ScanQuad(Seen(tac[regI]))
    /\ UNCHANGED <<phase, lexing, forest, parsing, walking, binaryVars>>

Allocated ==
    /\ phase = "regmap" /\ regPc \in {"done", "failed"}
    /\ phase' = IF regPc = "done" THEN "files" ELSE Verdict(regPc)
    /\ UNCHANGED <<lexing, forest, parsing, walking, allocating, binaryVars>>

(* create_assembly and create_binary: one of the files may not open. *)
OpenFiles ==
    /\ phase = "files"
    /\ Enters("binary")
    /\ UNCHANGED <<lexing, forest, parsing, walking, allocating, binaryVars>>

WriteBinary ==
    /\ phase = "binary"
    /\ Emission
    /\ UNCHANGED <<phase, lexing, forest, parsing, walking, allocating>>

Written ==
    /\ phase = "binary" /\ writing \in {"whole", "aborted", "undefined"}
    /\ phase' = IF writing = "whole" THEN "success" ELSE writing
    /\ UNCHANGED <<lexing, forest, parsing, walking, allocating, binaryVars>>

(* The process has ended. *)
Returned == phase \in Outcomes /\ UNCHANGED vars

Next ==
    \/ OpenSource \/ CannotOpenSource
    \/ Lex \/ Lexed
    \/ Parse \/ Parsed
    \/ Walk \/ Walked
    \/ Allocate \/ Allocated
    \/ OpenFiles \/ WriteBinary \/ Written
    \/ Returned

Spec == Init /\ [][Next]_vars

(* One thread, which never waits. *)
FairSpec == Spec /\ WF_vars(Next)

-----------------------------------------------------------------------------

(* The status of the process tells whether there is a new binary: it is      *)
(* success only for an empty source or with a whole file that every part has *)
(* done its work for, and where it is failure the file was not begun, so     *)
(* that a binary of an earlier run is still there.                           *)
StatusTellsBinary ==
    /\ phase = "success" /\ text # <<>> =>
          /\ lexPc = "accepted" /\ parsePc = "accepted" /\ tacPc = "done" /\ regPc = "done"
          /\ writing = "whole"
    /\ phase = "failure" => file = NoFile

(* The compiler ends: what a part returns always lets the next one begin and *)
(* go through, the quadruples of the three-address code the allocator        *)
(* included.                                                                 *)
Terminates == <>(phase \in Outcomes)

=============================================================================

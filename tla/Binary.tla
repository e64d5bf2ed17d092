------------------------------- MODULE Binary --------------------------------
(***************************************************************************)
(* The ELF file of the program: assembly_file_write of                     *)
(* src/src/x64/assembly.c goes over the quadruples and writes the bytes of *)
(* their instructions with the functions of src/src/elf/elf_binary.c.      *)
(* Only assignments, additions, subtractions and calls of `exit` become    *)
(* bytes; parameters, other calls and what is pushed around them are only  *)
(* printed (X64Code is about that listing), and a multiplication or        *)
(* division is nothing at all.                                             *)
(*                                                                         *)
(* One action writes the bytes of one quadruple.                           *)
(***************************************************************************)
EXTENDS Integers, Sequences

CONSTANT Characters     \* the characters of the symbols a literal may have

VARIABLES
    text, lexed,        \* source->content and lexer->tokens, as in Lexer
    nodes, tokens,      \* parser->nodes, and the tokens as in Parser
    tac,                \* the quadruples
    offset_entry,       \* tac->offset_entry
    lifetimes,          \* regslots.lifetimes
    writing,            \* how far the file is
    pos,                \* quadruple of assembly_file_write
    file,               \* the bytes written
    start               \* binary->offset_entry

binaryVars == <<writing, pos, file, start>>

(* A definition whose name starts with Mut is no part of the model: it is   *)
(* the definition it precedes as a plausible mistake would write it.         *)

-----------------------------------------------------------------------------
(* Numbers of several bytes, the lowest first.                               *)

(* The low n bytes of a number that fits the integers of the model. *)
Le(value, n) == [x \in 1..n |-> IF x > 4 THEN 0 ELSE (value \div 256^(x - 1)) % 256]
NoFile == <<>>

(* v * base + d in eight bytes. *)
Scaled(v, base, d) ==
    LET sum[x \in 0..8] == IF x = 0 THEN d * 256 ELSE (sum[x - 1] \div 256) + v[x] * base
    IN  [x \in 1..8 |-> sum[x] % 256]

Digits == <<"0", "1", "2", "3", "4", "5", "6", "7", "8", "9", "A", "B", "C", "D", "E", "F">>
IsDigit(c) == \E d \in DOMAIN Digits : Digits[d] = c
DigitOf(c) == (CHOOSE d \in DOMAIN Digits : Digits[d] = c) - 1

(* The characters of a token. *)
CharactersOf(t) ==
    LET upTo[p \in 0..Len(text)] ==
            IF p < t.start THEN <<>> ELSE upTo[p - 1] \o Characters[text[p]]
    IN  upTo[t.end - 1]

Base(cs) ==
    IF Len(cs) < 2 \/ cs[1] # "0" THEN 10
    ELSE CASE cs[2] = "b" -> 2 [] cs[2] = "o" -> 8 [] cs[2] = "x" -> 16 [] OTHER -> 10

(* lit_to_u64: the digits up to another character, as strings have them; the *)
(* mark between digits is passed over, a digit is not compared with the      *)
(* base, and the value wraps.                                                *)
LitToU64(cs) ==
    LET base == Base(cs)
        first == IF base = 10 THEN 1 ELSE 3
        Counts(x) == \A y \in first..x : IsDigit(cs[y]) \/ cs[y] = "GRAVE"
        value[x \in 0..Len(cs)] ==
            IF x < first THEN Le(0, 8)
            ELSE IF ~IsDigit(cs[x]) \/ ~Counts(x) THEN value[x - 1]
            ELSE CHOOSE w \in {Scaled(v, base, DigitOf(cs[x])) : v \in {value[x - 1]}} : TRUE
    IN  value[Len(cs)]

-----------------------------------------------------------------------------
(* Registers by the numbers of the processor, and instructions.              *)

(* regmap_from_slot_to_physical and regmap_from_physical_to_x64: rbx, r12 to *)
(* r15, r11 to r8, rsi, rdi, rcx, rdx, rax.                                  *)
X64 == <<3, 12, 13, 14, 15, 11, 10, 9, 8, 6, 7, 1, 2, 0>>
Rax == 0
Rdi == 7

MutRex(reg, rm) == 72 + (IF reg >= 8 THEN 1 ELSE 0) + (IF rm >= 8 THEN 4 ELSE 0)

(* 0x48 and the high bits of both registers. *)
Rex(reg, rm) == 72 + (IF reg >= 8 THEN 4 ELSE 0) + (IF rm >= 8 THEN 1 ELSE 0)
ModRM(rm, reg) == 3 * 64 + (reg % 8) * 8 + (rm % 8)

RegReg(opcode, dst, src) == <<Rex(src, dst), opcode, ModRM(dst, src)>>
MovReg(dst, src) == RegReg(137, dst, src)
MovImm(dst, imm) == <<Rex(0, dst), 184 + (dst % 8)>> \o imm
AluImm(digit, dst, imm) == <<Rex(0, dst), 129, ModRM(dst, digit)>> \o SubSeq(imm, 1, 4)
Syscall == <<15, 5>>

(* Opcode and digit of an addition and of a subtraction. *)
Alu(op) == IF op = "-" THEN [opcode |-> 41, digit |-> 5] ELSE [opcode |-> 1, digit |-> 0]

-----------------------------------------------------------------------------
(* The file.                                                                 *)

Ident == <<127, 69, 76, 70, 2, 1, 1, 0, 0>> \o Le(0, 7)
Address == 4 * 1024 * 1024
CodeStart == 64 + 56
Ehdr == Ident \o Le(2, 2) \o Le(62, 2) \o Le(1, 4) \o Le(Address + CodeStart, 8)
           \o Le(64, 8) \o Le(0, 8) \o Le(0, 4) \o Le(64, 2) \o Le(56, 2) \o Le(1, 2)
           \o Le(0, 2) \o Le(0, 2) \o Le(0, 2)
Phdr == Le(1, 4) \o Le(7, 4) \o Le(0, 8) \o Le(Address, 8) \o Le(Address, 8)
           \o Le(0, 8) \o Le(0, 8) \o Le(0, 8)

(* fseek and a write over what is there. *)
Over(bytes, offset, with) ==
    [x \in DOMAIN bytes |-> IF x - offset \in DOMAIN with THEN with[x - offset] ELSE bytes[x]]

-----------------------------------------------------------------------------
(* The operands of a quadruple.                                              *)

(* RegSlots keeps the names and the temporaries apart: node n as a name is   *)
(* its node 2n - 1 and as a temporary 2n; at most one of them is written.    *)
Place(item) == CASE item.type = "KEY" -> 2 * item.node - 1
                 [] item.type = "TEMP" -> 2 * item.node
                 [] OTHER -> 0
SlotOf(n) ==
    IF 2 * n \notin DOMAIN lifetimes THEN 0
    ELSE lifetimes[IF lifetimes[2 * n - 1].start # 0 THEN 2 * n - 1 ELSE 2 * n].slot.slot

Quadruple == tac[pos]
Items(q) == {q.dst, q.src1, q.src2}

(* The slots of all operands are looked up, those of counts too. *)
InRegisters(q) == \A item \in Items(q) : SlotOf(item.node) \in 0..Len(X64)

Literal(item) == item.type = "LIT"
LitOf(item) == LitToU64(CharactersOf(lexed[nodes[item.node].token]))
HasRegister(item) == item.type \in {"KEY", "TEMP"} /\ SlotOf(item.node) # 0
Register(item) == X64[SlotOf(item.node)]
Loadable(item) == Literal(item) \/ HasRegister(item)
Load(reg, item) == IF Literal(item) THEN MovImm(reg, LitOf(item)) ELSE MovReg(reg, Register(item))

(* assert(imm <= INT32_MAX) *)
Immediate(item) == LET v == LitOf(item) IN SubSeq(v, 5, 8) = Le(0, 4) /\ v[4] < 128

Spelled(q) == tokens[nodes[q.node].token].text
Exits(q) == q.op = "CALL" /\ Spelled(q) = "exit"
Sums(q) == q.op = "ADD"

(* The status `exit` is called with is whatever the quadruple before reads.  *)
NoItem == [type |-> "NO", node |-> 0]
Status == IF pos = 1 THEN NoItem ELSE tac[pos - 1].src1

(* reg_param and saved_caller have six and nine entries. *)
InTables(q) ==
    /\ q.op = "PARAM" => q.src2.node < 6
    /\ q.op = "CALL" => q.src2.node <= 9

Encodable(q) ==
    /\ InRegisters(q)
    /\ q.op = "MOVE" => HasRegister(q.dst) /\ Loadable(q.src1)
    /\ Sums(q) => /\ HasRegister(q.dst) /\ Loadable(q.src1) /\ Loadable(q.src2)
                  /\ Literal(q.src2) => Immediate(q.src2)
    /\ Exits(q) => Loadable(Status)

-----------------------------------------------------------------------------

Unwritten == writing = "no" /\ pos = 1 /\ file = NoFile /\ start = -1

WriteHeader ==
    /\ writing = "no"
    /\ writing' = "code"
    /\ file' = Ehdr \o Phdr
    /\ UNCHANGED <<pos, start>>

At(q) == writing = "code" /\ pos <= Len(tac) /\ q = tac[pos]

Write(q, bytes) ==
    /\ At(q) /\ Encodable(q) /\ InTables(q)
    /\ file' = file \o bytes
    /\ pos' = pos + 1
    /\ UNCHANGED writing

WriteMove(q) ==
    /\ q.op = "MOVE"
    /\ Write(q, Load(Register(q.dst), q.src1))
    /\ UNCHANGED start

WriteSum(q) ==
    /\ Sums(q)
    /\ LET dst == Register(q.dst)
           alu == Alu(Spelled(q))
       IN  Write(q, Load(dst, q.src1)
                    \o IF Literal(q.src2) THEN AluImm(alu.digit, dst, LitOf(q.src2))
                       ELSE RegReg(alu.opcode, dst, Register(q.src2)))
    /\ UNCHANGED start

WriteExit(q) ==
    /\ Exits(q)
    /\ Write(q, Load(Rdi, Status) \o MovImm(Rax, Le(60, 8)) \o Syscall)
    /\ UNCHANGED start

MutMarks(q) == q.op \in {"SCOPE", "SCOPE_START", "SCOPE_START_PAL"}

Marks(q) == q.op \in {"SCOPE", "SCOPE_START", "SCOPE_START_LAB", "SCOPE_START_PAL"}

WriteMark(q) ==
    /\ Marks(q)
    /\ Write(q, <<>>)
    /\ start' = IF q.node = offset_entry THEN Len(file) ELSE start

(* The loop goes on with the next quadruple before it looks at an argument.  *)
WriteNothing(q) ==
    /\ q.op # "MOVE" /\ ~Sums(q) /\ ~Exits(q) /\ ~Marks(q)
    /\ At(q) /\ InTables(q)
    /\ q.op # "ARG" => InRegisters(q)
    /\ pos' = pos + 1
    /\ UNCHANGED <<writing, file, start>>

(* The assertions of x64_mapping.c and on the size of an operand. *)
AbortWriting(q) ==
    /\ At(q) /\ InTables(q)
    /\ q.op # "ARG" /\ ~Encodable(q)
    /\ writing' = "aborted"
    /\ UNCHANGED <<pos, file, start>>

(* The name of the register is read behind the table. *)
ReadBehindTable(q) ==
    /\ At(q) /\ ~InTables(q)
    /\ writing' = "undefined"
    /\ UNCHANGED <<pos, file, start>>

MutWriteEnd ==
    /\ writing = "code" /\ pos > Len(tac)
    /\ writing' = "whole"
    /\ file' = LET sized == Over(file, 96, Le(Len(file), 8) \o Le(Len(file), 8))
               IN  IF start = -1 THEN sized ELSE Over(sized, 24, Le(start, 8))
    /\ UNCHANGED <<pos, start>>

(* binary_x64_elf_terminate *)
WriteEnd ==
    /\ writing = "code" /\ pos > Len(tac)
    /\ writing' = "whole"
    /\ file' = LET sized == Over(file, 96, Le(Len(file), 8) \o Le(Len(file), 8))
               IN  IF start = -1 THEN sized ELSE Over(sized, 24, Le(Address + start, 8))
    /\ UNCHANGED <<pos, start>>

Emission ==
    \/ WriteHeader \/ WriteEnd
    \/ \E q \in {tac[x] : x \in {pos} \cap DOMAIN tac} :
          \/ WriteMove(q) \/ WriteSum(q) \/ WriteExit(q) \/ WriteMark(q) \/ WriteNothing(q)
          \/ AbortWriting(q) \/ ReadBehindTable(q)

=============================================================================

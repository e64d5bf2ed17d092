------------------------------ MODULE X64Code -------------------------------
(***************************************************************************)
(* The code src/src/x64/assembly.c lists for the quadruples, with the      *)
(* registers src/src/x64/x64_mapping.c reads off the lifetimes RegSlots    *)
(* computed, and what the machine registers hold while that code runs: one *)
(* action emits and executes the instructions of one quadruple, from the   *)
(* first to the last, as one activation without jumps.                     *)
(*                                                                         *)
(* Of this listing only assignments, additions, subtractions and the call  *)
(* of `exit` become bytes of the file, which Binary is about.              *)
(*                                                                         *)
(* `env` is what the program means: the value each node has.  A value is   *)
(* the quadruple that made it, so that two values are equal only when one  *)
(* was copied from the other.                                              *)
(***************************************************************************)
EXTENDS RegSlots

CONSTANTS
    SavedCaller,    \* saved_caller: the registers a call may destroy, in order;
                    \* the first ones also carry the arguments of a call
    ParamCount      \* length of reg_param, a prefix of saved_caller

(* A register is in saved_caller once.  A parameter is in no register that   *)
(* is given out before all the parameters are: rbx, r12 to r15 and r11 come  *)
(* first, and reg_param has six entries.                                     *)
ASSUME X64Assumption ==
    /\ SavedCaller \in Seq(Regs)
    /\ \A x, y \in 1..Len(SavedCaller) : SavedCaller[x] = SavedCaller[y] => x = y
    /\ ParamCount \in 1..Len(SavedCaller)
    /\ \A c \in 1..ParamCount : SavedCaller[c] >= c

VARIABLES
    emission,       \* "no", "running", "finished", "aborted" or "undefined"
    pos,            \* quadruple of assembly_file_write
    regs,           \* what the machine registers hold; 0 is Reg_NO
    env             \* the value of each node

xVars == <<emission, pos, regs, env>>
allVars == <<vars, xVars>>

Undefined == 0
Junk == -1

CallerSaved == {SavedCaller[x] : x \in 1..Len(SavedCaller)}

(* The return value comes back in the last register of saved_caller, rax.   *)
Rax == SavedCaller[Len(SavedCaller)]

(* regmap_from_slot_to_physical(slot.slot): the spilled flag is not looked  *)
(* at, slot 0 is Reg_NO and a slot beyond the registers is an assertion.    *)
Physical(n) == lifetimes[n].slot.slot

Machine == 0..CountReg

Quadruple == quads[pos]

Nodes2(q) == {q.src1, q.src2, q.dst} \ {NoItem}

(* regmap_from_physical_to_x64 and regmap_from_slot_to_physical assert that *)
(* the operands of the instructions they encode have a register.  ARG,      *)
(* PARAM, CALL and SCOPE quadruples are only printed, which looks a slot up *)
(* but encodes nothing.  A literal that is assigned to has none.            *)
Encodable(q) ==
    /\ \A n \in Nodes2(q) : Physical(n) \in Machine
    /\ q.op \in {"MOVE", "ALU"} =>
          q.dst # NoItem /\ \A n \in Nodes2(q) : Physical(n) # 0

(* The place of a PARAM in its run of parameters. *)
ParamIndex ==
    Cardinality({p \in 1..pos : \A p2 \in p..pos : quads[p2].op = "PARAM"})

(* The ARG quadruples of the call at pos. *)
Arity == Cardinality({p \in 1..(pos - 1) : \A p2 \in p..(pos - 1) : quads[p2].op = "ARG"})
MutArgument(c) == pos - Arity + c
Argument(c) == pos - Arity - 1 + c

(* reg_param[] and saved_caller[] are read without a look at their length.  *)
InTables(q) ==
    /\ q.op = "PARAM" => ParamIndex <= ParamCount
    /\ q.op = "CALL" => Arity <= Len(SavedCaller)

(* The value of an operand: a literal is the quadruple that holds it.       *)
Operand(state, n, p) == IF n = NoItem THEN p ELSE state[Physical(n)]
Meaning(n, p) == IF n = NoItem THEN p ELSE env[n]

XInit ==
    /\ Init
    /\ emission = "no"
    /\ pos = 0
    /\ regs = [r \in Machine |-> Undefined]
    /\ env = [n \in Nodes |-> Undefined]

Allocate ==
    /\ Next
    /\ emission = "no"
    /\ UNCHANGED xVars

Begin ==
    /\ pc = "done"
    /\ emission = "no"
    /\ emission' = "running"
    /\ pos' = 1
    /\ UNCHANGED <<vars, regs, env>>

Emit(op) ==
    /\ emission = "running"
    /\ pos <= quadCount
    /\ Quadruple.op = op
    /\ Encodable(Quadruple)
    /\ InTables(Quadruple)
    /\ pos' = pos + 1
    /\ UNCHANGED <<vars, emission>>

Abort ==
    /\ emission = "running"
    /\ pos <= quadCount
    /\ ~Encodable(Quadruple)
    /\ emission' = "aborted"
    /\ UNCHANGED <<vars, pos, regs, env>>

(* What is printed then depends on what lies behind the table. *)
ReadPastTable ==
    /\ emission = "running"
    /\ pos <= quadCount
    /\ ~InTables(Quadruple)
    /\ emission' = "undefined"
    /\ UNCHANGED <<vars, pos, regs, env>>

(* mov dst, src1 *)
EmitMove ==
    /\ Emit("MOVE")
    /\ regs' = [regs EXCEPT ![Physical(Quadruple.dst)] = Operand(regs, Quadruple.src1, pos)]
    /\ env' = [env EXCEPT ![Quadruple.dst] = Meaning(Quadruple.src1, pos)]

(* mov dst, src1 then add or sub dst, src2: the result is the value of this *)
(* quadruple if both instructions found the values the program means.  ALU  *)
(* is an addition or a subtraction here; for a multiplication or a division *)
(* assembly_file_write has no case, and lists nothing.                      *)
EmitAlu ==
    /\ Emit("ALU")
    /\ LET q == Quadruple
           moved == [regs EXCEPT ![Physical(q.dst)] = Operand(regs, q.src1, pos)]
           right == /\ moved[Physical(q.dst)] = Meaning(q.src1, pos)
                    /\ Operand(moved, q.src2, pos) = Meaning(q.src2, pos)
       IN  /\ regs' = [moved EXCEPT ![Physical(q.dst)] = IF right THEN pos ELSE Junk]
           /\ env' = [env EXCEPT ![q.dst] = pos]

(* mov dst, reg_param[c]: the caller left the arguments there when the PAL  *)
(* started, that is before its first parameter.                             *)
EmitParam ==
    /\ Emit("PARAM")
    /\ LET entered == IF ParamIndex > 1 THEN regs
                      ELSE [r \in Machine |->
                               IF \E c \in 1..ParamCount : SavedCaller[c] = r
                               THEN pos - 1 + CHOOSE c \in 1..ParamCount : SavedCaller[c] = r
                               ELSE regs[r]]
       IN  regs' = [entered EXCEPT ![Physical(Quadruple.dst)] = entered[SavedCaller[ParamIndex]]]
    /\ env' = [env EXCEPT ![Quadruple.dst] = pos]

(* An argument is emitted with its call, a scope is no instruction.         *)
EmitNothing ==
    /\ Emit("ARG") \/ Emit("SCOPE")
    /\ UNCHANGED <<regs, env>>

MutPassesThrough(n, p) == lifetimes[n].start < p /\ lifetimes[n].end - 1 > p

(* regmap_caller_saved: the node's lifetime starts before and ends after p. *)
PassesThrough(n, p) == lifetimes[n].start < p /\ lifetimes[n].end > p

Pushed ==
    {r \in CallerSaved : \E n \in Nodes :
        lifetimes[n].start # 0 /\ PassesThrough(n, pos) /\ Physical(n) = r}

(* The argument registers are loaded one after the other.                   *)
Loaded[c \in 0..Len(SavedCaller)] ==
    IF c = 0 THEN regs
    ELSE [Loaded[c - 1] EXCEPT ![SavedCaller[c]] =
             Operand(Loaded[c - 1], quads[Argument(c)].src1, Argument(c))]

(* Push the caller-saved registers in use, load the arguments, call, move   *)
(* rax to the destination and pop what was pushed.  The callee keeps no     *)
(* caller-saved register and returns the value of this quadruple in rax.    *)
EmitCall ==
    /\ Emit("CALL")
    /\ LET returned == [r \in Machine |-> IF r = Rax THEN pos
                                          ELSE IF r \in CallerSaved THEN Junk
                                          ELSE Loaded[Arity][r]]
           moved == [returned EXCEPT ![Physical(Quadruple.dst)] = pos]
       IN  regs' = [r \in Machine |-> IF r \in Pushed THEN regs[r] ELSE moved[r]]
    /\ env' = [env EXCEPT ![Quadruple.dst] = pos]

MutFinished ==
    /\ emission = "running"
    /\ pos > quadCount
    /\ emission' = "finished"
    /\ pos' = pos + 1
    /\ UNCHANGED <<vars, regs, env>>

Finished ==
    /\ emission = "running"
    /\ pos > quadCount
    /\ emission' = "finished"
    /\ UNCHANGED <<vars, pos, regs, env>>

Stopped == emission \in {"finished", "aborted", "undefined"} /\ UNCHANGED allVars

XNext ==
    \/ Allocate
    \/ Begin
    \/ EmitMove \/ EmitAlu \/ EmitParam \/ EmitNothing \/ EmitCall
    \/ Abort \/ ReadPastTable
    \/ Finished
    \/ Stopped

XSpec == XInit /\ [][XNext]_allVars

(* Straight-line code on one thread keeps running. *)
XFairSpec == XSpec /\ WF_allVars(XNext)

-----------------------------------------------------------------------------

XTypeOK ==
    /\ emission \in {"no", "running", "finished", "aborted", "undefined"}
    /\ pos \in 0..(quadCount + 1)
    /\ regs \in [Machine -> Int]
    /\ env \in [Nodes -> 0..quadCount]

(* Every node is written once at most, and before it is read.               *)
WrittenOnce ==
    \A p, p2 \in Definitions : quads[p].dst = quads[p2].dst => p = p2
WrittenBeforeRead ==
    \A p \in DOMAIN quads : \A n \in {quads[p].src1, quads[p].src2} \ {NoItem} :
        \E d \in 1..(p - 1) : quads[d].dst = n
NoSpill == \A n \in Nodes : ~lifetimes[n].slot.spilled

(* One activation: its parameters come before any other code, in one run.    *)
OneActivation ==
    \A p \in DOMAIN quads : quads[p].op = "PARAM" =>
        \A p2 \in 1..(p - 1) :
            quads[p2].op = "PARAM" \/ \A p3 \in 1..p2 : quads[p3].op = "SCOPE"

Straight == WrittenOnce /\ WrittenBeforeRead /\ OneActivation /\ NoSpill

(* What the program needs of the two components together: in one activation *)
(* that writes every node once, before it is read, and spills nothing, each *)
(* operand of the quadruple about to run is still in the register its node  *)
(* was given, across calls, returned values and registers reused for other  *)
(* values.                                                                  *)
OperandsHoldValues ==
    emission = "running" /\ pos <= quadCount /\ Straight =>
        \A n \in {Quadruple.src1, Quadruple.src2} \ {NoItem} :
            env[n] # Undefined /\ regs[Physical(n)] = env[n]

(* The arguments reach their registers: of a call with c arguments, the     *)
(* x-th register of saved_caller holds the x-th of the ARG quadruples right *)
(* before the call, unless that argument lies in a register which an earlier*)
(* argument is loaded into (the loads of assembly.c are not ordered).       *)
ArgumentsArrive ==
    /\ emission = "running" /\ pos <= quadCount /\ Straight
    /\ Quadruple.op = "CALL" /\ InTables(Quadruple)
    => \A p \in (pos - Arity)..(pos - 1) :
          LET n == quads[p].src1
              c == p - (pos - Arity) + 1
              overwritten == {SavedCaller[x] : x \in 1..(c - 1)}
          IN  n = NoItem \/ Physical(n) \notin overwritten
              => Loaded[Arity][SavedCaller[c]] = Meaning(n, p)

(* No register of a value that is read after a call is lost in the call,    *)
(* whatever the program assigns later: if the node's register held its      *)
(* value before the call and the value is read afterwards, it still does.   *)
LiveAcrossCall ==
    [][\A n \in Nodes :
          /\ emission = "running" /\ pos <= quadCount /\ Quadruple.op = "CALL"
          /\ pos' = pos + 1
          /\ \E d \in Definitions : /\ d < pos
                                    /\ quads[d].dst = n
                                    /\ \E p \in Uses(d) : p > pos
          /\ env[n] # Undefined /\ regs[Physical(n)] = env[n]
          => regs'[Physical(n)] = env[n]]_allVars

(* The assertions of x64_mapping.c hold: every operand that is encoded has  *)
(* a register.                                                              *)
NeverAborts == emission # "aborted"

=============================================================================

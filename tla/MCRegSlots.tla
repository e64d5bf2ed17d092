----------------------------- MODULE MCRegSlots -----------------------------
(***************************************************************************)
(* Instances of RegSlots for TLC.                                          *)
(***************************************************************************)
EXTENDS RegSlots

(* create_regslots looks at the operands only and treats src1 and src2      *)
(* alike: CALL, PARAM and SCOPE add nothing to ALU and MOVE, and of two     *)
(* quadruples that differ by the order of their sources one is enough.      *)
Shapes(ops, nodes) ==
    {q \in [op : ops, dst : nodes, src1 : nodes, src2 : nodes] :
        \/ q.src2 = NoItem
        \/ q.op = "ALU" /\ q.src2 < q.src1}

MCInputs == Shapes({"MOVE", "ALU"}, 0..4)

(* All lists of up to four quadruples over three nodes.                      *)
Short(q) == {q.dst, q.src1, q.src2} \subseteq 0..3

(* Lists of five over four nodes: definitions from no value or from two, and *)
(* reads of one, the shapes that keep several values alive.                  *)
Pressing(q) == q.dst = NoItem <=> q.src1 # NoItem /\ q.src2 = NoItem

Tried(q) == IF quadCount < MaxQuads THEN Short(q) ELSE Pressing(q)

MCNext ==
    \/ Create \/ CreateOutOfMemory
    \/ \E q \in Inputs : Tried(q) /\ ScanQuad(q)
    \/ EndScan
    \/ Collect \/ EndCollect
    \/ InsertKey \/ EndSort \/ ActiveOutOfMemory
    \/ Expire \/ KeepActive
    \/ AllocRegister \/ AllocSpilled \/ AllocFails
    \/ Finish
    \/ Returned
MCSpec == Init /\ [][MCNext]_vars

=============================================================================

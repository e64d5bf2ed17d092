----------------------------- MODULE MCX64Code ------------------------------
(***************************************************************************)
(* Instances of X64Code for TLC: three registers of which the last two are *)
(* caller-saved, as rbx, rdi and rax are in the code.                      *)
(***************************************************************************)
EXTENDS X64Code

MCSavedCaller == <<2, 3>>
MCSavedCaller2 == <<2>>

(* The operands each quadruple may have; of two that differ by the order of  *)
(* their sources one is enough.                                              *)
MCInputs ==
    {q \in [op : {"ALU"}, dst : Temps, src1 : Item, src2 : Item] :
        q.src2 = NoItem \/ q.src2 < q.src1}
    \cup [op : {"MOVE"}, dst : Nodes, src1 : Item, src2 : {NoItem}]
    \cup [op : {"CALL"}, dst : Temps, src1 : {NoItem}, src2 : {NoItem}]
    \cup [op : {"PARAM"}, dst : Nodes \ Temps, src1 : {NoItem}, src2 : {NoItem}]
    \cup [op : {"ARG"}, dst : {NoItem}, src1 : Item, src2 : {NoItem}]
    \cup [op : {"SCOPE"}, dst : {NoItem}, src1 : {NoItem}, src2 : {NoItem}]

(* Assignments and calls without arguments are enough to lose a value.      *)
MCFewInputs == {q \in MCInputs : q.op = "CALL" \/ (q.op = "MOVE" /\ q.dst \notin Temps)}

(* Programs that write every node once, before it is read, and take the     *)
(* keys and the temporaries in the order of their nodes: the order of the   *)
(* nodes only decides the order of the pushes, which the sort undoes.       *)
InOrder ==
    \A d \in Definitions : \A n \in 1..(quads[d].dst - 1) :
        (n \in Temps <=> quads[d].dst \in Temps) =>
            \E d2 \in 1..(d - 1) : quads[d2].dst = n

MCNext == XNext /\ WrittenOnce' /\ WrittenBeforeRead' /\ InOrder' /\ OneActivation'
MCSpec == XInit /\ [][MCNext]_allVars

=============================================================================

--------------------------- MODULE SlotAssignment ---------------------------
(***************************************************************************)
(* What the slot allocator promises, without its arrays, its order and its *)
(* pool: it is given a set of live ranges and either gives every one of    *)
(* them a slot that no range alive at the same time has, or refuses, and   *)
(* it refuses a set of ranges only when some range starts where every slot *)
(* is taken.                                                               *)
(***************************************************************************)
EXTENDS Integers

CONSTANT Slots      \* the registers and the spilled slots

VARIABLES
    verdict,        \* "none" before the ranges are known
    values,         \* the live ranges
    slotOf          \* the slots given so far

sVars == <<verdict, values, slotOf>>

LiveRanges == [start : Nat, end : Nat, node : Nat]
EmptyFunction == [v \in {} |-> {}]

AliveAt(v, p) == v.start <= p /\ p <= v.end
Conflict(v, w) == AliveAt(v, w.start) \/ AliveAt(w, v.start)

SInit ==
    /\ verdict = "none"
    /\ values = {}
    /\ slotOf = EmptyFunction

Submit ==
    /\ verdict = "none"
    /\ verdict' = "open"
    /\ values' \in SUBSET LiveRanges
    /\ slotOf' = slotOf

(* No memory to work with: nothing was assigned yet. *)
Abandon ==
    /\ verdict = "none"
    /\ verdict' = "refused"
    /\ UNCHANGED <<values, slotOf>>

Give(v, s) ==
    /\ verdict = "open"
    /\ v \in values \ DOMAIN slotOf
    /\ \A w \in DOMAIN slotOf : Conflict(v, w) => slotOf[w] # s
    /\ slotOf' = [w \in DOMAIN slotOf \cup {v} |-> IF w = v THEN s ELSE slotOf[w]]
    /\ UNCHANGED <<verdict, values>>

Accept ==
    /\ verdict = "open"
    /\ DOMAIN slotOf = values
    /\ verdict' = "assigned"
    /\ UNCHANGED <<values, slotOf>>

Refuse ==
    /\ verdict = "open"
    /\ \E v \in values \ DOMAIN slotOf : \A s \in Slots :
          \E w \in DOMAIN slotOf : slotOf[w] = s /\ AliveAt(w, v.start)
    /\ verdict' = "refused"
    /\ values' = {}
    /\ slotOf' = EmptyFunction

SNext ==
    \/ Submit
    \/ Abandon
    \/ \E v \in values, s \in Slots : Give(v, s)
    \/ Accept
    \/ Refuse

SSpec == SInit /\ [][SNext]_sVars

=============================================================================

------------------------------ MODULE Meanings ------------------------------
(***************************************************************************)
(* What a program of Programs does: the stores, calls and scopes it goes   *)
(* through from the first token to the last, with every name resolved and  *)
(* every value computed.  It is the reference Quadruples is checked        *)
(* against, written on the trees and independent of how the forest is      *)
(* walked.  A declaration is known by the token of its name, a value by    *)
(* the term that makes it, a call by its token.                            *)
(***************************************************************************)
EXTENDS Programs

Last(s) == s[Len(s)]

(* The names that are visible, the innermost last: <<name, token>>.          *)
Visible(env, name) == {x \in DOMAIN env : env[x][1] = name}
Resolve(env, name) ==
    LET found == Visible(env, name)
    IN  IF found = {} THEN 0
        ELSE env[CHOOSE x \in found : \A y \in found : y <= x][2]

(* What was done so far: what each declaration holds, what happened, and     *)
(* whether every name that was used was visible.                             *)
State == [held |-> <<>>, events |-> <<>>, resolved |-> TRUE]
Happen(s, event) == [s EXCEPT !.events = Append(@, event)]

Held(s, t) == IF \E x \in DOMAIN s.held : s.held[x][1] = t
              THEN LET stores == SelectSeq(s.held, LAMBDA h : h[1] = t) IN Last(stores)[2]
              ELSE <<"INITIAL", t>>
Hold(s, t, v) == [s EXCEPT !.held = Append(@, <<t, v>>)]
Store(s, t, v) == Happen(Hold(s, t, v), <<"STORE", t, v>>)

(* A value is used: that of a name which is not visible must not be.         *)
Unknown == <<"UNKNOWN">>
Use(s, values) ==
    [s EXCEPT !.resolved = @ /\ \A x \in DOMAIN values : values[x] # Unknown]

RECURSIVE Inner(_)
Inner(e) == IF e[1] = "PAREN" THEN Inner(e[2]) ELSE e

RECURSIVE Evaluated(_, _, _, _), EvaluatedAll(_, _, _, _, _)

(* The expression e at `at`: its value and the state behind it. *)
Evaluated(e, at, env, s) ==
    CASE e[1] = "LIT" -> <<<<"LIT", e[2]>>, s>>
      [] e[1] = "KEY" ->
            LET t == Resolve(env, e[2]) IN <<IF t = 0 THEN Unknown ELSE Held(s, t), s>>
      [] e[1] = "PAREN" -> Evaluated(e[2], at + 1, env, s)
      [] e[1] = "CALL" ->
            LET args == EvaluatedAll(e[3], 1, at + 2, env, s)
            IN  <<<<"RESULT", at>>,
                  Happen(Use(args[2], args[1]), <<"CALL", at, args[1]>>)>>
      [] e[1] = "ASSIGN" ->
            LET t == Resolve(env, Inner(e[2])[2])
                right == Evaluated(e[3], After(at, Exp(e[2], at)) + 1, env, s)
                used == Use(right[2], <<right[1], IF t = 0 THEN Unknown ELSE <<>>>>)
            IN  <<right[1], Store(used, t, right[1])>>
      [] OTHER ->
            LET left == Evaluated(e[2], at, env, s)
                right == Evaluated(e[3], After(at, Exp(e[2], at)) + 1, env, left[2])
            IN  <<<<e[1], left[1], right[1]>>, Use(right[2], <<left[1], right[1]>>)>>

(* The arguments from the n-th on, from left to right. *)
EvaluatedAll(args, n, at, env, s) ==
    IF n > Len(args) THEN <<<<>>, s>>
    ELSE LET start == IF n > 1 THEN at + 1 ELSE at
             first == Evaluated(args[n], start, env, s)
             others == EvaluatedAll(args, n + 1, After(start, Exp(args[n], start)), env, first[2])
         IN  <<<<first[1]>> \o others[1], others[2]>>

RECURSIVE Done(_, _, _, _, _)

(* The instructions of a body from the n-th on. *)
Done(body, n, at, env, s) ==
    IF n > Len(body) THEN s
    ELSE LET ins == body[n]
             next == After(at, Instruction(ins, at))
             Named(name, t) == Append(env, <<name, t>>)
         IN  CASE ins[1] = "EXP" -> Done(body, n + 1, next, env, Evaluated(ins[2], at, env, s)[2])
               [] ins[1] = "VAR" ->
                     (* The name is visible in its own value. *)
                     LET known == Named(ins[2], at + 1)
                         v == Evaluated(ins[4][1], at + 3 + (IF ins[5] THEN 1 ELSE 0), known, s)
                     IN  Done(body, n + 1, next, known,
                              IF ins[4] = <<>> THEN s
                              ELSE Store(Use(v[2], <<v[1]>>), at + 1, v[1]))
               [] ins[1] = "LAB" ->
                     LET known == Named(ins[2], at + 1)
                         inside == Done(ins[3][1], 1, at + 4, known,
                                        Happen(s, <<"SCOPE_START_LAB", at + 1>>))
                     IN  Done(body, n + 1, next, known,
                              IF ins[3] = <<>> THEN Happen(s, <<"SCOPE", at + 1>>)
                              ELSE Happen(inside, <<"SCOPE_END_LAB">>))
               [] ins[1] = "PAL" ->
                     LET known == Named(ins[2], at + 1)
                         open == at + 2 + Len(ins[3])
                         Param(x) == open + 1 + 3 * (x - 1)
                         params == DOMAIN ins[4]
                         env2 == known \o [x \in params |-> <<ins[4][x][1], Param(x)>>]
                         entered ==
                             [Happen(s, <<"SCOPE_START_PAL", at + 1>>) EXCEPT
                                 !.events = @ \o [x \in params |-> <<"PARAM", Param(x), x - 1>>],
                                 !.held = @ \o [x \in params |-> <<Param(x), <<"PARAM", x - 1>>>>]]
                         scope == After(open, Parameters(ins[4], ins[5], open))
                     IN  Done(body, n + 1, next, known,
                              IF ins[6] = <<>> THEN Happen(s, <<"PAL", at + 1>>)
                              ELSE Happen(Done(ins[6][1], 1, scope + 1, env2, entered),
                                          <<"SCOPE_END_PAL">>))
               [] ins[1] = "BLOCK" ->
                     Done(body, n + 1, next, env,
                          Happen(Done(ins[2], 1, at + 1, env, Happen(s, <<"SCOPE_START">>)),
                                 <<"SCOPE_END">>))
               [] OTHER -> Done(body, n + 1, next, env, s)

(* What the whole program does. *)
Meaning(program) == Done(program, 1, 1, <<>>, State)

-----------------------------------------------------------------------------
(* The programs whose meaning the order of evaluation does not decide.       *)

RECURSIVE Assigned(_), Late(_), Undisturbed(_)

(* The names an expression assigns to. *)
Assigned(e) ==
    CASE e[1] \in {"KEY", "LIT", "NONE"} -> {}
      [] e[1] = "PAREN" -> Assigned(e[2])
      [] e[1] = "CALL" -> UNION {Assigned(e[3][x]) : x \in DOMAIN e[3]}
      [] OTHER -> Assigned(e[2]) \cup Assigned(e[3])
                  \cup (IF e[1] = "ASSIGN" /\ Inner(e[2])[1] = "KEY" THEN {Inner(e[2])[2]} ELSE {})

(* The names an operand still stands for when its operator is reached: the   *)
(* value of an assignment is what stands on its right.                       *)
Late(e) ==
    CASE e[1] = "KEY" -> {e[2]}
      [] e[1] = "PAREN" -> Late(e[2])
      [] e[1] = "ASSIGN" -> Late(e[3])
      [] OTHER -> {}

(* Only names are assigned to, nothing is missing, and no operand is a name  *)
(* that a later operand of the same operator or call assigns to.             *)
Undisturbed(e) ==
    CASE e[1] \in {"KEY", "LIT"} -> TRUE
      [] e[1] \in {"NONE", "BESIDE"} -> FALSE
      [] e[1] = "PAREN" -> Undisturbed(e[2])
      [] e[1] = "CALL" ->
            \A x \in DOMAIN e[3] :
                /\ Undisturbed(e[3][x])
                /\ \A y \in (x + 1)..Len(e[3]) : Late(e[3][x]) \cap Assigned(e[3][y]) = {}
      [] e[1] = "ASSIGN" -> Inner(e[2])[1] = "KEY" /\ Undisturbed(e[3])
      [] OTHER -> /\ Undisturbed(e[2]) /\ Undisturbed(e[3])
                  /\ Late(e[2]) \cap Assigned(e[3]) = {}

RECURSIVE Meaningful(_)
Meaningful(body) ==
    \A n \in DOMAIN body :
        CASE body[n][1] = "EXP" -> Undisturbed(body[n][2])
          [] body[n][1] = "VAR" -> body[n][4] = <<>> \/ Undisturbed(body[n][4][1])
          [] body[n][1] = "BLOCK" -> Meaningful(body[n][2])
          [] body[n][1] = "LAB" -> body[n][3] = <<>> \/ Meaningful(body[n][3][1])
          [] body[n][1] = "PAL" -> body[n][6] = <<>> \/ Meaningful(body[n][6][1])
          [] OTHER -> TRUE

-----------------------------------------------------------------------------
(* Where a program starts.                                                   *)

HasEntry(ins) == ins[1] \in {"BLOCK", "LAB"} \/ (ins[1] = "PAL" /\ ins[6] # <<>>)
MarksEntry(ins) == ins[1] = "QUALIFIERS" /\ Last(ins[2]) = "entry"

RECURSIVE Entries(_, _, _)

(* The tokens of the scopes and declarations right behind an [entry]. *)
Entries(body, n, at) ==
    IF n > Len(body) THEN <<>>
    ELSE LET ins == body[n]
             here == IF n > 1 /\ MarksEntry(body[n - 1]) /\ HasEntry(ins) THEN <<at>> ELSE <<>>
             inside ==
                CASE ins[1] = "BLOCK" -> Entries(ins[2], 1, at + 1)
                  [] ins[1] = "LAB" /\ ins[3] # <<>> -> Entries(ins[3][1], 1, at + 4)
                  [] ins[1] = "PAL" /\ ins[6] # <<>> ->
                        LET open == at + 2 + Len(ins[3])
                        IN  Entries(ins[6][1], 1, After(open, Parameters(ins[4], ins[5], open)) + 1)
                  [] OTHER -> <<>>
         IN  here \o inside \o Entries(body, n + 1, After(at, Instruction(ins, at)))

(* The last one counts; 0 where there is none. *)
EntryOf(program) == LET found == Entries(program, 1, 1) IN IF found = <<>> THEN 0 ELSE Last(found)

=============================================================================

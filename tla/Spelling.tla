------------------------------ MODULE Spelling ------------------------------
(***************************************************************************)
(* How the tokens of a program of Programs are written as a text of Lexer: *)
(* with as few blanks as possible, with one between any two tokens, or     *)
(* with comments between them.                                             *)
(***************************************************************************)
EXTENDS Programs

Joined(f) == LET upTo[n \in 0..Len(f)] == IF n = 0 THEN <<>> ELSE upTo[n - 1] \o f[n]
             IN  upTo[Len(f)]

Symbol == [x \in {"ADD", "MUL", "ASSIGN"} |-> CASE x = "ADD" -> "+" [] x = "MUL" -> "*" [] x = "ASSIGN" -> "="]

(* What token n of the list ts is written as. *)
Spelling(ts, n) ==
    LET kind == ts[n].kind
        Kind(m) == IF m \in DOMAIN ts THEN ts[m].kind ELSE "NO"
    IN  CASE kind \in {"TYPE", "TSCOPE"}         -> <<":", ts[n].text>>
          [] kind = "TLPAR" /\ Kind(n - 1) # "TYPE" -> <<":", "(">>
          [] kind \in DOMAIN Symbol              -> <<IF ts[n].text = "-" THEN "-" ELSE Symbol[kind]>>
          [] ts[n].text = "2_1_2"                -> <<"2", "GRAVE", "1", "GRAVE", "2">>
          [] kind = "Q" -> (IF Kind(n - 1) # "Q" THEN <<"[">> ELSE <<>>)
                           \o <<ts[n].text>>
                           \o (IF Kind(n + 1) # "Q" THEN <<"]">> ELSE <<>>)
          [] OTHER                               -> <<ts[n].text>>

(* Nothing may come between a declared name and its lock, and something must *)
(* between a parameter, which is a key, and its lock; words, qualifiers and  *)
(* the period of a scope must have a blank behind them.                      *)
Tight == {"TYPE", "TSCOPE", "TLPAR"}
Loose(ts, n) ==
    \/ "Q" \in {ts[n].kind, ts[n + 1].kind}
    \/ ts[n].kind = "PERIOD"
    \/ ts[n].kind = "KEY" /\ ts[n + 1].kind = "TYPE"
    \/ /\ ts[n].kind \in {"KEY", "LIT", "TYPE", "TSCOPE", "SCOPE", "MOD"}
       /\ ts[n + 1].kind \in {"KEY", "LIT", "SCOPE", "MOD"}
BetweenQualifiers(ts, n) == ts[n].kind = "Q" /\ ts[n + 1].kind = "Q"

Gap(style, ts, n) ==
    IF n = Len(ts) THEN IF style = "dense" THEN <<>> ELSE <<"NL">>
    ELSE IF ts[n + 1].kind \in Tight /\ ts[n].kind # "KEY" THEN <<>>
    ELSE CASE style = "dense"  -> IF Loose(ts, n) THEN <<"SP">> ELSE <<>>
           [] style = "spaced" -> <<"SP">>
           [] style = "commented" ->
                 IF BetweenQualifiers(ts, n) THEN <<"NL">>
                 ELSE <<"SP", "|", "-", "-", "(", "-", "-", "|", "SP", "!", "-", "-", "GRAVE", "NL">>

Spelled(style, ts) == Joined([n \in DOMAIN ts |-> Spelling(ts, n) \o Gap(style, ts, n)])

=============================================================================

-------------------------------- MODULE Lexer --------------------------------
(***************************************************************************)
(* The lexer of src/src/lexer: lexer_scan_errors goes over the text once,  *)
(* to see whether delimiters, literals and colons are well formed, and     *)
(* create_lexer goes over it again to make the tokens.  Each pass has its  *)
(* own idea of where a comment or a string ends.                           *)
(*                                                                         *)
(* A text is a sequence of symbols: a special character, a blank, or a     *)
(* word, the longest run of other characters.  lexer_get_next_word moves   *)
(* by one symbol, so positions count symbols; NUL stands at both ends.     *)
(* One action is one turn of a loop.                                       *)
(***************************************************************************)
EXTENDS Integers, Sequences, FiniteSetsExt

CONSTANTS
    Names,      \* words that are a letter, letters, digits and underscores
    Numbers,    \* words that are a number
    HexWords,   \* words of digits and the letters A to F only
    Underscored,\* words that begin with an underscore
    Junk,       \* other words: a digit or another character at the start
    WordLength, \* how many characters a word has
    Sources     \* the texts

Words == Names \cup Numbers \cup Underscored \cup Junk
Blanks == {"SP", "NL"}

Leveling == {"&", "+", "-", "|"}
Modifiers == Leveling \cup {"[", "]"}
Commands == {"!", "#", "@"}
Openers == {"(", "[", "{"}
Closers == {")", "]", "}"}
Match == [c \in Closers |-> CASE c = ")" -> "(" [] c = "]" -> "[" [] c = "}" -> "{"]
Specials == Modifiers \cup Commands \cup Openers \cup Closers
                \cup {"DQUOTES", "%", "SQUOTE", "*", ",", ".", "/", ";", "<", "=",
                      ">", "?", "BACKSLASH", "^", "GRAVE", "~", ":"}

Symbols == Words \cup Blanks \cup Specials

ASSUME LexerAssumption ==
    /\ HexWords \subseteq Names \cup Numbers
    /\ Words \cap ({"NUL"} \cup Blanks \cup Specials) = {}
    /\ WordLength \in [Words -> Nat \ {0}]
    /\ \A t \in Sources : /\ t \in Seq(Symbols)
                          /\ \A n \in 1..(Len(t) - 1) : {t[n], t[n + 1]} \cap Words # {} =>
                                ~({t[n], t[n + 1]} \subseteq Words)

(* A definition whose name starts with Mut is no part of the model: it is   *)
(* the definition it precedes as a plausible mistake would write it.         *)

VARIABLES
    text,       \* source->content
    pc,         \* the pass, or the outcome
    end,        \* where the next word is looked for
    opened,     \* the delimiters that are open, the memory area of the scan
    quoted,     \* marker_literal_string
    tokens,     \* lexer->tokens, without the null token in front; i is one more
    nest,       \* count_RSPE_parenthesis_nest
    scanned,    \* positions the scan passed over as comments
    skipped     \* positions create_lexer passed over as comments

vars == <<text, pc, end, opened, quoted, tokens, nest, scanned, skipped>>
scanVars == <<opened, quoted, scanned>>
tokenVars == <<tokens, nest, skipped>>

(* undefined: what lies behind the text or in a token that was never written *)
(* has been read.                                                            *)
Outcomes == {"accepted", "rejected", "aborted", "undefined"}
Phases == {"scan", "lex"} \cup Outcomes

SubtypesOfWords == {"NO", "IMOD", "OMOD", "IF", "ELSE_IF", "ELSE", "LIT_NUM", "LIT_CHAR", "LIT_STR"}
Types == {"LSPE", "RSPE", "COM", "ID", "Q", "LR", "R", "RSCOPE", "L", "LSCOPE", "PL", "LIT",
          "COLON_LONELY", "UNWRITTEN"}

-----------------------------------------------------------------------------
(* The text.                                                                 *)

Eof == Len(text) + 1
At(p) == IF p \in DOMAIN text THEN text[p] ELSE "NUL"
Graph(p) == At(p) \notin Blanks \cup {"NUL"}
Special(p) == At(p) \in Specials
Name(p) == At(p) \in Names

(* source->length *)
Chars(x) == IF x \in Words THEN WordLength[x] ELSE 1
Offset ==
    LET upTo[n \in 0..Len(text)] == IF n = 0 THEN 0 ELSE upTo[n - 1] + Chars(text[n])
    IN  upTo
Length == Offset[Len(text)]

(* lexer_get_next_word: the next word from p on, and what is behind it. *)
Word(p) == Min({n \in p..Eof : Graph(n)} \cup {Eof})
Behind(p) == IF p = Eof THEN Eof ELSE p + 1
WordsIn(a, b) ==
    LET count == IF a <= b THEN b - a + 1 ELSE 0
        upTo[n \in 0..count] ==
            IF n = 0 THEN <<>>
            ELSE upTo[n - 1] \o IF Graph(a + n - 1) THEN <<a + n - 1>> ELSE <<>>
    IN  upTo[count]

(* The first word from p on that is not one of the symbols xs. *)
PastWords(p, xs) == Min({n \in p..Eof : Graph(n) /\ At(n) \notin xs} \cup {Eof})

Opens(p, c) == At(p) = c /\ At(p + 1) = "-" /\ At(p + 2) = "-"
LineEnd(p) == Min({n \in p..Eof : At(n) \in {"NL", "NUL"}})
MutEnds(p, lasts) ==
    {n \in (p + 1)..(Eof - 2) : At(n) = "-" /\ At(n + 1) = "-" /\ At(n + 2) \in lasts}
Ends(p, lasts) == {n \in p..(Eof - 2) : At(n) = "-" /\ At(n + 1) = "-" /\ At(n + 2) \in lasts}

(* A backslash, one character and a backslash. *)
Character(p) == At(p + 1) # "NUL" /\ Chars(At(p + 1)) = 1 /\ At(p + 2) = "BACKSLASH"

Begin ==
    /\ pc = "scan"
    /\ end = 1
    /\ opened = <<>>
    /\ quoted = FALSE
    /\ tokens = <<>>
    /\ nest = 0
    /\ scanned = {}
    /\ skipped = {}

Init == text \in Sources /\ Begin

-----------------------------------------------------------------------------
(* lexer_scan_errors.                                                        *)

Start == Word(end)
Here == At(Start)

Scanning(symbols) == pc = "scan" /\ Here \in symbols
Passed(p) == end' = p /\ UNCHANGED pc
Refused == pc' = "rejected" /\ UNCHANGED end

ScanCharacter ==
    /\ Scanning({"BACKSLASH"}) /\ ~quoted
    /\ IF Character(Start) THEN Passed(Start + 3) ELSE Refused
    /\ UNCHANGED <<text, scanVars, tokenVars>>

ScanOpener ==
    /\ Scanning(Openers)
    /\ opened' = Append(opened, Here)
    /\ Passed(Start + 1)
    /\ UNCHANGED <<text, quoted, scanned, tokenVars>>

ScanCloser ==
    /\ Scanning(Closers)
    /\ IF opened # <<>> /\ opened[Len(opened)] = Match[Here]
       THEN opened' = SubSeq(opened, 1, Len(opened) - 1) /\ Passed(Start + 1)
       ELSE Refused /\ UNCHANGED opened
    /\ UNCHANGED <<text, quoted, scanned, tokenVars>>

ColonFits(p) ==
    /\ At(p + 1) \notin {"NUL", ":"}
    /\ Special(p - 1) => At(p - 1) \in {"#", "&", "(", ")", "+", "-", "@", "]", "|"}
    /\ Special(p + 1) => At(p + 1) \in {"#", "&", "(", "+", "-", "@", "[", "GRAVE", "|"}

ScanColon ==
    /\ Scanning({":"})
    /\ IF ColonFits(Start) THEN Passed(Start + 1) ELSE Refused
    /\ UNCHANGED <<text, scanVars, tokenVars>>

MutScanLineComment ==
    /\ Scanning({"!"}) /\ ~quoted /\ Opens(Start, "!")
    /\ Passed(LineEnd(Start + 3) + 1)
    /\ scanned' = scanned \cup Start..(end' - 1)
    /\ UNCHANGED <<text, opened, quoted, tokenVars>>

ScanLineComment ==
    /\ Scanning({"!"}) /\ ~quoted /\ Opens(Start, "!")
    /\ Passed(LineEnd(Start + 3))
    /\ scanned' = scanned \cup Start..(end' - 1)
    /\ UNCHANGED <<text, opened, quoted, tokenVars>>

(* The loop takes a null character for any of the three that end a comment,  *)
(* and goes on behind the text when it has found none of them before it.     *)
(* The last character of the comment is read again as a word.                *)
ScanComment ==
    /\ Scanning({"|"}) /\ ~quoted /\ Opens(Start, "|")
    /\ LET found == Ends(Start + 3, {"|", "NUL"})
       IN  IF found = {} THEN pc' = "undefined" /\ UNCHANGED <<end, scanned>>
           ELSE /\ Passed(Min(found) + 2)
                /\ scanned' = scanned \cup Start..Min({end', Len(text)})
    /\ UNCHANGED <<text, opened, quoted, tokenVars>>

MutScanSpecial ==
    /\ Scanning(Specials \ (Openers \cup Closers \cup {":"}))
    /\ ~quoted => Here # "BACKSLASH" /\ ~Opens(Start, "!") /\ ~Opens(Start, "|")
    /\ Passed(IF ~quoted /\ Here \in {"!", "|"} THEN Start
              ELSE Min({n \in (Start + 1)..Eof : At(n) \notin Modifiers}))
    /\ quoted' = (quoted # (Here = "GRAVE"))
    /\ UNCHANGED <<text, opened, scanned, tokenVars>>

(* What follows a special character is passed over with it as long as it is  *)
(* a modifier.                                                               *)
ScanSpecial ==
    /\ Scanning(Specials \ (Openers \cup Closers \cup {":"}))
    /\ ~quoted => Here # "BACKSLASH" /\ ~Opens(Start, "!") /\ ~Opens(Start, "|")
    /\ Passed(IF ~quoted /\ Here \in {"!", "|"} THEN Start + 1
              ELSE Min({n \in (Start + 1)..Eof : At(n) \notin Modifiers}))
    /\ quoted' = (quoted # (Here = "GRAVE"))
    /\ UNCHANGED <<text, opened, scanned, tokenVars>>

ScanWord ==
    /\ Scanning(Words)
    /\ Passed(Start + 1)
    /\ UNCHANGED <<text, scanVars, tokenVars>>

MutEndScan ==
    /\ Scanning({"NUL"})
    /\ IF ~quoted THEN pc' = "lex" /\ end' = 1 ELSE Refused
    /\ UNCHANGED <<text, scanVars, tokenVars>>

EndScan ==
    /\ Scanning({"NUL"})
    /\ IF opened = <<>> /\ ~quoted THEN pc' = "lex" /\ end' = 1 ELSE Refused
    /\ UNCHANGED <<text, scanVars, tokenVars>>

-----------------------------------------------------------------------------
(* create_lexer.                                                             *)

Token(type, subtype, first, last) ==
    [type |-> type, subtype |-> subtype, start |-> first, end |-> last]

(* A token of one character, the first of the word at p.  In a longer word   *)
(* it ends inside, before the rest: its end is then p, no whole word.        *)
First(x) == IF x \in Underscored THEN "UNDERSCORE" ELSE x
Of(type, p) == Token(type, First(At(p)), p, IF Chars(At(p)) = 1 THEN p + 1 ELSE p)
Unwritten == Token("UNWRITTEN", "NO", 0, 0)

(* The type and the first character of token n, token 0 being the null one. *)
TypeOf(n) == IF n = 0 THEN "NO" ELSE tokens[n].type
Begins(n, c) == n > 0 /\ At(tokens[n].start) = c

(* get_Q: the words up to the closing bracket, which a blank must follow.    *)
(* It stops before the last word when nothing is behind that.                *)
FirstQ == Word(Start + 1)
LastQ == Min({n \in (FirstQ + 1)..Eof : Graph(n) /\ (At(n) = "]" \/ At(n + 1) = "NUL")} \cup {Eof})
Qualified == /\ Here = "[" /\ ~Graph(Start - 1)
             /\ At(FirstQ) # "]" /\ ~Graph(Behind(LastQ))
Qualifiers == <<FirstQ>> \o WordsIn(FirstQ + 1, LastQ - 1)

(* if_RSPE_and_R_create_tokens: the lock behind a colon and its modifiers. *)
Lock == PastWords(Start + 1, Modifiers)
LockModifiers == WordsIn(Start + 1, Lock - 1)
Underscore == LockModifiers = <<>> /\ At(Lock) \in Underscored

(* if_LIT_create_token: where a literal ends. *)
NumberEnd == Min({n \in (Start + 1)..Eof : At(n) \notin {"GRAVE"} \cup HexWords})
StringEnd == Min({n \in (Start + 1)..Eof : At(n) = "GRAVE"} \cup {Eof})
Literal == CASE Here \in Numbers    -> At(NumberEnd - 1) # "GRAVE"
             [] Here = "BACKSLASH"  -> Character(Start)
             [] Here = "GRAVE"      -> StringEnd # Eof
             [] OTHER               -> FALSE

(* A parenthesis that closes one on the right of a colon. *)
MutClosing == Here = ")" /\ nest >= 0
Closing == Here = ")" /\ nest > 0

Applies(handler) ==
    CASE handler = "comment" -> Opens(Start, "!") \/ Opens(Start, "|")
      [] handler = "COM"     -> Here \in Commands
      [] handler = "ID"      -> TypeOf(Len(tokens)) = "COM" /\ Name(Start)
      [] handler = "Q"       -> Qualified
      [] handler = "LR"      -> At(Start + 1) = ":" /\ Graph(Start + 2) /\ Here \notin Modifiers
      [] handler = "R"       -> Here = ":" /\ (Name(Lock) \/ Underscore)
      [] handler = "L"       -> Name(Start)
      [] handler = "PL"      -> Here = "." /\ Name(Start + 1)
      [] handler = "LIT"     -> Literal
      [] handler = "left"    -> Here \in Modifiers /\ At(PastWords(Start, Modifiers)) = ":"
      [] handler = "opening" -> Here = ":" /\ At(Start + 1) = "("
      [] handler = "lonely"  -> Here = ":"
      [] handler = "closing" -> Closing
      [] handler = "LSPE"    -> Here \in Specials \ {"GRAVE", "BACKSLASH"}
      [] handler = "nothing" -> TRUE

MutHandlers == <<"comment", "COM", "Q", "LR", "ID", "R", "L", "PL", "LIT",
                 "left", "opening", "lonely", "closing", "LSPE", "nothing">>

(* The order of the tests in the loop. *)
Handlers == <<"comment", "COM", "ID", "Q", "LR", "R", "L", "PL", "LIT",
              "left", "opening", "lonely", "closing", "LSPE", "nothing">>
Position == [h \in {Handlers[n] : n \in DOMAIN Handlers} |->
                CHOOSE n \in DOMAIN Handlers : Handlers[n] = h]

(* A token that was not written has been read to see whether it is a COM.    *)
ReadsUnwritten == TypeOf(Len(tokens)) = "UNWRITTEN" /\ ~Applies("comment") /\ ~Applies("COM")

Taking(handler) ==
    /\ pc = "lex" /\ Here # "NUL" /\ ~ReadsUnwritten
    /\ Applies(handler)
    /\ \A n \in 1..(Position[handler] - 1) : ~Applies(Handlers[n])

Taken(ts, p) ==
    /\ tokens' = tokens \o ts
    /\ end' = p
    /\ UNCHANGED <<text, pc, scanVars, skipped>>

(* lexer_skip_comment looks for the end without regard to that of the text.  *)
SkipComment ==
    /\ Taking("comment")
    /\ IF Here = "|" /\ Ends(Start + 3, {"|"}) = {}
       THEN pc' = "undefined" /\ UNCHANGED <<end, skipped>>
       ELSE /\ Passed(IF Here = "!" THEN LineEnd(Start + 3) ELSE Min(Ends(Start + 3, {"|"})) + 3)
            /\ skipped' = skipped \cup Start..(end' - 1)
    /\ UNCHANGED <<text, scanVars, tokens, nest>>

TakeCommand == Taking("COM") /\ Taken(<<Of("COM", Start)>>, Start + 1) /\ UNCHANGED nest

TakeIdentifier ==
    /\ Taking("ID")
    /\ Taken(<<Token("ID", "NO", Start, Start + 1)>>, Start + 1)
    /\ UNCHANGED nest

TakeQualifiers ==
    /\ Taking("Q")
    /\ Taken([n \in DOMAIN Qualifiers |->
                 Token("Q", "NO", Qualifiers[n], Behind(Qualifiers[n]))], Behind(LastQ))
    /\ UNCHANGED nest

(* Whatever stands before a colon is the left of it, the colon is next. *)
TakeLeftRight ==
    /\ Taking("LR")
    /\ Taken(<<Token("LR", "NO", Start, Start + 1)>>, Start + 1)
    /\ UNCHANGED nest

MutWithParenthesis(made, p) == [Append(made, Unwritten) EXCEPT ![1] = Of("RSPE", p)]

(* An opening parenthesis right behind the lock is written behind the first  *)
(* of the tokens made here, also when there are modifiers.                   *)
WithParenthesis(made, p) == [Append(made, Unwritten) EXCEPT ![2] = Of("RSPE", p)]

(* A lock that begins with an underscore gives a token of that character,    *)
(* and what follows the underscore in its word is passed over.               *)
TakeLock ==
    /\ Taking("R")
    /\ LET lock == IF Underscore THEN Of("RSPE", Lock)
                   ELSE Token(IF At(Lock) = "scope" THEN "RSCOPE" ELSE "R", "NO", Lock, Lock + 1)
           made == [n \in DOMAIN LockModifiers |-> Of("RSPE", LockModifiers[n])] \o <<lock>>
       IN  IF At(Lock + 1) = "("
           THEN Taken(WithParenthesis(made, Lock + 1), Lock + 2) /\ nest' = nest + 1
           ELSE Taken(made, Lock + 1) /\ UNCHANGED nest

MutAbsorbed == IF Begins(Len(tokens) - 1, ",") THEN 2
               ELSE IF Begins(Len(tokens), "~") THEN 1 ELSE 0

(* `then` takes the `~` or `,` and `~` before it into itself. *)
Absorbed == IF ~Begins(Len(tokens), "~") THEN 0
            ELSE IF Begins(Len(tokens) - 1, ",") THEN 2 ELSE 1

TakeLeft ==
    /\ Taking("L")
    /\ LET Left(type, subtype) == Token(type, subtype, Start, Start + 1)
           kept == SubSeq(tokens, 1, Len(tokens) - IF Here = "then" THEN Absorbed ELSE 0)
       IN  tokens' = Append(kept,
              CASE Here = "scope" -> Left("LSCOPE", "NO")
                [] Here = "then"  -> Left("LSCOPE", <<"IF", "ELSE", "ELSE_IF">>[Absorbed + 1])
                [] Here = "imod"  -> Left("L", "IMOD")
                [] Here = "omod"  -> Left("L", "OMOD")
                [] OTHER          -> Left("L", "NO"))
    /\ end' = Start + 1
    /\ UNCHANGED <<text, pc, scanVars, nest, skipped>>

TakePeriodLeft ==
    /\ Taking("PL")
    /\ Taken(<<Token("PL", "NO", Start + 1, Start + 2)>>, Start + 2)
    /\ UNCHANGED nest

TakeLiteral ==
    /\ Taking("LIT")
    /\ CASE Here = "BACKSLASH" ->
               Taken(<<Token("LIT", "LIT_CHAR", Start + 1, Start + 2)>>, Start + 3)
         [] Here = "GRAVE" ->
               Taken(<<Token("LIT", "LIT_STR", Start + 1, StringEnd)>>, StringEnd + 1)
         [] OTHER -> Taken(<<Token("LIT", "LIT_NUM", Start, NumberEnd)>>, NumberEnd)
    /\ UNCHANGED nest

(* All the modifiers on the left of a colon, which is next. *)
TakeModifiers ==
    /\ Taking("left")
    /\ LET colon == PastWords(Start, Modifiers)
           left == WordsIn(Start, colon - 1)
       IN  Taken([n \in DOMAIN left |-> Of("RSPE", left[n])], colon)
    /\ UNCHANGED nest

TakeOpening ==
    /\ Taking("opening")
    /\ Taken(<<Of("RSPE", Start + 1)>>, Start + 2)
    /\ nest' = nest + 1

TakeClosing ==
    /\ Taking("closing")
    /\ Taken(<<Of("RSPE", Start)>>, Start + 1)
    /\ nest' = nest - 1

TakeSpecial ==
    /\ Taking("LSPE") \/ Taking("lonely")
    /\ Taken(<<IF Here = ":" THEN Token("COLON_LONELY", "NO", Start, Start + 1)
               ELSE Of("LSPE", Start)>>, Start + 1)
    /\ UNCHANGED nest

ReadUnwritten ==
    /\ pc = "lex" /\ Here # "NUL" /\ ReadsUnwritten
    /\ pc' = "undefined"
    /\ UNCHANGED <<text, end, scanVars, tokenVars>>

(* No handler takes the word, or one has found a literal malformed. *)
Reject ==
    /\ Taking("nothing")
    /\ pc' = "rejected"
    /\ UNCHANGED <<text, end, scanVars, tokenVars>>

MutEndOfText ==
    /\ pc = "lex" /\ Here = "NUL"
    /\ pc' = IF tokens = <<>> THEN "rejected"
             ELSE IF Len(tokens) + 2 <= Length THEN "accepted" ELSE "aborted"
    /\ UNCHANGED <<text, end, scanVars, tokenVars>>

(* The text must have a token.  The assertion counts the null token too.     *)
EndOfText ==
    /\ pc = "lex" /\ Here = "NUL"
    /\ pc' = IF tokens = <<>> THEN "rejected"
             ELSE IF Len(tokens) + 1 <= Length THEN "accepted" ELSE "aborted"
    /\ UNCHANGED <<text, end, scanVars, tokenVars>>

(* What the parser's predicates on tokens (parser_utils.c) take a token for. *)
(* The left of a colon that touches it on both sides is not taken for a key. *)
KindOf(t) ==
    CASE t.type = "L" /\ t.subtype \in {"IMOD", "OMOD"} -> "MOD"
      [] t.type \in {"L", "PL"}                   -> "KEY"
      [] t.type = "R"                             -> "TYPE"
      [] t.type = "RSCOPE"                        -> "TSCOPE"
      [] t.type = "LSCOPE" /\ t.subtype = "NO"    -> "SCOPE"
      [] t.type \in {"COM", "ID", "Q", "LIT"}     -> t.type
      [] t.type = "LSPE" /\ t.subtype = "("       -> "LPAR"
      [] t.type = "LSPE" /\ t.subtype = ")"       -> "RPAR"
      [] t.type = "RSPE" /\ t.subtype = "("       -> "TLPAR"
      [] t.type = "RSPE" /\ t.subtype = ")"       -> "TRPAR"
      [] t.type = "LSPE" /\ t.subtype = ","       -> "COMMA"
      [] t.type = "LSPE" /\ t.subtype = ";"       -> "SEMI"
      [] t.type = "LSPE" /\ t.subtype = "."       -> "PERIOD"
      [] t.type = "LSPE" /\ t.subtype \in {"+", "-"} -> "ADD"
      [] t.type = "LSPE" /\ t.subtype \in {"*", "/"} -> "MUL"
      [] t.type = "LSPE" /\ t.subtype = "="       -> "ASSIGN"
      [] t.type = "RSPE"                          -> "RSPE"
      [] OTHER                                    -> "OTHER"

Returned == pc \in Outcomes /\ UNCHANGED vars

Next ==
    \/ ScanCharacter \/ ScanOpener \/ ScanCloser \/ ScanColon
    \/ ScanLineComment \/ ScanComment \/ ScanSpecial \/ ScanWord \/ EndScan
    \/ SkipComment \/ TakeCommand \/ TakeIdentifier \/ TakeQualifiers
    \/ TakeLeftRight \/ TakeLock \/ TakeLeft \/ TakePeriodLeft \/ TakeLiteral
    \/ TakeModifiers \/ TakeOpening \/ TakeClosing \/ TakeSpecial
    \/ ReadUnwritten \/ Reject \/ EndOfText
    \/ Returned

Spec == Init /\ [][Next]_vars

(* The lexer runs on one thread and never waits. *)
FairSpec == Spec /\ WF_vars(Next)

-----------------------------------------------------------------------------

(* The position stays within the text and its last null character, and the   *)
(* tokens within their array, which has one entry more than the source has   *)
(* characters and begins with the null token.                                *)
TypeOK ==
    /\ pc \in Phases
    /\ end \in 1..Eof
    /\ nest \in 0..Len(text)
    /\ quoted \in BOOLEAN
    /\ opened \in Seq(Openers)
    /\ \A n \in DOMAIN tokens :
          /\ tokens[n].type \in Types
          /\ tokens[n].subtype \in SubtypesOfWords \cup Specials \cup {"UNDERSCORE"}
          /\ tokens[n].start <= tokens[n].end /\ tokens[n].end <= Eof
    /\ Len(tokens) <= Length

Written == \A n \in DOMAIN tokens : tokens[n].type # "UNWRITTEN"
Is(n, type) == tokens[n].type = type
Inside(p) == \E n \in DOMAIN tokens : tokens[n].start <= p /\ p < tokens[n].end

(* What may stand in no token: the colon, the marks around a literal, the    *)
(* brackets of qualifiers, the period of a PL, what `then` absorbed, and the *)
(* word of a lock that begins with an underscore, of which that character    *)
(* alone is in a token.                                                      *)
Mark(p) ==
    \E n \in DOMAIN tokens :
        \/ At(p) = ":"
        \/ Is(n, "LIT") /\ p \in {tokens[n].start - 1, tokens[n].end}
                        /\ At(p) \in {"GRAVE", "BACKSLASH"}
        \/ Is(n, "Q") /\ At(p) \in {"[", "]"}
        \/ Is(n, "PL") /\ At(p) = "." /\ p = tokens[n].start - 1
        \/ Is(n, "LSCOPE") /\ At(p) \in {"~", ","} /\ tokens[n].subtype \in {"ELSE", "ELSE_IF"}
        \/ Is(n, "RSPE") /\ At(p) \in Underscored /\ p = tokens[n].start

(* `then` looks at the first character of a token only, and absorbs a        *)
(* literal or a qualifier that begins with `~` or `,` as if it was that sign. *)
Sign(p) == At(p) \in {"~", ","}
Bracketed(p) == \E q \in 1..p : At(q) = "[" /\ \A r \in q..p : At(r) # "]"
SignsAlone ==
    \A p \in DOMAIN text : Sign(p) => At(p - 1) \notin {"GRAVE", "BACKSLASH"} /\ ~Bracketed(p)

(* A bracket that is closed nowhere is refused unless it is in a comment for *)
(* the scan; behind it the last word of the text is lost.                    *)
BracketsClosed ==
    \A p \in DOMAIN text : At(p) = "[" => \E q \in p..Len(text) : At(q) = "]"

(* The tokens are in the order of the text, do not overlap, and a text that  *)
(* is accepted loses nothing that is in no comment but what follows the      *)
(* underscore of a lock, the `foo` of `a:_foo`, although handlers look       *)
(* ahead, write several tokens at once, give them up again or take back      *)
(* earlier ones.                                                             *)
TokensCoverText ==
    Written =>
        /\ \A n \in 1..(Len(tokens) - 1) : tokens[n].end <= tokens[n + 1].start
        /\ pc = "accepted" /\ SignsAlone /\ BracketsClosed =>
              \A p \in DOMAIN text : Graph(p) /\ p \notin skipped => Inside(p) \/ Mark(p)

(* The word before p, or 0. *)
Before(p) == Max({n \in 1..(p - 1) : Graph(n)} \cup {0})

(* A token is left unwritten only where an opening parenthesis follows a     *)
(* lock with modifiers, as in `f:&A(`.                                       *)
UnwrittenOnlyBehindModifiers ==
    ~Written => \E p \in DOMAIN text : At(p) = "(" /\ Name(p - 1) /\ At(Before(p - 1)) \in Modifiers

(* What lies behind the text is read only when a comment is not closed,      *)
(* which lexer_skip_comment takes for checked: the scan takes `|-- a --` at  *)
(* the end of the text for closed, and goes on behind the text itself.       *)
Closed(p) == \E n \in (p + 3)..Len(text) : At(n) = "-" /\ At(n + 1) = "-" /\ At(n + 2) = "|"
UndefinedOnlyUnclosed ==
    pc = "undefined" /\ Written => \E p \in DOMAIN text : Opens(p, "|") /\ ~Closed(p)

(* The two passes, which look for comments each in its own way, agree on     *)
(* them unless a comment follows a colon, a modifier or closely any special  *)
(* character, or stands among qualifiers, or a mark that delimits a literal  *)
(* is a qualifier, is the left of a colon, as in a literal `:`, or stands in *)
(* a number: there one pass takes it for code.                               *)
Detached ==
    /\ \A p \in DOMAIN text : Opens(p, "|") \/ Opens(p, "!") =>
          At(Before(p)) \notin Modifiers \cup {":"} /\ ~Special(p - 1)
    /\ \A n \in DOMAIN tokens : Is(n, "Q") => tokens[n].start \notin scanned
MarksDelimit ==
    \A n \in DOMAIN tokens :
        /\ Is(n, "Q") \/ Is(n, "LR") => At(tokens[n].start) \notin {"GRAVE", "BACKSLASH"}
        /\ tokens[n].subtype = "LIT_NUM" => tokens[n].end = tokens[n].start + 1

SameComments == pc = "accepted" /\ Detached /\ MarksDelimit => scanned = skipped

(* What the parser takes for granted: the parentheses among the tokens are   *)
(* balanced, whichever side of a colon they were taken for.  The scan counts *)
(* those of strings too, and a qualifier or the left of a colon can be a     *)
(* parenthesis, which then is none.                                          *)
Parenthesis(n) == tokens[n].type \in {"LSPE", "RSPE"} /\ tokens[n].subtype \in {"(", ")"}
Depth ==
    LET upTo[n \in 0..Len(tokens)] ==
            IF n = 0 THEN 0
            ELSE upTo[n - 1] + IF ~Parenthesis(n) THEN 0
                               ELSE IF tokens[n].subtype = "(" THEN 1 ELSE -1
    IN  upTo
NoParenthesisElsewhere ==
    /\ \A p \in DOMAIN text : At(p) \in {"(", ")"} => ~(At(p - 1) = "BACKSLASH" /\ At(p + 1) = "BACKSLASH")
    /\ \A n \in DOMAIN tokens : tokens[n].type \in {"LR", "Q", "LIT"} =>
          \A p \in tokens[n].start..(tokens[n].end - 1) : At(p) \notin {"(", ")"}
ParenthesesBalanced ==
    pc = "accepted" /\ Written /\ SignsAlone /\ BracketsClosed
       /\ scanned = skipped /\ NoParenthesisElsewhere =>
        /\ Depth[Len(tokens)] = 0
        /\ \A n \in DOMAIN tokens : Depth[n] >= 0

(* The assertion that the source has more characters than tokens fails only  *)
(* for a text in which every single character is a token.                    *)
AbortsOnlyDense ==
    pc = "aborted" => \A p \in DOMAIN text : Inside(p) /\ Chars(At(p)) = 1

(* The lexer returns: every turn of its loops moves the position on. *)
Terminates == <>(pc \in Outcomes)

=============================================================================

--------------------------- MODULE CompilerProofs ----------------------------
(***************************************************************************)
(* Proofs about Compiler: what the status of the process tells.  Nothing   *)
(* is used of the parts but the places they end at, so that the theorem    *)
(* holds whatever a part does with its own state.                          *)
(***************************************************************************)
EXTENDS Compiler, TLAPS

(* The phases in their order; each is entered only when the part of the one  *)
(* before has done its work.                                                 *)
BeforeFile == {"source", "lexer", "parser", "tac", "regmap", "files"}
AfterLexer == {"parser", "tac", "regmap", "files", "binary"}
AfterParser == {"tac", "regmap", "files", "binary"}
AfterTac == {"regmap", "files", "binary"}
AfterRegmap == {"files", "binary"}

(* A phase knows what every part before it returned, and the file is begun   *)
(* in the last one only.                                                     *)
PhaseInv ==
    /\ phase \in Phases
    /\ phase \in AfterLexer => lexPc = "accepted"
    /\ phase \in AfterParser => parsePc = "accepted"
    /\ phase \in AfterTac => tacPc = "done"
    /\ phase \in AfterRegmap => regPc = "done"
    /\ phase \in BeforeFile => Unwritten
    /\ StatusTellsBinary

-----------------------------------------------------------------------------

(* A part that has not done its work ends the compiler without success. *)
LEMMA Verdicts ==
    ASSUME NEW pc \in {"rejected", "failed", "aborted", "undefined"}
    PROVE  Verdict(pc) \in {"failure", "aborted", "undefined"}
BY DEF Verdict

LEMMA InitPhase == Init => PhaseInv
BY DEF Init, Begin, PhaseInv, Phases, BeforeFile, AfterLexer, AfterParser, AfterTac,
       AfterRegmap, StatusTellsBinary, Unwritten

LEMMA NextPhase == PhaseInv /\ [Next]_vars => PhaseInv'
<1> SUFFICES ASSUME PhaseInv, [Next]_vars PROVE PhaseInv'
    OBVIOUS
<1> USE DEF PhaseInv, Phases, Outcomes, BeforeFile, AfterLexer, AfterParser, AfterTac,
            AfterRegmap, StatusTellsBinary, Unwritten, binaryVars
<1>1. CASE OpenSource
  BY <1>1 DEF OpenSource, Enters, lexing
<1>2. CASE CannotOpenSource
  BY <1>2 DEF CannotOpenSource
<1>3. CASE Lex
  BY <1>3 DEF Lex
<1>4. CASE Lexed
  <2>1. CASE lexPc # "accepted"
    <3>1. phase' \in {"failure", "aborted", "undefined"}
      BY <1>4, <2>1, Verdicts DEF Lexed, L!Outcomes
    <3> QED
      BY <1>4, <3>1 DEF Lexed
  <2>2. CASE lexPc = "accepted"
    BY <1>4, <2>2 DEF Lexed, Enters, lexing
  <2> QED
    BY <2>1, <2>2
<1>5. CASE Parse
  BY <1>5 DEF Parse, lexing
<1>6. CASE Parsed
  <2>1. CASE parsePc # "accepted"
    <3>1. phase' \in {"failure", "aborted", "undefined"}
      BY <1>6, <2>1, Verdicts DEF Parsed, P!Outcomes
    <3> QED
      BY <1>6, <3>1 DEF Parsed
  <2>2. CASE parsePc = "accepted"
    BY <1>6, <2>2 DEF Parsed, Printed, lexing, parsing
  <2> QED
    BY <2>1, <2>2
<1>7. CASE Walk
  BY <1>7 DEF Walk, lexing, parsing
<1>8. CASE Walked
  <2>1. CASE tacPc # "done"
    <3>1. phase' \in {"failure", "aborted", "undefined"}
      BY <1>8, <2>1, Verdicts DEF Walked, T!Outcomes
    <3> QED
      BY <1>8, <3>1 DEF Walked
  <2>2. CASE tacPc = "done"
    BY <1>8, <2>2 DEF Walked, lexing, parsing, walking
  <2> QED
    BY <2>1, <2>2
<1>9. CASE Allocate
  BY <1>9 DEF Allocate, lexing, parsing, walking
<1>10. CASE Allocated
  BY <1>10 DEF Allocated, Verdict, lexing, parsing, walking, allocating
<1>11. CASE OpenFiles
  BY <1>11 DEF OpenFiles, Enters, lexing, parsing, walking, allocating
<1>12. CASE WriteBinary
  BY <1>12 DEF WriteBinary, lexing, parsing, walking, allocating
<1>13. CASE Written
  BY <1>13 DEF Written, lexing, parsing, walking, allocating
<1>14. CASE UNCHANGED vars
  BY <1>14 DEF vars, lexing, parsing, walking, allocating
<1> QED
  BY <1>1, <1>2, <1>3, <1>4, <1>5, <1>6, <1>7, <1>8, <1>9, <1>10, <1>11, <1>12, <1>13,
     <1>14 DEF Next, Returned

(* The status of the process tells whether there is a new binary, for every  *)
(* text and every bound: main calls a part only after the one before it      *)
(* returned true, and creates the file only after all of them.               *)
THEOREM StatusTold == Spec => []StatusTellsBinary
<1>1. PhaseInv => StatusTellsBinary
  BY DEF PhaseInv
<1> QED
  BY InitPhase, NextPhase, <1>1, PTL DEF Spec

=============================================================================

-------------------------------- MODULE Text --------------------------------
(***************************************************************************)
(* A source text from its characters to the lines of its diagnostics: the  *)
(* lexer is read a token ahead of the parser, which complains about tokens *)
(* it has seen and may give up before the text ends; the engine keeps a    *)
(* bounded number of complaints and reports them against the lines the     *)
(* lexer has counted by then.                                              *)
(***************************************************************************)
EXTENDS Lexer, FiniteSets

CONSTANTS Texts,            (* source texts                                   *)
          MaxDiagnostics,   (* capacity: MAX_DIAGNOSTICS                      *)
          MaxComplaints     (* bound: complaints about one text               *)

ASSUME TextAssumption == Texts \subseteq Seq(Characters) /\ MaxDiagnostics \in Nat

VARIABLES diagnostics,      (* start of the span each is about                *)
          overflow,
          complaints        (* history: all that were emitted                 *)

vars == <<mapVars, lexVars, diagnostics, overflow, complaints>>

TextInit ==
  /\ text \in Texts /\ total = 0 /\ phase = "lex"
  /\ MapInit /\ LexInit
  /\ diagnostics = <<>> /\ overflow = FALSE /\ complaints = <<>>

engineVars == <<diagnostics, overflow, complaints>>

AtEnd == tokens # <<>> /\ tokens[Len(tokens)].type = "eof"

Lex ==
  /\ phase = "lex"
  /\ LexStep \/ (NextToken /\ ~ AtEnd)
  /\ UNCHANGED <<mapVars, engineVars>>

(* Mutant of Complain: a full engine overwrites its last diagnostic. *)
ComplainOverwriting(k) ==
  /\ phase = "lex" /\ mode = "ready" /\ Len(tokens) >= 2 /\ Len(complaints) < MaxComplaints
  /\ complaints' = Append(complaints, tokens[k].start)
  /\ IF Len(diagnostics) < MaxDiagnostics
     THEN diagnostics' = Append(diagnostics, tokens[k].start) /\ UNCHANGED overflow
     ELSE /\ overflow' = TRUE
          /\ diagnostics' = [diagnostics EXCEPT ![MaxDiagnostics] = tokens[k].start]
  /\ UNCHANGED <<mapVars, lexVars>>

(* jackc_diag_push, about a token before the one that is read ahead. *)
Complain(k) ==
  /\ phase = "lex" /\ mode = "ready" /\ Len(tokens) >= 2 /\ Len(complaints) < MaxComplaints
  /\ complaints' = Append(complaints, tokens[k].start)
  /\ IF Len(diagnostics) < MaxDiagnostics
     THEN diagnostics' = Append(diagnostics, tokens[k].start) /\ UNCHANGED overflow
     ELSE overflow' = TRUE /\ UNCHANGED diagnostics
  /\ UNCHANGED <<mapVars, lexVars>>

(* jackc_diagnostic_engine_report, once the parser is through or gives up. *)
StartReport ==
  /\ phase = "lex" /\ mode = "ready" /\ (AtEnd \/ Len(tokens) >= 2)
  /\ phase' = "map" /\ total' = line
  /\ UNCHANGED <<text, at, built, starts, target, low, high, located, lexVars, engineVars>>

ReportOne ==
  /\ Len(located) < Len(diagnostics)
  /\ Locate(diagnostics[Len(located) + 1])
  /\ UNCHANGED <<lexVars, engineVars>>

Resolve ==
  /\ MapCharacter \/ MapDone \/ Halve \/ Found
  /\ UNCHANGED <<lexVars, engineVars>>

Reported == phase = "ready" /\ Len(located) = Len(diagnostics)

Finished == (Reported \/ mode = "asserted") /\ UNCHANGED vars

TextNext ==
  \/ Lex \/ StartReport \/ ReportOne \/ Resolve
  \/ \E k \in {Len(tokens) - 2, Len(tokens) - 1} \cap DOMAIN tokens : Complain(k)
  \/ Finished

(* The program is sequential: it goes on as long as it can. *)
TextSpec == TextInit /\ [][TextNext]_vars /\ WF_vars(Lex \/ StartReport \/ ReportOne \/ Resolve)

-----------------------------------------------------------------------------
(* Properties *)

(* The lines counted so far are those of the characters behind the lexer,   *)
(* so that the map the engine fills never has an unwritten entry.          *)
LinesCounted ==
  /\ mode # "asserted" =>
       line = 1 + Cardinality({p \in DOMAIN text : p < pos /\ text[p] = Newline})
  /\ phase \in {"ready", "search"} => built = total

(* The report has the first complaints in their order, as many as fit, and  *)
(* says so when it leaves some out.                                        *)
ReportKeepsFirst ==
  Reported =>
    /\ Len(located) = IF Len(complaints) < MaxDiagnostics THEN Len(complaints) ELSE MaxDiagnostics
    /\ \A k \in DOMAIN located : located[k].pos = complaints[k]
    /\ overflow = (Len(complaints) > MaxDiagnostics)

(* Whatever the text, lexing and reporting come to an end; the only         *)
(* assertion of the lexer that fails is about a carriage return on its own. *)
LoneReturn == mode = "asserted" /\ Here = Return /\ ~ Ahead(Newline)

ComesToAnEnd == <>(Reported \/ LoneReturn)
=============================================================================

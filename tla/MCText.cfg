CONSTANTS
  Characters <- MCCharacters
  Newline <- MCNewline
  Return <- MCReturn
  Nul = "NUL"
  Blanks = {" "}
  Letters = {"d", "o", "_"}
  Digits = {"1", "2"}
  Keywords <- MCKeywords
  Texts <- MCTexts
  MaxDiagnostics = 2
  MaxComplaints = 3
SPECIFICATION TextSpec
INVARIANTS
  TokensAreLexemes
  LinesCounted
  LinesFound
  ReportKeepsFirst
PROPERTIES
  ComesToAnEnd

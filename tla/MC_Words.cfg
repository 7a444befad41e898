SPECIFICATION Spec
CONSTANTS
    MaxText = 5
    MaxWord = 2
    MaxLines = 2
INVARIANTS TypeOK MatchesShell QuotedArgumentsSurvive

SPECIFICATION Spec
CONSTANTS
    a = a
    b = b
    c = c
    uuid = uuid
    Nope = Nope
    Lit = Lit
    Undef = Undef
    Names <- MCNames
    Dynamic <- MCDynamic
    Texts <- MCTexts
    URLs <- MCURLs
    ScriptTexts <- MCScriptTexts
    Local <- MCLocal
    MaxSets = 1
INVARIANTS TypeOK MissingExact CyclesExact NestingBounded CompleteWhenSilent EscapedInQueryOnly SetRepairs
CHECK_DEADLOCK FALSE

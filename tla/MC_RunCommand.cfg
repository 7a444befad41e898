SPECIFICATION FairSpec
CONSTANTS
    host = host
    token = token
    good = good
    other = other
    odd = odd
    first = first
    second = second
    Unset = Unset
    AnyName = AnyName
    Direct = Direct
    Names <- MCNames
    Values <- MCValues
    Hosts <- MCHosts
    Ids <- MCIds
    Plans <- MCPlans
    EnvFiles <- MCEnvFiles
    Options <- MCOptions
    MaxRuns = 2
    MaxSets = 1
INVARIANTS TypeOK SameAsSeparateRun WireMatchesReport ExitTellsFailure ReportsComplete DownloadKept ConvertedAsSent
PROPERTIES SentIsCurrent NamesKept RouteIsCurrent AgreeOnFile Terminates
CHECK_DEADLOCK FALSE

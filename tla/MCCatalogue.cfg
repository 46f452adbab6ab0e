SPECIFICATION Spec
CONSTANTS
    Word <- WordDef
    Refang <- RefangDef
    Format <- FormatDef
    Lower <- LowerDef
    Upper <- UpperDef
    Bare <- BareDef
    HostName <- HostNameDef
    Pattern <- PatternDef
    Found <- FoundDef
    FileNames = {"payload.exe"}
    Headers = {"value"}
    Literal <- LiteralDef
    Read <- ReadDef
    Inside <- InsideDef
    Global <- GlobalDef
    Flagged <- FlaggedDef
    Country <- CountryDef
    Detected <- DetectedDef
    Decay <- DecayDef
    Growth <- GrowthDef
    MaxAge = 1
    HighRiskGeos = {"RU"}
    NoValue = "no value"
    Advisory = "advisory"
    Samples <- SamplesDef
    Configs <- ConfigsDef
    Sources <- SourcesDef
    Answers <- AnswersDef
    Submissions <- SubmissionsDef
    Imports <- ImportsDef
    Feeds <- FeedsDef
    Relations <- RelationsDef
    Webhook <- WebhookDef
    MaxRequests = 3
INVARIANT NoneIsCritical
INVARIANT ContactsAreAllowed
INVARIANT UrlsMeetTheirHosts
 
INVARIANT GraphViewsAgree
PROPERTY ScoreFallsForAReason
PROPERTY RerunKeepsItsRow
CHECK_DEADLOCK FALSE

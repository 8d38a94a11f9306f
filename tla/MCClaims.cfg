SPECIFICATION ClaimsSpec
CONSTANTS
    Spelling <- MCSpelling
    Length <- MCLength
    HandleSuffixes = {"ai", "labs", "hq"}
    HandlePrefixes = {"try", "get"}
    FusedSuffixes = {"ai", "labs"}
    MinPrefixChars = 5
    MinHandleChars = 4
    Codes <- MCCodes
    NoBatch = "none"
    Host <- MCHost
    NoSite = "none"
    ProgramTags = {"(YC F26)", "(YC X26)", "(SR007)"}
    ClaimAnchors = {"is now backed by YC", "is part of a16z Speedrun"}
    PossessiveAnchors = {"our company"}
    BuildVerbs = {"building"}
    Handles = {"at_speko_ai", "at_tryspeko", "at_lambda_ai", "@speedrun"}
    ProgramHandles = {"@speedrun"}
    Boundaries = {"."}
    ThreadMarkers = {"1/"}
    LowerCase = {"and", "accepted into YC", "joining a16z Speedrun"}
    Generic = {"AI"}
    Fragments = {"Meet", "and", "our company", "building", "accepted into YC",
                 "joining a16z Speedrun", "learned at"}
    YcTerms = {"(YC F26)", "(YC X26)", "is now backed by YC", "accepted into YC"}
    SpeedrunTerms = {"(SR007)", "SR007", "is part of a16z Speedrun", "joining a16z Speedrun"}
    BatchIn <- MCBatchIn
    SiteIn <- MCSiteIn
    FirstPerson = {"we got into", "our company", "accepted into YC", "joining a16z Speedrun",
                   "is part of a16z Speedrun"}
    CompanyVoice = {"is now backed by YC", "is part of a16z Speedrun"}
    Disqualifying = {"demo day"}
    NoPage <- MCNoPage
    MaxNameTokens = 5
    MinConfidence = 60
    Companies = {"speko", "speko_sr", "speko_old", "lambda", "optics"}
    NameOf <- MCNameOf
    LabelOf <- MCLabelOf
    SiteOf <- MCSiteOf
    Posts <- MCPosts
    MaxRead = 2
    MaxListed = 2
INVARIANTS
    ClaimsTypeOK
    ListedNeverEarly
    MatchesWithinCohort
    OneEarlyPerCompany
CHECK_DEADLOCK FALSE

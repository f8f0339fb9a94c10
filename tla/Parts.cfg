SPECIFICATION PartsSpec
CONSTANTS
    Runs = {r1}
    Handlers = {h1}
    GatesPerRun = 2
    MaxServerCrashes = 1
    ListenChoices <- MCListenChoices
    Requests <- MCRequests
    MaxSessions = 2
    MaxFailures = 2
    Lockout = 2
    CodeTTL = 3
    SessionTTL = 4
    MaxCodes = 3
    MaxTokens = 3
    MaxGuesses = 4
    MaxTime = 5
    GateSteps = {s1, s2}
    Posters = {p1, p2}
    LinkTTL = 1
    MaxGates = 2
    MaxLinks = 1
    MaxClock = 2
    Calls <- MCCalls
    MaxInstalls = 1
    Asks <- MCAsks
    Allow <- MCAllow
    HostNames <- MCHostNames
    MaxAnswers = 2
    Sizes = {2, 3}
    PollLimits <- MCPollLimits
    TailLimits <- MCTailLimits
    MaxLines = 4
    RunIds = {j1, j2, j3}
    KeepLast = 1
    OldAge = 2
    MaxChanges = 4
    RunCalls = {m1}
    ExecCalls = {e1, e2}
    GateCount = 2
    MaxDialogs = 2
    MaxExec = 1
    Pipelines <- MCPipelines
    MaxItems = 2
    Installers = {i1, i2}
    Entries <- MCEntries
    Commits = {1, 2}
    Broken = {2}
    NeedsDonor = {1}
    Texts = {1}
    MaxBegun = 2
    MaxMishaps = 1
    Dirs = {"own", "python"}
    WithFiles = {"own", "python"}
    Launches = {a1, b1, b2}
    Installs = {b1}
    Networked = {a1}
    Profile <- MCProfile
    Reads <- MCReads
    NetCalls = {n1}
    EditRequests = {q1, q2}
    Manifests <- MCManifests
    Drafts <- MCDrafts
    Template <- MCTemplate
    TrustLists <- MCTrustLists
    Uploads = {u1, u2}
    UploadNames = {0, 1}
    MaxCandidate = 1
    Wirings <- MCWirings
    MaxTurns = 3
    LoopBudget = 2
    MaxRetryAttempts = 3
    Presets <- MCPresets
    Chains <- MCChains
    Tabs = {t1, t2}
    MaxEdits = 2
    NoText = NoText
    Projects <- MCProjects
    MaxAttempts = 2
    NoProject = NoProject
INVARIANTS
    PartsTypeOK
    NoLateDecision
    CacheIsCurrent
    
    GuessesAreLimited
    LinkDecidesOnce
    HonestVerdict
    
    WindowIsTrue
    PruneSparesNewest
    DialogDecidesItsGate
    ChecksHold
    
    
    SavedWorkIsWhole
    
PROPERTIES
    
    
    CallLeavesNothing
    
CHECK_DEADLOCK FALSE

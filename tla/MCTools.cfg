SPECIFICATION ToolsSpec
CONSTANTS
    Domains = {1, 2, 3}
    Names <- MCNames
    PrefixDecls <- MCPrefixes
    Specs <- MCSpecs
    Ends = {e1, e2}
    MaxRules = 2
    Pids = {1, 2}
    ProcessDomain <- MCProcessDomain
    OwnDomain = 1
    EndpointsOf <- MCEndpointsOf
    ServiceTopics = {"request", "response"}
    ResponseTopics = {"response"}
    MaxTicks = 2
    MaxFaults = 1
    Topics = {"t"}
    DomainOf <- MCDomainOf
    Candidates <- MCCandidates
    NameHash <- MCNameHash
    MaxNodeNum = 2
    MaxTopicNum = 1
    MaxEnds = 3
    MaxLives = 2
    Groups = {"g"}
    ThreadNames = {"x"}
    Invalid = Invalid
    NodeOf <- MCNodeOf
    First <- MCFirst
    Files <- MCFiles
    MaxTid = 3
    MaxReapplies = 2
    MaxFailures = 1
    Tids = {1, 2}
    Irqs = {1}
    Cpus = {0, 1}
    ThreadStates <- MCThreadStates
    IrqStates <- MCIrqStates
    Edits <- MCEdits
    MaxChanges = 1
INVARIANTS
    RulesHold
    SettledIsReported
    GraphExact
    AnnouncementsKept
    PassHonest
PROPERTIES
    ReachIsFixed
CHECK_DEADLOCK FALSE

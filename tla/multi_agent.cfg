SPECIFICATION Spec
CONSTANTS
    Agents = {a1, a2}
    MaxEvents = 1
    NumMembers = 2
    MaxRounds = 3
    MaxDelegations = 2
    MaxTurns = 10
INVARIANTS
    TypeOK
    MergesWhatWasHeard
    NoAgentOutlivesThePattern
    ToldWhatIsDue
    FedBackUnlessLimit
PROPERTIES
    ParallelEnds
    ConversationEnds
CHECK_DEADLOCK FALSE

SPECIFICATION FairSpec
CONSTANTS
    alice = alice
    bob = bob
    pull = pull
    issue = issue
    main = main
    topic = topic
    tag = tag
    Jobs <- MCJobs
    MentionOnce = {"author"}
    AlwaysMention = {"claim"}
    Writers = {alice}
    Author = bob
    MaxAttempts = 2
    MaxFaults = 1
    RefNames = {main, topic, tag}
    Tags = {tag}
    Default = main
    Internal = {}
    Pulls <- MCPulls
    MaxCommits = 2
    MaxSyncMoves = 3
    MaxSyncFaults = 1
    Branches = {main, topic}
    MaxCacheMoves = 2
    MaxCacheFaults = 1
INVARIANTS CommandsInv ToldChangesHonoured
PROPERTIES ThreadPaused NewerStatusStands NothingOverwritten GithubKept
PROPERTIES AllAnswered AllCarried LoadsServeCurrent
CHECK_DEADLOCK FALSE

SPECIFICATION AllSpec
CONSTANTS
    z1 = z1
    z2 = z2
    Machines = {"a", "b"}
    Names = {"ops/h", "u5/h"}
    Networks = {"ops", "u5"}
    Nonces = {"i1", "i2", "i3"}
    NameOf <- EnrolName
    NetOf <- EnrolNet
    InviteNet <- EnrolInvite
    Forged = {"i3"}
    Env <- EnrolEnv
    MaxKeys = 2
    MaxPosts = 2
    Emails = {"e"}
    UserNames = {1, 2}
    Requests = {1, 2}
    Ttl = 0
    Hour = 2
    MaxAttempts = 1
    SentPerDay = 1
    PerHour = 1
    AllPerHour = 2
    Ladder <- CodesLadder
    MaxTime = 2
    MaxMails = 1
    MaxRows = 2
    Plugins = {1}
    Slots = {1}
    Warm = 0
    Nil = Nil
    Declares <- PluginRanges
    MaxVersion = 3
    Ids <- PlacementIds
    Rtts = {0, 49, 50}
    Loads <- PlacementLoads
    Failures = {0, 1}
    Weights = {1, 2}
    NoNode = NoNode
    Users = {"u"}
    Tasks = {1, 2, 3}
    MaxLogins = 3
    Owners = {"u"}
    Zips = {z1, z2}
    Calls = {1, 2}
    ModelSlots = {"builtin", "a", "b"}
    Builtin = "builtin"
    Refs = {"B", "A"}
    RefOf <- ModelRef
    KeyValues = {1}
    Landers = {1, 2}
    MaxChanges = 2
    MaxBreaks = 1
    Void = Void
    Shared = Shared
INVARIANTS EnrolmentSafe CodesProve WhitelistHonest PlacementFair
PROPERTIES AccountsGoverned ModelsLand SkillsKept
CHECK_DEADLOCK FALSE

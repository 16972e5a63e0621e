SPECIFICATION AllFair
CONSTANTS
    Nodes = {"x", "y", "z"}
    Networks = {"ops", "u5"}
    Hosts = {"h"}
    HostOf <- AdmitHost
    NetOf <- AdmitNet
    Bare = {"x"}
    Signers = {"s", "t"}
    Honest = {"s"}
    Dialers <- AdmitDialers
    Configs <- AdmitConfigs
    SignerFiles <- AdmitSigners
    ListFiles <- AdmitLists
    MaxUp = 1
    None = None
    h1 = h1
INVARIANTS AdmissionSafe
PROPERTIES SwitcherFinds JoinFollows Reaches DirectHonest
CHECK_DEADLOCK FALSE

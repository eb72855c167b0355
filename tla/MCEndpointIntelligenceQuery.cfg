CONSTANTS
    Ips <- OneIp
    BadIps <- OneBadIp
    Hosts = {"a", "b"}
    NoHost = "none"
    Ttls = {1, 2}
    MaxClock = 3
    Octets = {"0", "7"}
    Hextets = {"0", "7", "ff"}
    HexRuns = {"0", "7", "ff", "12345"}
    Digits = {"0", "7", "12345"}
    Zero = "0"
    Groups = 3
    Parts = 2
    Runs = {"0", "7", "ff", "12345", "zz"}
    Port = "12345"
    MaxTokens = 4
SPECIFICATION IntelligenceSpec
INVARIANT OnlyAskedDestinations

CONSTANTS
    Users = {"u1", "u2"}
    RulePrefixes <- MCRulePrefixes
    MaxLines = 2
    Chars = {"/", ".", "A", "B"}
    MaxPath = 4
    Passwords = {"p1", "p2"}
    MaxUserLines = 2
    IpChars = {"2", "5", "."}
    MaxIpLen = 9
    MaxLen = 2
    ContentBytes = {1, 101}
    FlipBytes = {0, 1, 98, 255}
    TestTypes = {"LoginReq", "LoginReply", "GetattrReply", "ReaddirReply", "OpenReply", "ReadReq", "AnyMsg"}
    SampleAlts = {1, 2, 4, 5, 9, 11, 33}
SPECIFICATION MCSpec
INVARIANT LongestRuleDecides
INVARIANT LoginMatchesUsersFile
INVARIANT ParseIpAcceptsDottedQuads
INVARIANT RoundTrip
INVARIANT TruncationRejected
INVARIANT InBounds

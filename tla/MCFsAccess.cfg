CONSTANTS
    Users = {"u1", "u2"}
    RulePrefixes <- MCRulePrefixes
    MaxLines = 2
    Chars = {"/", ".", "A", "B"}
    MaxPath = 3
SPECIFICATION AccessSpec
INVARIANT AccessConfined

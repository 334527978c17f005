CONSTANTS
    f1 = f1
    FuseThreads <- MCFuseThreads
    MaxCalls = 2
SPECIFICATION Spec
INVARIANT TypeOK
PROPERTY RpcSafe
INVARIANT PromiseTableExact
INVARIANT LoginDecidedByCredentials

CONSTANTS
    pong = pong
    files = files
    bad = bad
    NoApp = NoApp
    Apps <- MCApps
    Invalid <- MCInvalid
    Rendering <- MCRendering
    Sessions <- MCSessions
    CounterMax = 5
    MaxInstances = 4
    MaxTokens = 1
SPECIFICATION FairSpec
INVARIANTS ScopeReturned StaleWorkRejected
PROPERTIES ImplementsLifecycle RenderServed PendingCloseObeyed

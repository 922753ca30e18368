CONSTANTS
    Width = 2
    Height = 2
    MaxDirty = 2
    MaxCommands = 2
    Colors = {0, 1, 2}
    Draws <- MCDraws
    Writes <- MCWrites
    Regions <- MCRegions
    FailureMax = 2
SPECIFICATION DisplaySpec
INVARIANTS
    DamageAccounted
    WorkspaceExact

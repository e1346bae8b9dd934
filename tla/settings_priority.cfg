SPECIFICATION Spec
CONSTANTS
    None = None
    Malformed = Malformed
    Empty <- MCEmpty
    Computed <- MCComputed
    Resources <- MCResources
    Neighbours <- MCNeighbours
INVARIANT OwnSettingsWin

SPECIFICATION Spec
CONSTANTS
    d1 = d1
    Agent = {a1, a2}
    NoAgent = NoAgent
    Device = {d1}
    Command = {1, 2}
    DeviceOf <- MCDeviceOf
    PullLimit = 2
    BatchSize = 1
    EdgeLeads = FALSE
    Fits = {TRUE, FALSE}
    MaxRevision = 3
    MaxEdits = 0
INVARIANTS OneAgentRuns RunsOnlyAccepted PublishedIsRecorded BlockedForCause
SYMMETRY Symm
CONSTRAINT Followed

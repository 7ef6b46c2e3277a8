SPECIFICATION FairSpec
CONSTANTS
    d1 = d1
    Agent = {a1}
    NoAgent = NoAgent
    Device = {d1}
    Command = {1}
    DeviceOf <- MCDeviceOf
    PullLimit = 2
    BatchSize = 2
    EdgeLeads = FALSE
    Fits = {TRUE}
    MaxRevision = 4
    MaxEdits = 0
PROPERTIES SuccessReachesCloud

SPECIFICATION FairSpec
CONSTANTS
    w1 = w1  w2 = w2  eA = eA  eB = eB
    old = old  edited = edited  new = new
    a1 = a1  a1x = a1x  a2 = a2  b1 = b1
    codeA = codeA  codeA2 = codeA2  codeB = codeB  mA = mA  mB = mB
    NoKey = NoKey  NoSource = NoSource  NoWorker = NoWorker
    Workers = {w1, w2}
    Publishing = {w1, w2}
    Filter <- MCFilter
    Permits = 1
    Images = {old, edited, new}
    Deploys <- MCDeploys
    Senders = {old}
    Own <- MCOwn
    Code <- MCCode
    Extra <- MCExtra
    Sources = {a1, a1x, a2, b1}
    Machines = {mA, mB}
    Modules = {codeA, codeA2, codeB}
    MachineOf <- MCMachineOf
    VersionOf <- MCVersionOf
    Needs <- MCNeeds
    Executions = {eA, eB}
    Legacy <- MCLegacy
    MaxBoots = 2
    MaxFaults = 1
INVARIANT FleetAgrees
INVARIANT DeployFailsNotExecutions
PROPERTY NothingWaits
CHECK_DEADLOCK FALSE

CONSTANTS
    rule1 = rule1
    rule2 = rule2
    admin = admin
    sweep1 = sweep1
    t1 = t1
    t2 = t2
    b1 = b1
    b2 = b2
    b3 = b3
    b4 = b4
    q1 = q1
    q2 = q2
    q3 = q3
    q4 = q4
    Rules <- MCRules
    Isolations <- MCIsolations
    Addresses <- MCAddresses
    Foreign = {admin}
    Sweeps = {sweep1}
    MaxFwFaults = 1
    Threats <- MCThreats
    Ip <- OneIp
    Policy <- OnePolicy
    Asks <- MCThreats
    Automatic <- MCThreats
    Critical = {t1}
    Uncertain = {t2}
    Jobs <- MCJobs
    Home <- MCHome
    Host <- OneHost
    Isolating = {b2}
    Addressed = {b1, b2, b3}
    MaxUndoFaults = 1
    MaxReboots = 1
    Requests <- MCRequests
    ActionOf <- MCActionOf
    ActionLimit <- MCActionLimit
    GlobalLimit = 2
    Window = 2
CHECK_DEADLOCK FALSE
SPECIFICATION Spec
INVARIANTS
    FirewallSound
    TicketsSound
    
    RateSound

    

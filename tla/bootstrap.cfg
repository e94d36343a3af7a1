\* Any host, any mix of runs, failed commands, stopped services, kills and reboots.
CONSTANTS
    Services <- ClusterServices
    Bridges <- ClusterBridges
    MaxFaults = 2
    MaxKills = 2
SPECIFICATION OperatorSpec
INVARIANTS
    TypeOK
    ReadyIsReady
    PoolMissingOnlyByFault
    FailsOnlyByFault
PROPERTIES
    RerunChangesNothing
    DryRunHarmless
    Converges

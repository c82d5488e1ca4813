SPECIFICATION Spec
CONSTANTS
    Requests = {r1}
    Partitions = {p1, p2}
    HaEnable = TRUE
    MaxIndex = 3
    Kinds = {"Ping", "Peers", "CreateNode", "Snapshot", "Update", "Execute", "Report", "GetShardInfo", "GetDownSampleInfo", "GetRpMstInfos", "GetUserInfo", "GetStreamInfo", "GetMeasurementInfo", "RegisterQueryIDOffset"}
INVARIANT TypeOK
INVARIANT ExecuteIndexCoversCommand
INVARIANT CreatedMeansAllAssigned
INVARIANT NoSendOnClosedErrChan
PROPERTY EveryRequestIsAnswered

SPECIFICATION FairSpec
CONSTANT Families <- AllFamilies
INVARIANTS CollectorsStart ClusterNamed NeverTwice NothingElseArrives OpampReachesGateway
PROPERTY PromiseKept
\* The item that is followed comes to rest.
CHECK_DEADLOCK FALSE

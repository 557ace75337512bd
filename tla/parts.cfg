SPECIFICATION PartsSpec
CONSTANTS
  \* CommitThread
  MaxIndex = 3
  Conf = {2}
  \* Snapshot
  Leader = s1
  Follower = s2
  Distance = 1
  Reserved = 0
  SnapshotSize = 4
  BlockSize = 2
  MaxAppend = 2
  MaxSnapshotIndex = 4
  MaxErrors = 1
  \* FsLogStore and InMemLogStore
  small = small
  large = large
  BufSize = 99
  MemEntry = {a, b}
  Dummy = Dummy
  MaxStoreIndex = 6
  MaxPack = 2
  \* Election and ClientNode
  Node = {s1, s2, s3}
  Term = {1, 2}
  Contact = s1
  Nobody = Nobody
  MaxRequest = 3
  MaxChanges = 5
  \* Timers, AsyncResult, Ns3Rpc
  Peer = {s2, s3}
  ElectionTask = ElectionTask
  MaxElections = 2
  Getter = {s1, s2}
  MaxCalls = 6
CHECK_DEADLOCK FALSE
INVARIANT TypeOK
INVARIANT AppliesStored
INVARIANT DestroyedAfterStop
PROPERTY EveryCommittedApplied
PROPERTY StopCompletes
INVARIANT SnapshotTypeOK
INVARIANT SnapshotIsWhole
INVARIANT CutIsInSnapshot
PROPERTY FollowerCatchesUp
INVARIANT FilesTypeOK
INVARIANT ReadsAgree
INVARIANT PackHoldsRange
PROPERTY ImplementsLogStore
INVARIANT MemTypeOK
INVARIANT MemNoGaps
PROPERTY MemImplementsLogStore
INVARIANT OneLeaderPerTerm
INVARIANT OneElectionTimer
INVARIANT LeaderNeverTimesOut
INVARIANT HeartbeatsGoOn
INVARIANT HandlerCalled
INVARIANT NobodyLeftWaiting
INVARIANT BusyPeerIsFreed
INVARIANT AppendedOnce

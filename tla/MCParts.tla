------------------------------ MODULE MCParts ------------------------------
(***************************************************************************)
(* Model checking of the parts of the system that have a module of their   *)
(* own: snapshots, the two log stores, the committing thread, the abstract *)
(* election, the timers, async_result, the rpc client and the client.  A   *)
(* behaviour is one of the part that its initial state names, and the      *)
(* variables of the others stay as they are.                               *)
(***************************************************************************)
EXTENDS CommitThread, TLC

CONSTANTS
  \* Snapshot
  Leader, Follower, Distance, Reserved, SnapshotSize, BlockSize, MaxAppend, MaxSnapshotIndex,
  MaxErrors,
  \* the log stores; MCValue has the first two
  small, large, BufSize, MemEntry, Dummy, MaxStoreIndex, MaxPack,
  \* Election and ClientNode
  Node, Term, Contact, Nobody, MaxRequest, MaxChanges,
  \* Timers, AsyncResult, Ns3Rpc
  Peer, ElectionTask, MaxElections, Getter, MaxCalls

VARIABLES
  part,
  sn_start_idx, sn_last, sn_sm_commit_index, sn_quick_commit_idx, place, tested,
    last_snapshot, sm_snapshot, creating, running, next_log_idx, sn_busy,
    pending_commit, sync_ctx, sn_net, installing, saved, applied_snapshots, errors,
  idx_file, data_file, start_idx_file, fs_start_idx, entries_in_store, buf_start, buf,
  logs, mem_start_idx,
  votes, elections,
  role, catching_up, steps_to_down, hb_enabled, sched, status, unheard, tm_elections,
  has_result, as_handler, setter, registrar, getter, as_calls,
  rp_role, rp_busy, rp_handler, sent, calls,
  i, leader_, leading, cl_net, answer, appended, changes

MCValue == {small, large}
MCSize == (small :> 1) @@ (large :> 2)

Sn == INSTANCE Snapshot WITH
  Size <- SnapshotSize, Block <- BlockSize, MaxIndex <- MaxSnapshotIndex,
  start_idx <- sn_start_idx, last <- sn_last, sm_commit_index <- sn_sm_commit_index,
  quick_commit_idx <- sn_quick_commit_idx, busy <- sn_busy, net <- sn_net
Fs == INSTANCE MCFsLogStore WITH
  Value <- MCValue, Size <- MCSize, MaxIndex <- MaxStoreIndex, start_idx <- fs_start_idx
Mem == INSTANCE InMemLogStore WITH
  Entry <- MemEntry, MaxIndex <- MaxStoreIndex, start_idx <- mem_start_idx
El == INSTANCE Election WITH Server <- Node
Tm == INSTANCE Timers WITH
  Election <- ElectionTask, elections <- tm_elections
As == INSTANCE AsyncResult WITH handler <- as_handler, calls <- as_calls
Rp == INSTANCE Ns3Rpc WITH role <- rp_role, busy <- rp_busy, handler <- rp_handler
Cl == INSTANCE ClientNode WITH Server <- Node, net <- cl_net

\* What CommitThread, Election, Snapshot, FsLogStore, ClientNode and Timers assume of
\* their constants
ASSUME PartsAssumption ==
  /\ CommitAssumption /\ El!ElectionAssumption /\ Sn!SnapshotAssumption
  /\ Fs!StoreAssumption /\ Cl!ClientAssumption /\ Tm!TimersAssumption

ct_vars == vars
sn_vars == <<sn_start_idx, sn_last, sn_sm_commit_index, sn_quick_commit_idx, place, tested,
             last_snapshot, sm_snapshot, creating, running, next_log_idx, sn_busy,
             pending_commit, sync_ctx, sn_net, installing, saved, applied_snapshots,
             errors>>
fs_vars == <<idx_file, data_file, start_idx_file, fs_start_idx, entries_in_store,
             buf_start, buf>>
mem_vars == <<logs, mem_start_idx>>
el_vars == <<votes, elections>>
tm_vars == <<role, catching_up, steps_to_down, hb_enabled, sched, status, unheard,
             tm_elections>>
as_vars == <<has_result, as_handler, setter, registrar, getter, as_calls>>
rp_vars == <<rp_role, rp_busy, rp_handler, sent, calls>>
cl_vars == <<i, leader_, leading, cl_net, answer, appended, changes>>

\* The parts that do not run have one initial state.
PartsInit ==
  /\ Init /\ Sn!Init /\ Fs!Init /\ Mem!Init /\ El!Init /\ Tm!Init /\ As!Init
  /\ Rp!Init /\ Cl!Init
  /\ part \in {"snapshot", "files", "memory", "commit", "election", "timers",
              "async", "rpc", "client"}
  /\ part # "commit" => last = 0

PartsNext ==
  \/ /\ part = "snapshot" /\ Sn!Next
     /\ UNCHANGED <<part, fs_vars, mem_vars, ct_vars, el_vars, tm_vars,
                    as_vars, rp_vars, cl_vars>>
  \/ /\ part = "files" /\ Fs!NoLeftoverNext
     /\ UNCHANGED <<part, sn_vars, mem_vars, ct_vars, el_vars, tm_vars,
                    as_vars, rp_vars, cl_vars>>
  \/ /\ part = "memory" /\ Mem!Next
     /\ UNCHANGED <<part, sn_vars, fs_vars, ct_vars, el_vars, tm_vars,
                    as_vars, rp_vars, cl_vars>>
  \/ /\ part = "commit" /\ Next
     /\ UNCHANGED <<part, sn_vars, fs_vars, mem_vars, el_vars, tm_vars,
                    as_vars, rp_vars, cl_vars>>
  \/ /\ part = "election" /\ El!Next
     /\ UNCHANGED <<part, sn_vars, fs_vars, mem_vars, ct_vars, tm_vars,
                    as_vars, rp_vars, cl_vars>>
  \/ /\ part = "timers" /\ Tm!Next
     /\ UNCHANGED <<part, sn_vars, fs_vars, mem_vars, ct_vars, el_vars,
                    as_vars, rp_vars, cl_vars>>
  \/ /\ part = "async" /\ As!Next
     /\ UNCHANGED <<part, sn_vars, fs_vars, mem_vars, ct_vars, el_vars,
                    tm_vars, rp_vars, cl_vars>>
  \/ /\ part = "rpc" /\ Rp!Next
     /\ UNCHANGED <<part, sn_vars, fs_vars, mem_vars, ct_vars, el_vars,
                    tm_vars, as_vars, cl_vars>>
  \/ /\ part = "client" /\ Cl!Next
     /\ UNCHANGED <<part, sn_vars, fs_vars, mem_vars, ct_vars, el_vars,
                    tm_vars, as_vars, rp_vars>>

\* The fairness of CommitThread or of Snapshot, whichever runs
Serving ==
  \/ part = "commit" /\ Handling /\ UNCHANGED <<part, sn_vars>>
  \/ part = "snapshot" /\ Sn!Arrival /\ UNCHANGED <<part, ct_vars>>
StoppingOrTimeout ==
  \/ part = "commit" /\ Destroying /\ UNCHANGED <<part, sn_vars>>
  \/ part = "snapshot" /\ Sn!Heartbeat /\ UNCHANGED <<part, ct_vars>>
CommittingPart == part = "commit" /\ Committing /\ UNCHANGED <<part, sn_vars>>

fair_vars == <<part, ct_vars, sn_vars>>

PartsSpec ==
  /\ PartsInit
  /\ [][PartsNext]_<<part, sn_vars, fs_vars, mem_vars, ct_vars, el_vars,
                    tm_vars, as_vars, rp_vars, cl_vars>>
  /\ WF_fair_vars(Serving) /\ WF_fair_vars(StoppingOrTimeout) /\ SF_fair_vars(CommittingPart)

-----------------------------------------------------------------------------
(* The properties of the parts other than CommitThread, which their modules state *)
(* and comment                                                                    *)

\* The type invariant of Snapshot
SnapshotTypeOK == part = "snapshot" => Sn!TypeOK
\* The blocks that make up an applied snapshot are all of that snapshot.
SnapshotIsWhole == part = "snapshot" => Sn!SnapshotIsWhole
\* What is cut from a log is in a snapshot that the state machine has, or has saved
\* to be applied.
CutIsInSnapshot == part = "snapshot" => Sn!CutIsInSnapshot
\* While no call is lost and no snapshot fails, a follower behind the leader's log is brought back.
FollowerCatchesUp == part = "snapshot" => Sn!FollowerCatchesUp
\* The type invariant of FsLogStore
FilesTypeOK == part = "files" => Fs!TypeOK
\* fs_log_store reads the same entries from its buffer and its files.
ReadsAgree == part = "files" => Fs!ReadsAgree
\* fs_log_store::pack holds the entries it was asked for.
PackHoldsRange == part = "files" => Fs!PackHoldsRange
\* fs_log_store implements log_store.
ImplementsLogStore == Fs!ImplementsLogStore
\* The type invariant of InMemLogStore
MemTypeOK == part = "memory" => Mem!TypeOK
\* inmem_log_store's map has no gaps.
MemNoGaps == part = "memory" => Mem!NoGaps
\* inmem_log_store implements log_store.
MemImplementsLogStore == Mem!ImplementsLogStore
\* At most one server is elected in a term, by handle_voting_resp's count.
OneLeaderPerTerm == part = "election" => El!OneLeaderPerTerm
\* restart_election_timer leaves one election event.
OneElectionTimer == part = "timers" => Tm!OneElectionTimer
\* handle_election_timeout never finds a leader.
LeaderNeverTimesOut == part = "timers" => Tm!LeaderNeverTimesOut
\* Every peer of a leader has a heartbeat to come.
HeartbeatsGoOn == part = "timers" => Tm!HeartbeatsGoOn
\* set_result or when_ready calls the handler.
HandlerCalled == part = "async" => As!HandlerCalled
\* set_result leaves nobody waiting in get.
NobodyLeftWaiting == part = "async" => As!NobodyLeftWaiting
\* A busy peer's answer still frees it, whichever handler takes it.
BusyPeerIsFreed == part = "rpc" => Rp!BusyPeerIsFreed
\* No request of the client is appended twice.
AppendedOnce == part = "client" => Cl!AppendedOnce
=============================================================================

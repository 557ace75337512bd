# raftcore in TLA+

A verification development of `src/examples/raftcore`, the Raft library that
the ns-3 example of this repository is built around. The rest of the tree is the
ns-3 simulator, with its generated Python bindings, and two vendored libraries
(asio, rapidjson), which are not modelled. Paths below are relative to `src/examples/raftcore/`.

## The system

A `raft_server` per node keeps a log in a `log_store`, its term and vote through a
`state_mgr`, one `peer` object per other member, and a committing thread that
feeds committed entries to a `state_machine`. Requests arrive through
`process_req`, answers and errors through the callback a call was made with
(`peer::handle_rpc_result`, then `raft_server::handle_peer_resp`), time through
one election task and one heartbeat task per peer. All handlers take
`raft_server::lock_`; the committing thread takes it only for configuration
entries.

| component | state | operations | hard behaviour | what makes it correct |
|---|---|---|---|---|
| raft_server (`src/raft_server.cxx`) | term, vote, role, leader, votes counted, log, commit indexes | election timeout, vote and append requests and responses, heartbeat, client request | candidates racing, answers of older terms, diverging logs, restarts | one leader per term, logs that match, applied entries that stay, commit without heartbeats |
| peer (`headers/peer.hxx`, `src/peer.cxx`) | next and matched index, busy and pending commit flags | send, result, error | the flag must be freed by every end of a call, and only one call for entries may run | a busy peer has a call in flight; nothing stays unsent |
| committing thread (`commit_in_bg`) | `sm_commit_index_` | apply the next entry; wait, stop | reads indexes outside the lock, notification before the wait | what is applied is stored and committed, nothing committed stays unapplied, the server outlives the thread |
| state manager (`src/example_common.h`) | term, vote, configuration | save and read | `simple_state_mgr` saves nothing | a restart does not forget a vote |
| fs_log_store (`src/fs_log_store.cxx`) | three files, a buffer of the tail | append, write_at, pack, apply_pack, compact, reads, constructor | overwriting in place, truncation, positions relative to a file | files and buffer hold one log, the one the interface promises |
| prevote | prevote_state | request, response, timeout | lost round | a candidate had a majority, a round waits only for answers |
| membership | config, config_changing_, srv_to_join_ | add, remove, join, leave, log sync | two changes at once, restarts in between | logs stay copies of the leader's, a server is removed that agreed or was given up, a joiner is caught up before it is added |
| snapshots | last_snapshot_, sync context | create, install, compact | log cut while a peer or the committing thread reads it; cut before the snapshot is applied | a snapshot is applied whole, what is cut from a log is in a snapshot |
| timers (`headers/delayed_task.hxx`, `src/ns3_service.cpp`) | event ids, cancelled flag | schedule, cancel, fire | cancel racing fire; a task scheduled twice | one pending event per task |
| rpc (`src/ns3_service.cpp`, `src/asio_service.cxx`) | socket, handler slot | send, receive, error | second call before the first answer | a busy peer is always freed |
| async_result (`headers/async.hxx`) | result, handler | when_ready, set_result, get | both at once on two threads | the handler runs, at least once; no waiting thread is left |
| client (`src/client_node.cpp`) | request, believed leader | send, retry | forwarded requests that get lost | no request is appended twice |

`raft_node.cpp` runs the server with a fixed cluster, without prevote and with
`snapshot_distance_` 0, and `simple_state_mgr` on a `fs_log_store` with an
unlimited buffer. `RaftServer` is that configuration; prevote, membership and
snapshots, which a user of the library may switch on, have modules of their own.

## Modules

| module | models | extends or uses |
|---|---|---|
| `Election` | what the vote exchange promises: votes cast once, elections won by majorities | - |
| `RaftServer` | `raft_server`, its peers, its messages, its commit loop, restart and transport failure | `INSTANCE Election` |
| `MCRaftServer` | symmetry and a bound on messages in flight, for TLC | `RaftServer` |
| `MCScenario` | `RaftServer` from the end of a scripted path, for TLC | `RaftServer` |
| `LogStore` | what `log_store` promises: a log that is overwritten from an index on, and compacted | - |
| `FsLogStore` | `fs_log_store` and `log_store_buffer` | `INSTANCE LogStore` |
| `InMemLogStore` | `inmem_log_store` | `INSTANCE LogStore` |
| `MCFsLogStore` | entries of two sizes, for TLC | `FsLogStore` |
| `Membership` | adding and removing servers: invitation, log sync, leaving, reconfiguration | - |
| `RaftPrevote` | the prevote round and the timer that starts it | - |
| `MCMembership` | `Membership` or `RaftPrevote`, for TLC | `Membership`, `INSTANCE RaftPrevote` |
| `Snapshot` | creating, compacting, sending and installing snapshots | - |
| `Timers` | election and heartbeat tasks, `ns3_service::schedule` and `cancel` | - |
| `AsyncResult` | `async_result` | - |
| `Ns3Rpc` | `ns3_rpc_client` and the peer that calls it | - |
| `ClientNode` | `ClientNode` and the way of its requests through the servers | - |
| `MCParts` | the parts with a module of their own, one at a time, for TLC | `CommitThread`, `INSTANCE` of the others |
| `CommitThread` | `commit`, `commit_in_bg` and the destructor around their locks and condition variables | - |
| `ElectionProofs` | theorem of `Election` | `Election` |
| `RaftServerProofs` | type correctness, a leader keeps its log, no busy flag is forgotten | `RaftServer` |
| `RaftElectionProofs` | refinement of `Election`, one leader per term | `RaftServerProofs`, `INSTANCE ElectionProofs` |
| `RaftLeaderProofs` | the exit for a rival leader is unreachable; logs match | `RaftElectionProofs` |
| `LogStoreProofs` | both log stores implement `LogStore`; the map has no gaps, packs hold what was asked, the buffer agrees with the files | `MCParts` |
| `PartsProofs` | theorems of the parts: committing thread, results, rpc, client, timers, snapshots, and that of `Election` for `MCParts` | `MCParts`, `INSTANCE ElectionProofs` |
| `MembershipProofs` | type correctness, who is removed, logs are copies, packs are committed | `Membership` |
| `PrevoteProofs` | no server idles, rounds wait for answers, candidates had a majority | `MCMembership` |

### RaftServer

Variables carry the names of the members; a variable of `raft_server` is a
function of the server, one of `peer` a function of the server and the member it
stands for. Actions:

| action | code |
|---|---|
| `ElectionTimeout` | `handle_election_timeout`, `become_candidate`, `request_vote`, and `become_leader` in a cluster of one |
| `HandleVoteReq` | `process_req` with `update_term`, `handle_vote_req` |
| `HandleVotingResp` | `handle_peer_resp`, `handle_voting_resp`, `become_leader` |
| `HandleAppendEntries`, `RivalLeaderExit` | `process_req` with `update_term`, `handle_append_entries`; its `::exit` |
| `HandleAppendEntriesResp` | `peer::handle_rpc_result`, `handle_append_entries_resp`, `commit`, `request_append_entries`, `create_append_entries_req` with its `::exit` |
| `HandleNewerTermResp` | `handle_peer_resp` when `update_term` returns true |
| `HbTimeout` | `handle_hb_timeout` |
| `ClientRequest`, `ForwardedRequest` | `handle_cli_req`, `send_msg_to_leader`, `is_leader` |
| `CommitInBg` | one turn of the inner loop of `commit_in_bg` |
| `RpcError` | a lost request or answer, or a caller that gives up; `peer::handle_rpc_result` with an error |
| `Restart` | process end, `simple_state_mgr` or one that saves, constructor |

Abstractions. An entry is its term and whether it holds a configuration or
application data. Timers may fire whenever their handler would do something,
which covers every timeout value, so timer handling (cancel, restart, backoff) is
not in the model. `is_leader`, which depends on times of answers, may answer
either way in a leader. Messages in flight are a set: two equal messages from one
server to another are one, which loses only the case that both arrive; a request
whose caller has gone stays deliverable with its flag `open` off. A handler is
one action because it holds `lock_`; `commit_in_bg` is an action per entry since
it does not. When the committing thread has work it may run or not, and nothing
obliges it to: how it waits and is notified is in `CommitThread`. `votes`,
`elections` and `applied` are history: they only grow and no guard reads them. `ULongMax` stands for 2^64 - 1 where an unsigned 0 is
decremented.

### FsLogStore

The data file is a sequence of cells, an entry one or more cells, the index file
a sequence of positions; reading an entry takes the cells from its position to
the next one's, or to the end of the file, as `deserialize` does. `Stored` is the
log that the constructor would load. Every operation, `Reopen` included, is an
action; reads are operators, compared with `Stored` by `ReadsAgree` and
`PackHoldsRange`. Files do not fail and the process ends between operations only.

### InMemLogStore

`logs` is the map, dummy entry included; the next slot is computed from its size
as in the code. The caller's `lock_` makes an operation one action although
`logs_lock_` is taken per entry. `apply_pack` does not remove what is behind the
pack, where `fs_log_store` does; packs are therefore ones that reach the end of
the store, as those a joining server gets in order do.

### CommitThread

Three threads, a program counter each. `handler` runs `commit` under `lock_`
(`Receive`, `Commit`, `NotifyCommit`, with what happens to the log before it in
`Receive`; `AppendOnly` is a handler that does not commit). `committer` is
`commit_in_bg`: `Test`, `Block`, `Resume` for the first loop, `Apply` and
`ApplyConfig` for the second, `StopCommitting` and `Leave` for its end.
`destructor` is `~raft_server`, from `BeginStop` to `Finish`, one action per lock
it takes or gives back. `last` is the end of the log; handlers may rewrite what is
behind the committed part of it and leave that part alone, which is Raft's promise
and an input of this module (run `complete` shows how `raft_server` may break
it). A wait ends only when it is notified: spurious wakeups are left out, and the
wait of the destructor, which tests no condition, would not stand one.

### Membership

One leader stays in office. The extended requests, their answers and their errors
are messages; a round of append entries with one peer is one step (`Replicate`),
since `RaftServer` has it in detail. An entry is the set of servers of a
configuration, or an application's.

| action | code |
|---|---|
| `AddServer`, `RemoveServer` | `handle_add_srv_req` and `invite_srv_to_join_cluster`, `handle_rm_srv_req` |
| `HandleJoin`, `HandleSync`, `HandleLeave` | `handle_join_cluster_req`, `handle_log_sync_req` with `apply_pack`, `handle_leave_cluster_req` |
| `HandleJoinAnswer`, `HandleSyncAnswer`, `HandleLeaveAnswer` | the cases of `handle_ext_resp`, `sync_log_to_new_srv`, `rm_srv_from_cluster` |
| `RpcError` | a lost call: `handle_ext_resp_err`, `on_retryable_req_err` |
| `StepDown` | `handle_election_timeout` of a server that agreed to leave |
| `CommitInBg` | `commit_in_bg` and `reconfigure` |
| `ClientRequest`, `Replicate`, `Restart` | `handle_cli_req`, a round of append entries, constructor |

A packed log that does not fit makes `pack` or `apply_pack` throw, which nothing
catches: the process ends (`running`). With one newcomer `apply_pack` cannot
meet a pack that begins beyond its log; it takes two, asked one after the other,
so the branch of `HandleSync` for it is one that the theorems cover and the run
`membership` does not reach. How often a peer's interval has been
slowed down stands for the interval. A joining server that would need a snapshot
does not occur, as logs are not compacted here.

### RaftPrevote

A server, its round of prevote (`prevote_state_`: the voters, and how many
accepted) and whether its timer runs. `Rank` compares logs, which do not change. What
votes and entries do to terms and roles is `UpdateTerm`, `BecomeLeader` and
`HearFromLeader`. `granted` and `unheard` are history: who granted in the
candidate's term, and whose answer was lost or came from another term.

### Snapshot

A leader and a follower; a third server keeps up with the leader, so an entry is
committed when it is appended. A log is an interval of one history. Taking a
snapshot is external: the state machine has it some time after it was asked
(`SnapshotTaken`) and reports it some time after that (`on_snapshot_completed`).
`Request` is `request_append_entries` with its three ends: entries, a block of
a snapshot, or `::exit`.

An installation is several steps, since the order of its effects matters:

| action | code |
|---|---|
| `HandleInstall` | `handle_install_snapshot_req` and `handle_snapshot_sync_req` up to `compact` (1221): a block refused, saved, or the last one, which cuts the log; `compact` that returns false (1246-1249, declined) or throws (1252-1257, exit) |
| `ApplySnapshot` | `apply_snapshot` returns true (1226) |
| `InstallFails` | it returns false (1226-1230), or it or what follows throws (1252-1257): exit, with the log cut |
| `FinishInstall` | 1233-1243 and the answer; the three assignments are one step |

`installing` says where the handler is. It holds `lock_`, so requests and
`on_snapshot_completed` of the follower wait; what takes no lock goes on. That is
the committing thread, whose turn is `Test` (1721), `Increment` (1722), `Read`
(1724) and `ApplyEntry` (1726-1745), with the installation between any two of them:
`sm_commit_index_ += 1` may then store one more than the index that was tested
(`tested`) or than the one installed; the entry may be gone, when
`entry_at` of `fs_log_store` throws for an index that is cut and gives a null pointer for one past
the end, both of which end the process; `Far` is the unsigned difference of indexes that may wrap
by that. And it is the state machine, which takes snapshots and reports failures (`SnapshotFailed`)
without the server's lock. `on_snapshot_completed` ignores that `compact` returns
false; when an installation has cut more it throws, out of the state machine's thread, or into
`snapshot_and_compact` if the report came from within `create_snapshot`. One more order of
steps is in the model and forbidden by no property: the comment at 1222 says that "the state
machine will not be able to commit anything before the snapshot is applied", but an
application's entry that was read before `compact` is given to the state machine after it.

The state machine of the repository returns false from `apply_snapshot`
(`src/example_common.h:75-77`), and the program takes no snapshots; `Snapshot` has
both answers. The process that ends in `InstallFails` has a cut log and an older snapshot:
`CutIsInSnapshot` holds there because the blocks it saved are those of the whole
snapshot. What a restart makes of them is up to the state machine and not modelled.

### Timers

The tasks of one server, the map of `ns3_service` from a task to the event it was
last scheduled as, the flag of `delayed_task`, and the events of the simulator,
any of which may be next. `insert` keeps an entry that is there and `reset`
clears the flag for past events too, as in the code.

### AsyncResult, Ns3Rpc, ClientNode

`AsyncResult` has a thread that sets the result, one that registers a handler and
two that wait; a step is what happens under the lock or outside of it. `Ns3Rpc`
is one peer and its client with the one handler slot; the connection answers in
order. `ClientNode` is the client, the requests it repeats, and servers that
answer, append or pass on; who leads changes at any time.

## What is checked

| run | question | bounds |
|---|---|---|
| `election` | can voting go wrong, at any interleaving? `TypeOK`, `ElectionSafety`, `NoRivalLeader`, refinement `ImplementsElection` | 3 servers, term 1, a client request, a restart, any messages in flight, durable state, heartbeats |
| `replication` | do logs stay matched when leaders change, and does no flag stay set after an error? `LogMatching`, `LeaderAppendOnly`, `BusyHasCall` | from a leader one follower never heard from; terms up to 2, a client request, a lost message, at most 3 messages in flight |
| `urgent` | does everything reach everybody without heartbeats? `CommitWithoutHeartbeat` | from a new leader, 2 client requests, no failure |
| `parts`, snapshots | `SnapshotTypeOK`; are all blocks of one snapshot there, `SnapshotIsWhole`; is what was cut kept, `CutIsInSnapshot`; does the follower catch up, `FollowerCatchesUp` | 4 entries, snapshots of 2 blocks and 4 bytes, one failure: a lost call, a failed snapshot, `compact` or installation; no reserved entries |
| `parts`, log stores | does each store hold the log that `LogStore` promises? In files `FilesTypeOK`, `ReadsAgree`, `PackHoldsRange`, `ImplementsLogStore`; in memory `MemTypeOK`, `MemNoGaps`, `MemImplementsLogStore` | entries of 1 and 2 cells (two values in memory), indexes up to 6, packs of up to 2 entries, in files at 2 base positions; buffer of the whole log as in `raft_node.cpp` |
| `parts`, committing thread | can a lost notification, a rewritten log or the destructor's race with the thread do harm? `TypeOK`, `AppliesStored`, `DestroyedAfterStop`, `EveryCommittedApplied`, `StopCompletes` | 3 entries, the second a configuration |
| `parts`, election | `OneLeaderPerTerm` of `Election` | 3 servers, 2 terms |
| `parts`, timers | `OneElectionTimer`, `LeaderNeverTimesOut`, `HeartbeatsGoOn` | 2 peers, 2 elections won, any order of events |
| `parts`, results, rpc, client | is a handler called, nobody left waiting, a busy peer freed, a request appended once? `HandlerCalled`, `NobodyLeftWaiting`, `BusyPeerIsFreed`, `AppendedOnce` | 2 waiting threads; 6 calls; 3 servers, 3 requests, 5 changes of leadership |
| `membership`, changes | `TypeOK`; is anyone removed against its will, `LeaverAgreed`; do packs and entries fit, `LogIsPrefix`; does a joining server commit too much, `JoinerCommitsCommitted`; or join too early, `AddsCaughtUp` (which needs that only one server is asked to join: see `twojoiners`) | 3 founders and a newcomer, 3 entries, batches of 1, 2 requests and 2 faults (lost calls, restarts) but no more than 3 together, one retry |
| `membership`, prevote | can late answers elect, or a round stop the timer? `CandidateHadMajority`, `NeverIdle`, `RoundGoesOn` | 3 servers, one behind in the log, 2 terms, 2 rounds or losses, one late message per round, defensive or not |

Why the bounds are enough. Three servers are the smallest cluster in which a
majority is not everybody and two majorities differ. In `election` all three may
campaign for the one term, so votes split, and a voter may restart between its
vote and the next request; terms are independent in the vote exchange, and the
theorems below are for every number of them. In `replication` the script saves
the depth of the first election; afterwards the server that was cut off, or the
other follower, is elected in term 2 while requests and answers of term 1 are
still in flight, and entries of both terms meet at one index. In the log stores six
indexes allow a pack across the end, a compaction of part and of all of the log,
and overwriting after it; steps that leave remains of a longer tail (`Leftover`: the index
file does not shrink, the data should) are left out there and are what `shorter` is
about. Three entries let the committing
thread apply one, wait for `lock_` at the next and find one more. Four entries and
snapshots of two blocks let a second snapshot come while the first is half sent,
a follower take one of its own meanwhile, and entries follow it. Two elections
are enough for events of the first office to meet the second. Two requests put
two membership changes in progress with a fault in between, three entries and
batches of one make three packs, and a retry after a restart finds a server that
has forgotten it was joining.

`parts` runs one part at a time: its variable `part` says which, and the variables of
the other parts stand still, so its states are those of the parts side by side and not
multiplied. `membership` has the two protocols in the same way. `MCParts` has
`CommitThread`'s properties as they are, and states each of the others again for the
part that runs.

No deadlock is checked, since a run that has used up its bounds stops; the
committing thread stops with the server, and may hang: a destructor that notifies
while the thread is not waiting, or while the thread needs `lock_` for a
configuration, waits for ever. Those states are in the model; `StopCompletes`
says only what the code does ensure. Nor does anything exclude that a round of
prevote waits for ever: `RoundGoesOn` names the cases, a lost answer, an answer
of another term, and an answer so late that it begins a round by itself.

Fairness. `CommitWithoutHeartbeat` needs the delivery of messages alone: TCP
sockets of the simulator deliver or report an error, and the run has no errors.
Neither a timer nor the committing thread is obliged to run, so what a lost
notification does to the thread cannot matter to the property, which speaks of
logs and `quick_commit_idx` and not of `sm_commit_index`. Without heartbeats
traffic dies out, so delivering some message again and again delivers all of
them. The two liveness properties of `CommitThread` ask that handlers which call
`commit` keep coming, as heartbeats and their answers do, that a thread that can
run does, and that the committing thread gets `lock_` if it is free again and
again (strong fairness): handlers hold it for moments, between messages. Without
the heartbeats `EveryCommittedApplied` would fail on a lost notification.
`FollowerCatchesUp` asks that what is sent arrives, that an installation begun goes
on, and that heartbeats do (`FairSpec` of `Snapshot`), as long as no call is lost
and no snapshot or installation fails; the committing threads and the state machines may be as
slow as they like. After a lost call the exchange may go on for ever: the follower
declines the last block again and again.

Every property has a mutation of the code's logic that breaks it, listed in
`PROJECT.json` (a vote forgotten, half the votes taken for a majority, entries
not compared, an old term believed, a flag not read, files not cut, ...).

### Where the code and its text disagree

- `rival`: `handle_append_entries` exits when a leader hears a leader of its own
  term, "there must be a bug". With `simple_state_mgr` a voter that restarts
  votes twice in a term and two leaders meet there. With a state manager that
  saves, `NoRivalLeader` holds (`election`, theorem `NoRival`).
- `stale`: "ignore the response that with lower term for safety" is a comment
  with no code. A late answer of an older term sets next and matched index.
- `complete`: the constructor's argument rests on leaders having every committed
  entry. `handle_append_entries_resp` commits entries of older terms by counting
  replicas, so a leader without a committed entry can follow.
- `shorter`: `test_log_store` writes an entry, reopens the store and asserts that
  the last entry is the one written. Files are cut only if the index shrinks, so
  an entry that replaces a longer last one keeps its remains.
- `twochanges`: "we only allow one server to be added or removed at a time", but
  the flag that ensures it is set only when a configuration is appended. Two servers
  asked to leave at once are removed by two configurations, each without the
  other's change: the second takes the first server in again.
- `twojoiners`: "LogSync is done for server %d with log gap %d, now put the server
  into cluster" is logged of `srv_to_join_`, whose gap was counted from another
  server's answer: a second server asked to join before the first is in takes its
  place, and the next answer of the first puts the second into the cluster with an
  empty log and a configuration it never got.
- `reserved`: "for starting_idx - 1, we can check with last snapshot", which is
  true only when no entries are reserved: by default 10000 are, the log begins
  before the snapshot's end, and the leader exits for a follower that needs its first entry.

## What is proved

The theorems are for every value of the constants that the assumptions of the
module allow: finite sets of servers, natural numbers for the bounds. In
`RaftServer` and `Membership` the assumptions are `ASSUME`s, which TLC evaluates in every
run. The parts name theirs (`ElectionAssumption`, `CommitAssumption`, ...), the theorems
of their own modules have them as hypotheses, and `PartsAssumption` of `MCParts`
and `VoterAssumption` of `MCMembership` assume them of the constants. Those two modules
fix no value (the cfgs do), so what is proved of `PartsSpec` and
`EitherSpec` is about the specifications that the runs check, at any size.

- `OneLeader` (`ElectionProofs`): `Election` has one leader per term. Invariant:
  votes are typed, no server votes twice in a term, each election has a majority;
  two majorities of a finite set meet.
- `TypeCorrect` (`RaftServerProofs`): `TypeOK` is inductive. Its lemmas
  give the types of what the operators return: `MergeLog` is a log, the index a
  majority has matched is a natural number, the messages of a handler are
  messages.
- `LeaderKeepsLog` and `NoFlagForgotten` (`RaftServerProofs`): from the types
  alone, only `HandleAppendEntries` cuts a log, and it leaves a follower;
  `BusyHasCall` is inductive beside `TypeOK`: the step that ends a call for entries
  frees its peer, and the requests of a new term go out with the flags they need.
- `Refinement` and `OneRaftLeader` (`RaftElectionProofs`): with durable state the
  servers implement `Election`, hence `ElectionSafety`. A step of the server does
  not show on its face that the votes counted were cast, so the invariant `IInv`
  adds: `VotesRemembered` (a vote of a server's current term is the one in
  `voted_for`, and none is of a later term), `ResponsesBacked` (a granting answer
  in flight stands for a vote cast) and `CountBacked` (those counted in the
  current term voted for the candidate, each once). A majority counted is then a
  majority that voted. `OneRaftLeader` follows from the refinement and
  `OneLeader`.
- `NoRival` (`RaftLeaderProofs`): with durable state the rival exit is
  unreachable. The invariant `LInv` adds that a leader was elected in its term and
  that a request for entries comes from a server elected in the request's term; a
  leader that received one from another would contradict `ElectionSafety`.
- `LogsMatch` (`RaftLeaderProofs`): with durable state `LogMatching` holds. `LogMatching`
  says nothing of what is in flight, so the invariant `Matching` speaks of the known
  entries, in a log or in a request, open or not: index and term tell an entry and the
  term of the one before it (`Unique`); each comes from a leader elected in its
  term and lies within that leader's log while it leads (`Owned`); nothing comes
  before index 1 (`FirstOkay`); a server that was elected in a term counts no more
  votes in it (`ElectionsOver`). A step either makes no entry known or puts one at the
  end of a leader's log (`Adds`), where no entry of the term is known: of those
  one leader is the owner, and a leader's log does not get shorter.
  Matching logs are the entries of two logs compared downwards from a common one.
- `TypeCorrect`, `AppliedIsStored` and `StoppedBeforeDestroyed`
  (`PartsProofs`): the indexes stay in the log's range; the thread applies only what is stored and committed; the destructor returns after it. The
  invariant adds who holds `stopping_lock_` where, and that only a thread on its
  way out wakes the destructor.
- `MemoryTyped`, `MemoryHasNoGaps` and `MemoryIsLog` (`LogStoreProofs`): for any entries
  and packs the map has an entry at every index of the log and nowhere else. The
  invariant names the end of the log (`Holds`); from it the size of the map gives the
  next slot, and each operation moves the end or the beginning. So the map can be
  read as a sequence, `MemView`, and each operation of the store is an `Overwrite` or a
  `Compact` of it: `inmem_log_store` implements `LogStore`.
- `FilesTyped`, `FilesAreLog`, `PacksHoldRange` and `ReadsAreStored` (`LogStoreProofs`): the
  same of `fs_log_store`, for any number of entries and any size of pack. (Entries take a
  cell or two, as in `MCParts`; the proofs use only that they take room.) What the files mean is `AllStored`, which reads at positions, so the invariant
  `FsInv` says how they are laid out (`Laid`): positions begin at 0, grow, and are inside
  the data. Two lemmas do the work of all operations. `Spliced`: entries laid out elsewhere,
  put behind the first `k` with their positions moved, give the first `k` entries and the
  new ones; `append`, `write_at` and `apply_pack` are such writes, because nothing is
  left behind what they wrote (`WrittenAndCut`). `Sliced`: entries from one place to
  another, with positions moved to 0, give that part of the log; `compact` and `pack`
  are such. A pack flattens its entries with a recursive function: that there is such a
  function (`FlattenedExists`) and what it computes (`PrefixStep`, `PrefixGrows`) is
  shown by induction over the set of places where it holds (`SetInduction`, from the least
  place where it would not).
  `ReadsAreStored` has the hypothesis `BufSize >= MaxStoreIndex`: the buffer has room
  for the log, as with the default size of the constructor, which `raft_node` uses. The other
  three hold for any size.
- `HandlerIsCalled` and `NobodyWaitsForever` (`PartsProofs`): the invariant says what the
  places of setter and registrar imply, in particular that once both are done one of
  them found the other's result or handler.
- `BusyPeerAnswers` (`PartsProofs`): once typed, `BusyPeerIsFreed` is inductive: a
  request for entries is sent only by a peer that is not busy and puts its handler in the
  slot, and a vote request, which would overwrite it, only by a candidate.
- `RequestAppendedOnce` (`PartsProofs`): a request is in one place at a time. The
  invariant counts its copies in flight (`OnceInFlight`), and says that one the client
  still has to send, or sends again, was not appended.
- `OneElectionEvent`, `NoTimeoutOfLeader` and `HeartbeatsContinue` (`PartsProofs`): none
  is inductive, since `cancel` reaches only the event that the map of `ns3_service`
  names. `TmInv` adds that every pending election event is that one (`NamedInMap`), that a
  leader has none, not even a cancelled one, and when tasks are armed.
- `SnapshotsTyped`, `AppliedAreWhole` and `CutsAreInSnapshots` (`PartsProofs`): a snapshot
  is whole when its last block arrives if every block before an offset is saved
  whenever the leader is at that offset (`SavedUpTo`). This passes from the leader's context to
  a request, to its answer and back, so `CallOK` ties the three together: one call
  is under way (`OneCall`), an open request asks for what the context says, an accepted
  answer takes the context to an offset with all before it saved (`MessageOK`). That
  needs offsets to be multiples of the block size. The call an installation was begun for
  is in `installing` instead of in the net, so `OneCall` counts it there, and `InstallOK` says that the
  snapshot being installed has all its blocks saved and ends where the log was cut.
  `CutsAreInSnapshots` follows from it for a follower that has cut its log and has not
  applied the snapshot, or has exited before it could. `LeaderSnapshots` orders the snapshots
  of the leader for the cut of its log, and says that nothing moves the index under its committing
  thread.
- `OneLeaderElected` (`PartsProofs`) carries `OneLeader` over to `MCParts`.
- `TimerOrRound`, `RoundsWait` and `CandidatesHadMajority` (`PrevoteProofs`), for any
  number of servers. The invariant says of messages that an accepted answer of the
  candidate's term was granted in it (`NetOK`), of a round that it counts only
  voters who granted (`Counted`), and that it waits for all who have not answered
  (`Waits`): so a candidate had a majority, and a late answer is of an earlier term.
- `TypeCorrect`, `RemovalsAgreed`, `LogsAreCopies` and `PacksAreCommitted`
  (`MembershipProofs`): through any number of joins, leaves, retries, lost calls
  and restarts. `IInv` joins the types of servers, peers and messages to two facts
  that a step needs: an accepted answer to a leave request comes from a server
  that agreed (`NetOK`), and the configuration a leader builds the next one from
  lacks only servers that agreed or were given up (`LogsOK`). Since
  the leader's log only grows, `Copies` then says of each log and of each pack in
  flight, answered or not, that it is a piece of the leader's log, of its
  committed part for a pack; overwriting a prefix by such a piece gives a prefix.

`DurableState` is a hypothesis of `Refinement`, `OneRaftLeader`, `NoRival` and
`LogsMatch`: without it two servers may lead one term (run `rival`), and each may
write an entry of its own at the same index.

Model-checked only: `AddsCaughtUp`, which is false for two newcomers (run
`twojoiners`), and the liveness properties `CommitWithoutHeartbeat`,
`EveryCommittedApplied`, `StopCompletes` and `FollowerCatchesUp`: liveness under
fairness is outside what the prover can do.

## Not modelled

- Changes of leader during a membership change, in particular a leave answer that
  reaches a server which no longer leads (`handle_ext_resp` tests neither role nor
  term) and the term and vote that joining sets back. With elections the
  space of `Membership` is out of TLC's reach.
- Crashes inside an operation of `fs_log_store`, failing files, and a buffer smaller
  than the log, hence its reads from the files and the trim below its first index.
- The asio service: its threads let a timer fire while it is being cancelled. The
  listener of ns-3 and the reassembly of its messages.
- A prevote server in defensive mode grants whenever `prevote_state_` exists, also
  when it is the empty one of a failed round; `raft_params.hxx` (155-158) speaks of
  servers that "are also in prevote status". `RaftPrevote` has what the code does;
  no property is made of it.
- A client request that is lost on its way between servers: nothing repeats it.
- The clients of `tests/src/test_impls.cxx` and `test_everything_together.cxx`, which send a redirected
  request again to the leader they were told of, although the server has forwarded it:
  `AppendedOnce` is about `client_node`.
- A restart of a server that exited with its log cut and the snapshot not applied; a
  follower whose `last_snapshot_` is older than its log's beginning and that becomes leader.
- The clearing of `config_changing_` when a joining server is given up (`raft_server.cxx:1411`) while
  another change is being committed is in `Membership` (`RetryOrGiveUp`), but beyond the bounds of its runs.
- `buffer`, base64, serialization, formatting and logging keep no state between
  steps; `raft_node.cpp` and the topology helper set up a simulation.
- The ns-3 tree (`src/src`), which is the bulk of the repository: most of its
  Python lines are bindings generated from the headers
  (`bindings/modulegen__gcc_*.py`), lists of registrations in which nothing
  happens that a state machine could describe. raftcore uses of ns-3 its event queue
  and its sockets, which `Timers` and `Ns3Rpc` have from how they are used.

------------------------------ MODULE Snapshot ------------------------------
(***************************************************************************)
(* Snapshots, compaction and installation, between a leader that stays in  *)
(* office and one follower; a third server keeps up with the leader, so    *)
(* that an entry is committed as soon as it is appended.  A log is the     *)
(* interval start_idx .. last of one history, so its entries are not told  *)
(* apart.  The state machine is external: it takes a snapshot some time    *)
(* after it is asked to, and reports it some time after that.              *)
(***************************************************************************)
EXTENDS Integers, FiniteSets

CONSTANTS
  Leader, Follower,
  Distance,       \* snapshot_distance_
  Reserved,       \* reserved_log_items_
  Size, Block,    \* bytes of a snapshot and of a block of it
  MaxAppend,      \* max_append_size_
  MaxIndex, MaxErrors   \* bounds: entries; lost calls and failed snapshots

SnapshotAssumption ==
  /\ Leader # Follower /\ Distance \in Nat \ {0} /\ Reserved \in Nat
  /\ Size \in Nat \ {0} /\ Block \in Nat \ {0} /\ MaxAppend \in Nat \ {0}
  /\ MaxIndex \in Nat /\ MaxErrors \in Nat

Server == {Leader, Follower}

VARIABLES
  start_idx, last,      \* log_store_: start_index(), next_slot() - 1
  sm_commit_index, quick_commit_idx,
  place, tested,        \* where commit_in_bg is, and the sm_commit_index_ of its test
  last_snapshot,        \* index of last_snapshot_, 0 for none
  sm_snapshot,          \* index of state_machine_->last_snapshot()
  creating,             \* index of the snapshot in progress, or 0
  running,
  next_log_idx, busy, pending_commit, sync_ctx,   \* the leader's peer object
  net,
  installing,           \* the follower's handler between compact and its answer
  saved,                \* history: <<snapshot, offset>> the follower has saved
  applied_snapshots,    \* history: snapshots the follower has applied
  errors                \* lost calls, failed snapshots and failed installations

logVars == <<start_idx, last>>
commitVars == <<sm_commit_index, quick_commit_idx, place, tested>>
snapshotVars == <<last_snapshot, sm_snapshot, creating>>
peerVars == <<next_log_idx, busy, pending_commit, sync_ctx>>
history == <<saved, applied_snapshots, errors>>
vars == <<logVars, commitVars, snapshotVars, running, peerVars, net, installing, history>>

Smaller(a, b) == IF a < b THEN a ELSE b
Larger(a, b) == IF a < b THEN b ELSE a

NoCtx == [snapshot |-> 0, offset |-> 0]
NoInstall == [snapshot |-> 0, applied |-> FALSE, open |-> FALSE]
Installing == installing # NoInstall   \* the follower's lock_ is held
Offsets == {o \in 0 .. Size - 1 : o % Block = 0}

Message ==
  [type : {"append"}, last_log_idx : Nat, end : Nat, commit : Nat, open : BOOLEAN] \cup
  [type : {"install"}, snapshot : Nat, offset : Offsets, open : BOOLEAN] \cup
  [type : {"append_resp", "install_resp"}, accepted : BOOLEAN, next_idx : Nat]

TypeOK ==
  /\ \A f \in {start_idx, last, sm_commit_index, quick_commit_idx, tested,
               last_snapshot, sm_snapshot, creating} : f \in [Server -> Nat]
  /\ place \in [Server -> {"test", "add", "read", "apply"}]
  /\ running \in [Server -> BOOLEAN]
  /\ next_log_idx \in Nat /\ busy \in BOOLEAN /\ pending_commit \in BOOLEAN
  /\ sync_ctx \in [snapshot : Nat, offset : Nat]
  /\ net \subseteq Message
  /\ installing \in [snapshot : Nat, applied : BOOLEAN, open : BOOLEAN]
  /\ saved \subseteq Nat \X Offsets /\ applied_snapshots \subseteq Nat /\ errors \in Nat

Init ==
  /\ start_idx = [s \in Server |-> 1]
  /\ last = [s \in Server |-> 0]
  /\ sm_commit_index = last /\ quick_commit_idx = last /\ tested = last
  /\ place = [s \in Server |-> "test"]
  /\ last_snapshot = last /\ sm_snapshot = last /\ creating = last
  /\ running = [s \in Server |-> TRUE]
  /\ next_log_idx = 1 /\ busy = FALSE /\ pending_commit = FALSE /\ sync_ctx = NoCtx
  /\ net = {} /\ installing = NoInstall /\ saved = {} /\ applied_snapshots = {} /\ errors = 0

Exit(s) == running' = [running EXCEPT ![s] = FALSE]

\* term_for_log of an index that is neither in the log nor the last of the
\* state machine's snapshot ends the process; so does, by a range_error that
\* nobody catches, log_entries of indexes before start_idx.
TermKnown(s, i) == i = 0 \/ i >= start_idx[s] \/ i = sm_snapshot[s]

-----------------------------------------------------------------------------
(* The committing thread and the snapshots it asks for.  It takes no lock for an  *)
(* entry of the application, so an installation may come between any two of its   *)
(* steps and moves the commit index and the beginning of the log under it.        *)

Test(s) ==
  /\ running[s] /\ place[s] = "test"
  /\ sm_commit_index[s] < quick_commit_idx[s] /\ sm_commit_index[s] < last[s]
  /\ place' = [place EXCEPT ![s] = "add"]
  /\ tested' = [tested EXCEPT ![s] = sm_commit_index[s]]
  /\ UNCHANGED <<logVars, sm_commit_index, quick_commit_idx, snapshotVars, running, peerVars,
                 net, installing, history>>

\* sm_commit_index_ += 1 is not atomic: what an installation has just stored may be
\* overwritten by one more than the index that was tested.
Increment(s) ==
  /\ running[s] /\ place[s] = "add"
  /\ \E i \in {sm_commit_index[s], tested[s]} :
        sm_commit_index' = [sm_commit_index EXCEPT ![s] = i + 1]
  /\ place' = [place EXCEPT ![s] = "read"]
  /\ tested' = [tested EXCEPT ![s] = 0]
  /\ UNCHANGED <<logVars, quick_commit_idx, snapshotVars, running, peerVars, net, installing,
                 history>>

\* entry_at throws for an index that is cut, which ends the process, and gives a null
\* pointer for one past the end, which ends it as well.
Read(s) ==
  /\ running[s] /\ place[s] = "read"
  /\ IF sm_commit_index[s] \in start_idx[s] .. last[s]
     THEN place' = [place EXCEPT ![s] = "apply"] /\ UNCHANGED running
     ELSE Exit(s) /\ UNCHANGED place
  /\ UNCHANGED <<logVars, sm_commit_index, quick_commit_idx, tested, snapshotVars, peerVars,
                 net, installing, history>>

\* A difference of unsigned indexes is large when it wraps.
Far(i, j) == i < j \/ i - j >= Distance

\* Apply the entry, and snapshot_and_compact, whose term_at throws for an index that is
\* cut: then it gives up.
ApplyEntry(s) ==
  LET i == sm_commit_index[s] IN
  /\ running[s] /\ place[s] = "apply"
  /\ place' = [place EXCEPT ![s] = "test"]
  /\ creating' = IF /\ i >= start_idx[s] /\ Far(i, start_idx[s])
                    /\ (last_snapshot[s] = 0 \/ Far(i, last_snapshot[s]))
                    /\ creating[s] = 0
                 THEN [creating EXCEPT ![s] = i] ELSE creating
  /\ UNCHANGED <<logVars, sm_commit_index, quick_commit_idx, tested, last_snapshot, sm_snapshot,
                 running, peerVars, net, installing, history>>

\* External: the state machine has a snapshot of the index it was asked for.
SnapshotTaken(s) ==
  /\ running[s] /\ creating[s] > sm_snapshot[s]
  /\ sm_snapshot' = [sm_snapshot EXCEPT ![s] = creating[s]]
  /\ UNCHANGED <<logVars, commitVars, last_snapshot, creating, running, peerVars, net,
                 installing, history>>

\* on_snapshot_completed of a failure: nothing but the end of the snapshot
SnapshotFailed(s) ==
  /\ running[s] /\ creating[s] # 0
  /\ creating' = [creating EXCEPT ![s] = 0]
  /\ errors < MaxErrors /\ errors' = errors + 1
  /\ UNCHANGED <<logVars, commitVars, last_snapshot, sm_snapshot, running, peerVars, net,
                 installing, saved, applied_snapshots>>

\* on_snapshot_completed of a success, with lock_: the log is cut up to the snapshot but
\* for the reserved entries.  That compact returns false goes unnoticed; it throws when
\* an installation has cut more, which ends the process, unless the state machine
\* reports from within create_snapshot, where snapshot_and_compact catches it.
on_snapshot_completed(s) ==
  LET cut == creating[s] - Reserved IN
  /\ running[s] /\ creating[s] # 0 /\ sm_snapshot[s] >= creating[s]
  /\ s = Follower => ~Installing
  /\ creating' = [creating EXCEPT ![s] = 0]
  /\ last_snapshot' = [last_snapshot EXCEPT ![s] = creating[s]]
  /\ \/ /\ cut >= start_idx[s]
        /\ start_idx' = [start_idx EXCEPT ![s] = cut + 1]
        /\ last' = [last EXCEPT ![s] = Larger(@, cut)]
        /\ UNCHANGED <<running, errors>>
     \/ /\ cut >= start_idx[s]
        /\ errors < MaxErrors /\ errors' = errors + 1
        /\ UNCHANGED <<logVars, running>>
     \/ /\ cut < start_idx[s]
        /\ UNCHANGED running \/ (cut > 0 /\ Exit(s))
        /\ UNCHANGED <<logVars, errors>>
  /\ UNCHANGED <<commitVars, sm_snapshot, peerVars, net, installing, saved,
                 applied_snapshots>>

-----------------------------------------------------------------------------
(* The leader and its peer object *)

\* create_append_entries_req and create_sync_snapshot_req, for a peer made busy:
\* entries after next_log_idx - 1, or the next block of a snapshot when they are
\* gone.  The leader ends when it can do neither.
SendEntries(nxt, ctx, rest) ==
  LET prev == nxt - 1 IN
  /\ TermKnown(Leader, prev) /\ prev + 1 >= start_idx[Leader]
  /\ net' = rest \cup {[type |-> "append", last_log_idx |-> prev,
                        end |-> Smaller(last'[Leader], prev + MaxAppend),
                        commit |-> quick_commit_idx'[Leader], open |-> TRUE]}
  /\ sync_ctx' = ctx
  /\ busy' = TRUE /\ UNCHANGED running

SendBlockOn(nxt, ctx, rest) ==   \* mutant: goes on at the old offset in a newer snapshot
  LET c == [snapshot |-> Larger(last_snapshot[Leader], ctx.snapshot), offset |-> ctx.offset] IN
  /\ nxt > 1 /\ nxt < start_idx[Leader]
  /\ sync_ctx' = c
  /\ net' = rest \cup {[type |-> "install", snapshot |-> c.snapshot,
                        offset |-> c.offset, open |-> TRUE]}
  /\ busy' = TRUE /\ UNCHANGED running

SendBlock(nxt, ctx, rest) ==
  LET newer == ctx = NoCtx \/ last_snapshot[Leader] > ctx.snapshot
      c == IF newer THEN [snapshot |-> last_snapshot[Leader], offset |-> 0] ELSE ctx IN
  /\ nxt > 1 /\ nxt < start_idx[Leader]
  /\ newer => nxt - 1 <= last_snapshot[Leader]
  /\ sync_ctx' = c
  /\ net' = rest \cup {[type |-> "install", snapshot |-> c.snapshot,
                        offset |-> c.offset, open |-> TRUE]}
  /\ busy' = TRUE /\ UNCHANGED running

CannotSend(nxt, ctx, rest) ==
  /\ \/ nxt >= start_idx[Leader] /\ ~TermKnown(Leader, nxt - 1)
     \/ nxt = 1 /\ start_idx[Leader] > 1
     \/ nxt < start_idx[Leader] /\ ctx = NoCtx /\ nxt - 1 > last_snapshot[Leader]
  /\ Exit(Leader) /\ net' = rest /\ busy' = TRUE /\ sync_ctx' = ctx

\* request_append_entries for a peer that is free
Request(nxt, ctx, rest) ==
  SendEntries(nxt, ctx, rest) \/ SendBlock(nxt, ctx, rest) \/ CannotSend(nxt, ctx, rest)

Wait(nxt, ctx, rest) ==   \* nothing to send
  busy' = FALSE /\ sync_ctx' = ctx /\ net' = rest /\ UNCHANGED running

\* handle_cli_req; the commit of the new entry finds the peer busy, or sends
ClientRequest ==
  /\ running[Leader] /\ last[Leader] < MaxIndex
  /\ last' = [last EXCEPT ![Leader] = @ + 1]
  /\ quick_commit_idx' = [quick_commit_idx EXCEPT ![Leader] = last[Leader] + 1]
  /\ IF busy
     THEN pending_commit' = TRUE /\ UNCHANGED <<busy, sync_ctx, net, running>>
     ELSE Request(next_log_idx, sync_ctx, net) /\ UNCHANGED pending_commit
  /\ UNCHANGED <<start_idx, sm_commit_index, place, tested, snapshotVars, next_log_idx,
                 installing, history>>

\* handle_hb_timeout
HbTimeout ==
  /\ running[Leader] /\ ~busy
  /\ UNCHANGED <<logVars, commitVars, snapshotVars, next_log_idx, pending_commit, installing,
                 history>>
  /\ Request(next_log_idx, sync_ctx, net)

HandleAppendResp(m) ==
  /\ m.type = "append_resp" /\ running[Leader]
  /\ next_log_idx' = IF m.accepted \/ (m.next_idx > 0 /\ next_log_idx > m.next_idx)
                     THEN m.next_idx ELSE next_log_idx - 1
  /\ pending_commit' = (pending_commit /\ ~m.accepted)
  /\ UNCHANGED <<logVars, commitVars, snapshotVars, installing, history>>
  /\ IF ~m.accepted \/ pending_commit \/ m.next_idx <= last[Leader]
     THEN Request(next_log_idx', sync_ctx, net \ {m})
     ELSE Wait(next_log_idx', sync_ctx, net \ {m})

InstallRespSame(m) ==   \* mutant: next_log_idx stays before the snapshot
  LET dropped == m.accepted /\ sync_ctx = NoCtx
      done == m.accepted /\ ~dropped /\ m.next_idx >= Size
      nxt == next_log_idx
      ctx == IF done THEN NoCtx
             ELSE IF m.accepted /\ ~dropped THEN [sync_ctx EXCEPT !.offset = m.next_idx] ELSE sync_ctx IN
  /\ m.type = "install_resp" /\ running[Leader]
  /\ next_log_idx' = nxt
  /\ pending_commit' = (pending_commit /\ ~done)
  /\ UNCHANGED <<logVars, commitVars, snapshotVars, installing, history>>
  /\ IF ~dropped /\ (~done \/ pending_commit \/ m.next_idx <= last[Leader])
     THEN Request(nxt, ctx, net \ {m})
     ELSE Wait(nxt, ctx, net \ {m})

InstallRespPast(m) ==   \* mutant: asks for a block after the last
  LET dropped == m.accepted /\ sync_ctx = NoCtx
      done == m.accepted /\ ~dropped /\ m.next_idx > Size
      nxt == IF done THEN sync_ctx.snapshot + 1 ELSE next_log_idx
      ctx == IF done THEN NoCtx
             ELSE IF m.accepted /\ ~dropped THEN [sync_ctx EXCEPT !.offset = m.next_idx] ELSE sync_ctx IN
  /\ m.type = "install_resp" /\ running[Leader]
  /\ next_log_idx' = nxt
  /\ pending_commit' = (pending_commit /\ ~done)
  /\ UNCHANGED <<logVars, commitVars, snapshotVars, installing, history>>
  /\ IF ~dropped /\ (~done \/ pending_commit \/ m.next_idx <= last[Leader])
     THEN Request(nxt, ctx, net \ {m})
     ELSE Wait(nxt, ctx, net \ {m})

\* After the last block next_idx, which is a number of bytes, is compared with
\* next_slot, which is an index.
HandleInstallResp(m) ==
  LET dropped == m.accepted /\ sync_ctx = NoCtx
      done == m.accepted /\ ~dropped /\ m.next_idx >= Size
      nxt == IF done THEN sync_ctx.snapshot + 1 ELSE next_log_idx
      ctx == IF done THEN NoCtx
             ELSE IF m.accepted /\ ~dropped THEN [sync_ctx EXCEPT !.offset = m.next_idx] ELSE sync_ctx IN
  /\ m.type = "install_resp" /\ running[Leader]
  /\ next_log_idx' = nxt
  /\ pending_commit' = (pending_commit /\ ~done)
  /\ UNCHANGED <<logVars, commitVars, snapshotVars, installing, history>>
  /\ IF ~dropped /\ (~done \/ pending_commit \/ m.next_idx <= last[Leader])
     THEN Request(nxt, ctx, net \ {m})
     ELSE Wait(nxt, ctx, net \ {m})

-----------------------------------------------------------------------------
(* The follower *)

\* The answer goes to the caller, if it still waits.
Reply(m, type, ok, next) ==
  net' = (net \ {m}) \cup
         (IF m.open THEN {[type |-> type, accepted |-> ok, next_idx |-> next]} ELSE {})

\* handle_append_entries: entries from an earlier index than the log's are
\* looked up in the log all the same.
HandleAppend(m) ==
  LET f == Follower
      okay == m.last_log_idx <= last[f] IN
  /\ m.type = "append" /\ running[f] /\ ~Installing
  /\ UNCHANGED <<start_idx, sm_commit_index, place, tested, snapshotVars, peerVars, installing,
                 history>>
  /\ IF okay /\ (~TermKnown(f, m.last_log_idx)
                  \/ (m.end > m.last_log_idx /\ m.last_log_idx + 1 < start_idx[f]))
     THEN Exit(f) /\ net' = net \ {m} /\ UNCHANGED <<last, quick_commit_idx>>
     ELSE IF ~okay
     THEN Reply(m, "append_resp", FALSE, last[f] + 1) /\ UNCHANGED <<last, quick_commit_idx, running>>
     ELSE /\ Reply(m, "append_resp", TRUE, m.end + 1)
          /\ last' = [last EXCEPT ![f] = Larger(@, m.end)]
          /\ quick_commit_idx' = [quick_commit_idx EXCEPT ![f] = Larger(@, m.commit)]
          /\ UNCHANGED running

\* handle_install_snapshot_req, and handle_snapshot_sync_req up to compact.  The last
\* block cuts the log before the snapshot is applied, and is not answered yet.  When
\* compact reports an error the block is declined and the log is as before; when the
\* snapshot is older than the log's beginning it throws, which ends the process.
HandleInstall(m) ==
  LET f == Follower
      refused == m.snapshot <= sm_commit_index[f]
      done == m.offset + Block >= Size IN
  /\ m.type = "install" /\ running[f] /\ ~Installing
  /\ saved' = IF refused THEN saved ELSE saved \cup {<<m.snapshot, m.offset>>}
  /\ UNCHANGED <<commitVars, snapshotVars, peerVars, applied_snapshots>>
  /\ \/ /\ refused /\ Reply(m, "install_resp", FALSE, 0)
        /\ UNCHANGED <<logVars, running, installing, errors>>
     \/ /\ ~refused /\ ~done /\ Reply(m, "install_resp", TRUE, m.offset + Block)
        /\ UNCHANGED <<logVars, running, installing, errors>>
     \/ /\ ~refused /\ done /\ m.snapshot >= start_idx[f]
        /\ start_idx' = [start_idx EXCEPT ![f] = m.snapshot + 1]
        /\ last' = [last EXCEPT ![f] = Larger(@, m.snapshot)]
        /\ installing' = [snapshot |-> m.snapshot, applied |-> FALSE, open |-> m.open]
        /\ net' = net \ {m} /\ UNCHANGED <<running, errors>>
     \/ /\ ~refused /\ done /\ m.snapshot >= start_idx[f]
        /\ errors < MaxErrors /\ errors' = errors + 1
        /\ Reply(m, "install_resp", FALSE, 0)
        /\ UNCHANGED <<logVars, running, installing>>
     \/ /\ ~refused /\ done /\ m.snapshot < start_idx[f]
        /\ Exit(f) /\ net' = net \ {m} /\ UNCHANGED <<logVars, installing, errors>>

\* apply_snapshot returns true.
ApplySnapshot ==
  LET n == installing.snapshot IN
  /\ running[Follower] /\ Installing /\ ~installing.applied
  /\ sm_snapshot' = [sm_snapshot EXCEPT ![Follower] = n]
  /\ applied_snapshots' = applied_snapshots \cup {n}
  /\ installing' = [installing EXCEPT !.applied = TRUE]
  /\ UNCHANGED <<logVars, commitVars, last_snapshot, creating, running, peerVars, net, saved,
                 errors>>

IgnoreFailure ==   \* mutant: goes on although apply_snapshot returned false
  /\ running[Follower] /\ Installing /\ ~installing.applied
  /\ errors < MaxErrors /\ errors' = errors + 1
  /\ installing' = [installing EXCEPT !.applied = TRUE]
  /\ UNCHANGED <<logVars, commitVars, snapshotVars, running, peerVars, net, saved,
                 applied_snapshots>>

\* apply_snapshot returns false, or it or a later call throws: the process ends with
\* its log cut.
InstallFails ==
  /\ running[Follower] /\ Installing
  /\ errors < MaxErrors /\ errors' = errors + 1
  /\ Exit(Follower)
  /\ UNCHANGED <<logVars, commitVars, snapshotVars, peerVars, net, installing, saved,
                 applied_snapshots>>

\* The rest of handle_snapshot_sync_req and its answer; the assignments to the two
\* commit indexes and to last_snapshot_ are one step.
FinishInstall ==
  LET f == Follower
      n == installing.snapshot IN
  /\ running[f] /\ installing.applied
  /\ sm_commit_index' = [sm_commit_index EXCEPT ![f] = n]
  /\ quick_commit_idx' = [quick_commit_idx EXCEPT ![f] = n]
  /\ last_snapshot' = [last_snapshot EXCEPT ![f] = n]
  /\ net' = net \cup (IF installing.open
                      THEN {[type |-> "install_resp", accepted |-> TRUE, next_idx |-> Size]}
                      ELSE {})
  /\ installing' = NoInstall
  /\ UNCHANGED <<logVars, place, tested, sm_snapshot, creating, running, peerVars, history>>

-----------------------------------------------------------------------------
\* A request or its answer is lost, or the leader gives up on a request that
\* arrives later or is being handled (peer::handle_rpc_result with an error).
RpcError ==
  /\ errors < MaxErrors /\ errors' = errors + 1
  /\ busy' = FALSE
  /\ \/ \E m \in {n \in net : "open" \in DOMAIN n => n.open} :
           /\ \/ net' = net \ {m}
              \/ /\ "open" \in DOMAIN m
                 /\ net' = (net \ {m}) \cup {[m EXCEPT !.open = FALSE]}
           /\ UNCHANGED installing
     \/ /\ installing.open
        /\ installing' = [installing EXCEPT !.open = FALSE] /\ UNCHANGED net
  /\ UNCHANGED <<logVars, commitVars, snapshotVars, running, next_log_idx, pending_commit,
                 sync_ctx, saved, applied_snapshots>>

Receive == \E m \in net : \/ HandleAppend(m) \/ HandleInstall(m)
                          \/ HandleAppendResp(m) \/ HandleInstallResp(m)

Committing(s) == Test(s) \/ Increment(s) \/ Read(s) \/ ApplyEntry(s)

Snapshotting(s) == SnapshotTaken(s) \/ SnapshotFailed(s) \/ on_snapshot_completed(s)

Next ==
  \/ Receive \/ ApplySnapshot \/ FinishInstall \/ InstallFails
  \/ ClientRequest \/ HbTimeout \/ RpcError
  \/ \E s \in Server : Committing(s) \/ Snapshotting(s)

Spec == Init /\ [][Next]_vars

\* As long as no call is lost and no snapshot fails, what is sent arrives, is handled
\* to the end, and heartbeats go on.
Arrival == errors = 0 /\ (Receive \/ ApplySnapshot \/ FinishInstall)
Heartbeat == errors = 0 /\ HbTimeout
FairSpec == Spec /\ WF_vars(Arrival) /\ WF_vars(Heartbeat)

-----------------------------------------------------------------------------
\* A snapshot is applied only when every block of it, and not of another one,
\* has been saved (sync_ctx offsets, create_sync_snapshot_req, is_done).
SnapshotIsWhole ==
  \A n \in applied_snapshots : \A o \in Offsets : <<n, o>> \in saved

\* What is cut from a log is in a snapshot that the state machine has (and, of the
\* leader, in the one it would send), or, from compact (1221) until apply_snapshot
\* (1226) has returned true, in one of which it has saved every block: also when the
\* process ends in between.  A follower's last_snapshot_ may be older: a snapshot of
\* its own that completes after one was installed replaces it.
CutIsInSnapshot ==
  /\ \A s \in Server :
       \/ start_idx[s] - 1 <= sm_snapshot[s]
       \/ /\ s = Follower /\ Installing /\ start_idx[s] - 1 = installing.snapshot
          /\ \A o \in Offsets : <<installing.snapshot, o>> \in saved
  /\ start_idx[Leader] - 1 <= last_snapshot[Leader]

\* With no lost call and no failed snapshot, a follower that has fallen behind the
\* leader's log gets it by snapshot and entries, as long as both processes live.
FollowerCatchesUp ==
  [](running[Leader] /\ running[Follower] /\ errors = 0)
    => (last[Follower] < last[Leader] ~> last[Follower] = last[Leader])

\* "for starting_idx - 1, we can check with last snapshot"
\* (create_append_entries_req): the leader never has to end there.
BeforeStartIsKnown ==
  running[Leader] /\ next_log_idx = start_idx[Leader] => TermKnown(Leader, next_log_idx - 1)
=============================================================================

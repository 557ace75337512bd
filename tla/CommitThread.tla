---------------------------- MODULE CommitThread ----------------------------
(***************************************************************************)
(* How the committing thread of a raft_server sleeps, wakes and stops.     *)
(* Three threads: one that runs handlers under lock_ and calls commit, the *)
(* committing thread (commit_in_bg), and one that destroys the server.     *)
(* RaftServer has what the committing thread does to an entry; here are    *)
(* its two loops, the three locks and the two condition variables.         *)
(* A wait on a condition variable ends only when it is notified.           *)
(***************************************************************************)
EXTENDS Integers

CONSTANTS
  MaxIndex,   \* bound: entries of the log
  Conf        \* the indexes of configuration entries

CommitAssumption == MaxIndex \in Nat /\ Conf \subseteq 1 .. MaxIndex

VARIABLES
  last,               \* log_store_->next_slot() - 1
  quick_commit_idx, sm_commit_index,
  stopping,
  lock, commit_lock, stopping_lock,   \* who holds each of them
  handler, committer, destructor      \* where each thread is

indexes == <<last, quick_commit_idx, sm_commit_index>>
locks == <<lock, commit_lock, stopping_lock>>
vars == <<indexes, stopping, locks, handler, committer, destructor>>

Smaller(a, b) == IF a < b THEN a ELSE b
Larger(a, b) == IF a < b THEN b ELSE a

Work == last > sm_commit_index /\ quick_commit_idx > sm_commit_index

-----------------------------------------------------------------------------
(* Handlers *)

\* Handlers come one at a time, and none after the destructor has begun.
Idle == handler = "idle" /\ destructor = "none" /\ lock = "free"

\* A handler appends entries, or cuts off some that were not committed; what is
\* in the log and committed stays.
Rewrite(n) ==
  /\ n \in Smaller(quick_commit_idx, last) .. MaxIndex
  /\ last' = n

\* One that does not call commit, such as a client request
AppendOnly(n) ==
  /\ Idle
  /\ Rewrite(n)
  /\ UNCHANGED <<quick_commit_idx, sm_commit_index, stopping, locks,
                 handler, committer, destructor>>

\* One that does: the index it commits may be one the log does not have yet.
Receive(n) ==
  /\ Idle
  /\ Rewrite(n)
  /\ lock' = "handler" /\ handler' = "commit"
  /\ UNCHANGED <<quick_commit_idx, sm_commit_index, stopping, commit_lock,
                 stopping_lock, committer, destructor>>

CommitNotifiesOnce(target) ==   \* mutant: only a new commit index is worth notifying
  /\ handler = "commit"
  /\ quick_commit_idx' = Larger(quick_commit_idx, target)
  /\ IF target > quick_commit_idx
     THEN handler' = "notify" /\ UNCHANGED lock
     ELSE handler' = "idle" /\ lock' = "free"
  /\ UNCHANGED <<last, sm_commit_index, stopping, commit_lock, stopping_lock,
                 committer, destructor>>

Commit(target) ==
  /\ handler = "commit"
  /\ quick_commit_idx' = Larger(quick_commit_idx, target)
  /\ handler' = "notify"
  /\ UNCHANGED <<last, sm_commit_index, stopping, locks, committer, destructor>>

\* Nobody waits: the notification has no effect.
Wake == IF committer = "waiting" THEN "woken" ELSE committer

NotifyCommit ==
  /\ handler = "notify"
  /\ committer' = IF Work THEN Wake ELSE committer
  /\ handler' = "idle" /\ lock' = "free"
  /\ UNCHANGED <<indexes, stopping, commit_lock, stopping_lock, destructor>>

-----------------------------------------------------------------------------
(* The committing thread *)

Test ==
  /\ committer = "test"
  /\ committer' = IF Work THEN "apply" ELSE "block"
  /\ UNCHANGED <<indexes, stopping, locks, handler, destructor>>

\* wait gives commit_lock_ back as soon as it is taken.
Block ==
  /\ committer = "block" /\ commit_lock = "free"
  /\ committer' = "waiting"
  /\ UNCHANGED <<indexes, stopping, locks, handler, destructor>>

Resume ==
  /\ committer = "woken" /\ commit_lock = "free"
  /\ committer' = IF stopping THEN "stop" ELSE "test"
  /\ UNCHANGED <<indexes, stopping, locks, handler, destructor>>

StopCommitting ==
  /\ committer = "stop" /\ stopping_lock = "free"
  /\ stopping_lock' = "committer"
  /\ committer' = "leave"
  /\ destructor' = IF destructor = "waiting" THEN "woken" ELSE destructor
  /\ UNCHANGED <<indexes, stopping, lock, commit_lock, handler>>

Leave ==
  /\ committer = "leave"
  /\ stopping_lock' = "free" /\ committer' = "gone"
  /\ UNCHANGED <<indexes, stopping, lock, commit_lock, handler, destructor>>

ApplyPastEnd ==   \* mutant: the loop goes on at the last index
  /\ committer = "apply"
  /\ IF last >= sm_commit_index /\ quick_commit_idx >= sm_commit_index
     THEN sm_commit_index' = sm_commit_index + 1 /\ UNCHANGED committer
     ELSE committer' = "test" /\ UNCHANGED sm_commit_index
  /\ UNCHANGED <<last, quick_commit_idx, stopping, locks, handler, destructor>>

Apply ==
  /\ committer = "apply"
  /\ \/ /\ Work
        /\ sm_commit_index' = sm_commit_index + 1
        /\ committer' = IF sm_commit_index' \in Conf THEN "config" ELSE "apply"
     \/ /\ ~Work
        /\ committer' = "test" /\ UNCHANGED sm_commit_index
  /\ UNCHANGED <<last, quick_commit_idx, stopping, locks, handler, destructor>>

\* A configuration is applied under lock_.
ApplyConfig ==
  /\ committer = "config" /\ lock = "free"
  /\ committer' = "apply"
  /\ UNCHANGED <<indexes, stopping, locks, handler, destructor>>

-----------------------------------------------------------------------------
(* The destructor: it keeps lock_ to its end *)

BeginStop ==
  /\ Idle
  /\ lock' = "destructor" /\ stopping' = TRUE /\ destructor' = "notify"
  /\ UNCHANGED <<indexes, commit_lock, stopping_lock, handler, committer>>

NotifyStop ==
  /\ destructor = "notify" /\ commit_lock = "free"
  /\ commit_lock' = "destructor"
  /\ committer' = Wake
  /\ destructor' = "hand_over"
  /\ UNCHANGED <<indexes, stopping, lock, stopping_lock, handler>>

ReleaseFirst ==   \* mutant: commit_lock_ is released before stopping_lock_ is taken
  \/ /\ destructor = "hand_over" /\ commit_lock = "destructor"
     /\ commit_lock' = "free"
     /\ UNCHANGED <<indexes, stopping, lock, stopping_lock, handler, committer,
                    destructor>>
  \/ /\ destructor = "hand_over" /\ commit_lock = "free" /\ stopping_lock = "free"
     /\ stopping_lock' = "destructor" /\ destructor' = "wait"
     /\ UNCHANGED <<indexes, stopping, lock, commit_lock, handler, committer>>

\* stopping_lock_ is taken before commit_lock_ is released ...
HandOver ==
  /\ destructor = "hand_over" /\ stopping_lock = "free"
  /\ stopping_lock' = "destructor" /\ commit_lock' = "free"
  /\ destructor' = "wait"
  /\ UNCHANGED <<indexes, stopping, lock, handler, committer>>

\* ... and given up by the wait.
AwaitStop ==
  /\ destructor = "wait"
  /\ stopping_lock' = "free" /\ destructor' = "waiting"
  /\ UNCHANGED <<indexes, stopping, lock, commit_lock, handler, committer>>

FinishAtOnce ==   \* mutant: wait returns without stopping_lock_
  /\ destructor = "woken"
  /\ destructor' = "done" /\ lock' = "free"
  /\ UNCHANGED <<indexes, stopping, commit_lock, stopping_lock, handler, committer>>

Finish ==
  /\ destructor = "woken" /\ stopping_lock = "free"
  /\ destructor' = "done" /\ lock' = "free"
  /\ UNCHANGED <<indexes, stopping, commit_lock, stopping_lock, handler, committer>>

-----------------------------------------------------------------------------
Init ==
  /\ last \in 0 .. MaxIndex
  /\ sm_commit_index \in 0 .. last /\ quick_commit_idx = sm_commit_index
  /\ stopping = FALSE
  /\ lock = "free" /\ commit_lock = "free" /\ stopping_lock = "free"
  /\ handler = "idle" /\ committer = "test" /\ destructor = "none"

Handling ==
  \/ \E n \in 0 .. MaxIndex : Receive(n)
  \/ \E target \in 0 .. MaxIndex : Commit(target)
  \/ NotifyCommit
Committing ==
  Test \/ Block \/ Resume \/ StopCommitting \/ Leave \/ Apply \/ ApplyConfig
Destroying == NotifyStop \/ HandOver \/ AwaitStop \/ Finish

Next ==
  \/ \E n \in 0 .. MaxIndex : AppendOnly(n)
  \/ Handling \/ Committing \/ BeginStop \/ Destroying

Spec == Init /\ [][Next]_vars

\* Heartbeats and their answers call commit again and again; a thread that can
\* run does, and one that competes for a lock gets it at last.
FairSpec == Spec /\ WF_vars(Handling) /\ SF_vars(Committing) /\ WF_vars(Destroying)

-----------------------------------------------------------------------------
(* Properties *)

TypeOK ==
  /\ last \in 0 .. MaxIndex
  /\ quick_commit_idx \in 0 .. MaxIndex /\ sm_commit_index \in 0 .. MaxIndex
  /\ stopping \in BOOLEAN
  /\ lock \in {"free", "handler", "destructor"}
  /\ commit_lock \in {"free", "destructor"}
  /\ stopping_lock \in {"free", "committer", "destructor"}
  /\ handler \in {"idle", "commit", "notify"}
  /\ committer \in {"test", "block", "waiting", "woken", "stop", "leave", "gone",
                    "apply", "config"}
  /\ destructor \in {"none", "notify", "hand_over", "wait", "waiting", "woken",
                     "done"}

\* The thread tests the indexes outside lock_, while a handler rewrites the end
\* of the log: the entry it goes on to read is nevertheless stored and committed.
AppliesStored ==
  sm_commit_index <= last /\ sm_commit_index <= quick_commit_idx

\* When the destructor returns, and its locks and log cease to exist, the thread
\* will use none of them again, not even to unlock stopping_lock_.
DestroyedAfterStop == destructor = "done" => committer = "gone"

\* Every entry that is stored and committed is applied, although notify_one may
\* come between the test of the indexes and the wait: commit also notifies when
\* its index is not new.  (Entries that are stored and committed stay so: once
\* nothing is left to apply, they have been.)
EveryCommittedApplied == []<>(~Work \/ destructor # "none")

\* A destructor that finds the thread waiting ends: commit_lock_ keeps the thread
\* from its answer until the destructor has stopping_lock_, and stopping_lock_
\* until it waits.
StopCompletes ==
  destructor = "hand_over" /\ committer = "woken" ~> destructor = "done"
=============================================================================

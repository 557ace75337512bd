------------------------------- MODULE Timers -------------------------------
(***************************************************************************)
(* The election timer and the heartbeats of one raft_server on ns-3: its   *)
(* tasks, the map of ns3_service from a task to the event it was last      *)
(* scheduled as, and the events the simulator holds.  Prevote is off, as   *)
(* raft_node.cpp has it.  Nothing is said about time: any event may be     *)
(* next.                                                                   *)
(***************************************************************************)
EXTENDS Integers, FiniteSets

CONSTANTS
  Peer, Election,       \* the tasks: a heartbeat for each peer, the election
  MaxElections          \* bound

TimersAssumption == Election \notin Peer

Task == Peer \cup {Election}

VARIABLES
  role, catching_up, steps_to_down, hb_enabled,
  sched,      \* events: what the simulator will run; id: m_tasks, 0 for no entry;
              \* cancelled: the flag of delayed_task
  status,     \* running, or why the process has ended
  unheard,    \* history: nothing has started the timer since the server joined
  elections   \* won

serverVars == <<role, catching_up, steps_to_down, hb_enabled>>
vars == <<serverVars, sched, status, unheard, elections>>

-----------------------------------------------------------------------------
(* ns3_service *)

Event(t, n) == [task |-> t, id |-> n]

\* The id of the next event of a task: neither pending nor in the map
Fresh(q, t) ==
  CHOOSE n \in 1 .. Cardinality(q.events) + 2 :
    /\ Event(t, n) \notin q.events /\ n # q.id[t]
    /\ \A k \in 1 .. n - 1 : Event(t, k) \in q.events \/ k = q.id[t]

\* schedule, for a set of tasks; insert keeps the entry that is there.
ScheduleOnce(q, T) ==   \* mutant: the task's flag is not reset
  [q EXCEPT !.events = @ \cup {Event(t, Fresh(q, t)) : t \in T},
            !.id = [t \in Task |-> IF t \in T /\ q.id[t] = 0 THEN Fresh(q, t) ELSE q.id[t]]]
Schedule(q, T) ==
  [events |-> q.events \cup {Event(t, Fresh(q, t)) : t \in T},
   id |-> [t \in Task |-> IF t \in T /\ q.id[t] = 0 THEN Fresh(q, t) ELSE q.id[t]],
   cancelled |-> [t \in Task |-> q.cancelled[t] /\ t \notin T]]

\* cancel: of an event that has run already, or has no entry, only the flag is set.
CancelKeepsEntry(q, T) ==   \* mutant: m_tasks.erase is missing
  [events |-> {e \in q.events : ~(e.task \in T /\ e.id = q.id[e.task])},
   id |-> q.id, cancelled |-> [t \in Task |-> q.cancelled[t] \/ t \in T]]
Cancel(q, T) ==
  [events |-> {e \in q.events : ~(e.task \in T /\ e.id = q.id[e.task])},
   id |-> [t \in Task |-> IF t \in T THEN 0 ELSE q.id[t]],
   cancelled |-> [t \in Task |-> q.cancelled[t] \/ t \in T]]

-----------------------------------------------------------------------------
(* raft_server *)

RestartElectionTimer(q) ==
  IF catching_up
  THEN sched' = q /\ UNCHANGED unheard
  ELSE sched' = Schedule(Cancel(q, {Election}), {Election}) /\ unheard' = FALSE

LeaveTimer(q) == q   \* mutant
StopElectionTimer(q) == Cancel(q, {Election})

\* The constructor starts the timer.
Init ==
  /\ role = "follower" /\ catching_up = FALSE /\ steps_to_down = 0
  /\ hb_enabled = [p \in Peer |-> FALSE]
  /\ sched = [events |-> {Event(Election, 1)},
              id |-> [t \in Task |-> IF t = Election THEN 1 ELSE 0],
              cancelled |-> [t \in Task |-> FALSE]]
  /\ status = "running" /\ unheard = FALSE /\ elections = 0

\* handle_election_timeout, when the event is no longer in q
ElectionTimeout(q) ==
  /\ UNCHANGED <<catching_up, hb_enabled, elections>>
  /\ \/ /\ steps_to_down > 0 /\ steps_to_down' = steps_to_down - 1
        /\ IF steps_to_down = 1
           THEN status' = "left" /\ sched' = q /\ UNCHANGED unheard
           ELSE RestartElectionTimer(q) /\ UNCHANGED status
        /\ UNCHANGED role
     \/ /\ steps_to_down = 0 /\ catching_up
        /\ RestartElectionTimer(q)
        /\ UNCHANGED <<role, steps_to_down, status>>
     \/ /\ steps_to_down = 0 /\ ~catching_up /\ role = "leader"
        /\ status' = "illegal" /\ sched' = q
        /\ UNCHANGED <<role, steps_to_down, unheard>>
     \/ /\ steps_to_down = 0 /\ ~catching_up /\ role # "leader"
        /\ role' = "candidate" /\ RestartElectionTimer(q)
        /\ UNCHANGED <<steps_to_down, status>>

\* handle_hb_timeout
HbTimeout(p, q) ==
  /\ sched' = IF role = "leader" /\ hb_enabled[p] THEN Schedule(q, {p}) ELSE q
  /\ UNCHANGED <<serverVars, status, unheard, elections>>

\* The simulator runs an event; delayed_task::execute does nothing for a task that
\* has been cancelled and not been scheduled since.
Fire(e) ==
  LET q == [sched EXCEPT !.events = @ \ {e}] IN
  /\ status = "running"
  /\ \/ /\ sched.cancelled[e.task] /\ sched' = q
        /\ UNCHANGED <<serverVars, status, unheard, elections>>
     \/ ~sched.cancelled[e.task] /\ e.task = Election /\ ElectionTimeout(q)
     \/ ~sched.cancelled[e.task] /\ e.task \in Peer /\ HbTimeout(e.task, q)

BecomeLeader ==
  /\ status = "running" /\ role = "candidate" /\ elections < MaxElections
  /\ role' = "leader" /\ elections' = elections + 1
  /\ hb_enabled' = [p \in Peer |-> TRUE]
  /\ sched' = Schedule(StopElectionTimer(sched), Peer)
  /\ UNCHANGED <<catching_up, steps_to_down, status, unheard>>

BecomeFollower ==
  /\ role' = "follower" /\ hb_enabled' = [p \in Peer |-> FALSE]
  /\ RestartElectionTimer(Cancel(sched, Peer))

\* process_req and handle_peer_resp: a newer term
UpdateTerm ==
  /\ status = "running" /\ BecomeFollower
  /\ steps_to_down' \in {steps_to_down, IF steps_to_down > 0 THEN 2 ELSE 0}
  /\ UNCHANGED <<catching_up, status, elections>>

\* handle_append_entries, from the leader of the server's term
HearFromLeader ==
  /\ status = "running" /\ role # "leader"
  /\ steps_to_down' = IF steps_to_down > 0 THEN 2 ELSE 0
  /\ IF role = "candidate" THEN BecomeFollower
     ELSE RestartElectionTimer(sched) /\ UNCHANGED <<role, hb_enabled>>
  /\ UNCHANGED <<catching_up, status, elections>>

\* handle_join_cluster_req, and commit_in_bg of the configuration it is waiting for
Join ==
  /\ status = "running" /\ ~catching_up
  /\ catching_up' = TRUE /\ role' = "follower" /\ unheard' = TRUE
  /\ UNCHANGED <<steps_to_down, hb_enabled, sched, status, elections>>
Joined ==
  /\ status = "running" /\ catching_up /\ catching_up' = FALSE
  /\ UNCHANGED <<role, steps_to_down, hb_enabled, sched, status, unheard, elections>>

\* handle_leave_cluster_req
Leave ==
  /\ status = "running" /\ steps_to_down' = 2
  /\ UNCHANGED <<role, catching_up, hb_enabled, sched, status, unheard, elections>>

Next ==
  \/ \E e \in sched.events : Fire(e)
  \/ BecomeLeader \/ UpdateTerm \/ HearFromLeader \/ Join \/ Joined \/ Leave

Spec == Init /\ [][Next]_vars

-----------------------------------------------------------------------------
Live(t) == {e \in sched.events : e.task = t /\ ~sched.cancelled[t]}

\* A server that does not lead has one election event to come, however often the
\* timer was cancelled and restarted (restart_election_timer, m_tasks), except one
\* that has just joined and has not heard from the leader since.
OneElectionTimer ==
  /\ Cardinality(Live(Election)) <= 1
  /\ status = "running" /\ role # "leader" /\ ~catching_up /\ ~unheard
     => Live(Election) # {}

\* "A leader should never encounter election timeout" (handle_election_timeout).
LeaderNeverTimesOut == status # "illegal"

\* A leader has a heartbeat to come for every peer, also when it has lost and won
\* the office in between and events of its last term are still there.
HeartbeatsGoOn ==
  status = "running" /\ role = "leader"
    => \A p \in Peer : hb_enabled[p] /\ Live(p) # {}
=============================================================================

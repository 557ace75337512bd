---------------------------- MODULE AsyncResult ----------------------------
(***************************************************************************)
(* async_result: one thread sets the result, one registers a handler, and  *)
(* others wait in get().  A wait on the condition variable ends only when  *)
(* it is notified.                                                         *)
(***************************************************************************)
EXTENDS Integers, FiniteSets

CONSTANT Getter

VARIABLES
  has_result, handler,   \* whether handler_ is set
  setter, registrar, getter,   \* where each thread is
  calls                  \* history: how often the handler was called

vars == <<has_result, handler, setter, registrar, getter, calls>>

Init ==
  /\ has_result = FALSE /\ handler = FALSE
  /\ setter = "store" /\ registrar = "register"
  /\ getter = [g \in Getter |-> "start"]
  /\ calls = 0

\* set_result: under the lock, then the handler it has copied, then the waiters
Store ==
  /\ setter = "store" /\ has_result' = TRUE
  /\ setter' = IF handler THEN "call" ELSE "notify"
  /\ UNCHANGED <<handler, registrar, getter, calls>>
Call ==
  /\ setter = "call" /\ calls' = calls + 1 /\ setter' = "notify"
  /\ UNCHANGED <<has_result, handler, registrar, getter>>
NotifyOne ==   \* mutant: notify_one
  /\ setter = "notify" /\ setter' = "done"
  /\ \/ \E g \in Getter : getter[g] = "waiting" /\ getter' = [getter EXCEPT ![g] = "woken"]
     \/ (\A g \in Getter : getter[g] # "waiting") /\ UNCHANGED getter
  /\ UNCHANGED <<has_result, handler, registrar, calls>>
NotifyAll ==
  /\ setter = "notify" /\ setter' = "done"
  /\ getter' = [g \in Getter |-> IF getter[g] = "waiting" THEN "woken" ELSE getter[g]]
  /\ UNCHANGED <<has_result, handler, registrar, calls>>

\* when_ready: under the lock, then a test without it
RegisterUntested ==   \* mutant: has_result_ is read by set_result alone
  /\ registrar = "register" /\ handler' = TRUE /\ registrar' = "done"
  /\ UNCHANGED <<has_result, setter, getter, calls>>
Register ==
  /\ registrar = "register" /\ handler' = TRUE /\ registrar' = "test"
  /\ UNCHANGED <<has_result, setter, getter, calls>>
TestResult ==
  /\ registrar = "test" /\ registrar' = "done"
  /\ calls' = IF has_result THEN calls + 1 ELSE calls
  /\ UNCHANGED <<has_result, handler, setter, getter>>

\* get
Get(g) ==
  /\ getter[g] = "start"
  /\ getter' = [getter EXCEPT ![g] = IF has_result THEN "returned" ELSE "waiting"]
  /\ UNCHANGED <<has_result, handler, setter, registrar, calls>>
Return(g) ==
  /\ getter[g] = "woken" /\ getter' = [getter EXCEPT ![g] = "returned"]
  /\ UNCHANGED <<has_result, handler, setter, registrar, calls>>

Next ==
  \/ Store \/ Call \/ NotifyAll \/ Register \/ TestResult
  \/ \E g \in Getter : Get(g) \/ Return(g)

Spec == Init /\ [][Next]_vars

-----------------------------------------------------------------------------
\* A handler registered before, after or while the result is set is called when
\* both threads are done (when_ready, set_result).  It may be called twice: when
\* the result is stored between the two steps of when_ready.
HandlerCalled == setter = "done" /\ registrar = "done" => calls > 0

\* No thread is left in get() when the result has been set and the waiters notified.
NobodyLeftWaiting == setter = "done" => \A g \in Getter : getter[g] # "waiting"
=============================================================================

----------------------------- MODULE HdlPolling -----------------------------
(***************************************************************************)
(* The HDL polling package: the C half of HdlPollingDpi, the SystemVerilog *)
(* half of src/uvm-core/src/base/uvm_hdl_polling.svh, the simulator whose  *)
(* value changes it follows, and the processes that wait for a change or   *)
(* for a value.                                                            *)
(*                                                                         *)
(* A step is what runs without giving up control.  The callbacks of one    *)
(* value change run back to back, and so does the service of the list: the *)
(* only thing that happens in between is what they call.                   *)
(***************************************************************************)
EXTENDS HdlPollingDpi

CONSTANTS
  Values,        \* the values of a signal
  Any,           \* what wait_for_hdl_change waits for: any change will do
  Waiters,       \* the processes that wait on a probe
  MaxDisables,   \* how often a callback is disabled
  MaxDeposits,   \* how often user callbacks deposit during one service
  MaxRestarts    \* how often the simulation is reset to time zero

ASSUME AnyAssumption == Any \notin Values

VARIABLES
  value,         \* the simulator's value of every signal
  fired,         \* the records whose callbacks a value change still owes
  ended,         \* "no", "fatal" after a UVM_FATAL, "crashed"
  instances,     \* uvm_hdl_polling_instance_count
  probes,        \* probes_by_key: each probe's key, its signal and its own
                 \* note that a callback was registered
  forked,        \* processes forked by create_probe, not yet run
  running,       \* the static variable of uvm_hdl_polling_probes_run
  runner,        \* the process in its loop: none, waiting, woken, processing
  waiter,        \* the waiting processes
  disables, deposits, restarts  \* the uses made of the three bounds

svVars == <<instances, probes, forked, running>>
simVars == <<value, fired>>
bounds == <<disables, deposits, restarts>>
vars == <<dpiVars, simVars, ended, svVars, runner, waiter, bounds>>

Idle == [at |-> "idle", key |-> 0, goal |-> Any]

Init ==
  /\ DpiInit
  /\ value \in [Signals -> Values]
  /\ fired = {}
  /\ ended = "no"
  /\ instances = 0 /\ probes = {} /\ forked = 0 /\ running = FALSE
  /\ runner = "none"
  /\ waiter = [w \in Waiters |-> Idle]
  /\ disables = 0 /\ deposits = 0 /\ restarts = 0

WaiterState == [at : {"idle", "blocked", "woken"}, key : Nat,
                goal : Values \cup {Any}]

\* SystemVerilog processes run when no callback and no service is running.
Quiet == ended = "no" /\ fired = {} /\ runner # "processing"

-----------------------------------------------------------------------------
(* Probes                                                                  *)

\* Mutant: the count is never advanced.
KeyNeverAdvances(viaGetPoll) == 0

\* Mutant: one too few.
KeyBelowCount(viaGetPoll) == IF viaGetPoll THEN instances ELSE instances - 1

\* The key create_probe takes is the instance count, which uvm_get_poll has
\* already incremented when the probe is one it makes.
next_key(viaGetPoll) == IF viaGetPoll THEN instances + 1 ELSE instances

\* A probe for signal s in the record malloc finds; it is enabled or left
\* disabled, and a process is forked to run when this one gives up control.
\* uvm_get_poll makes a probe only for a signal that has none.
create_probe(h, s, enable, viaGetPoll) ==
  LET key == next_key(viaGetPoll) IN
  /\ Quiet
  /\ viaGetPoll => enable /\ \A p \in probes : p.name # s
  /\ uvm_polling_create(h, s, key)
  /\ cb' = CallbacksAfter(h, enable)
  /\ UNCHANGED <<changeList, notifier, reset_callback>>
  /\ instances' = key + 1
  /\ probes' = probes \cup
                {[key |-> key, name |-> s, registered |-> enable]}
  /\ forked' = forked + 1
  /\ UNCHANGED <<simVars, ended, running, runner, waiter, bounds>>

\* The name is not found or is no integral signal: create returns NULL and
\* create_probe ends the simulation.
create_probe_fails(viaGetPoll) ==
  /\ Quiet
  /\ instances' = next_key(viaGetPoll) + 1
  /\ ended' = "fatal"
  /\ UNCHANGED <<dpiVars, simVars, probes, forked, running, runner, waiter,
                 bounds>>

\* A user of the DPI import turns the callback of a probe on or off.
SetEnable(h, enable) ==
  /\ Quiet
  /\ ~enable => disables < MaxDisables
  /\ disables' = IF enable THEN disables ELSE disables + 1
  /\ uvm_polling_set_enable_callback(h, enable)
  /\ UNCHANGED <<simVars, ended, svVars, runner, waiter, deposits, restarts>>

\* A forked process runs: the first sets the notifier up and waits for it,
\* the others find running set and end.
uvm_hdl_polling_probes_run ==
  /\ Quiet
  /\ forked > 0
  /\ forked' = forked - 1
  /\ IF running
       THEN UNCHANGED <<dpiVars, running, runner>>
       ELSE uvm_polling_setup_notifier /\ running' = TRUE /\ runner' = "waiting"
  /\ UNCHANGED <<simVars, ended, instances, probes, waiter, bounds>>

-----------------------------------------------------------------------------
(* Value changes                                                           *)

\* The simulator gives s another value and will call the callbacks on it.
ValueChange(s) ==
  /\ \E v \in Values \ {value[s]} : value' = [value EXCEPT ![s] = v]
  /\ fired' = {h \in cb : record[h].obj = s}
  /\ UNCHANGED <<dpiVars, ended, svVars, runner, waiter>>

DesignDrives(s) == Quiet /\ ValueChange(s) /\ UNCHANGED bounds

\* Toggling the notifier wakes the process waiting for it.  With no notifier
\* it ends the simulation; through a released handle it does nothing that
\* process could see (it does not wait before it has set the notifier up),
\* or worse.
uvm_polling_toggle_notifier ==
  \/ /\ notifier = "NULL"
     /\ ended' = "fatal"
     /\ UNCHANGED runner
  \/ /\ notifier = "live"
     /\ runner' = IF runner = "waiting" THEN "woken" ELSE runner
     /\ UNCHANGED ended
  \/ /\ notifier = "stale"
     /\ ended' \in {"no", "crashed"}
     /\ UNCHANGED runner

\* The simulator calls the callback of one record.
Callback(h) ==
  /\ ended = "no"
  /\ h \in fired
  /\ fired' = fired \ {h}
  /\ uvm_polling_value_change_callback(h)
  /\ IF RequireNotification
       THEN uvm_polling_toggle_notifier
       ELSE UNCHANGED <<ended, runner>>
  /\ UNCHANGED <<value, svVars, waiter, bounds>>

-----------------------------------------------------------------------------
(* Service                                                                 *)

\* Mutant: only the callers of wait_for_hdl_change are woken.
ReleaseChangeWaiters(key) ==
  waiter' = [w \in Waiters |->
               IF waiter[w].at = "blocked" /\ waiter[w].key = key
                                           /\ waiter[w].goal = Any
                 THEN [waiter[w] EXCEPT !.at = "woken"] ELSE waiter[w]]

\* The processes blocked on the event of the probe with this key wake up.
m_polling_releaseWaiters(key) ==
  waiter' = [w \in Waiters |->
               IF waiter[w].at = "blocked" /\ waiter[w].key = key
                 THEN [waiter[w] EXCEPT !.at = "woken"] ELSE waiter[w]]

\* The newest change is taken off the list and its probe is notified.
Service ==
  /\ ended = "no" /\ fired = {}
  /\ runner \in {"woken", "processing"}
  /\ PopForService
  /\ m_polling_releaseWaiters(record[Head(changeList)].sv_key)
  /\ runner' = "processing"
  /\ UNCHANGED <<simVars, ended, svVars, bounds>>

\* A user's do_on_path_change, called by the notification, deposits a value.
CallbackDeposits(s) ==
  /\ ended = "no" /\ fired = {}
  /\ runner = "processing"
  /\ deposits < MaxDeposits
  /\ deposits' = deposits + 1
  /\ ValueChange(s)
  /\ UNCHANGED <<disables, restarts>>

\* The list is empty: back to waiting for the notifier.
ServiceDone ==
  /\ ended = "no" /\ fired = {}
  /\ runner \in {"woken", "processing"}
  /\ changeList = <<>>
  /\ runner' = "waiting"
  /\ deposits' = 0
  /\ UNCHANGED <<dpiVars, simVars, ended, svVars, waiter, disables, restarts>>

-----------------------------------------------------------------------------
(* Waiting processes                                                       *)

NameOf(key) == (CHOOSE p \in probes : p.key = key).name

\* Mutant: the process blocks without having read the signal.
BlockAtOnce(w, key, goal) ==
  waiter' = [waiter EXCEPT ![w] =
               [at |-> "blocked", key |-> key, goal |-> goal]]

\* Where a process is after it has read the signal: polling_wait_for_value
\* returns if the value is the expected one and blocks otherwise.
AfterRead(w, key, goal) ==
  waiter' = [waiter EXCEPT ![w] =
               IF goal = value[NameOf(key)] THEN Idle
               ELSE [at |-> "blocked", key |-> key, goal |-> goal]]

\* polling_wait_for_value(goal) on probe p, or wait_for_hdl_change (Any);
\* both return at once when no callback was registered.
StartWaiting(w, p, goal) ==
  /\ Quiet
  /\ waiter[w].at = "idle"
  /\ p.registered
  /\ AfterRead(w, p.key, goal)
  /\ UNCHANGED <<dpiVars, simVars, ended, svVars, runner, bounds>>

\* The event has released the process: it reads the signal as it is now.
ResumeWaiting(w) ==
  /\ Quiet
  /\ waiter[w].at = "woken"
  /\ IF waiter[w].goal = Any
       THEN waiter' = [waiter EXCEPT ![w] = Idle]
       ELSE AfterRead(w, waiter[w].key, waiter[w].goal)
  /\ UNCHANGED <<dpiVars, simVars, ended, svVars, runner, bounds>>

-----------------------------------------------------------------------------
\* The simulation is reset to time zero: the C half frees its records and
\* keeps its statics, the SystemVerilog half starts from its initial values.
Restart ==
  /\ Quiet
  /\ reset_callback
  /\ restarts < MaxRestarts
  /\ restarts' = restarts + 1
  /\ uvm_polling_free_mem_structures
  /\ value' \in [Signals -> Values]
  /\ instances' = 0 /\ probes' = {} /\ forked' = 0 /\ running' = FALSE
  /\ runner' = "none"
  /\ waiter' = [w \in Waiters |-> Idle]
  /\ UNCHANGED <<fired, ended, disables, deposits>>

\* Nothing runs after the end.
Finished == ended # "no" /\ UNCHANGED vars

Next ==
  \/ \E h \in Hooks :
       \/ \E s \in Signals, enable, viaGetPoll \in BOOLEAN :
            create_probe(h, s, enable, viaGetPoll)
       \/ \E enable \in BOOLEAN : SetEnable(h, enable)
       \/ Callback(h)
  \/ \E viaGetPoll \in BOOLEAN : create_probe_fails(viaGetPoll)
  \/ uvm_hdl_polling_probes_run
  \/ \E s \in Signals : DesignDrives(s) \/ CallbackDeposits(s)
  \/ Service \/ ServiceDone
  \/ \E w \in Waiters :
       \/ \E p \in probes, goal \in Values \cup {Any} : StartWaiting(w, p, goal)
       \/ ResumeWaiting(w)
  \/ Restart
  \/ Finished

\* The simulator runs every process that is ready and every callback it owes.
Fairness ==
  /\ WF_vars(uvm_hdl_polling_probes_run)
  /\ WF_vars(\E h \in Hooks : Callback(h))
  /\ SF_vars(Service)
  /\ SF_vars(ServiceDone)
  /\ \A w \in Waiters : SF_vars(ResumeWaiting(w))

Spec == Init /\ [][Next]_vars
FairSpec == Spec /\ Fairness

-----------------------------------------------------------------------------
(* Properties                                                              *)

TypeOK ==
  /\ DpiTypeOK
  /\ value \in [Signals -> Values]
  /\ fired \subseteq Hooks
  /\ ended \in {"no", "fatal", "crashed"}
  /\ instances \in Nat
  /\ probes \subseteq [key : Nat, name : Signals, registered : BOOLEAN]
  /\ forked \in Nat
  /\ running \in BOOLEAN
  /\ runner \in {"none", "waiting", "woken", "processing"}
  /\ waiter \in [Waiters -> WaiterState]
  /\ disables \in Nat /\ deposits \in Nat /\ restarts \in Nat

\* The list of changes is one chain: no record is on it twice, a record is
\* on it exactly when it says so, and all of them are allocated.  (A record
\* linked twice makes the list circular, and the service never ends.)
ListIsOneChain ==
  restarts = 0 =>
    /\ \A i, j \in DOMAIN changeList :
         changeList[i] = changeList[j] => i = j
    /\ \A h \in Hooks : on_changeList[h] <=> h \in Listed
    /\ Listed \subseteq allHooks

\* While the simulation goes on, a change on the list has been announced:
\* the process that services the list has been woken or is at work.  Only
\* the first change toggles the notifier, so one that is on the list with
\* that process waiting would never be serviced, nor any after it.
ChangesAreAnnounced ==
  (restarts = 0 /\ ended = "no" /\ changeList # <<>>)
    => runner \in {"woken", "processing"}

\* The service never walks a list that a restart has left dangling.
NothingFreedIsServiced ==
  runner \in {"woken", "processing"} => Listed \subseteq allHooks

\* Keys tell the probes apart, however they were made, and the key in a
\* record is that of a probe of the record's own signal: a notification
\* reaches the probe whose signal changed, and passes the range check of
\* uvm_polling_value_change_notify.
NotifyReachesItsProbe ==
  /\ \A p, q \in probes : p.key = q.key => p = q
  /\ \A h \in allHooks :
       /\ \E p \in probes : p.key = record[h].sv_key /\ p.name = record[h].obj
       /\ record[h].sv_key < instances
  /\ \A g, h \in allHooks : record[g].sv_key = record[h].sv_key => g = h

\* No wakeup is lost: a process blocked until its signal has a value that
\* the signal has now got is about to be told, its record being on the list
\* or its callback owed.  (It read the signal before it blocked, and a
\* change between two services must not fall in between.)
NoLostWakeup ==
  (ended = "no" /\ restarts = 0 /\ disables = 0) =>
    \A w \in Waiters, h \in cb :
      (/\ waiter[w].at = "blocked"
       /\ waiter[w].key = record[h].sv_key
       /\ waiter[w].goal = value[record[h].obj])
        => h \in Listed \cup fired

\* The change notification service the package implements, by signal.
Promise == INSTANCE ChangeNotification WITH
  watched <- {record[h].obj : h \in cb},
  pending <- {record[h].obj : h \in Listed \cup fired},
  servicing <- runner = "processing",
  stopped <- ended # "no"

\* Every change of a watched signal is reported, each step of the lists and
\* processes being a step of the abstract service or invisible to it.
ImplementsPromise == Promise!Spec

\* A value that stays is seen: no process waits for ever for a value that
\* its signal has got and keeps, its callback never disabled.
StableValueSeen ==
  \A w \in Waiters, h \in Hooks :
    ~<>[](/\ ended = "no" /\ disables = 0
          /\ h \in cb
          /\ waiter[w].at # "idle"
          /\ waiter[w].key = record[h].sv_key
          /\ waiter[w].goal = value[record[h].obj])

\* Expected to fail.  "This mechanism avoids any risk of races whereby a
\* notification might be missed": a change of a probed signal is serviced
\* at some time, unless its record is freed or the simulation ends first.
NotificationNeverMissed ==
  \A h \in Hooks :
    h \in fired ~> \/ h \notin allHooks
                   \/ h \notin Listed \cup fired
                   \/ ended # "no"
==================================================

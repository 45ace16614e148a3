------------------------- MODULE ChangeNotification -------------------------
(***************************************************************************)
(* What the HDL polling package promises its user, stated with neither     *)
(* lists, flags nor a notifier bit: once a watched signal has changed, its *)
(* probe is notified, at some time after the change and once for all the   *)
(* changes since the last notification.  Probes are notified during        *)
(* services, and none ends with a change unreported.  The simulation may   *)
(* instead stop (a UVM_FATAL), after which nothing is owed to anybody.     *)
(***************************************************************************)
CONSTANTS
  Signals,   \* the signals of the design
  Values     \* the values they take

VARIABLES
  value,     \* the value of every signal
  watched,   \* the signals whose changes are being reported
  pending,   \* the signals with a change their probe has not heard of
  servicing, \* TRUE while probes are being notified
  stopped    \* TRUE once the simulation has ended

vars == <<value, watched, pending, servicing, stopped>>

Init ==
  /\ value \in [Signals -> Values]
  /\ watched = {}
  /\ pending = {}
  /\ servicing = FALSE
  /\ stopped = FALSE

\* A probe starts, or stops, reporting the changes of a signal.
Watch ==
  /\ ~stopped
  /\ watched' \in SUBSET Signals
  /\ UNCHANGED <<value, pending, servicing, stopped>>

\* A signal takes another value; if it is watched its probe must be told.
Occur(s) ==
  /\ ~stopped
  /\ \E v \in Values \ {value[s]} : value' = [value EXCEPT ![s] = v]
  /\ pending' = IF s \in watched THEN pending \cup {s} ELSE pending
  /\ UNCHANGED <<watched, servicing, stopped>>

\* The probe of a changed signal is notified.
Notify(s) ==
  /\ ~stopped
  /\ s \in pending
  /\ pending' = pending \ {s}
  /\ servicing' = TRUE
  /\ UNCHANGED <<value, watched, stopped>>

\* A service starts with a signal that is notified twice, or is over.
Turn ==
  /\ ~stopped
  /\ servicing' \in BOOLEAN
  /\ servicing' = FALSE => pending = {}
  /\ UNCHANGED <<value, watched, pending, stopped>>

Stop ==
  /\ ~stopped
  /\ stopped' = TRUE
  /\ UNCHANGED <<value, watched, pending, servicing>>

Next ==
  \/ Watch
  \/ \E s \in Signals : Occur(s) \/ Notify(s)
  \/ Turn
  \/ Stop

\* Every pending change is reported unless the simulation ends first.
Fairness == \A s \in Signals : WF_vars(Notify(s))

Spec == Init /\ [][Next]_vars /\ Fairness
=============================================================================

---------------------------- MODULE HdlPollingDpi ----------------------------
(***************************************************************************)
(* The C half of the HDL polling package, src/uvm-core/src/dpi/            *)
(* uvm_hdl_polling.c: one hook record per probed signal, and the list of   *)
(* the records whose signal has changed since the SystemVerilog half last  *)
(* asked.  The operations are actions on the file's static variables; the  *)
(* callers are in HdlPolling.                                              *)
(*                                                                         *)
(* A linked list is the sequence of its records, its head first.           *)
(***************************************************************************)
EXTENDS Naturals, Sequences, FiniteSets

CONSTANTS
  Hooks,     \* the addresses at which malloc can place a hook record
  Signals    \* the integral variables and nets of the design

ASSUME HooksAssumption == Signals # {} /\ IsFiniteSet(Hooks)

VARIABLES
  changeList,      \* the records with an unserviced change, newest first
  on_changeList,   \* each record's own note of being on that list
  allHooks,        \* the records allocated and not freed
  record,          \* what create stored in each: the signal and SV's key
  cb,              \* the records whose value-change callback is registered
  notifier,        \* "NULL", "live", or "stale": a handle already released
  reset_callback   \* TRUE once the cbStartOfReset callback is registered

dpiVars == <<changeList, on_changeList, allHooks, record, cb, notifier,
             reset_callback>>

\* Memory malloc has not handed out holds anything; no code reads it before
\* create has written it, so any one content stands for all.
Unwritten == [obj |-> CHOOSE s \in Signals : TRUE, sv_key |-> 0]

DpiInit ==
  /\ changeList = <<>>
  /\ on_changeList = [h \in Hooks |-> FALSE]
  /\ allHooks = {}
  /\ record = [h \in Hooks |-> Unwritten]
  /\ cb = {}
  /\ notifier = "NULL"
  /\ reset_callback = FALSE

Listed == {changeList[i] : i \in DOMAIN changeList}

-----------------------------------------------------------------------------
(* Hook records                                                            *)

\* A record malloc returns is marked off the list and linked in allHooks.
allocate_hook_record(h) ==
  /\ h \notin allHooks
  /\ on_changeList' = [on_changeList EXCEPT ![h] = FALSE]
  /\ allHooks' = allHooks \cup {h}

\* The records a restart frees take their callbacks with them, and the
\* notifier's handle is released.  Neither changeList nor notifier is
\* written, nor the reset callback, which is running.
uvm_polling_free_mem_structures ==
  /\ notifier' = IF notifier = "NULL" THEN "NULL" ELSE "stale"
  /\ allHooks' = {}
  /\ cb' = cb \ allHooks
  /\ UNCHANGED <<changeList, on_changeList, record, reset_callback>>

\* A record for signal s; its callback is for the caller to register.
uvm_polling_create(h, s, sv_key) ==
  /\ allocate_hook_record(h)
  /\ record' = [record EXCEPT ![h] = [obj |-> s, sv_key |-> sv_key]]

\* The callbacks registered once record h has been enabled or disabled.
CallbacksAfter(h, enable) == IF enable THEN cb \cup {h} ELSE cb \ {h}

uvm_polling_set_enable_callback(h, enable) ==
  /\ h \in allHooks
  /\ cb' = CallbacksAfter(h, enable)
  /\ UNCHANGED <<changeList, on_changeList, allHooks, record, notifier,
                 reset_callback>>

-----------------------------------------------------------------------------
(* The list of changes                                                     *)

\* Mutant: the new head is not linked to the rest of the list.
pushUnlinked(h) ==
  /\ changeList' = IF on_changeList[h] THEN changeList ELSE <<h>>
  /\ on_changeList' = [on_changeList EXCEPT ![h] = TRUE]

changeList_pushIfNeeded(h) ==
  /\ changeList' = IF on_changeList[h] THEN changeList
                                       ELSE <<h>> \o changeList
  /\ on_changeList' = [on_changeList EXCEPT ![h] = TRUE]

\* Mutant: the record taken off the list is still marked as being on it.
getWithoutUnmarking ==
  /\ changeList # <<>>
  /\ changeList' = Tail(changeList)
  /\ UNCHANGED on_changeList

uvm_polling_get_newest_entry ==
  /\ changeList # <<>>
  /\ changeList' = Tail(changeList)
  /\ on_changeList' = [on_changeList EXCEPT ![Head(changeList)] = FALSE]

\* Mutant: the test is made the wrong way round.
RequireWhenNotEmpty == changeList # <<>>

\* Mutant: every change toggles the notifier.
RequireAlways == TRUE

\* Only the change that finds the list empty toggles the notifier.
RequireNotification == changeList = <<>>

\* A watched signal changed: its record goes on the list.
uvm_polling_value_change_callback(h) ==
  /\ changeList_pushIfNeeded(h)
  /\ UNCHANGED <<allHooks, record, cb, notifier, reset_callback>>

\* One turn of the loop of uvm_polling_process_changelist, up to its call of
\* uvm_polling_value_change_notify with the record's key.
PopForService ==
  /\ uvm_polling_get_newest_entry
  /\ UNCHANGED <<allHooks, record, cb, notifier, reset_callback>>

uvm_polling_setup_notifier ==
  /\ notifier' = "live"
  /\ reset_callback' = TRUE
  /\ UNCHANGED <<changeList, on_changeList, allHooks, record, cb>>

-----------------------------------------------------------------------------
DpiTypeOK ==
  /\ changeList \in Seq(Hooks)
  /\ on_changeList \in [Hooks -> BOOLEAN]
  /\ allHooks \subseteq Hooks
  /\ record \in [Hooks -> [obj : Signals, sv_key : Nat]]
  /\ cb \subseteq Hooks
  /\ notifier \in {"NULL", "live", "stale"}
  /\ reset_callback \in BOOLEAN
=============================================================================

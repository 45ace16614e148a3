-------------------------- MODULE HdlPollingProofs --------------------------
(***************************************************************************)
(* The safety of the HDL polling package for any number of signals,        *)
(* records and waiting processes.  The invariant is built up in layers:    *)
(* the types; the keys, which need nothing else; the shape of the list;    *)
(* the agreement of the notifier with the process that waits for it; and,  *)
(* on top of those, that no waiting process misses its value.              *)
(***************************************************************************)
EXTENDS HdlPolling, SequenceTheorems, TLAPS

-----------------------------------------------------------------------------
(* Sequences used as lists                                                 *)

\* Pushing puts the new record in front of the others.
LEMMA PushLemma ==
  ASSUME NEW S, NEW s \in Seq(S), NEW h \in S
  PROVE  /\ <<h>> \o s \in Seq(S)
         /\ <<h>> \o s # <<>>
         /\ DOMAIN (<<h>> \o s) = 1..(Len(s) + 1)
         /\ (<<h>> \o s)[1] = h
         /\ \A i \in 2..(Len(s) + 1) : (<<h>> \o s)[i] = s[i - 1]
<1>1. <<h>> \in Seq(S) /\ Len(<<h>>) = 1 /\ <<h>>[1] = h
  OBVIOUS
<1>2. /\ <<h>> \o s \in Seq(S)
      /\ Len(<<h>> \o s) = Len(s) + 1
      /\ \A i \in 1..(Len(s) + 1) :
           (<<h>> \o s)[i] = IF i <= 1 THEN <<h>>[i] ELSE s[i - 1]
  BY <1>1, ConcatProperties, LenProperties
<1> QED
  BY <1>1, <1>2, LenProperties, EmptySeq

Members(s) == {s[i] : i \in DOMAIN s}

LEMMA ListedMembers == Listed = Members(changeList)
BY DEF Listed, Members

\* What pushing does to the members and to their being distinct.
LEMMA PushMembers ==
  ASSUME NEW S, NEW s \in Seq(S), NEW h \in S
  PROVE  LET t == <<h>> \o s
         IN  /\ Members(t) = Members(s) \cup {h}
             /\ (/\ \A i, j \in DOMAIN s : s[i] = s[j] => i = j
                 /\ h \notin Members(s))
                => \A i, j \in DOMAIN t : t[i] = t[j] => i = j
<1> DEFINE t == <<h>> \o s
<1>1. /\ DOMAIN t = 1..(Len(s) + 1) /\ t[1] = h
      /\ \A i \in 2..(Len(s) + 1) : t[i] = s[i - 1]
      /\ DOMAIN s = 1..Len(s) /\ Len(s) \in Nat
  BY PushLemma, LenProperties
<1>2. \A i \in DOMAIN s : i + 1 \in DOMAIN t /\ t[i + 1] = s[i]
  BY <1>1
<1>3. \A i \in DOMAIN t : i = 1 \/ (i - 1 \in DOMAIN s /\ t[i] = s[i - 1])
  BY <1>1
<1>4. Members(t) = Members(s) \cup {h}
  <2> HIDE DEF t
  <2> QED BY <1>1, <1>2, <1>3 DEF Members
<1>5. ASSUME \A i, j \in DOMAIN s : s[i] = s[j] => i = j,
             h \notin Members(s),
             NEW i \in DOMAIN t, NEW j \in DOMAIN t, t[i] = t[j]
      PROVE  i = j
  <2> HIDE DEF t
  <2> QED BY <1>1, <1>3, <1>5 DEF Members
<1> QED
  BY <1>4, <1>5

\* Popping takes the first member away and leaves the others.
LEMMA PopMembers ==
  ASSUME NEW S, NEW s \in Seq(S), s # <<>>
  PROVE  LET t == Tail(s)
         IN  /\ t \in Seq(S)
             /\ Head(s) \in Members(s)
             /\ Members(s)
                  = Members(t) \cup {Head(s)}
             /\ (\A i, j \in DOMAIN s : s[i] = s[j] => i = j)
                => /\ \A i, j \in DOMAIN t : t[i] = t[j] => i = j
                   /\ Head(s) \notin Members(t)
<1> DEFINE t == Tail(s)
<1>1. /\ t \in Seq(S) /\ DOMAIN t = 1..(Len(s) - 1)
      /\ DOMAIN s = 1..Len(s) /\ Len(s) \in Nat /\ Len(s) # 0
      /\ Head(s) = s[1]
      /\ \A i \in 1..(Len(s) - 1) : t[i] = s[i + 1]
  BY HeadTailProperties, LenProperties, EmptySeq
<1>2. \A i \in DOMAIN t : i + 1 \in DOMAIN s /\ t[i] = s[i + 1] /\ i + 1 # 1
  BY <1>1
<1>3. \A i \in DOMAIN s : i = 1 \/ (i - 1 \in DOMAIN t /\ s[i] = t[i - 1])
  BY <1>1
<1>4. 1 \in DOMAIN s
  BY <1>1
<1>5. Members(s) = Members(t) \cup {Head(s)}
  <2> HIDE DEF t
  <2> QED BY <1>1, <1>2, <1>3, <1>4 DEF Members
<1>6. ASSUME \A i, j \in DOMAIN s : s[i] = s[j] => i = j
      PROVE  /\ \A i, j \in DOMAIN t : t[i] = t[j] => i = j
             /\ Head(s) \notin Members(t)
  <2> HIDE DEF t
  <2> QED BY <1>1, <1>2, <1>4, <1>6 DEF Members
<1> QED
  BY <1>1, <1>4, <1>5, <1>6 DEF Members

-----------------------------------------------------------------------------
(* Types                                                                   *)

\* The states of a waiting process, and what waking and reading make of one.
LEMMA WaiterStates ==
  /\ Idle \in WaiterState
  /\ \A r \in WaiterState :
       r.key \in Nat /\ r.goal \in Values \cup {Any}
         /\ [r EXCEPT !.at = "woken"] \in WaiterState
  /\ \A key \in Nat, goal \in Values \cup {Any} :
       [at |-> "blocked", key |-> key, goal |-> goal] \in WaiterState
BY DEF Idle, WaiterState

LEMMA AfterReadType ==
  ASSUME TypeOK, NEW w \in Waiters, NEW key \in Nat,
         NEW goal \in Values \cup {Any}, AfterRead(w, key, goal)
  PROVE  waiter' \in [Waiters -> WaiterState]
BY WaiterStates DEF AfterRead, TypeOK

\* Every variable keeps its type, for any number of signals and records.
THEOREM TypeCorrect == Spec => []TypeOK
<1> USE DEF dpiVars, simVars, svVars, bounds
<1>1. Init => TypeOK
  <2> SUFFICES ASSUME Init PROVE TypeOK
    OBVIOUS
  <2>1. Unwritten \in [obj : Signals, sv_key : Nat]
    BY HooksAssumption DEF Unwritten
  <2>2. running \in BOOLEAN /\ reset_callback \in BOOLEAN
    BY Zenon DEF Init, DpiInit
  <2>3. changeList \in Seq(Hooks) /\ on_changeList \in [Hooks -> BOOLEAN]
    BY EmptySeq DEF Init, DpiInit
  <2>4. record \in [Hooks -> [obj : Signals, sv_key : Nat]]
    BY <2>1 DEF Init, DpiInit
  <2>5. waiter \in [Waiters -> WaiterState]
    BY WaiterStates DEF Init
  <2> QED
    BY <2>2, <2>3, <2>4, <2>5 DEF Init, DpiInit, TypeOK, DpiTypeOK
<1>2. TypeOK /\ [Next]_vars => TypeOK'
  <2> SUFFICES ASSUME TypeOK, [Next]_vars PROVE TypeOK'
    OBVIOUS
  <2> USE DEF TypeOK, DpiTypeOK
  <2>1. ASSUME NEW h \in Hooks, NEW s \in Signals, NEW enable \in BOOLEAN,
               NEW viaGetPoll \in BOOLEAN, create_probe(h, s, enable, viaGetPoll)
        PROVE  TypeOK'
    <3>1. next_key(viaGetPoll) \in Nat
      BY DEF next_key
    <3> QED
      BY <2>1, <3>1 DEF create_probe, uvm_polling_create,
           allocate_hook_record, CallbacksAfter
  <2>2. ASSUME NEW h \in Hooks, NEW enable \in BOOLEAN, SetEnable(h, enable)
        PROVE  TypeOK'
    BY <2>2 DEF SetEnable, uvm_polling_set_enable_callback, CallbacksAfter
  <2>3. ASSUME NEW h \in Hooks, Callback(h) PROVE TypeOK'
    <3>1. <<h>> \o changeList \in Seq(Hooks)
      BY PushLemma
    <3> QED
      BY <2>3, <3>1 DEF Callback, uvm_polling_value_change_callback,
           changeList_pushIfNeeded, uvm_polling_toggle_notifier
  <2>4. ASSUME NEW viaGetPoll \in BOOLEAN, create_probe_fails(viaGetPoll)
        PROVE  TypeOK'
    BY <2>4 DEF create_probe_fails, next_key
  <2>5. CASE uvm_hdl_polling_probes_run
    <3>1. running' \in BOOLEAN /\ reset_callback' \in BOOLEAN
      BY <2>5, Zenon DEF uvm_hdl_polling_probes_run, uvm_polling_setup_notifier
    <3> QED
      BY <2>5, <3>1 DEF uvm_hdl_polling_probes_run, uvm_polling_setup_notifier
  <2>6. ASSUME NEW s \in Signals, DesignDrives(s) \/ CallbackDeposits(s)
        PROVE  TypeOK'
    <3>1. ValueChange(s)
      BY <2>6 DEF DesignDrives, CallbackDeposits
    <3>2. value' \in [Signals -> Values] /\ fired' \subseteq Hooks
      BY <3>1 DEF ValueChange
    <3>3. disables' \in Nat /\ deposits' \in Nat /\ restarts' \in Nat
      BY <2>6 DEF DesignDrives, CallbackDeposits
    <3> QED
      BY <3>1, <3>2, <3>3 DEF ValueChange
  <2>7. CASE Service
    <3>1. changeList # <<>> => Tail(changeList) \in Seq(Hooks)
      BY PopMembers
    <3> QED
      BY <2>7, <3>1, WaiterStates DEF Service, PopForService,
           uvm_polling_get_newest_entry, m_polling_releaseWaiters
  <2>8. CASE ServiceDone
    BY <2>8 DEF ServiceDone
  <2>9. ASSUME NEW w \in Waiters, NEW p \in probes,
               NEW goal \in Values \cup {Any}, StartWaiting(w, p, goal)
        PROVE  TypeOK'
    <3>1. waiter' \in [Waiters -> WaiterState]
      BY <2>9, AfterReadType DEF StartWaiting
    <3> QED
      BY <2>9, <3>1 DEF StartWaiting
  <2>10. ASSUME NEW w \in Waiters, ResumeWaiting(w) PROVE TypeOK'
    <3>1. waiter' \in [Waiters -> WaiterState]
      <4>1. waiter[w].key \in Nat /\ waiter[w].goal \in Values \cup {Any}
        BY WaiterStates
      <4> QED
        BY <2>10, <4>1, AfterReadType, WaiterStates DEF ResumeWaiting
    <3> QED
      BY <2>10, <3>1 DEF ResumeWaiting
  <2>11. CASE Restart
    <3>1. running' \in BOOLEAN
      BY <2>11, Zenon DEF Restart
    <3>2. waiter' \in [Waiters -> WaiterState]
      BY <2>11, WaiterStates DEF Restart
    <3> QED
      BY <2>11, <3>1, <3>2 DEF Restart, uvm_polling_free_mem_structures
  <2>12. CASE Finished
    BY <2>12 DEF Finished, vars
  <2>13. CASE UNCHANGED vars
    BY <2>13 DEF vars
  <2> QED
    BY <2>1, <2>2, <2>3, <2>4, <2>5, <2>6, <2>7, <2>8, <2>9, <2>10, <2>11,
       <2>12, <2>13 DEF Next
<1> QED
  BY <1>1, <1>2, PTL DEF Spec

-----------------------------------------------------------------------------
(* Keys                                                                    *)

\* What keeps the keys apart: those given out lie below the count, which
\* both makers of probes advance.
KeysBelowCount == \A p \in probes : p.key < instances

KeyInv == NotifyReachesItsProbe /\ KeysBelowCount

\* A step that makes no probe and does not reset the simulation leaves the
\* keys as they are.
LEMMA KeysUndisturbed ==
  ASSUME TypeOK, KeyInv, UNCHANGED <<probes, allHooks, record>>,
         instances' \in Nat, instances' >= instances
  PROVE  KeyInv'
BY DEF TypeOK, DpiTypeOK, KeyInv, KeysBelowCount, NotifyReachesItsProbe

LEMMA KeyInvariant == Spec => []KeyInv
<1> USE DEF dpiVars, simVars, svVars, bounds
<1>1. Init => KeyInv
  BY DEF Init, DpiInit, KeyInv, KeysBelowCount, NotifyReachesItsProbe
<1>2. TypeOK /\ TypeOK' /\ KeyInv /\ [Next]_vars => KeyInv'
  <2> SUFFICES ASSUME TypeOK, TypeOK', KeyInv, [Next]_vars PROVE KeyInv'
    OBVIOUS
  <2>1. ASSUME NEW h \in Hooks, NEW s \in Signals, NEW enable \in BOOLEAN,
               NEW viaGetPoll \in BOOLEAN, create_probe(h, s, enable, viaGetPoll)
        PROVE  KeyInv'
    <3> DEFINE k == next_key(viaGetPoll)
               new == [key |-> k, name |-> s, registered |-> enable]
    <3>1. k \in Nat /\ k >= instances /\ instances \in Nat
      BY DEF next_key, TypeOK
    <3>2. /\ instances' = k + 1 /\ probes' = probes \cup {new}
          /\ allHooks' = allHooks \cup {h} /\ h \notin allHooks
          /\ record' = [record EXCEPT ![h] = [obj |-> s, sv_key |-> k]]
      BY <2>1 DEF create_probe, uvm_polling_create, allocate_hook_record
    <3>3. new.key = k /\ new.name = s
      OBVIOUS
    <3>4. /\ record'[h].sv_key = k /\ record'[h].obj = s
          /\ \A g \in allHooks : record'[g] = record[g]
      BY <3>2 DEF TypeOK, DpiTypeOK
    <3>5. /\ \A p \in probes : p.key \in Nat /\ p.key < k
          /\ \A g \in allHooks : record[g].sv_key \in Nat /\ record[g].sv_key < k
      BY <3>1 DEF TypeOK, DpiTypeOK, KeyInv, KeysBelowCount, NotifyReachesItsProbe
    <3> HIDE DEF k, new
    <3>6. \A p, q \in probes' : p.key = q.key => p = q
      BY <3>1, <3>2, <3>3, <3>5 DEF KeyInv, NotifyReachesItsProbe
    <3>7. \A g \in allHooks' :
            /\ \E p \in probes' : /\ p.key = record'[g].sv_key
                                  /\ p.name = record'[g].obj
            /\ record'[g].sv_key < instances'
      <4> SUFFICES ASSUME NEW g \in allHooks'
                   PROVE  /\ \E p \in probes' : /\ p.key = record'[g].sv_key
                                                /\ p.name = record'[g].obj
                          /\ record'[g].sv_key < instances'
        OBVIOUS
      <4>1. CASE g = h
        BY <4>1, <3>1, <3>2, <3>3, <3>4
      <4>2. CASE g \in allHooks
        BY <4>2, <3>1, <3>2, <3>4, <3>5 DEF KeyInv, NotifyReachesItsProbe
      <4> QED
        BY <4>1, <4>2, <3>2
    <3>8. \A f, g \in allHooks' :
            record'[g].sv_key = record'[f].sv_key => f = g
      BY <3>1, <3>2, <3>4, <3>5 DEF KeyInv, NotifyReachesItsProbe
    <3>9. \A p \in probes' : p.key < instances'
      BY <3>1, <3>2, <3>3, <3>5
    <3> QED
      BY <3>6, <3>7, <3>8, <3>9 DEF KeyInv, KeysBelowCount, NotifyReachesItsProbe
  <2>2. ASSUME NEW h \in Hooks, NEW enable \in BOOLEAN, SetEnable(h, enable)
        PROVE  KeyInv'
    BY <2>2, KeysUndisturbed DEF SetEnable, uvm_polling_set_enable_callback, TypeOK
  <2>3. ASSUME NEW h \in Hooks, Callback(h) PROVE KeyInv'
    BY <2>3, KeysUndisturbed DEF Callback, uvm_polling_value_change_callback, TypeOK
  <2>4. ASSUME NEW viaGetPoll \in BOOLEAN, create_probe_fails(viaGetPoll)
        PROVE  KeyInv'
    BY <2>4, KeysUndisturbed DEF create_probe_fails, next_key, TypeOK
  <2>5. CASE uvm_hdl_polling_probes_run
    BY <2>5, KeysUndisturbed DEF uvm_hdl_polling_probes_run,
         uvm_polling_setup_notifier, TypeOK
  <2>6. ASSUME NEW s \in Signals, DesignDrives(s) \/ CallbackDeposits(s)
        PROVE  KeyInv'
    BY <2>6, KeysUndisturbed DEF DesignDrives, CallbackDeposits, ValueChange, TypeOK
  <2>7. CASE Service
    BY <2>7, KeysUndisturbed DEF Service, PopForService, TypeOK
  <2>8. CASE ServiceDone
    BY <2>8, KeysUndisturbed DEF ServiceDone, TypeOK
  <2>9. ASSUME NEW w \in Waiters, NEW p \in probes,
               NEW goal \in Values \cup {Any}, StartWaiting(w, p, goal)
        PROVE  KeyInv'
    BY <2>9, KeysUndisturbed DEF StartWaiting, TypeOK
  <2>10. ASSUME NEW w \in Waiters, ResumeWaiting(w) PROVE KeyInv'
    BY <2>10, KeysUndisturbed DEF ResumeWaiting, TypeOK
  <2>11. CASE Restart
    BY <2>11 DEF Restart, uvm_polling_free_mem_structures, KeyInv,
         KeysBelowCount, NotifyReachesItsProbe
  <2>12. CASE UNCHANGED vars
    BY <2>12, KeysUndisturbed DEF vars, TypeOK
  <2> QED
    BY <2>1, <2>2, <2>3, <2>4, <2>5, <2>6, <2>7, <2>8, <2>9, <2>10, <2>11,
       <2>12 DEF Next, Finished
<1> QED
  BY <1>1, <1>2, TypeCorrect, PTL DEF Spec

\* Every notification reaches the probe of the signal that changed, however
\* many probes there are, however they were made, and whatever the restarts.
THEOREM KeysCorrect == Spec => []NotifyReachesItsProbe
BY KeyInvariant, PTL DEF KeyInv

-----------------------------------------------------------------------------
(* The list and the notifier                                               *)

\* Callbacks are registered for, and owed to, allocated records only.
CallbacksAllocated == cb \subseteq allHooks /\ fired \subseteq allHooks

\* Until the first restart the notifier exists exactly when the process that
\* waits for it does, which is when running says so.
NotifierHasProcess ==
  restarts = 0 =>
    /\ notifier # "stale"
    /\ notifier = "live" <=> runner # "none"
    /\ running => runner # "none"
    /\ ~running => runner = "none"

ListInv ==
  /\ CallbacksAllocated
  /\ NotifierHasProcess
  /\ ListIsOneChain
  /\ ChangesAreAnnounced

\* The list is undisturbed by a step that leaves it and its flags alone and
\* frees nothing.
LEMMA ListUndisturbed ==
  ASSUME TypeOK, ListInv, UNCHANGED <<changeList, on_changeList, restarts>>,
         allHooks \subseteq allHooks'
  PROVE  ListIsOneChain'
BY DEF TypeOK, DpiTypeOK, ListInv, ListIsOneChain, Listed

\* What a callback does to the list.
LEMMA CallbackPushes ==
  ASSUME TypeOK, ListInv, restarts = 0, NEW h \in Hooks, Callback(h)
  PROVE  /\ Listed' = Listed \cup {h}
         /\ changeList' # <<>>
         /\ \A i, j \in DOMAIN changeList' :
              changeList'[i] = changeList'[j] => i = j
         /\ on_changeList' = [on_changeList EXCEPT ![h] = TRUE]
<1> USE DEF TypeOK, DpiTypeOK
<1>1. /\ changeList' = IF on_changeList[h] THEN changeList
                                           ELSE <<h>> \o changeList
      /\ on_changeList' = [on_changeList EXCEPT ![h] = TRUE]
  BY DEF Callback, uvm_polling_value_change_callback, changeList_pushIfNeeded
<1>2. /\ \A i, j \in DOMAIN changeList :
           changeList[i] = changeList[j] => i = j
      /\ on_changeList[h] <=> h \in Listed
  BY DEF ListInv, ListIsOneChain
<1>3. CASE on_changeList[h]
  <2>1. h \in Listed /\ changeList' = changeList
    BY <1>1, <1>2, <1>3
  <2>2. changeList # <<>>
    BY <2>1, EmptySeq DEF Listed
  <2> QED
    BY <1>1, <1>2, <2>1, <2>2 DEF Listed
<1>4. CASE ~on_changeList[h]
  <2>1. h \notin Listed /\ changeList' = <<h>> \o changeList
    BY <1>1, <1>2, <1>4
  <2>2. Listed' = Listed \cup {h}
    <3>1. Members(<<h>> \o changeList) = Members(changeList) \cup {h}
      BY PushMembers
    <3> QED
      BY <2>1, <3>1, ListedMembers, Zenon DEF Listed, Members
  <2>3. \A i, j \in DOMAIN changeList' :
          changeList'[i] = changeList'[j] => i = j
    <3>1. h \in Hooks /\ changeList \in Seq(Hooks) /\ h \notin Members(changeList)
      BY <2>1, ListedMembers
    <3>2. \A i, j \in DOMAIN (<<h>> \o changeList) :
            (<<h>> \o changeList)[i] = (<<h>> \o changeList)[j] => i = j
      BY <1>2, <3>1, PushMembers
    <3> QED
      BY <2>1, <3>2
  <2>4. changeList' # <<>>
    BY <2>1, PushLemma
  <2> QED
    BY <1>1, <2>2, <2>3, <2>4
<1> QED
  BY <1>3, <1>4

\* What one service does to it.
LEMMA ServicePops ==
  ASSUME TypeOK, ListInv, Service
  PROVE  /\ changeList # <<>>
         /\ Head(changeList) \in Listed
         /\ Listed = Listed' \cup {Head(changeList)}
         /\ on_changeList' = [on_changeList EXCEPT ![Head(changeList)] = FALSE]
         /\ restarts = 0 =>
              /\ \A i, j \in DOMAIN changeList' :
                   changeList'[i] = changeList'[j] => i = j
              /\ Head(changeList) \notin Listed'
<1>1. /\ changeList # <<>> /\ changeList' = Tail(changeList)
      /\ on_changeList' = [on_changeList EXCEPT ![Head(changeList)] = FALSE]
  BY DEF Service, PopForService, uvm_polling_get_newest_entry
<1>2. changeList \in Seq(Hooks)
  BY DEF TypeOK, DpiTypeOK
<1>3. /\ Head(changeList) \in Listed
      /\ Listed = Listed' \cup {Head(changeList)}
  <2>1. /\ Head(changeList) \in Members(changeList)
        /\ Members(changeList) = Members(Tail(changeList)) \cup {Head(changeList)}
    BY <1>1, <1>2, PopMembers
  <2>2. Listed' = Members(Tail(changeList))
    BY <1>1, Zenon DEF Listed, Members
  <2> QED
    BY <2>1, <2>2, ListedMembers
<1>4. ASSUME restarts = 0
      PROVE  /\ \A i, j \in DOMAIN changeList' :
                  changeList'[i] = changeList'[j] => i = j
             /\ Head(changeList) \notin Listed'
  <2>1. \A i, j \in DOMAIN changeList : changeList[i] = changeList[j] => i = j
    BY <1>4 DEF ListInv, ListIsOneChain
  <2>2. Head(changeList) \notin Members(Tail(changeList))
    BY <1>1, <1>2, <2>1, PopMembers
  <2>3. Listed' = Members(Tail(changeList))
    BY <1>1, Zenon DEF Listed, Members
  <2>4. \A i, j \in DOMAIN Tail(changeList) :
          Tail(changeList)[i] = Tail(changeList)[j] => i = j
    BY <1>1, <1>2, <2>1, PopMembers
  <2> QED
    BY <1>1, <2>2, <2>3, <2>4
<1> QED
  BY <1>1, <1>3, <1>4

LEMMA ListInvariant == Spec => []ListInv
<1> USE DEF dpiVars, simVars, svVars, bounds
<1>1. Init => ListInv
  <2> SUFFICES ASSUME Init PROVE ListInv
    OBVIOUS
  <2>1. changeList = <<>> /\ DOMAIN changeList = {} /\ Listed = {}
    BY EmptySeq DEF Init, DpiInit, Listed
  <2>2. ListIsOneChain
    BY <2>1 DEF Init, DpiInit, ListIsOneChain
  <2>3. ~running /\ runner = "none" /\ notifier = "NULL"
    BY Zenon DEF Init, DpiInit
  <2>4. CallbacksAllocated
    BY DEF Init, DpiInit, CallbacksAllocated
  <2>5. NotifierHasProcess
    BY <2>3 DEF NotifierHasProcess
  <2> QED
    BY <2>1, <2>2, <2>4, <2>5 DEF ListInv, ChangesAreAnnounced
<1>2. TypeOK /\ TypeOK' /\ ListInv /\ [Next]_vars => ListInv'
  <2> SUFFICES ASSUME TypeOK, TypeOK', ListInv, [Next]_vars PROVE ListInv'
    OBVIOUS
  <2> USE DEF CallbacksAllocated, NotifierHasProcess, ChangesAreAnnounced
  <2>1. ASSUME NEW h \in Hooks, NEW s \in Signals, NEW enable \in BOOLEAN,
               NEW viaGetPoll \in BOOLEAN, create_probe(h, s, enable, viaGetPoll)
        PROVE  ListInv'
    <3>1. /\ h \notin allHooks /\ allHooks' = allHooks \cup {h}
          /\ on_changeList' = [on_changeList EXCEPT ![h] = FALSE]
          /\ cb' \subseteq cb \cup {h}
          /\ UNCHANGED <<changeList, notifier, fired, ended, running, runner,
                         restarts>>
      BY <2>1 DEF create_probe, uvm_polling_create, allocate_hook_record,
           CallbacksAfter
    <3>2. ListIsOneChain'
      BY <3>1, SMTT(40) DEF ListInv, ListIsOneChain, Listed, TypeOK, DpiTypeOK
    <3> QED
      BY <3>1, <3>2 DEF ListInv
  <2>2. ASSUME NEW h \in Hooks, NEW enable \in BOOLEAN, SetEnable(h, enable)
        PROVE  ListInv'
    BY <2>2, ListUndisturbed DEF ListInv, SetEnable,
         uvm_polling_set_enable_callback, CallbacksAfter
  <2>3. ASSUME NEW h \in Hooks, Callback(h) PROVE ListInv'
    <3>1. /\ h \in allHooks /\ UNCHANGED <<allHooks, cb, notifier, running, restarts>>
          /\ ended = "no" /\ fired' \subseteq fired
      BY <2>3 DEF ListInv, Callback, uvm_polling_value_change_callback
    <3>2. ListIsOneChain'
      BY <2>3, <3>1, CallbackPushes, SMTT(40) DEF ListInv, ListIsOneChain, TypeOK, DpiTypeOK
    <3>3. CASE changeList # <<>>
      <4>1. UNCHANGED <<ended, runner>>
        BY <2>3, <3>3 DEF Callback, RequireNotification
      <4> QED
        BY <3>1, <3>2, <3>3, <4>1 DEF ListInv
    <3>4. CASE changeList = <<>>
      <4>1. uvm_polling_toggle_notifier
        BY <2>3, <3>4 DEF Callback, RequireNotification
      <4>2. CASE notifier = "NULL"
        BY <3>1, <3>2, <4>1, <4>2 DEF ListInv, uvm_polling_toggle_notifier
      <4>3. CASE notifier = "live"
        <5>1. /\ runner' = (IF runner = "waiting" THEN "woken" ELSE runner)
              /\ ended' = ended
          BY <4>1, <4>3 DEF uvm_polling_toggle_notifier
        <5>2. restarts = 0 => runner # "none"
          BY <4>3 DEF ListInv
        <5>3. restarts = 0 => runner' \in {"woken", "processing"}
          BY <5>1, <5>2 DEF TypeOK
        <5>4. ChangesAreAnnounced'
          BY <3>1, <5>3
        <5>5. NotifierHasProcess'
          BY <3>1, <4>3, <5>1, <5>2, <5>3 DEF ListInv
        <5> QED
          BY <3>1, <3>2, <5>4, <5>5 DEF ListInv
      <4>4. CASE notifier = "stale"
        <5>1. restarts # 0 /\ restarts' # 0
          BY <3>1, <4>4 DEF ListInv
        <5> QED
          BY <3>1, <3>2, <5>1 DEF ListInv
      <4> QED
        BY <4>2, <4>3, <4>4 DEF TypeOK, DpiTypeOK
    <3> QED
      BY <3>3, <3>4
  <2>4. ASSUME NEW viaGetPoll \in BOOLEAN, create_probe_fails(viaGetPoll)
        PROVE  ListInv'
    BY <2>4, ListUndisturbed DEF ListInv, create_probe_fails
  <2>5. CASE uvm_hdl_polling_probes_run
    <3>1. /\ ended = "no" /\ fired = {} /\ runner # "processing"
          /\ UNCHANGED <<changeList, on_changeList, allHooks, cb, fired, ended,
                         restarts>>
      BY <2>5 DEF uvm_hdl_polling_probes_run, uvm_polling_setup_notifier, Quiet
    <3>2. ListIsOneChain'
      BY <3>1, ListUndisturbed
    <3>3. CASE running
      <4>1. UNCHANGED <<notifier, running, runner>>
        BY <2>5, <3>3 DEF uvm_hdl_polling_probes_run
      <4> QED
        BY <3>1, <3>2, <4>1 DEF ListInv
    <3>4. CASE ~running
      <4>1. notifier' = "live" /\ runner' = "waiting"
        BY <2>5, <3>4 DEF uvm_hdl_polling_probes_run, uvm_polling_setup_notifier
      <4>2. running'
        BY <2>5, <3>4, Zenon DEF uvm_hdl_polling_probes_run
      <4>3. restarts = 0 => changeList = <<>>
        BY <3>1, <3>4 DEF ListInv
      <4> QED
        BY <3>1, <3>2, <4>1, <4>2, <4>3 DEF ListInv
    <3> QED
      BY <3>3, <3>4
  <2>6. ASSUME NEW s \in Signals, DesignDrives(s) \/ CallbackDeposits(s)
        PROVE  ListInv'
    <3>1. /\ UNCHANGED <<changeList, on_changeList, allHooks, cb, notifier,
                         ended, running, runner, restarts>>
          /\ fired' \subseteq cb
      BY <2>6 DEF DesignDrives, CallbackDeposits, ValueChange
    <3> QED
      BY <3>1, ListUndisturbed DEF ListInv
  <2>7. CASE Service
    <3>1. /\ UNCHANGED <<allHooks, cb, fired, notifier, running, restarts>>
          /\ runner' = "processing" /\ runner \in {"woken", "processing"}
      BY <2>7 DEF Service, PopForService
    <3>2. ListIsOneChain'
      BY <2>7, <3>1, ServicePops DEF ListInv, ListIsOneChain, TypeOK, DpiTypeOK
    <3> QED
      BY <3>1, <3>2 DEF ListInv
  <2>8. CASE ServiceDone
    BY <2>8, ListUndisturbed DEF ListInv, ServiceDone
  <2>9. ASSUME NEW w \in Waiters, NEW p \in probes,
               NEW goal \in Values \cup {Any}, StartWaiting(w, p, goal)
        PROVE  ListInv'
    BY <2>9, ListUndisturbed DEF ListInv, StartWaiting
  <2>10. ASSUME NEW w \in Waiters, ResumeWaiting(w) PROVE ListInv'
    BY <2>10, ListUndisturbed DEF ListInv, ResumeWaiting
  <2>11. CASE Restart
    <3>1. restarts' # 0
      BY <2>11 DEF Restart, TypeOK
    <3> QED
      BY <2>11, <3>1 DEF Restart, uvm_polling_free_mem_structures, Quiet,
           ListInv, ListIsOneChain
  <2>12. CASE UNCHANGED vars
    BY <2>12, ListUndisturbed DEF ListInv, vars
  <2> QED
    BY <2>1, <2>2, <2>3, <2>4, <2>5, <2>6, <2>7, <2>8, <2>9, <2>10, <2>11,
       <2>12 DEF Next, Finished
<1> QED
  BY <1>1, <1>2, TypeCorrect, PTL DEF Spec

\* The list of changes is a single chain of allocated records whose flags
\* are right, however many records there are.
THEOREM ListCorrect == Spec => []ListIsOneChain
BY ListInvariant, PTL DEF ListInv

\* No change is ever on the list with nobody on the way to service it, up to
\* the first restart.
THEOREM AnnouncedCorrect == Spec => []ChangesAreAnnounced
BY ListInvariant, PTL DEF ListInv

\* The process that walks the list never meets a record that a restart has
\* freed, however often the simulation is reset: while the list dangles it is
\* not empty, so nothing wakes that process.
THEOREM RestartsAreSafe == Spec => []NothingFreedIsServiced
<1> USE DEF NothingFreedIsServiced
<1>1. Init => NothingFreedIsServiced
  BY DEF Init
<1>2. /\ TypeOK /\ ListInv /\ NothingFreedIsServiced /\ [Next]_vars
      => NothingFreedIsServiced'
  <2> SUFFICES ASSUME TypeOK, ListInv, NothingFreedIsServiced, [Next]_vars,
                      runner' \in {"woken", "processing"}
               PROVE  Listed' \subseteq allHooks'
    OBVIOUS
  <2> USE DEF dpiVars, simVars, svVars, bounds
  <2>1. ASSUME NEW h \in Hooks, Callback(h)
        PROVE  Listed' \subseteq allHooks'
    <3>1. /\ h \in allHooks /\ allHooks' = allHooks
          /\ changeList' = IF on_changeList[h] THEN changeList
                                               ELSE <<h>> \o changeList
      BY <2>1 DEF ListInv, CallbacksAllocated, Callback,
           uvm_polling_value_change_callback, changeList_pushIfNeeded
    <3>2. Listed' \subseteq Listed \cup {h}
      <4>1. CASE on_changeList[h]
        BY <3>1, <4>1 DEF Listed
      <4>2. CASE ~on_changeList[h]
        <5>1. Members(<<h>> \o changeList) = Members(changeList) \cup {h}
          BY PushMembers DEF TypeOK, DpiTypeOK
        <5>2. changeList' = <<h>> \o changeList
          BY <3>1, <4>2
        <5>3. Listed' = Members(<<h>> \o changeList)
          BY <5>2, Zenon DEF Listed, Members
        <5> QED
          BY <5>1, <5>3, ListedMembers
      <4> QED
        BY <4>1, <4>2
    <3>3. CASE changeList = <<>>
      <4>1. Listed = {}
        BY <3>3, EmptySeq DEF Listed
      <4> QED
        BY <3>1, <3>2, <4>1
    <3>4. CASE changeList # <<>>
      <4>1. runner' = runner
        BY <2>1, <3>4 DEF Callback, RequireNotification
      <4> QED
        BY <3>1, <3>2, <4>1
    <3> QED
      BY <3>3, <3>4
  <2>2. CASE Service
    <3>1. allHooks' = allHooks /\ runner \in {"woken", "processing"}
      BY <2>2 DEF Service, PopForService
    <3> QED
      BY <2>2, <3>1, ServicePops
  <2>3. ASSUME NEW h \in Hooks, NEW s \in Signals, NEW enable \in BOOLEAN,
               NEW viaGetPoll \in BOOLEAN, create_probe(h, s, enable, viaGetPoll)
        PROVE  Listed' \subseteq allHooks'
    <3>1. /\ allHooks' = allHooks \cup {h} /\ UNCHANGED <<changeList, runner>>
      BY <2>3 DEF create_probe, uvm_polling_create, allocate_hook_record
    <3> QED
      BY <3>1 DEF Listed
  <2>4. ASSUME runner' = runner, allHooks' = allHooks, changeList' = changeList
        PROVE  Listed' \subseteq allHooks'
    BY <2>4 DEF Listed
  <2>5. ASSUME NEW h \in Hooks, NEW enable \in BOOLEAN, SetEnable(h, enable)
        PROVE  Listed' \subseteq allHooks'
    BY <2>4, <2>5 DEF SetEnable, uvm_polling_set_enable_callback
  <2>6. ASSUME NEW viaGetPoll \in BOOLEAN, create_probe_fails(viaGetPoll)
        PROVE  Listed' \subseteq allHooks'
    BY <2>4, <2>6 DEF create_probe_fails
  <2>7. CASE uvm_hdl_polling_probes_run
    <3>1. CASE running
      BY <2>4, <2>7, <3>1 DEF uvm_hdl_polling_probes_run
    <3>2. CASE ~running
      BY <2>7, <3>2 DEF uvm_hdl_polling_probes_run
    <3> QED
      BY <3>1, <3>2
  <2>8. ASSUME NEW s \in Signals, DesignDrives(s) \/ CallbackDeposits(s)
        PROVE  Listed' \subseteq allHooks'
    BY <2>4, <2>8 DEF DesignDrives, CallbackDeposits, ValueChange
  <2>9. CASE ServiceDone \/ Restart
    BY <2>9 DEF ServiceDone, Restart
  <2>10. ASSUME NEW w \in Waiters, NEW p \in probes,
                NEW goal \in Values \cup {Any},
                StartWaiting(w, p, goal)
         PROVE  Listed' \subseteq allHooks'
    BY <2>4, <2>10 DEF StartWaiting
  <2>11. ASSUME NEW w \in Waiters, ResumeWaiting(w)
         PROVE  Listed' \subseteq allHooks'
    BY <2>4, <2>11 DEF ResumeWaiting
  <2>12. CASE UNCHANGED vars
    BY <2>4, <2>12 DEF vars
  <2> QED
    BY <2>1, <2>2, <2>3, <2>5, <2>6, <2>7, <2>8, <2>9, <2>10, <2>11, <2>12
       DEF Next, Finished
<1> QED
  BY <1>1, <1>2, TypeCorrect, ListInvariant, PTL DEF Spec

-----------------------------------------------------------------------------
(* Waiting processes                                                       *)

\* A process waits on a probe that exists and has registered a callback.
WaitersHaveProbes ==
  \A w \in Waiters : waiter[w].at # "idle" =>
    \E p \in probes : p.key = waiter[w].key /\ p.registered

\* Such a probe's callback is there until somebody disables one.
RegisteredHasCallback ==
  (restarts = 0 /\ disables = 0) =>
    \A h \in allHooks, p \in probes :
      (p.key = record[h].sv_key /\ p.registered) => h \in cb

WakeInv == WaitersHaveProbes /\ RegisteredHasCallback /\ NoLostWakeup

\* After reading, a process is blocked only if its probe's signal differs
\* from the value it waits for.
LEMMA BlockedDiffers ==
  ASSUME TypeOK, KeyInv, NEW w \in Waiters, NEW p \in probes,
         NEW goal \in Values \cup {Any}, AfterRead(w, p.key, goal),
         NEW h \in allHooks, waiter'[w].at = "blocked",
         waiter'[w].key = record[h].sv_key
  PROVE  waiter'[w].goal # value[record[h].obj]
<1>1. /\ waiter'[w] = IF goal = value[NameOf(p.key)] THEN Idle
                      ELSE [at |-> "blocked", key |-> p.key, goal |-> goal]
      /\ Idle.at = "idle"
  BY DEF AfterRead, TypeOK, Idle
<1>2. waiter'[w].key = p.key /\ waiter'[w].goal = goal /\ goal # value[NameOf(p.key)]
  BY <1>1
<1>3. (CHOOSE q \in probes : q.key = p.key) = p
  BY DEF KeyInv, NotifyReachesItsProbe
<1>4. p.name = record[h].obj
  BY <1>2 DEF KeyInv, NotifyReachesItsProbe
<1> QED
  BY <1>2, <1>3, <1>4 DEF NameOf

LEMMA WakeInvariant == Spec => []WakeInv
<1> USE DEF dpiVars, simVars, svVars, bounds
<1>1. Init => WakeInv
  BY DEF Init, DpiInit, WakeInv, WaitersHaveProbes, RegisteredHasCallback,
     NoLostWakeup, Idle
<1>2. TypeOK /\ TypeOK' /\ KeyInv /\ ListInv /\ WakeInv /\ [Next]_vars => WakeInv'
  <2> SUFFICES ASSUME TypeOK, TypeOK', KeyInv, ListInv, WakeInv, [Next]_vars
               PROVE  WakeInv'
    OBVIOUS
  <2> USE DEF WakeInv, WaitersHaveProbes, RegisteredHasCallback
  <2>a. cb \subseteq allHooks /\ fired \subseteq allHooks
    BY DEF ListInv, CallbacksAllocated
  <2>1. ASSUME NEW h \in Hooks, NEW s \in Signals, NEW enable \in BOOLEAN,
               NEW viaGetPoll \in BOOLEAN, create_probe(h, s, enable, viaGetPoll)
        PROVE  WakeInv'
    <3> DEFINE k == next_key(viaGetPoll)
               new == [key |-> k, name |-> s, registered |-> enable]
    <3>1. /\ h \notin allHooks /\ allHooks' = allHooks \cup {h}
          /\ probes' = probes \cup {new}
          /\ record' = [record EXCEPT ![h] = [obj |-> s, sv_key |-> k]]
          /\ cb' = IF enable THEN cb \cup {h} ELSE cb \ {h}
          /\ UNCHANGED <<changeList, value, fired, ended, waiter, restarts, disables>>
      BY <2>1 DEF create_probe, uvm_polling_create, allocate_hook_record,
           CallbacksAfter
    <3>2. k \in Nat /\ k >= instances /\ instances \in Nat
      BY DEF next_key, TypeOK
    <3>3. /\ \A p \in probes : p.key \in Nat /\ p.key < k
          /\ \A g \in allHooks : record[g].sv_key \in Nat /\ record[g].sv_key < k
      BY <3>2 DEF TypeOK, DpiTypeOK, KeyInv, KeysBelowCount, NotifyReachesItsProbe
    <3>4. /\ record'[h].sv_key = k
          /\ \A g \in allHooks : record'[g] = record[g]
      BY <3>1 DEF TypeOK, DpiTypeOK
    <3>5. new.key = k /\ new.registered = enable /\ Listed' = Listed
      BY <3>1 DEF Listed
    <3> HIDE DEF k, new
    <3>6. WaitersHaveProbes'
      BY <3>1
    <3>7. RegisteredHasCallback'
      <4> SUFFICES ASSUME restarts = 0, disables = 0, NEW g \in allHooks',
                          NEW p \in probes', p.key = record'[g].sv_key,
                          p.registered
                   PROVE  g \in cb'
        BY <3>1
      <4>1. CASE g = h
        <5>1. p = new
          BY <4>1, <3>1, <3>2, <3>3, <3>4
        <5> QED
          BY <4>1, <5>1, <3>1, <3>5
      <4>2. CASE g # h
        <5>1. g \in allHooks /\ record'[g] = record[g]
          BY <4>2, <3>1, <3>4
        <5>2. p \in probes
          BY <5>1, <3>1, <3>2, <3>3, <3>5
        <5> QED
          BY <4>2, <5>1, <5>2, <3>1
      <4> QED
        BY <4>1, <4>2
    <3>8. NoLostWakeup'
      <4> SUFFICES ASSUME ended = "no", restarts = 0, disables = 0,
                          NEW w \in Waiters, NEW g \in cb',
                          waiter[w].at = "blocked",
                          waiter[w].key = record'[g].sv_key,
                          waiter[w].goal = value[record'[g].obj]
                   PROVE  g \in Listed \cup fired
        BY <3>1, <3>5 DEF NoLostWakeup
      <4>1. PICK p \in probes : p.key = waiter[w].key
        OBVIOUS
      <4>2. g # h
        BY <4>1, <3>2, <3>3, <3>4
      <4>3. g \in cb /\ record'[g] = record[g]
        BY <4>2, <3>1, <3>4, <2>a
      <4> QED
        BY <4>3 DEF NoLostWakeup
    <3> QED
      BY <3>6, <3>7, <3>8
  <2>2. ASSUME NEW h \in Hooks, NEW enable \in BOOLEAN, SetEnable(h, enable)
        PROVE  WakeInv'
    <3>1. /\ h \in allHooks
          /\ UNCHANGED <<changeList, allHooks, record, value, fired, ended,
                         probes, waiter, restarts>>
          /\ cb' = IF enable THEN cb \cup {h} ELSE cb \ {h}
          /\ disables' = IF enable THEN disables ELSE disables + 1
      BY <2>2 DEF SetEnable, uvm_polling_set_enable_callback, CallbacksAfter
    <3>2. disables' = 0 => enable /\ disables = 0
      BY <3>1 DEF TypeOK
    <3>3. NoLostWakeup'
      <4> SUFFICES ASSUME ended = "no", restarts = 0, disables' = 0,
                          NEW w \in Waiters, NEW g \in cb',
                          waiter[w].at = "blocked",
                          waiter[w].key = record[g].sv_key,
                          waiter[w].goal = value[record[g].obj]
                   PROVE  g \in Listed \cup fired
        BY <3>1 DEF NoLostWakeup, Listed
      <4>1. g \in allHooks /\ disables = 0
        BY <3>1, <3>2, <2>a
      <4>2. g \in cb
        BY <4>1
      <4> QED
        BY <4>1, <4>2 DEF NoLostWakeup
    <3> QED
      BY <3>1, <3>2, <3>3
  <2>3. ASSUME NEW h \in Hooks, Callback(h) PROVE WakeInv'
    <3>1. /\ UNCHANGED <<allHooks, record, cb, value, probes, waiter, restarts,
                         disables>>
          /\ ended = "no" /\ fired' = fired \ {h}
      BY <2>3 DEF Callback, uvm_polling_value_change_callback
    <3>2. restarts = 0 => Listed' = Listed \cup {h}
      BY <2>3, CallbackPushes
    <3> QED
      BY <3>1, <3>2 DEF NoLostWakeup
  <2>4. ASSUME NEW viaGetPoll \in BOOLEAN, create_probe_fails(viaGetPoll)
        PROVE  WakeInv'
    BY <2>4 DEF create_probe_fails, NoLostWakeup
  <2>5. CASE uvm_hdl_polling_probes_run
    <3>1. UNCHANGED <<changeList, allHooks, record, cb, value, fired, ended,
                      probes, waiter, restarts, disables>>
      BY <2>5 DEF uvm_hdl_polling_probes_run, uvm_polling_setup_notifier
    <3> QED
      BY <3>1 DEF NoLostWakeup, Listed
  <2>6. ASSUME NEW s \in Signals, DesignDrives(s) \/ CallbackDeposits(s)
        PROVE  WakeInv'
    <3>1. /\ UNCHANGED <<changeList, allHooks, record, cb, ended, probes,
                         waiter, restarts, disables>>
          /\ fired = {} /\ fired' = {h \in cb : record[h].obj = s}
          /\ \A t \in Signals : t # s => value'[t] = value[t]
      BY <2>6 DEF DesignDrives, CallbackDeposits, ValueChange, Quiet, TypeOK
    <3>2. Listed' = Listed /\ \A h \in cb : record[h].obj \in Signals
      BY <3>1 DEF Listed, TypeOK, DpiTypeOK
    <3>3. NoLostWakeup'
      BY <3>1, <3>2 DEF NoLostWakeup
    <3> QED
      BY <3>1, <3>3
  <2>7. CASE Service
    <3> DEFINE h == Head(changeList)
    <3>1. /\ UNCHANGED <<allHooks, record, cb, value, fired, ended, probes,
                         restarts, disables>>
          /\ waiter' = [w \in Waiters |->
               IF waiter[w].at = "blocked" /\ waiter[w].key = record[h].sv_key
                 THEN [waiter[w] EXCEPT !.at = "woken"] ELSE waiter[w]]
      BY <2>7 DEF Service, PopForService, m_polling_releaseWaiters
    <3>2. Listed = Listed' \cup {h}
      BY <2>7, ServicePops
    <3>3. \A w \in Waiters : waiter[w] \in WaiterState
      BY DEF TypeOK
    <3>4. \A w \in Waiters :
            /\ waiter'[w].key = waiter[w].key
            /\ waiter'[w].goal = waiter[w].goal
            /\ waiter'[w].at = "blocked" =>
                 waiter[w].at = "blocked" /\ waiter[w].key # record[h].sv_key
            /\ waiter'[w].at # "idle" => waiter[w].at # "idle"
      BY <3>1, <3>3 DEF WaiterState
    <3> HIDE DEF h
    <3>5. NoLostWakeup'
      BY <3>1, <3>2, <3>4 DEF NoLostWakeup
    <3> QED
      BY <3>1, <3>4, <3>5
  <2>8. CASE ServiceDone
    BY <2>8 DEF ServiceDone, NoLostWakeup, Listed
  <2>9. ASSUME NEW w \in Waiters, NEW p \in probes, NEW goal \in Values \cup {Any},
               p.registered, AfterRead(w, p.key, goal),
               UNCHANGED <<dpiVars, simVars, ended, svVars, runner, bounds>>
        PROVE  WakeInv'
    <3>1. /\ \A v \in Waiters : v # w => waiter'[v] = waiter[v]
          /\ waiter'[w].at # "idle" => waiter'[w].key = p.key
      BY <2>9 DEF AfterRead, TypeOK, Idle
    <3>2. \A g \in cb : (waiter'[w].at = "blocked" /\ waiter'[w].key = record[g].sv_key)
                         => waiter'[w].goal # value[record[g].obj]
      BY <2>9, <2>a, BlockedDiffers
    <3>3. UNCHANGED Listed
      BY <2>9 DEF Listed
    <3>4. NoLostWakeup'
      BY <2>9, <3>1, <3>2, <3>3 DEF NoLostWakeup
    <3>5. WaitersHaveProbes'
      BY <2>9, <3>1
    <3> QED
      BY <2>9, <3>4, <3>5
  <2>10. ASSUME NEW w \in Waiters, NEW p \in probes,
                NEW goal \in Values \cup {Any}, StartWaiting(w, p, goal)
         PROVE  WakeInv'
    BY <2>10, <2>9 DEF StartWaiting
  <2>11. ASSUME NEW w \in Waiters, ResumeWaiting(w) PROVE WakeInv'
    <3>1. UNCHANGED <<dpiVars, simVars, ended, svVars, runner, bounds>>
      BY <2>11 DEF ResumeWaiting
    <3>2. CASE waiter[w].goal = Any
      <4>1. /\ \A v \in Waiters : v # w => waiter'[v] = waiter[v]
            /\ waiter'[w].at = "idle"
        BY <2>11, <3>2 DEF ResumeWaiting, TypeOK, Idle
      <4> QED
        BY <3>1, <4>1 DEF NoLostWakeup, Listed
    <3>3. CASE waiter[w].goal # Any
      <4>1. AfterRead(w, waiter[w].key, waiter[w].goal) /\ waiter[w].at # "idle"
        BY <2>11, <3>3 DEF ResumeWaiting
      <4>2. PICK p \in probes : p.key = waiter[w].key /\ p.registered
        BY <4>1
      <4>3. waiter[w].goal \in Values \cup {Any}
        BY WaiterStates DEF TypeOK
      <4> QED
        BY <2>9, <3>1, <4>1, <4>2, <4>3
    <3> QED
      BY <3>2, <3>3
  <2>12. CASE Restart
    <3>1. restarts' # 0 /\ \A w \in Waiters : waiter'[w].at = "idle"
      BY <2>12 DEF Restart, TypeOK, Idle
    <3> QED
      BY <3>1 DEF NoLostWakeup
  <2>13. CASE UNCHANGED vars
    BY <2>13 DEF vars, NoLostWakeup, Listed
  <2> QED
    BY <2>1, <2>2, <2>3, <2>4, <2>5, <2>6, <2>7, <2>8, <2>10, <2>11,
       <2>12, <2>13 DEF Next, Finished
<1> QED
  BY <1>1, <1>2, TypeCorrect, KeyInvariant, ListInvariant, PTL DEF Spec

\* No process is ever blocked on a value its signal already has without the
\* notification being on its way, however many processes wait.
THEOREM WakeupsCorrect == Spec => []NoLostWakeup
BY WakeInvariant, PTL DEF WakeInv

-----------------------------------------------------------------------------
(* The refinement                                                          *)

NoRestarts == restarts = 0

LEMMA NoRestartsInvariant ==
  ASSUME MaxRestarts = 0
  PROVE  Spec => []NoRestarts
<1> USE DEF dpiVars, simVars, svVars, bounds, NoRestarts
<1>1. Init => NoRestarts
  BY DEF Init
<1>2. NoRestarts /\ [Next]_vars => NoRestarts'
  <2> SUFFICES ASSUME NoRestarts, Next PROVE NoRestarts'
    BY DEF vars
  <2>1. \A h \in Hooks, s \in Signals, enable, viaGetPoll \in BOOLEAN :
          \/ create_probe(h, s, enable, viaGetPoll)
          \/ create_probe_fails(viaGetPoll)
          \/ SetEnable(h, enable) => NoRestarts'
    BY DEF create_probe, create_probe_fails, SetEnable
  <2> QED
    BY <2>1 DEF Next, create_probe, create_probe_fails, SetEnable, Callback,
       uvm_hdl_polling_probes_run, DesignDrives, CallbackDeposits, ValueChange,
       Service, ServiceDone, StartWaiting, ResumeWaiting, Restart, Finished, vars
<1> QED
  BY <1>1, <1>2, PTL DEF Spec

\* The list of changes, the notifier and the processes implement the change
\* notification service: a step of theirs is a step of it, or invisible.
\* (The fairness part of the refinement is for the model checker.)
THEOREM ImplementsPromiseSafely ==
  ASSUME MaxRestarts = 0
  PROVE  Spec => Promise!Init /\ [][Promise!Next]_(Promise!vars)
<1> USE DEF dpiVars, simVars, svVars, bounds
<1> DEFINE Obj(S) == {record[h].obj : h \in S}
<1>1. Init => Promise!Init
  <2> SUFFICES ASSUME Init PROVE Promise!Init
    OBVIOUS
  <2>1. Listed = {} /\ fired = {} /\ cb = {} /\ ended = "no" /\ runner = "none"
    BY EmptySeq DEF Init, DpiInit, Listed
  <2> QED
    BY <2>1 DEF Init, Promise!Init
<1>2. TypeOK /\ ListInv /\ NoRestarts /\ NoRestarts' /\ [Next]_vars
        => [Promise!Next]_(Promise!vars)
  <2> SUFFICES ASSUME TypeOK, ListInv, NoRestarts, NoRestarts', [Next]_vars
               PROVE  [Promise!Next]_(Promise!vars)
    OBVIOUS
  <2> USE DEF Promise!vars, Promise!Next
  <2>a. /\ cb \subseteq allHooks /\ fired \subseteq allHooks
        /\ Listed \subseteq allHooks
        /\ \A h \in allHooks : record[h].obj \in Signals
    BY DEF ListInv, CallbacksAllocated, ListIsOneChain, NoRestarts, TypeOK, DpiTypeOK
  <2>1. ASSUME NEW h \in Hooks, NEW s \in Signals, NEW enable \in BOOLEAN,
               NEW viaGetPoll \in BOOLEAN, create_probe(h, s, enable, viaGetPoll)
        PROVE  Promise!Watch
    <3>1. /\ h \notin allHooks
          /\ record' = [record EXCEPT ![h] =
                          [obj |-> s, sv_key |-> next_key(viaGetPoll)]]
          /\ cb' = IF enable THEN cb \cup {h} ELSE cb \ {h}
          /\ UNCHANGED <<changeList, value, fired, ended, runner>> /\ ended = "no"
      BY <2>1 DEF create_probe, uvm_polling_create, allocate_hook_record,
           CallbacksAfter, Quiet
    <3>2. /\ record'[h].obj = s
          /\ \A g \in allHooks : record'[g] = record[g]
          /\ Listed' = Listed
      BY <3>1 DEF TypeOK, DpiTypeOK, Listed
    <3>3. {record'[g].obj : g \in cb'} \subseteq Signals
      BY <3>1, <3>2, <2>a
    <3>4. {record'[g].obj : g \in (Listed \cup fired)'}
            = {record[g].obj : g \in Listed \cup fired}
      BY <3>1, <3>2, <2>a
    <3> QED
      BY <3>1, <3>3, <3>4 DEF Promise!Watch
  <2>2. ASSUME NEW h \in Hooks, NEW enable \in BOOLEAN, SetEnable(h, enable)
        PROVE  Promise!Watch
    <3>1. /\ h \in allHooks /\ ended = "no"
          /\ cb' = IF enable THEN cb \cup {h} ELSE cb \ {h}
          /\ UNCHANGED <<changeList, record, value, fired, ended, runner>>
      BY <2>2 DEF SetEnable, uvm_polling_set_enable_callback, CallbacksAfter, Quiet
    <3>2. Listed' = Listed
      BY <3>1 DEF Listed
    <3>3. {record[g].obj : g \in cb'} \subseteq Signals
      BY <3>1, <2>a
    <3> QED
      BY <3>1, <3>2, <3>3 DEF Promise!Watch
  <2>3. ASSUME NEW h \in Hooks, Callback(h)
        PROVE  Promise!Stop \/ UNCHANGED Promise!vars
    <3>1. /\ h \in fired /\ fired' = fired \ {h} /\ ended = "no"
          /\ UNCHANGED <<record, cb, value>>
          /\ runner' = runner \/ (runner = "waiting" /\ runner' = "woken")
      BY <2>3 DEF Callback, uvm_polling_value_change_callback,
           uvm_polling_toggle_notifier
    <3>2. Listed' = Listed \cup {h}
      BY <2>3, CallbackPushes DEF NoRestarts
    <3>3. (Listed \cup fired)' = Listed \cup fired
      BY <3>1, <3>2
    <3> QED
      BY <3>1, <3>3 DEF Promise!Stop
  <2>4. ASSUME NEW viaGetPoll \in BOOLEAN, create_probe_fails(viaGetPoll)
        PROVE  Promise!Stop
    BY <2>4 DEF create_probe_fails, Quiet, Promise!Stop, Listed
  <2>5. CASE uvm_hdl_polling_probes_run
    <3>1. /\ UNCHANGED <<changeList, record, cb, value, fired, ended>>
          /\ runner # "processing" /\ runner' # "processing"
      BY <2>5 DEF Quiet, uvm_hdl_polling_probes_run, uvm_polling_setup_notifier
    <3> QED
      BY <3>1 DEF Listed
  <2>6. ASSUME NEW s \in Signals, DesignDrives(s) \/ CallbackDeposits(s)
        PROVE  Promise!Occur(s)
    <3>1. /\ UNCHANGED <<changeList, record, cb, ended, runner>> /\ ended = "no"
          /\ fired = {} /\ fired' = {h \in cb : record[h].obj = s}
          /\ \E v \in Values \ {value[s]} : value' = [value EXCEPT ![s] = v]
      BY <2>6 DEF DesignDrives, CallbackDeposits, ValueChange, Quiet
    <3>2. Listed' = Listed
      BY <3>1 DEF Listed
    <3>3. {record[g].obj : g \in Listed \cup fired'}
            = IF s \in {record[h].obj : h \in cb}
                THEN {record[g].obj : g \in Listed \cup fired} \cup {s}
                ELSE {record[g].obj : g \in Listed \cup fired}
      <4>1. CASE s \in {record[h].obj : h \in cb}
        <5>1. PICK h \in fired' : record[h].obj = s
          BY <3>1, <4>1
        <5>2. \A g \in fired' : record[g].obj = s
          BY <3>1
        <5>3. {record[g].obj : g \in Listed \cup fired'}
                = {record[g].obj : g \in Listed \cup fired} \cup {s}
          BY <3>1, <5>1, <5>2
        <5> QED
          BY <4>1, <5>3
      <4>2. CASE s \notin {record[h].obj : h \in cb}
        <5>1. fired' = {}
          BY <3>1, <4>2
        <5> QED
          BY <3>1, <4>2, <5>1
      <4> QED
        BY <4>1, <4>2
    <3>4. {record[g].obj : g \in Listed \cup fired}'
            = {record[g].obj : g \in Listed \cup fired'}
      BY <3>1, <3>2
    <3>5. {record[h].obj : h \in cb}' = {record[h].obj : h \in cb}
      BY <3>1
    <3> QED
      BY <3>1, <3>3, <3>4, <3>5, Zenon DEF Promise!Occur
  <2>7. CASE Service
    <3> DEFINE h == Head(changeList)
    <3>1. /\ UNCHANGED <<record, cb, value, fired, ended>>
          /\ ended = "no" /\ fired = {} /\ runner' = "processing"
      BY <2>7 DEF Service, PopForService
    <3>2. h \in Listed /\ Listed = Listed' \cup {h}
      BY <2>7, ServicePops
    <3>3. PICK s \in Signals : s = record[h].obj /\ s \in {record[g].obj : g \in Listed}
      BY <3>2, <2>a
    <3>4. {record[g].obj : g \in Listed} = {record[g].obj : g \in Listed'} \cup {s}
      BY <3>2, <3>3
    <3> HIDE DEF h
    <3>5. CASE s \in {record[g].obj : g \in Listed'}
      <4>1. {record[g].obj : g \in (Listed \cup fired)'}
              = {record[g].obj : g \in Listed \cup fired}
        BY <3>1, <3>4, <3>5
      <4> QED
        BY <3>1, <4>1 DEF Promise!Turn
    <3>6. CASE s \notin {record[g].obj : g \in Listed'}
      <4>1. {record[g].obj : g \in (Listed \cup fired)'}
              = {record[g].obj : g \in Listed \cup fired} \ {s}
        BY <3>1, <3>4, <3>6
      <4>2. Promise!Notify(s)
        BY <3>1, <3>3, <4>1 DEF Promise!Notify
      <4>3. \E t \in Signals : Promise!Occur(t) \/ Promise!Notify(t)
        BY <3>3, <4>2, Zenon
      <4> QED
        BY <4>3, Zenon DEF Promise!Next
    <3> QED
      BY <3>5, <3>6
  <2>8. CASE ServiceDone
    BY <2>8 DEF ServiceDone, Listed, Promise!Turn
  <2>9. ASSUME NEW w \in Waiters, NEW p \in probes,
               NEW goal \in Values \cup {Any}, StartWaiting(w, p, goal)
        PROVE  UNCHANGED Promise!vars
    BY <2>9 DEF StartWaiting, Listed
  <2>10. ASSUME NEW w \in Waiters, ResumeWaiting(w) PROVE UNCHANGED Promise!vars
    BY <2>10 DEF ResumeWaiting, Listed
  <2>11. CASE Restart
    BY <2>11 DEF Restart, NoRestarts, TypeOK
  <2>12. CASE UNCHANGED vars
    BY <2>12 DEF vars, Listed
  <2> QED
    BY <2>1, <2>2, <2>3, <2>4, <2>5, <2>6, <2>7, <2>8, <2>9, <2>10, <2>11,
       <2>12 DEF Next, Finished
<1> QED
  BY <1>1, <1>2, TypeCorrect, ListInvariant, NoRestartsInvariant, PTL DEF Spec
=============================================================================

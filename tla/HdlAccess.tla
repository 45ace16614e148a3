------------------------------ MODULE HdlAccess ------------------------------
(***************************************************************************)
(* What src/uvm-core/src/dpi/uvm_hdl.svh says the backdoor functions do,   *)
(* whatever the simulator.  A call is a record of the function, its path   *)
(* and the value passed in, which only deposit and force use.              *)
(***************************************************************************)
EXTENDS HdlDesign

CONSTANTS
  Calls,           \* the calls made
  Simulators,      \* the simulators
  Supports(_, _),  \* TRUE if the simulator keeps to the promise in the call
  Reaches(_, _)    \* TRUE if the simulator writes to the path at all

VARIABLES simulator, call   \* call: the one made last, <<>> before the first

vars == <<sim, value, ret, ended, simulator, call>>

\* A call reads or writes no bit but those its path selects.
TouchesOnly(p) ==
  \A s \in Signals : \A b \in 0..(Width[s] - 1) :
    \/ s = p.name /\ \E i \in DOMAIN Selected(p) : Selected(p)[i] = b
    \/ /\ sim'.bits[s][b] = sim.bits[s][b]
       /\ <<s, b>> \in sim'.forced <=> <<s, b>> \in sim.forced

\* The paths that name something a value can hold.
Accessible(p) ==
  Exists(p) /\ p.name \notin Unpacked /\ SizeOf(p) <= MaxWidth

\* The four-state bits a VHDL value may be read as: the strong values have
\* one equivalent, the others are for each simulator's backdoor to choose.
ReadsAs(s, a) ==
  IF s \notin Vhdl THEN {a}
  ELSE CASE a \in {"0", "1"} -> {a} [] a = "Z" -> {"z"}
         [] a = "X" -> {"x"} [] OTHER -> Bit4

Holds(p, v, state) ==
  \A i \in DOMAIN Selected(p) :
    v[i] \in ReadsAs(p.name, state.bits[p.name][Selected(p)[i]])

\* "Checks that the given HDL path exists."
Check(p) ==
  /\ ret' = IF Exists(p) THEN 1 ELSE 0
  /\ UNCHANGED <<sim, value>>

\* "Gets the value at the given path."
Read(p) ==
  /\ IF Accessible(p) THEN ret' = 1 /\ Holds(p, value', sim) ELSE ret' = 0
  /\ value' \in Value
  /\ UNCHANGED sim

\* "Sets the path to the specified value", "forces the value on the path",
\* "releases a value previously set".
Set(p, v, how) ==
  /\ UNCHANGED value
  /\ IF Accessible(p) /\ p.name \notin ReadOnly
       THEN ret' = 1 /\ sim' = Put(p.name, Spread(p, SizeOf(p), v), how)
       ELSE ret' = 0 /\ TouchesOnly(p)

\* "value is set to the HDL value after the release."
ReleaseAndRead(p) ==
  /\ value' \in Value
  /\ IF Accessible(p) /\ p.name \notin ReadOnly
       THEN /\ ret' = 1
            /\ sim' = Freed(p, SizeOf(p))
            /\ Holds(p, value', sim')
       ELSE ret' = 0 /\ TouchesOnly(p)

Promised(c) ==
  /\ UNCHANGED ended
  /\ \/ c.op = "check" /\ Check(c.path)
     \/ c.op = "read" /\ Read(c.path)
     \/ c.op \in {"deposit", "force"} /\ Set(c.path, c.arg, c.op)
     \/ c.op = "release" /\ Set(c.path, value, "release")
     \/ c.op = "release_and_read" /\ ReleaseAndRead(c.path)

\* The path takes the value as far as that goes, and what follows it in memory
\* for the bits beyond.
SetAnyway(c) ==
  CASE c.op \in {"deposit", "force"} ->
         \E u \in Extensions(c.arg, SizeOf(c.path)) :
           sim' = Put(c.path.name, Spread(c.path, SizeOf(c.path), u), c.op)
    [] c.op \in {"release", "release_and_read"} ->
         sim' = Freed(c.path, SizeOf(c.path))
    [] c.op \in {"check", "read"} -> UNCHANGED sim

\* The value takes the path's bits as far as it goes.
ReadAnyway(c) ==
  \A i \in DOMAIN Selected(c.path) :
    i < MaxWidth => value'[i] = BitAt(c.path, i, sim)

\* What even a call outside the promise keeps to.  What it returns may be
\* wrong and the simulation may end, but nothing beside the path changes, what
\* the simulator reaches is set and released in full and read as it is, and no
\* Verilog path that is not there is reported to be.
Unpromised(c) ==
  /\ TouchesOnly(c.path)
  /\ Reaches(simulator, c.path) => SetAnyway(c)
  /\ c.op \in {"check", "read"} => UNCHANGED sim
  /\ c.op = "read" /\ c.path.name \notin Vhdl /\ ret' = 1 => ReadAnyway(c)
  /\ ~Exists(c.path) /\ c.path.name \notin Vhdl => ret' = 0
  /\ c.op \in {"check", "deposit", "force", "release"} => UNCHANGED value
  /\ ret' \in {0, 1} /\ value' \in Value /\ ended' \in BOOLEAN

Init ==
  /\ sim.forced = {}
  /\ value \in Value
  /\ ret = 1
  /\ ended = FALSE
  /\ simulator \in Simulators
  /\ call = <<>>

Next ==
  /\ ~ended
  /\ UNCHANGED simulator
  /\ call' \in Calls
  /\ \E c \in {call'} :
       IF Supports(simulator, c) THEN Promised(c) ELSE Unpromised(c)

Spec == Init /\ [][Next]_vars
=============================================================================

----------------------------- MODULE HdlBackdoor -----------------------------
(***************************************************************************)
(* The HDL backdoor: uvm_hdl.c compiles in the functions of one simulator, *)
(* and the callers of src/uvm-core/src/dpi/uvm_hdl.svh call them with any  *)
(* path and value, one after the other.                                    *)
(***************************************************************************)
EXTENDS HdlDesign

CONSTANTS
  Paths,      \* the paths that are called with
  Args,       \* the values that are passed to deposit and force
  Designs,    \* the values the design may have at first
  MaxCalls,   \* the calls made
  VectorVal, ReducedVector  \* the sizes of two buffers of uvm_hdl_questa.c

ASSUME BufferAssumption == VectorVal \in Nat /\ ReducedVector \in Nat

ASSUME CallsAssumption ==
  /\ \A p \in Paths : IsPath(p)
  /\ Args \subseteq Value
  /\ \A d \in Designs : /\ d = [s \in Signals |-> d[s]]
                         /\ \A s \in Signals : d[s] \in Contents(s)
  /\ MaxCalls \in Nat

VARIABLES
  simulator,  \* the simulator it was compiled for
  partsel,    \* the static variable of uvm_hdl_questa.c
  call,       \* the call made last, <<>> before the first
  calls       \* how many calls were made

vars == <<sim, value, ret, ended, simulator, partsel, call, calls>>

Xcelium == INSTANCE HdlXcelium
Questa == INSTANCE HdlQuesta
Vcs == INSTANCE HdlVcs

Simulators == {"xcelium", "questa", "vcs", "vcsmx"}

Init ==
  /\ sim \in [bits : Designs, forced : {{}}]
  /\ value = [i \in 0..(MaxWidth - 1) |-> "x"]
  /\ ret = 1
  /\ ended = FALSE
  /\ simulator \in Simulators
  /\ partsel = FALSE
  /\ call = <<>>
  /\ calls = 0

\* The calls a caller makes: the value passed matters to deposit and force.
Calls ==
  [op : {"check", "read", "release", "release_and_read"}, path : Paths,
   arg : {CHOOSE v \in Args : TRUE}]
    \cup [op : {"deposit", "force"}, path : Paths, arg : Args]

\* What every call has in common.
Called(c) ==
  /\ ~ended /\ calls < MaxCalls
  /\ call' = c
  /\ calls' = calls + 1
  /\ UNCHANGED simulator

CallXcelium(c) ==
  /\ Called(c)
  /\ simulator = "xcelium" /\ c.path.name \notin Unpacked
  /\ \/ c.op = "check" /\ Xcelium!uvm_hdl_check_path(c.path)
     \/ c.op = "read" /\ Xcelium!uvm_hdl_read(c.path)
     \/ c.op = "deposit" /\ Xcelium!uvm_hdl_deposit(c.path, c.arg)
     \/ c.op = "force" /\ Xcelium!uvm_hdl_force(c.path, c.arg)
     \/ c.op = "release" /\ Xcelium!uvm_hdl_release(c.path)
     \/ c.op = "release_and_read" /\ Xcelium!uvm_hdl_release_and_read(c.path)
  /\ UNCHANGED partsel

CallQuesta(c) ==
  /\ Called(c)
  /\ simulator = "questa" /\ c.path.name \notin Unpacked
  /\ \/ c.op = "check" /\ Questa!uvm_hdl_check_path(c.path)
     \/ c.op = "read" /\ Questa!uvm_hdl_read(c.path)
     \/ c.op = "deposit" /\ Questa!uvm_hdl_deposit(c.path, c.arg)
     \/ c.op = "force" /\ Questa!uvm_hdl_force(c.path, c.arg)
     \/ c.op = "release" /\ Questa!uvm_hdl_release(c.path)
     \/ c.op = "release_and_read" /\ Questa!uvm_hdl_release_and_read(c.path)

CallVcs(c) ==
  LET mx == simulator = "vcsmx" IN
  /\ Called(c)
  /\ simulator \in {"vcs", "vcsmx"}
  /\ \/ c.op = "check" /\ Vcs!uvm_hdl_check_path(c.path, mx)
     \/ c.op = "read" /\ Vcs!uvm_hdl_read(c.path, mx)
     \/ c.op = "deposit" /\ Vcs!uvm_hdl_deposit(c.path, c.arg, mx)
     \/ c.op = "force" /\ Vcs!uvm_hdl_force(c.path, c.arg, mx)
     \/ c.op = "release" /\ Vcs!uvm_hdl_release(c.path, mx)
     \/ c.op = "release_and_read" /\ Vcs!uvm_hdl_release_and_read(c.path, mx)
  /\ UNCHANGED partsel

Next ==
  \E c \in Calls : CallXcelium(c) \/ CallQuesta(c) \/ CallVcs(c)

Spec == Init /\ [][Next]_vars

-----------------------------------------------------------------------------
(* Properties                                                              *)

TypeOK ==
  /\ \A s \in Signals : sim.bits[s] \in Contents(s)
  /\ \A f \in sim.forced : f[1] \in Signals /\ f[2] \in 0..(Width[f[1]] - 1)
  /\ value \in Value
  /\ ret \in {0, 1}
  /\ ended \in BOOLEAN
  /\ simulator \in Simulators
  /\ partsel \in BOOLEAN
  /\ call = <<>> \/ call \in Calls
  /\ calls \in 0..MaxCalls

Sets(c) == c.op \in {"deposit", "force", "release", "release_and_read"}
Reads(c) == c.op \in {"read", "release_and_read"}

\* Where the functions do less than uvm_hdl.svh says.
\*
\* Xcelium and Questa split slices themselves: uvm_hdl_check_path does not,
\* and uvm_hdl_release_and_read of a slice has spoilt the path by the time it
\* reads.  They do not look at the size of a slice, nor whether the simulator
\* took a value.
SplitsSlices(m, c) ==
  /\ m \in {"xcelium", "questa"}
  /\ \/ c.op \in {"check", "release_and_read"} /\ IsSlice(c.path)
     \/ c.op = "read" /\ IsSlice(c.path) /\ SizeOf(c.path) > MaxWidth
     \/ Sets(c) /\ c.path.name \in ReadOnly

\* No function that writes looks at the size of what it writes to.
WritesUnsized(c) ==
  Sets(c) /\ Exists(c.path) /\ SizeOf(c.path) > MaxWidth

\* On Xcelium the language of a path that is not found is not initialized, and
\* the VHDL functions end the simulation.  They return 0 first.
EndsSimulation(m, c) ==
  m = "xcelium" /\ c.op # "check" /\ ~Exists(c.path) /\ ~IsSlice(c.path)

\* On VCS uvm_hdl_release_and_read does not read.
NeverReads(m, c) == m \in {"vcs", "vcsmx"} /\ c.op = "release_and_read"

\* Bit b of a value is in it, and the same as its first bit.
OwnBit(v, b) == b < MaxWidth /\ v[b] = v[0]

\* VHDL: plain VCS has none, only Questa has selections and only deposits on
\* them, two-valued, a single bit from its own index; Xcelium and Questa
\* exchange the words of what takes more than one; VCS MX takes x for 1 and
\* z for 0, and counts the digits of a value from its leftmost 1.  Questa
\* copies the signal of a selection it sets, and a slice it reads, to buffers.
VhdlAsPromised(m, c) ==
  LET p == c.path
      n == SizeOf(p)
      strong == \A i \in 0..(n - 1) : c.arg[i] \in {"0", "1"}
  IN
  CASE m = "vcs" -> FALSE
    [] m = "xcelium" ->
         /\ Whole(p) /\ (c.op = "check" \/ n <= MaxWidth)
         /\ Reads(c) => n <= WordBits
    [] m = "questa" ->
         /\ Exists(p)
         /\ Reads(c) => n <= WordBits /\ n <= MaxWidth
         /\ Sets(c) /\ ~Whole(p) => Width[p.name] < VectorVal
         /\ Reads(c) /\ IsSlice(p) => n <= ReducedVector
         /\ ~Whole(p) => /\ c.op # "force"
                         /\ c.op = "deposit" => /\ strong
                                                /\ IsBit(p) => OwnBit(c.arg, p.sel[1])
    [] m = "vcsmx" ->
         /\ Whole(p)
         /\ c.op \in {"deposit", "force"} =>
              strong /\ \A i \in RestOfWords(n) : c.arg[i] \in {"0", "z"}

Supports(m, c) ==
  /\ ~SplitsSlices(m, c)
  /\ ~WritesUnsized(c)
  /\ ~EndsSimulation(m, c)
  /\ ~NeverReads(m, c)
  /\ c.path.name \in Vhdl => VhdlAsPromised(m, c)

\* What the functions that set go through with, whatever they return: all of
\* Verilog but unpacked objects, and whole VHDL signals; VCS MX has its digits.
Reaches(m, p) ==
  /\ Exists(p) /\ p.name \notin Unpacked
  /\ p.name \in Vhdl => Whole(p) /\ m \in {"xcelium", "questa"}

Promise == INSTANCE HdlAccess

\* On every simulator, every sequence of calls does what uvm_hdl.svh says,
\* with the exceptions above; a call that does not still sets, releases and
\* reads the bits its path selects as far as a value goes and touches no
\* others, and does not spoil the calls that follow it.
KeepsPromise == Promise!Spec
=============================================================================

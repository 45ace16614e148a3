# Verification of the memory controller and its UVM testbench

TLA+ specifications, TLC models and TLAPS proofs for the pipelined memory
controller in `src/rtl/`, the UVM testbench around it in `src/tb/`,
`src/assertions/` and `src/coverage/`, and of the parts of the vendored UVM
library (`src/uvm-core/`) that hold state and can go wrong: the handshake
between sequences, sequencer and driver, and the C code behind its DPI
(`src/uvm-core/src/dpi/`): following value changes, access to the design by
name, and string matching with its cache.

Run a model with `tlc -config X.cfg M`, check the proofs with `tlapm M.tla`.

## 1. Inventory

| Part | State | Operations | Talks to |
|---|---|---|---|
| controller, `rtl/memory_controller.sv` | `memory`, the pending registers, outputs `rdata`, `ready` | reset; capture a request; execute the captured one | the wires |
| interface, `tb/interface/memory_if.sv` | the wires | clocking blocks: sample before the edge, drive after it | everybody |
| assertion, `assertions/memory_assertions.sv` | the attempts under way | `valid \|-> ##2 ready`, disabled by `rst` | watches the wires |
| coverage, `coverage/memory_coverage.sv` | the bins hit | sample at edges with `valid` | watches the wires |
| driver, `tb/uvm/driver` | whether reset has been seen | `run_phase`: try_next_item, drive an item or an empty cycle; `wait_idle` | sequencer, wires |
| monitor, `tb/uvm/monitor` | `inflight_q` | queue requests, pair `ready` with the oldest, report | wires, scoreboard |
| scoreboard, `tb/uvm/scoreboard` | `expected_memory` | remember writes, compare reads | called by the monitor |
| sequences, `tb/uvm/sequence` | position in `body` | send items | sequencer |
| tests, `tb/uvm/test` | position in `run_phase` | objection, start the sequence, `wait_idle` | sequence, driver |
| top, `tb/tb_top.sv` | `clk`, `rst` | clock, reset pulse, `run_test` | everybody |
| regression, `tb/uvm/scripts/regression.py` | none | verdict on each test | simulator output |
| UVM sequencer, `uvm-core/src/seq` | arbitration queue, grants, locks, one-item FIFO, flags | start_item, finish_item, lock, grab, unlock, kill, try_next_item, item_done | sequences, driver |
| HDL polling, `uvm-core/src/dpi/uvm_hdl_polling.c`, `base/uvm_hdl_polling.svh` | hook records, list of changes, notifier; probes and their keys, waiting processes | create_probe, enable, value-change callback, service of the list, wait for a change or a value, reset | simulator (VPI callbacks), user processes |
| HDL backdoor, `uvm-core/src/dpi/uvm_hdl*.c` | the caller's value, one static flag (Questa) | check_path, read, deposit, force, release, release_and_read | the design, through VPI, VHPI, MHPI, FLI |
| string matching, `uvm-core/src/dpi/uvm_regex.cc`, `uvm_regex.svh` | compiled expressions on the heap | deglob, compile, execute, free; uvm_re_match | C library, cache |
| its cache, `uvm-core/src/base/uvm_lru_cache.svh`, `uvm_cache.svh`, `uvm_regex_cache.svh` | hash and list of nodes, limit | get, put, evict, set_max_size, flush | frees expressions it evicts |
| command line, `uvm-core/src/dpi/uvm_svcmd_dpi.c` | position in the arguments | next argument | simulator |
| UVM phases and objections | objection counts | raise, drop, end of phase | tests |

What makes it hard: two requests are in the pipeline at every edge, a third one
on the wires; the monitor and the scoreboard run an edge or two behind the
controller and must not slip; nothing but `wait_idle` keeps a test from ending
with requests unchecked; the registers start with garbage; and the handshake
consists of processes that hand over to each other inside one time slot, with
flags shared by all sequences and with kills in between. In the DPI code it is
state split between C and SystemVerilog: a list that callbacks fill and a
process empties, told of it by a single bit that is toggled only when the list
was empty; C statics that outlive a reset of the simulation; paths, flags and
languages left over from an earlier call or an earlier bit; words whose order
differs between simulators; and expressions allocated in C that a
SystemVerilog cache has to free exactly once. `PROJECT.json` lists
each hazard with its line and the property that would catch it.

What makes each part correct: the controller answers every request in order
with the last word written (5.1); the assertion states its latency exactly
(5.2); monitor and scoreboard neither miss nor invent a failure (5.3); the
sequencer delivers each item once, respects locks and starves nobody (5.4); a
test ends, with everything it sent checked and the pipeline empty (5.5); every
change of a probed signal reaches its probe and every waiting process (5.6);
the backdoor does to the selected bits, and to no others, what its interface
says, on every simulator (5.7); a string matches a glob whichever way the glob
took, and the cache neither leaks nor reuses what it has freed (5.8).

## 2. Modules

    MemoryInterface            the wires; what one step of time is
      ReferenceMemory          abstract specification of the controller
      MemoryController         rtl/memory_controller.sv       implements ReferenceMemory
      MemoryAssertions         assertions/memory_assertions.sv
        CheckedController      controller + assertion, arbitrary requests and resets
      MemoryDriver, MemoryMonitor, MemoryScoreboard           tb/uvm/*
        MemoryTestbench        tb_top + UVM environment, any items
      MemoryCoverage           coverage/memory_coverage.sv
      MemorySequences          the four sequence bodies
    ItemExchange               abstract specification of the sequencer
    UvmSequencer               uvm_sequencer / uvm_sequence handshake
      SequencerClients         any number of sequences, locks, kills
                                                              implements ItemExchange
      MemoryTest               a whole simulation: MemoryTestbench + MemoryCoverage
                               + MemorySequences + UvmSequencer + run_phase of a test
        MCMemoryTest           its instance for TLC
    ChangeNotification         abstract specification of the polling package
    HdlPollingDpi              dpi/uvm_hdl_polling.c
      HdlPolling               + uvm_hdl_polling.svh, simulator and waiting
                               processes                      implements ChangeNotification
    HdlDesign                  the design as the backdoor sees it; paths and values
      HdlAccess                abstract specification: the words of dpi/uvm_hdl.svh
      HdlXcelium, HdlQuesta, HdlVcs                           dpi/uvm_hdl_*.c
      HdlBackdoor              any calls on any of them       implements HdlAccess
        MCHdlBackdoor          its instance for TLC
    RecentlyUsed               abstract specification of the cache, as documented
    RegexDpi                   dpi/uvm_regex.cc, regcomp and regexec
    LruCache                   base/uvm_lru_cache.svh, uvm_cache.svh
      RegexMatch               uvm_re_match over both         implements RecentlyUsed
                               but for what section 7 says
        MCRegexMatch           its instance for TLC
    CheckedControllerProofs    theorems about the controller and the assertion
    MemoryTestbenchProofs, MemoryTestProofs, HdlPollingProofs, HdlBackdoorProofs
                               theorems about the components they are named after
    SequencerProofs            theorems about SequencerClients
    RegexMatchProofs           theorems about RegexMatch: the cache
    GlobProofs                 theorems about RegexMatch: the answers

Component modules export operations as actions; composing modules conjoin those
that happen at the same clock edge. Definitions labelled "Mutant" are wrong
variants of the definition they precede. They are never part of a
specification: replacing the original by its mutant must make a property fail,
which shows that the property really depends on that line of the code.

## 3. Time and atomicity

*One step is one rising edge* in `MemoryController`, `CheckedController` and
`MemoryTestbench`. The controller uses nonblocking assignments, the clocking
blocks sample `#1step` before the edge and drive `#0` after it, the assertion
samples before the edge, and the covergroup sees the old values at the edge. So
all of them read the values from before the edge, and nothing they write is
seen before the next one: unprimed and primed variables. The order in which the
simulator runs the processes of an edge does not matter, because each variable
has one writer and all reads are of old values. The only call between
components, `analysis_port.write`, is a function and is part of the monitor's
action. `rst` changes between edges (times 0 and 10, edges at 5, 15, ...), which
is a change in the step of the edge before. A pulse of `rst` that begins and
ends between two edges is not representable; `tb_top` makes none.

*One step is one uninterrupted run of a process* in `UvmSequencer`: from one
point where the simulator may switch processes to the next. `try_next_item`
suspends itself in `wait_for_sequences` (the NBA region) before it chooses and
before it peeks, and continues only when no process can run at once, `Settled`.
The default of one `wait_for_sequences` call each is modelled.

`MemoryTest` puts the two together. The clock edge wakes driver, monitor,
controller, assertion and test; the driver alone goes on for several steps in
the time slot, together with the sequence. Since the others neither read nor
write anything those steps use, the edge effects of all of them are folded into
the step in which the driver assigns its outputs. When the run phase ends the
driver may be anywhere in `try_next_item`; `EndOfRunPhase` covers both cases.

*One step is one callback, one notification or one run of a process* in
`HdlPolling`. The simulator calls the callbacks of a value change back to back,
and the service of the list runs to its end in one process without giving up
control, so while either goes on only what they call can happen: a user's
`do_on_path_change` may deposit a value and cause callbacks in the middle of a
service. A reset of the simulation keeps the C statics and starts
SystemVerilog afresh.

*One step is one call* in `HdlBackdoor` and `RegexMatch`. DPI imports are
functions: nothing runs beside them. What they leave behind (the caller's
value, a static flag, a spoilt path, nodes of a list) is the state.

Power-up: `memory` and `expected_memory` are initialised, the registers of the
controller are not, so they start with any value (`ready` and `pending`
included). X is a data value of its own: a read item's `wdata` in the directed
sequences, and `rdata` of a transaction before the read has completed. That a
register is X is abstracted to its being 0 or 1: at the first edge, where such a
register can be seen, `if (x)` takes the branch of 0.

## 4. State and actions against the code

`PROJECT.json`, "map", names the lines of every definition. In short:

- `AlwaysFF` is the `always_ff` block: `Reset`, or `Execute` (`ExecuteWrite`,
  `ExecuteRead`, `ExecuteNothing`: the second stage, and `ready <= 0` when there
  is nothing to do) together with `Capture` (the first stage).
- `AssertProperty` turns the concurrent assertion into the usual checker: an
  attempt per edge with `valid`, two bits of history, `rst` kills all attempts.
- `WaitForReset`, `DriveItem`, `DriveIdle` are what `run_phase` of the driver
  does at an edge; `Watch` and `Report` the same for the monitor; `ScoreWrite`
  and `ScoreRead` the two branches of the scoreboard's `write`.
- In `UvmSequencer`, `StartItem`/`ItemGranted` are the halves of `start_item`
  before and after the grant, `FinishItem`/`ItemFinished` those of `finish_item`,
  `Lock`/`Grab` and `LockGranted` those of a lock; `TryNextItem`,
  `ChooseRequest`, `PeekItem`, `ChooseAgain` the pieces of `try_next_item`.
  `arb_completed` holds sequences instead of request numbers, since a sequence
  has at most one request at a time. The sequences' labels in `seq_at` are the
  places where their process is suspended.
- In `MemoryTest`, `Start`, `StartReturns`, `DropObjection` are `run_phase` of a
  test, `Body` the body of its sequence, `cycles` the count of `wait_idle`.
- In `HdlPollingDpi`, `changeList` is the linked list as a sequence and
  `on_changeList` the flag in each record. `uvm_polling_value_change_callback`
  is `changeList_pushIfNeeded`, and `RequireNotification` the test that decides
  whether the notifier is toggled; `PopForService` is one round of
  `uvm_polling_process_changelist`. `uvm_polling_free_mem_structures` is what a
  reset does. In `HdlPolling`, `next_key` is the key a probe takes,
  `uvm_hdl_polling_probes_run` the forked process up to its first wait,
  `Service` and `ServiceDone` its loop, `StartWaiting` and `ResumeWaiting`
  `polling_wait_for_value` and `wait_for_hdl_change` up to where they block.
- `HdlXcelium`, `HdlQuesta` and `HdlVcs` have one operator for each C function
  that reads or writes, under its own name, with the path abstracted to a name
  and a selection (whole, bit, slice: `IsPath`) and a value to its four-state
  bits. `Contents` is what an object may hold: four values in Verilog, the nine
  of `std_logic` in VHDL. `Reached` is how far a loop over the bits of a slice
  gets, `Extensions` and `Written` what happens to the rest of the last word
  and, for an object wider than a value that is set from it, what lies behind the
  value in memory (any bits). `Undefined` marks the calls whose behaviour is undefined because
  they write beyond the end of an array or use freed memory: what the code
  would do otherwise is what the model does, and the simulation may end as well. They
  are the reads of slices and VHDL signals wider than a value, Xcelium's of VHDL
  vectors of several words, Questa's setting of VHDL bits that are not there,
  and Questa's selections of wide VHDL signals, which go through
  buffers of 128 characters for setting and 256 for reading (`SetOverflows`,
  `GetOverflows`, with the constants `VectorVal` and `ReducedVector`).
  `tf_dofinish` ends the simulation after the call, as in the code: a VHDL signal that is too wide is
  set or read first. `Place` is the order in which Xcelium and Questa fill words,
  `ScalarRead` and `VectorRead` are the branches for bits and vectors (`Scalars`),
  and `Language` is the uninitialized variable of the Xcelium file.
- In `RegexDpi`, `uvm_re_deglobbed` builds the expression character by
  character as the code does, `glob_len` is the length the code counts beside
  it, and the functions of the interface allocate and free handles. `LruCache`
  has one operator for each method of the cache, from the cache to the cache it
  leaves; references are followed and assigned in the order of the code, and
  `Collected` forgets the nodes that no reference leads to any more. `Leads`
  and `LeadsBack` say in which order the references link the nodes.
  `Broken` marks a null reference that was followed or a loop that cannot end.
  `uvm_re_match` is the variant without a cache, `uvm_re_match_hit` and
  `uvm_re_match_miss` the branches of the one with it.

## 5. Runs

The runs that pass explore their complete state space; those marked "violation"
end with a behaviour that contradicts what a document of the repository says.

| Run | Instance | States | Shows |
|---|---|---|---|
| `controller` | 2 addresses, 3 words, resets at any edge | 41 892 | type correctness, the assertion and exact latency, `ImplementsReference` |
| `sequencer_kills` | 3 sequences, 2 items, 1 lock, 1 pause each, one may be killed | 1 497 521 | locks, delivery, handshake, `ImplementsExchange` |
| `sequencer_liveness` | 2 sequences, 2 items, 1 lock, 1 grab, 1 pause each | 95 483 | no starvation; `ImplementsExchange` with nested locks |
| `tests` | the addresses and words of the sequences, 3 random writes | 33 930 | the four tests of the regression; monitor and scoreboard agree with the controller |
| `sequencer_lock_order` | 2 sequences | violation | finding 1 |
| `sequencer_killed_item` | 2 sequences, one killed | violation | finding 2 |
| `hdl_polling` | 2 records, 2 signals, 1 waiting process, 1 disabling, 1 deposit per service, 1 reset | 2 950 000 | list, keys, announcements, wakeups |
| `hdl_polling_liveness` | the same without disabling and reset, fair | 168 476 | `ImplementsPromise`, waiting ends |
| `hdl_polling_missed` | 1 reset | violation | finding 3 |
| `hdl_backdoor` | 8 objects, 20 paths, 4 designs, 4 simulators, 2 calls | 192 260 | `KeepsPromise` |
| `regex_cache` | 72 globs, 13 strings; 3 keys and 3 nodes in a cache | 40 347 | answers, ownership, order of the cache |
| `regex_cache_put` | 3 keys, limits 0 and 1 | violation | finding 4 |

**5.1 Controller and assertion.** `ReferenceMemory` serves a queue of requests in order and
takes any time for each. The refinement maps its memory to `memory` and its queue
to the pending registers, empty if `rst` is already up. `ImplementsReference`
includes that every request is answered eventually, given a clock.

**5.2 Latency.** In the same run: `AssertionHolds`, and `ReadyTwoCyclesLater`, which is its
converse as well: `ready` is never high for a request that a reset interrupted.
The tests of the repository assert reset once, before the first request; this
run asserts it at any edge.

**5.3 Testbench.** `InflightMatchesPipeline` (the queue of the monitor is the
contents of the pipeline), `ExpectedFollowsMemory` (the reference model is at
most the write being reported behind), and from them `ScoreboardNeverFails`.
The run `tests` checks them in the simulations of the four tests, from any
contents of the registers; that they hold for every stream of items, with empty
cycles anywhere between them, is proved of `TBSpec` (section 6), and so is that
the bound assertion never fails there.

**5.4 Sequencer.** `LockIsExclusive`, `HolderIsAlone` (with a lock held nobody
else is chosen, even if the lock was granted inside the same call),
`ItemsDrivenOnce` (in order, and `finish_item` does not return before),
`HandshakeIsClean` (no TRY_NEXT_BLOCKED, SQRBADITMDN or SQRSNDREQGNI whatever is
killed), `EverySequenceFinishes`. `ItemExchange` is what a sequence or a driver
may rely on without knowing the queue, the flags and the regions of a time
slot: a sequence is idle, asks, has the turn, has sent, waits for a lock or is
gone; the sequencer is held so many times by one of them or by nobody; one item
at a time is sent, driven and done. Every call of `grant_queued_locks` is a
`Grant` there, which must hand the sequencer over if anybody waits for it who
may have it, and a choice may leave out nobody but those behind a lock
(`ChooseNobody`). `ImplementsExchange` says that the sequencer does only that,
whoever is killed and when. In two places it follows the code and not the
documentation: a lock is handed over by the call that asks for it if nobody
holds the sequencer, whatever item requests wait (finding 1, which has the run
`sequencer_lock_order`), and `Release` takes one of the holder's locks where
the documentation says all (section 7, *unlock*). It says nothing of what must
eventually happen, so it is silent on finding 2.

**5.5 Tests.** `EveryItemScored` and `PipelineDrained` close the gap that the
verdict of the regression leaves open, a test that passes because something was
never checked: with `wait_idle(2)` they fail, with 3 they hold, as the comment
in the driver says. `NoBubbles`: the driver never inserts an empty cycle between
items, so the back-to-back accesses the tests are meant for really happen.
`AllTestsPass` is that verdict: `regression.py` fails a test whose exit code is
not 0, and otherwise one with a `UVM_ERROR` or `UVM_FATAL`. A failing assertion
calls `$error`, which is neither, so the exit code (`returncode`) is the only
way it counts.
`CoverageClosed`: what the repository's README says of coverage, both operations
in every test, all three address ranges in the boundary test. `TestEnds`.

**5.6 Polling.** `ListIsOneChain` (a record linked twice would make the service
endless), `ChangesAreAnnounced` (no change is on the list while the process
that services it sleeps), `NotifyReachesItsProbe` (keys are unique and those of
the record's own signal, whichever of the two functions made the probe),
`NoLostWakeup` (a process blocked for a value the signal has got is about to be
told), `NothingFreedIsServiced` (a reset frees records that the list still
points to; nobody follows the list there any more). `ImplementsPromise`: the
package is a service by which a watched signal, once changed, is reported in
the service that follows, and no service ends with a change unreported.
`StableValueSeen`: a process does not wait for ever for a value its signal
keeps.

**5.7 Backdoor.** `HdlAccess` says what `uvm_hdl.svh` does: which bits a call
reads or writes, what it returns, and that it leaves every other bit alone.
`KeepsPromise` has all four variants (VCS with and without MX) implement it for
every sequence of two calls, which is how far state left by one call can reach
the next. Where the code does less, `Supports` names the case:
`SplitsSlices` (with the slices wider than a value, which are read without a
look at their size), `WritesUnsized`, `EndsSimulation`, `NeverReads`,
`VhdlAsPromised` (which has the widths of Questa's buffers). What even such a
call keeps to is `Unpromised`: no bit beside its path changes; where the code
goes through with it (`Reaches`) the whole path is set or released, with the value
passed as far as that goes; a read that returns 1 has read the Verilog bits
the value can hold; and no Verilog path that does not exist is reported to be
there. Section 7 lists the exceptions that contradict `uvm_hdl.svh`.

**5.8 Strings.** `AnswersRight` compares every answer with a definition of glob
matching that knows no expressions, for a glob given directly and for one that
`uvm_glob_to_re` has turned into a bracketed expression first. The glob `/`
alone is the empty glob, as in the code, and matches the empty string only.
`CacheOwnsHandles`: what is allocated is what is cached, one handle per key,
compiled from that key. `CacheIsTransparent`: a hit gives the answer that
compiling afresh would give, if the text is used in one way only (`Unmixed`); for a
text that is used as a glob and as an expression it may not (section 7).
`RecentlyUsed` is the cache that `uvm_lru_cache.svh` documents, and the code
does not implement it (`ImplementsLru`): `put` ignores the limit (finding 4), and
an eviction after a hit on the last key takes the wrong one (section 7).
`OrderIsKept` says that there is nothing else: on a list that is in order every
other operation is one of the documented cache, follows no null reference, and
leaves the list in order unless it is such a hit.

**Bounds.** The controller treats all addresses and all words alike, and a
request interacts with the two before and the two after it: two addresses
(same, different) and two words besides X (old, new) give all combinations, and
the proofs cover the rest. For the sequencer three sequences are a holder, a
waiter and a bystander; two items show a stale answer to the first. MaxItems,
MaxLocks, MaxGrabs and MaxWaits bound the calls, so the sequences end; the
theorems of `SequencerProofs` hold for any of them. Three
random writes include two to one address with another between them; the code
has ten, and the theorems of `MemoryTestProofs` hold for any number.
Two records give two signals with one probe each and one signal with two, which
is all the list and the keys can tell apart; MaxDisables, MaxDeposits and
MaxRestarts bound what could go on for ever, and the theorems hold without
bounds. The backdoor's words have 2 bits and its values two words, so an object
may fill part of a word, a word, a word and a half, and more than the value
holds; the paths have bits and slices that exist, that exist in part, upwards
and downwards, that are wider than a value, and that do not exist; VectorVal and
ReducedVector, 128 and 256 in the code, are 3 and 2, so that selections fit both
of Questa's buffers or neither. Globs of two characters over all kinds of
characters and of three over the wildcards give every neighbourhood that the
expansion distinguishes; a glob of five wildcards exceeds the buffer, here of
14 characters. Three keys are a first, a middle and a last node; Nodes is the memory for
nodes, those included that only a stale reference keeps alive. A match that
finds none free is not considered (`uvm_re_match_miss`), since a simulator
without memory stops.
Deadlock is checked except in `hdl_backdoor`, where the calls are bounded, and
`regex_cache` and `regex_cache_put`, where a null reference ends the simulation: elsewhere behaviours
that end do so in a state that repeats (`Simulated`, `Finished`) or with the
clock going on.

**Fairness.** The clock is an endless `forever` loop, so `WF(Next)` for the
controller. In `FairClientsSpec` every process that can run is run, weakly fair
for each sequence and for the driver with the clock: a simulator finishes a time
slot before it goes on. A sequence is never obliged to pause, lock or grab by
fairness. `TestSpec` only asks that the simulation goes on. In `HdlPolling` the
simulator runs what is ready: the forked process and owed callbacks (weak
fairness), and the service and the woken processes (strong fairness, since a
value change and its callbacks go between and disable them for a moment; the
simulator's queues are first in, first out). User callbacks deposit finitely
often in one service (`MaxDeposits`); a callback that deposits in every
notification keeps a real simulator in the same time slot for ever as well.

**Assumptions about the outside.** Polling: the lookup of the notifier's own
name succeeds; a reset happens only once the reset callback is registered;
`malloc` finds an address; toggling through a released handle either does
nothing visible or crashes; users do not keep handles over a reset. Backdoor:
Xcelium and Questa do not find a slice by name, VCS resolves all selections; MHPI
right-justifies short strings; unpacked objects are given to VCS only, whose
file treats them. Strings: `regcomp` and `regexec` are those of POSIX for the
expressions a glob can expand to; the characters `^ $ \ { } |`, which the
expansion passes on with the meaning they have in an expression, do not occur
(`CharactersAssumption`); nobody matches the expression `/` without
`deglob` (the code copies a negative length, `BracketAssumption`). The exit code
of a simulation is not 0 when `$error` was called, as it is with Verilator, the
simulator that the repository's README names.

## 6. Proofs

For every set of addresses and of words (`MemoryAssumption`: address 0 and the
words 0 and X exist):

- `CheckedControllerProofs`, the controller: `TypeCorrect`; `RefinesReference`, the
  safety part of the refinement: initial states map to initial states, and `StepRefines` shows
  each edge to be an `Answer`, a `Delay` or an `InReset` of the reference
  memory. `CaptureAccepts` is the common part, what the queue of the reference
  is after the first stage has worked.
- The same module, the assertion: `CheckedTypeCorrect`, `AssertionCorrectUnderReset`, `LatencyExact`. The
  assertion alone is not inductive; the invariant adds that out of reset the two
  attempts are in the same stages as the requests: `valid_d1 = pending`,
  `valid_d2 = ready`. (While `rst` is up they may differ.)
- `MemoryTestbenchProofs`: `ScoreboardCorrect`, `AssertionCorrect`,
  `ReferenceModelCorrect`, `MonitorCorrect`, `TestbenchTypeCorrect`, all from
  `TBInv`. That a read is compared with the right word depends on a transaction
  queued two edges earlier, so `TBInv` says what the whole queue is
  (`QueueShape`: the transaction `ready` announces, then the one in the pending
  registers), that nothing happened before reset was seen (`PowerUp`), and how
  far the reference model is behind. `MonitorStep`, `ScoreboardStep` and
  `QueueStep` give one edge of the monitor, of the scoreboard and of the queue.
- `MemoryTestProofs`, for any number of random writes and any randomization.
  `SimulationsRunTheTestbench`, a simulation of any test is a behaviour of
  `MemoryTestbench`, so that `SimulationsScoreCorrectly` inherits the testbench's
  theorems; its invariant `TestInv` says that only requests travel through the
  sequencer and that a test cannot end before reset is over.
  `SimulationTypeCorrect` and `DriverNeverStarves` need to know where everybody
  is: `RunInv` gives the five phases of the handshake between the one sequence
  and the driver (`Resting`, `Waiting`, `Chosen`, `Sending`, `Answered`; in each,
  what is queued, granted and sent) and, in `Course`, how the test's own place
  follows the sequence's. `WaitIdleIsLongEnough` rests on `Draining`: with k edges
  of `wait_idle` left, the wires (k <= 3), the first stage (k <= 2) and the second
  (k <= 1) are empty. `NothingEscapesTheScoreboard`, `RegressionPasses` and
  `CoverageIsClosed` follow the items: `Flow` (scored, then in the monitor's queue,
  then on the wires, then in `m_req_fifo`: together all that was sent, in order),
  `Sampled` (what left the wires was covered) and `FollowsBody` (what was sent is
  what the sequence's body says). None of these is inductive without `RunInv`.
  Assumed: `ItemsAssumption` and `WritesAssumption` (the constants of the
  sequences are addresses and words; at least one random write), `OneSequence`,
  `NullIsNoItem` (null is no request), and `AddressAssumption` (addresses
  are bytes, for the bins of the coverage).
- `SequencerProofs`, for any set of sequences, any bounds on their calls and any
  kills (`SequencerAssumption`, `ClientsAssumption`: Null is neither a sequence
  nor an item): `SequencerTypeCorrect`, `LocksAreExclusive`, `LocksExcludeOthers`,
  `ItemsAreDrivenOnce`, `HandshakeStaysClean`, all from `Inv`. None of them is
  inductive. That an item is driven once needs that at most one grant is
  outstanding and where its owner is (`Exchange`), how many items each sequence
  has sent at each place (`Accounts`), and that a sequence has at most one
  request, the one it waits for, and none once it is granted (`QueueOK`).
  `GrantLemma` and `ChooseLemma` are the two arbitration functions, used by the
  seven actions that call them; `MoveLemma`, `ResumeLemma`, `RequestLemma` and
  `LeaveLemma` are the four ways a sequence moves. That no handshake error is
  reported rests on `Settled`: the driver peeks when no process can run.
  `ExchangeIsKept`: the sequencer implements `ItemExchange`. The refinement
  mapping gives each sequence its stage (`StageOf`), and each action is one
  action of the abstract specification (`AskSeen`, `LockSeen`, ...) or is not seen
  (`BeginUnseen`, ...). `GrantSeen` carries most of it: the code looks for a
  request in a list and the promise speaks of sequences, so it needs from `Inv`
  that a sequence that waits for a lock has a request in the queue, of that
  kind, and only one (`QueueOK`), and that the locks have one owner
  (`Exclusive`). `GrantThenChoose` shows that a lock granted and a sequence
  chosen in the same call do not interfere, `HolderLeaves` that a kill takes all
  locks of the sequence and none of the others.
  `KeptLemma`, what a scan leaves of a list, is an induction: `LeastNatural`
  takes the shortest prefix for which it would fail.
- `HdlPollingProofs`, for any finite set of records, any signals and values, any
  number of waiting processes and any bounds: `TypeCorrect`; `KeysCorrect` from
  `KeyInv` (the keys handed out are below the count, probes and records agree);
  `ListCorrect` and `AnnouncedCorrect` from `ListInv`, which adds to both that
  callbacks belong to allocated records and that the notifier exists exactly
  when the process that waits for it does; `WakeupsCorrect` from `WakeInv`,
  which adds that a process waits on a probe that exists and that such a probe
  keeps its callback until somebody disables it; `RestartsAreSafe`, which needs
  `ListInv` and that the list is not empty while it dangles.
  `ImplementsPromiseSafely` maps each step to one of `ChangeNotification`,
  without resets. The lemmas on the list (`PushMembers`, `PopMembers`) say what
  pushing and popping do to the set of its records.
- `HdlBackdoorProofs`, for any design, paths and arguments, any width of a word
  and of a value, and any number of calls (`WidthAssumption`, `VhdlAssumption`,
  `CallsAssumption`: widths are positive, VHDL objects are bits and vectors, the
  design has at first what its objects can hold) and of Questa's buffers: `BackdoorTypeCorrect`, and
  `BackdoorKeepsPromise`, the refinement of `HdlAccess` in full (`HdlAccess` asks
  for no progress), with its exceptions and with what `Unpromised` asks of them. The invariant is the type of every variable; the work is in
  the calls. `Outcome(c)` is what a call has to leave: a design of the same shape,
  a value, and `Promised(c)`, or `Unpromised(c)` where `Supports` does not hold.
  `VcsOutcome`, `XceliumOutcome` and `QuestaOutcome` prove it by operation,
  language and kind of path. Below them are the facts the three files share:
  which bits a path selects and how far a loop over them gets (`SelectedFacts`,
  `ReachedFacts`), that a write touches only what it is given (`PutFacts`,
  `WriteFacts`), what an over-read returns (`ExtensionFacts`), which words n bits
  take (`ChunksFacts`); and what is peculiar to one: `DigitsFacts` (the decimal
  digits VCS MX makes of a value give the value back if it is two-valued and
  fits). What earlier calls left, `partsel` above all, is in the state each call
  starts from, so the theorem covers any history and not only two calls.
- `RegexMatchProofs`, for any expressions, strings, limits, nodes and handles
  (`NodesAssumption`, `HandlesAssumption`: a null reference is no node, a null
  handle no handle; `RegexAssumption`; `BracketAssumption`): `CacheTypeCorrect`,
  `HandlesAreOwned`, `AnswersAreUncached` and `CacheIsRecentlyUsed`. Ownership
  does not depend on the order of the list, which `m_update` may spoil: the invariant `Inv` only needs
  `Sound`, that each key has a node of its own that carries the key and a handle,
  and it survives a stale `m_end`. `AnswersAreUncached` follows from ownership:
  what a hit executes is what the miss compiled, from the same key, and for a text that is
  used in one way only that is what its use asks for; others may be mixed freely. `CacheIsRecentlyUsed` (`OrderIsKept`)
  does depend on the order. `UpdateOrder`, `PutOrder`, `EvictOrder`, `EvictLastOrder`, `RoundsOrder`
  and `FlushOrder` say what the operations on references make of the order of the
  nodes when the references agree in both directions; `OrderIsUnique` makes the
  refinement mapping well defined; `CollectedOrder` that collecting garbage
  changes nothing. The loops of `evict_to_max` and `flush` are recursive
  functions; `RoundsExist` and `FlushingExists` show that they exist, and what
  holds of every round is shown from a least round for which it would fail.
- `GlobProofs`, for any globs, strings and caches: `AnswersAreRight`, that no
  answer of `uvm_re_match` differs from the definition of glob matching. Four steps
  lead to it. The loops over a text, written as recursive functions, are prefix by
  prefix what they should be (`FoldExists`, `ParsedAppend`, `StandingAppend`).
  `WrittenLemma`: what `regcomp` reads from the expansion of the first k characters
  of a glob is the concatenation of one list of elements per character, a literal
  behind a bracket or a backslash where the character needs one. `BodyLemma`: after k
  characters, `regexec` stands exactly at the ends of the prefixes of the string
  that the first k characters of the glob match (`Ends`); the step from k to k + 1
  is where `*`, `?`, `+` and literals differ (`EndsStep`), and `Upward` carries it
  to every k by taking the least one that fails. `GlobLength`: the length counted
  beside the expansion is the length of the expansion, so that the buffer is
  exceeded exactly when no answer is promised, and never written beyond its end. `GlobExpression`, `BracketsLemma` and
  `PlainExpression` add the anchors, a pair of brackets around a text, and the text that
  is an expression already. What a hit answers is what the miss that filled the
  cache would, where a text is used in one way (`ReportsInv`, over `HandlesAreOwned`). Assumed: `CharactersAssumption`
  and `UsesAssumption` (texts and strings are sequences of those characters).

Only model-checked:

- everything under fairness, which is out of the prover's reach: the liveness of
  `ImplementsReference` and `ImplementsPromise`, `StableValueSeen`,
  `EverySequenceFinishes`, `TestEnds`;
- the four runs that expect a violation have nothing to prove.

## 7. Findings

1. *A lock overtakes earlier requests.* The documentation of `lock`
   (`uvm_sequence_base.svh:811`) says that a lock request is arbitrated like any
   other and granted after all earlier requests are completed.
   `grant_queued_locks` (`uvm_sequencer_base.svh:607`) grants the first unblocked
   lock wherever it stands in the queue, and `m_lock_req` calls it at once. Run
   `sequencer_lock_order`: a sequence waits in `start_item`, another one locks
   and is granted immediately.
2. *A kill between grant and item disables the sequencer for good.*
   `try_next_item` sets `get_next_item_called` with the grant
   (`uvm_sequencer.svh:275`). If the granted sequence is killed before it sends
   and no other request is waiting, the call returns null with the flag set;
   every later call reports "called twice without item_done" and returns
   nothing. Run `sequencer_killed_item`. The testbench's own tests kill nothing
   and are not affected.
3. *After a reset, changes may be missed for good.*
   `uvm_polling_free_mem_structures` (`uvm_hdl_polling.c:287`) frees the records
   and leaves `changeList` pointing to them. If a change was waiting for service
   the list is never empty again, and no later change toggles the notifier. The
   comment at line 453 says that a missed notification is impossible. Run
   `hdl_polling_missed`.
4. *The cache of compiled expressions has no limit.* `uvm_lru_cache.svh:102`
   (and `uvm_cache.svh:142`) says that a `put` beyond the maximum size evicts the
   least recently used key. `put` (line 209) does not look at the size; only
   `set_max_size` evicts. Run `regex_cache_put`.

Further disagreements between the code and its documentation, which the models
follow the code in and which have no run of their own:

- *unlock.* `uvm_sequence_base.svh:862` says of `unlock`, and line 881 of
  `ungrab`, that it removes any locks or grabs of the sequence. `m_unlock_req`
  (`uvm_sequencer_base.svh:1176-1178`) deletes the first entry of the sequence
  in `lock_list`: a sequence that locks, grabs and unlocks holds the sequencer
  still. `Unlock` and `ItemExchange`'s `Release` take one.
- *The last key of the cache.* `m_update` (`uvm_lru_cache.svh:162-186`) never
  moves `m_end`. After a hit on the last key `evict_to_max`, documented at line
  122 to evict the least recently used keys, takes the key that was used last;
  later evictions may follow a null reference or loop (`Broken`). `OrderIsKept`
  excepts this hit.
- *Globs and expressions in one cache.* The key is the text without `deglob`
  (`uvm_regex.svh:56`), so the glob `a*` matched against `.a` after the
  expression `a*` gets the answer of the expression. `uvm-core/README.md:100`
  describes the cache as an optimization. `Unmixed` is the condition in
  `CacheIsTransparent`.
- *A path that does not exist, on Xcelium.* `m_uvm_get_object_handle` leaves the
  language uninitialized (`uvm_hdl_xcelium.c:596`), and the VHDL functions call
  `tf_dofinish` for a null handle. `uvm_hdl.svh:140` says that 0 is returned.
  `EndsSimulation` names the case.
- *`uvm_hdl_release_and_read` of a slice.* `uvm_hdl.svh:119` says that the value
  is that after the release. On Xcelium (`uvm_hdl_xcelium.c:655`) and Questa
  (`uvm_hdl_questa.c:933-935`) the path names one bit of the slice by the time it
  is read: the first returns 0, the second reads that bit. On VCS
  (`uvm_hdl_vcs.c:1335`) nothing is read, slice or not. `SplitsSlices` and
  `NeverReads` name the cases.
- *Long VHDL vectors.* `uvm_hdl_get_vhdl` (`uvm_hdl_xcelium.c:497`) and
  `string_to_vecval` (`uvm_hdl_questa.c:144`) put the leftmost characters in word
  0, while the functions that set have the rightmost there, so that a value
  forced is read back with its words in another order; Xcelium's also reads
  freed memory. `uvm_hdl.svh:139` says that the value of the path is got.
  `VhdlAsPromised` names the cases in which it is.

Observations:

- A signal that changes after its probe was made and before the forked process
  has set up the notifier ends the simulation with a UVM_FATAL
  (`uvm_polling_toggle_notifier`).
- Questa's selections of VHDL signals run over buffers of 128 characters
  (signals of 128 bits or more, when set) and of 256 (slices of more, when read):
  `SetOverflows`, `GetOverflows`. A signal wider than a value is read past the
  end of the value on Xcelium before the simulation ends (`uvm_hdl_xcelium.c:427`).
- `vhdl_array_of_char2string` (`uvm_hdl_questa.c:293`) is said to give `0`, `1`,
  `x` or `z`, and gives `-` too.

## 8. Not modelled

- UVM phasing and objections: only that the run phase ends in the time slot of
  the drop.
- Sequencer: arbitration modes other than FIFO, priorities, relevance, child
  sequences, `get_next_item`/`get`/`peek`/`put`, responses, and processes killed
  without `kill` (the "zombie" reports).
- Polling: the variant for user-supplied backdoors (`_bkdr`).
- Backdoor: `uvm_hdl_force_time` (a force, a delay and a release in
  SystemVerilog); the VCSMX_FAST_UVM and INCA_EXTENDED_PARTSEL_SUPPORT variants,
  the first of which does not compile; VHDL types other than bits and vectors of
  them; Questa's buffers for names and indices (names are model values).
- Strings: error texts in the shared buffer, save and restore, the Verilog-only
  variant `UVM_REGEX_NO_DPI`, expressions with alternatives, groups, sets and
  counts.
- `uvm_svcmd_dpi.c`: a walk over the argument vector.
- `regression.py` beyond its verdict; waveforms; the configuration database;
  registers, factory, reporting, printing and recording of UVM: construction and
  I/O, or not used here.
- Hit counts of coverage; the values randomization can choose are sets given as
  constants.

## 9. Plan

Done: the controller with its abstract specification, the assertion, the
testbench, the tests, the sequencer in FIFO mode; polling, backdoor and string
matching of the DPI; an abstract specification of each of them and of the
sequencer; proofs of every safety property the passing runs check, and of the safety
part of every refinement, that of `ChangeNotification` without resets
(section 6).

Next, in this order:

1. Sequencer: priorities and the strict arbitration modes; `get_next_item`.
2. UVM objections and the end of the run phase, composed with `MemoryTest` in
   place of `EndOfRunPhase`.

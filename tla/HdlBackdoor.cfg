\* Eight objects, four of Verilog and four of VHDL, and every sequence of two
\* calls on twenty paths of them, on each simulator.  The signal bus is too
\* wide for both of Questa's buffers.
CONSTANTS
  Signals = {"q", "rom", "mem", "wide", "st", "bus", "long", "bit"}
  Vhdl = {"st", "bus", "long", "bit"}
  Scalars = {"bit"}
  ReadOnly = {"rom"}
  Unpacked = {"mem"}
  Width <- MCWidth
  WordBits = 2
  MaxWidth = 4
  Paths <- MCPaths
  Args <- MCArgs
  Designs <- MCDesigns
  MaxCalls = 2
  VectorVal = 3
  ReducedVector = 2
SPECIFICATION Spec
CHECK_DEADLOCK FALSE
INVARIANT TypeOK
PROPERTY KeepsPromise

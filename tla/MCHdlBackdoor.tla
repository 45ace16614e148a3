---------------------------- MODULE MCHdlBackdoor ----------------------------
(***************************************************************************)
(* A small design for HdlBackdoor: words of 2 bits, values of 4.           *)
(***************************************************************************)
EXTENDS HdlBackdoor

MCWidth == [q |-> 3, rom |-> 2, mem |-> 1, wide |-> 5, st |-> 2, bus |-> 3,
            long |-> 5, bit |-> 1]

Path(n, s) == [name |-> n, sel |-> s]
MCPaths ==
  {Path("q", <<>>), Path("q", <<1>>), Path("q", <<3>>),
   Path("q", <<2, 1>>), Path("q", <<0, 2>>), Path("q", <<3, 2>>),
   Path("rom", <<>>), Path("mem", <<>>), Path("wide", <<>>), Path("wide", <<4, 0>>),
   Path("st", <<>>), Path("st", <<1>>), Path("st", <<0, 1>>),
   Path("bus", <<>>), Path("bus", <<1>>), Path("bus", <<2, 0>>),
   Path("long", <<>>), Path("bit", <<>>),
   Path("none", <<>>), Path("none", <<1, 0>>)}

Pattern(s) == [i \in 0..3 |-> s[4 - i]]
MCArgs == {Pattern(<<"0", "1", "0", "1">>), Pattern(<<"1", "x", "z", "0">>)}

Cells(s) == [i \in 0..(Len(s) - 1) |-> s[Len(s) - i]]
MCDesigns ==
  {[q |-> Cells(<<"x", "0", "1">>), rom |-> Cells(<<"1", "z">>),
    mem |-> Cells(<<"0">>), wide |-> Cells(<<"1", "0", "z", "x", "0">>),
    st |-> Cells(st), bus |-> Cells(bus),
    long |-> Cells(<<"1", "0", "X", "Z", "1">>), bit |-> Cells(<<"Z">>)] :
     st \in {<<"U", "L">>, <<"1", "0">>},
     bus \in {<<"W", "-", "H">>, <<"0", "Z", "X">>}}
=============================================================================

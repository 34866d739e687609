-------------------------------- MODULE MCHosts --------------------------------
(* Micrometres, and the bytes of the real layout. A ten millimetre block at half  *)
(* a millimetre does not fit in 95,000 bytes, of which a worker takes 65,536.     *)
EXTENDS Hosts

Block == [extents |-> <<10000, 10000, 10000>>, builds |-> TRUE]
Sheet == [extents |-> <<9000, 4000, 0>>, builds |-> FALSE]
MCStocks == {Block}

Lib1 == ("em6" :> [number |-> 1, holder |-> "present"]) @@ ("stub" :> [number |-> 2, holder |-> "none needed"])
Lib2 == ("em6" :> [number |-> 1, holder |-> "absent"])
MCTools == {Lib1, Lib2}

hit(contact) == <<[k |-> 1, role |-> 1, contact |-> contact, obstacle |-> 0, length |-> 1, at |-> 0]>>
gouge == [class |-> "gouge", at |-> <<0, 0>>, members |-> <<1>>, worst |-> 2, total |-> 2, probes |-> <<>>]
left == [gouge EXCEPT !.class = "excess-stock"]

Prog(segments, retracts, contact, found) ==
  [segments |-> segments, retracts |-> retracts, kinds |-> <<"rapid">>,
   hits |-> [t \in {"em6", "stub"} |-> hit(contact)],
   clusters |-> [t \in {"em6", "stub"} |-> [n \in {"part"} |-> found]]]

MCEmpty == Prog(<<>>, 0, "near-miss", <<>>)
Clean == Prog(<<1, 1>>, 0, "near-miss", <<left>>)
Gouges == Prog(<<1>>, 0, "near-miss", <<left, gouge>>)
Crashes == Prog(<<2>>, 0, "collision", <<left>>)
MCPrograms == {Clean, Crashes}

Sent(program, stock, resolution) ==
  [program |-> program, tools |-> Lib1, stock |-> stock, nominal |-> "part", tool_id |-> None,
   resolution |-> resolution]

MCEnvelopes ==
  {Bad, Sent(Bad, Block, None), Sent(Gouges, Block, None), Sent(Clean, Block, None), Sent(Clean, Block, 0), Sent([Clean EXCEPT !.segments = @ \o @], Block, None),
   Sent(Clean, Block, 300), Sent(Clean, Sheet, None),
   [Sent(Clean, Block, None) EXCEPT !.tool_id = "stub"], [Sent(Clean, Block, None) EXCEPT !.tool_id = "em9"],
   [Sent(Clean, Block, None) EXCEPT !.nominal = Bad]}

MCAsks ==
  [extents : {<<10000, 10000, 10000>>, <<70, 2000, 30000>>, <<9000, 4000, 0>>},
   spacing : {<<500, 500, 500>>, <<310, 770, 120>>}, segments : {2, 600}, extracting : {TRUE},
   workers : {0, 2}, limit : {100000, 160000}]

\* A program some of whose retracts nobody modelled.
Retracting == Prog(<<1>>, 1, "near-miss", <<left>>)
RetractingPrograms == {Retracting}
================================================================================

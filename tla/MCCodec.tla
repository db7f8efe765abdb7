------------------------------ MODULE MCCodec -------------------------------
(* Values at the boundaries of every encoding, for the runs of Codec.      *)
EXTENDS Codec

Obj(k, d)    == [k |-> k, t |-> 0, d |-> d, e |-> <<>>]
Ext(t, d)    == [k |-> "ext", t |-> t, d |-> d, e |-> <<>>]
Seqn(k, e)   == [k |-> k, t |-> 0, d |-> <<>>, e |-> e]
Data(n)      == [i \in 1..n |-> (40 + i) % 256]
Num(hi, lo)  == Obj("int", Filled(hi, 8 - Len(lo)) \o lo)

Nil  == Obj("nil", <<>>)
True == Obj("bool", <<1>>)
One  == Num(0, <<1>>)

(* float32 values with their float64: 1, -0, infinity, 3.14, the smallest  *)
(* subnormal and 2^-127.                                                   *)
Floats == { << <<63, 128, 0, 0>>,   <<63, 240, 0, 0, 0, 0, 0, 0>> >>,
            << <<128, 0, 0, 0>>,    <<128, 0, 0, 0, 0, 0, 0, 0>> >>,
            << <<127, 128, 0, 0>>,  <<127, 240, 0, 0, 0, 0, 0, 0>> >>,
            << <<64, 72, 245, 195>>, <<64, 9, 30, 184, 96, 0, 0, 0>> >>,
            << <<0, 0, 0, 1>>,      <<54, 160, 0, 0, 0, 0, 0, 0>> >>,
            << <<0, 64, 0, 0>>,     <<56, 0, 0, 0, 0, 0, 0, 0>> >> }
MCWidened == [f \in {p[1] : p \in Floats} |-> (CHOOSE p \in Floats : p[1] = f)[2]]

(* 0, 127 | 128, 255 | 256, 65535 | 65536, 2^32-1 | 2^32, 2^63-1 and       *)
(* -1, -32 | -33, -128 | -129, -32768 | -32769, -2^31 | -2^31-1, -2^63.    *)
Ints ==
  {Num(0, <<0>>), Num(0, <<127>>), Num(0, <<128>>), Num(0, <<255>>), Num(0, <<1, 0>>),
   Num(0, <<255, 255>>), Num(0, <<1, 0, 0>>), Num(0, <<255, 255, 255, 255>>),
   Num(0, <<1, 0, 0, 0, 0>>), Num(0, <<127, 255, 255, 255, 255, 255, 255, 255>>),
   Num(255, <<255>>), Num(255, <<224>>), Num(255, <<223>>), Num(255, <<128>>),
   Num(255, <<127>>), Num(255, <<128, 0>>), Num(255, <<127, 255>>),
   Num(255, <<128, 0, 0, 0>>), Num(255, <<127, 255, 255, 255>>),
   Num(255, <<128, 0, 0, 0, 0, 0, 0, 0>>)}
Uints == {Obj("uint", <<128, 0, 0, 0, 0, 0, 0, 0>>), Obj("uint", Filled(255, 8))}

Composites ==
  {Seqn("array", <<>>), Seqn("array", <<One, Nil, Num(0, <<200>>)>>),
   Seqn("array", <<Seqn("array", <<One>>), Obj("str", Data(2))>>), Seqn("map", <<>>),
   Seqn("map", <<Obj("str", Data(1)), One>>), Seqn("map", <<One, Num(0, <<2>>)>>),
   Seqn("map", <<Obj("bin", Data(1)), Seqn("map", <<One, Nil>>)>>)}

Scalars ==
  {Nil, True, Obj("bool", <<0>>), Obj("float64", Data(8)), Obj("complex64", Data(8)),
   Obj("complex128", Data(16)), Obj("time", Data(12))}

Strings(ns) == {Obj("str", Data(n)) : n \in ns} \cup {Obj("bin", Data(n)) : n \in ns}
Exts(ns)    == {Ext(t, Data(n)) : t \in {7, 250}, n \in ns}
Lists(ns)   == {Seqn("array", Filled(One, n)) : n \in ns} \cup {Seqn("map", Filled(One, 2 * n)) : n \in ns}

(* Every encoding, one object at a time and its loss.                      *)
EveryEncoding ==
  Ints \cup Uints \cup Composites \cup Scalars \cup {Obj("float32", p[1]) : p \in Floats}
       \cup Strings({0, 1, 31, 32, 255, 256})
       \cup Exts({0, 1, 2, 3, 4, 8, 15, 16, 17, 254, 255, 256}) \cup Lists({15, 16})

(* One object per family, for messages of several objects.                 *)
Mixed ==
  {Nil, True, One, Num(0, <<200>>), Num(255, <<1, 0>>), Obj("float32", <<63, 128, 0, 0>>),
   Obj("float64", Data(8)), Obj("str", Data(2)), Obj("bin", Data(3)), Obj("time", Data(12)),
   Obj("complex64", Data(8)), Ext(7, Data(4)), Seqn("array", <<One, Nil>>),
   Seqn("map", <<Obj("str", Data(1)), One>>)}

AllValues == EveryEncoding \cup Mixed

MCArray == <<9, 9>>

(* out is written by every call and read by none.                          *)
wireView == <<wire, closed>>
=============================================================================

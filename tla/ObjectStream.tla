---------------------------- MODULE ObjectStream ----------------------------
(***************************************************************************)
(* What the AppendXxxx, ReadXxxxBytes and Skip families promise together:  *)
(* a byte slice is a FIFO queue of objects.  Appending adds an object at   *)
(* the end; a reader either delivers the first object, converted to the    *)
(* type it reads, and removes it, or refuses and removes nothing; Skip     *)
(* removes the first object whatever it is.  Reading an array or a map     *)
(* header puts the elements in the place of the object.  The end of the    *)
(* message may be lost.  There are no bytes here: module Codec implements  *)
(* this specification on the wire format.                                  *)
(*                                                                         *)
(* An object is [k, t, d, e]: its kind, an extension's type number, the    *)
(* bytes of a scalar and the elements of an array or map (a map's keys and *)
(* values alternate).  "int" is any int64, "uint" a uint64 above it.       *)
(***************************************************************************)
EXTENDS Wire

CONSTANTS Values,       \* the objects a client appends
          Widened,      \* float64(f) for the float32 values in Values
          ExtType,      \* ExtensionType() of the extension read into
          Array,        \* contents of the fixed-size array read into
          ZeroTimeVal   \* time.Time{}

VARIABLES queue,   \* the complete objects of the message, first to last
          lost,    \* the end of the message has been lost
          out      \* what the last call returned

streamVars == <<queue, lost, out>>

Signed   == [Int64 |-> 8, Int32 |-> 4, Int16 |-> 2, Int8 |-> 1]
Unsigned == [Uint64 |-> 8, Uint32 |-> 4, Uint16 |-> 2, Uint8 |-> 1]

Methods == DOMAIN Signed \cup DOMAIN Unsigned \cup
  {"Nil", "Bool", "Float32", "Float64", "Bytes", "String", "MapKey", "Exact", "Complex64",
   "Complex128", "Time", "Ext", "Skip", "MapHeader", "ArrayHeader"}

Delivered(m, d) == [m |-> m, ok |-> TRUE, d |-> d]
Refused(m)      == [m |-> m, ok |-> FALSE, d |-> <<>>]
Quiet           == Refused("-")

(* An object ReadByteBytes reads as a byte.                                *)
IsByte(v) == v.k = "nil" \/ (v.k = "int" /\ FitsUnsigned(v.d, 1))
AsByte(v) == IF v.k = "nil" THEN 0 ELSE v.d[8]

(* Contents of an object that can be read as a byte slice.                 *)
IsBytes(v, kinds) == v.k \in {"str", "bin"} \/ (v.k \in kinds /\ \A i \in 1..Len(v.e) : IsByte(v.e[i]))
AsBytes(v) == IF v.k \in {"str", "bin"} THEN v.d ELSE [i \in 1..Len(v.e) |-> AsByte(v.e[i])]
Overlay(s) == [i \in 1..Len(Array) |-> IF i <= Len(s) THEN s[i] ELSE Array[i]]

(***************************************************************************)
(* The conversions: which objects the reader m accepts, and what it        *)
(* delivers.  nil stands for the zero value of most types (go-codec        *)
(* compatibility).                                                         *)
(***************************************************************************)
Accepts(m, v) ==
  CASE m \in DOMAIN Signed   -> v.k = "nil" \/ (v.k \in {"int", "uint"} /\ FitsSigned(v.d, Signed[m]))
    [] m \in DOMAIN Unsigned -> \/ v.k \in {"nil", "uint"} /\ (v.k = "uint" => m = "Uint64")
                                \/ v.k = "int" /\ ~Negative(v.d) /\ FitsUnsigned(v.d, Unsigned[m])
    [] m = "Nil"     -> v.k = "nil"
    [] m = "Bool"    -> v.k \in {"nil", "bool"}
    [] m = "Float32" -> v.k \in {"nil", "float32"}
    [] m = "Float64" -> v.k \in {"nil", "float32", "float64"}
    [] m = "Bytes"   -> v.k = "nil" \/ IsBytes(v, {"array", "map"})
    [] m \in {"String", "MapKey"} -> v.k = "nil" \/ IsBytes(v, {"array"})
    [] m = "Exact"   -> \/ v.k \in {"nil", "str", "bin"}
                        \/ IsBytes(v, {"array", "map"}) /\ Len(v.e) <= Len(Array)
    [] m = "Complex64"  -> v.k = "complex64"
    [] m = "Complex128" -> v.k = "complex128"
    [] m = "Time"    -> v.k \in {"nil", "time"}
    [] m = "Ext"     -> v.k = "ext" /\ (v.t = ExtType \/ v.d = <<>>)
    [] m = "MapHeader"   -> v.k \in {"nil", "map"}
    [] m = "ArrayHeader" -> v.k \in {"nil", "map", "array"}
    [] m = "Skip"    -> TRUE

Deliver(m, v) ==
  CASE v.k = "nil" -> CASE m \in DOMAIN Signed \cup DOMAIN Unsigned \cup {"Float64"} -> Filled(0, 8)
                        [] m = "Float32" -> Filled(0, 4)
                        [] m = "Bool"    -> <<0>>
                        [] m = "Exact"   -> Filled(0, Len(Array))
                        [] m = "Time"    -> ZeroTimeVal
                        [] m \in {"MapHeader", "ArrayHeader"} -> <<0>>
                        [] OTHER         -> <<>>
    [] v.k # "nil" /\ m = "Float64" /\ v.k = "float32" -> Widened[v.d]
    [] v.k # "nil" /\ m \in {"Bytes", "String", "MapKey"} -> AsBytes(v)
    [] v.k # "nil" /\ m = "Exact" -> Overlay(AsBytes(v))
    [] v.k # "nil" /\ m = "MapHeader"   -> <<Len(v.e) \div 2>>
    [] v.k # "nil" /\ m = "ArrayHeader" -> <<Len(v.e)>>
    [] v.k # "nil" /\ m = "Skip" -> <<>>
    [] OTHER -> v.d

(* The objects a client appends, and their elements.                       *)
Parts(S) == UNION {{v.e[i] : i \in 1..Len(v.e)} : v \in S}
Objs == Values \cup Parts(Values) \cup Parts(Parts(Values))

(* The first object, if there is one.                                      *)
First == IF queue = <<>> THEN {} ELSE {Head(queue)}

(* What is left in the place of the object once m has read it.             *)
Elements(m, v) == IF m \in {"MapHeader", "ArrayHeader"} THEN v.e ELSE <<>>

Init == queue = <<>> /\ lost = FALSE /\ out = Quiet

Put == /\ ~lost
       /\ out' = Quiet
       /\ \E v \in Values : queue' = Append(queue, v)
       /\ UNCHANGED lost

Take(m) == \E v \in First :
  /\ Accepts(m, v)
  /\ out' = Delivered(m, Deliver(m, v))
  /\ queue' = Elements(m, v) \o Tail(queue)
  /\ UNCHANGED lost

(* ReadFloat64Bytes may refuse a nil: see module Codec.                    *)
Refuse(m) ==
  /\ out' = Refused(m)
  /\ \A v \in First : Accepts(m, v) => m = "Float64" /\ v.k = "nil"
  /\ UNCHANGED <<queue, lost>>

Lose == /\ ~lost
        /\ lost' = TRUE
        /\ out' = Quiet
        /\ \E n \in 0..Len(queue) : queue' = SubSeq(queue, 1, n)

(* The header of an array or map that lost its end can be read, and then   *)
(* its first elements, but not all of them.                                *)
OpenTorn(m) ==
  /\ lost /\ queue = <<>>
  /\ m \in {"MapHeader", "ArrayHeader"}
  /\ \E v \in {w \in Objs : w.k \in {"array", "map"} /\ Accepts(m, w)} :
       /\ out' = Delivered(m, Deliver(m, v))
       /\ \E n \in 0..Len(v.e) - 1 : queue' = SubSeq(v.e, 1, n)
  /\ UNCHANGED lost

(* Raw.UnmarshalMsg takes the first object and Raw.MarshalMsg puts it back. *)
Forward == /\ queue # <<>>
           /\ ~lost
           /\ queue' = Append(Tail(queue), Head(queue))
           /\ out' = Quiet
           /\ UNCHANGED lost

(* One call of reader m.  (The first conjunct follows from the others.)     *)
Read(m) == out'.m = m /\ (Take(m) \/ Refuse(m) \/ OpenTorn(m))

Next == (\E m \in Methods : Read(m)) \/ Lose \/ Forward \/ Put

Spec == Init /\ [][Next]_streamVars
=============================================================================

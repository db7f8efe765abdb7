------------------------------ MODULE Readers -------------------------------
(***************************************************************************)
(* The readers under one name each, so that a client can be any of them.   *)
(***************************************************************************)
EXTENDS Decode

CONSTANTS ExtType,   \* ExtensionType() of the extension read into
          Array      \* contents of the fixed-size array read into

ASSUME TargetsAssumption == ExtType \in Byte /\ Array \in Seq(Byte)

Signed   == [Int64 |-> 8, Int32 |-> 4, Int16 |-> 2, Int8 |-> 1]
Unsigned == [Uint64 |-> 8, Uint32 |-> 4, Uint16 |-> 2, Uint8 |-> 1]
Headers  == {"MapHeader", "ArrayHeader"}
Methods  == DOMAIN Signed \cup DOMAIN Unsigned \cup Headers \cup
  {"Nil", "Bool", "Float32", "Float64", "Bytes", "String", "MapKey", "Exact", "Complex64",
   "Complex128", "Time", "Ext", "Skip"}

(* What calling reader m on b returns, with the value as bytes.            *)
Call(m, b) ==
  LET header(h)  == Result(<<h.sz>>, h.o, h.err)
      bool(r)    == [r EXCEPT !.v = IF r.v THEN <<1>> ELSE <<0>>]
      unit(r)    == [r EXCEPT !.v = <<>>]
      slice(r)   == [r EXCEPT !.v = r.v.s]
  IN CASE m = "Nil"     -> unit(ReadNilBytes(b))
       [] m = "Bool"    -> bool(ReadBoolBytes(b))
       [] m = "Int64"   -> ReadInt64Bytes(b)
       [] m \in {"Int32", "Int16", "Int8"} -> ReadIntBytes(b, Signed[m])
       [] m = "Uint64"  -> ReadUint64Bytes(b)
       [] m \in {"Uint32", "Uint16", "Uint8"} -> ReadUintBytes(b, Unsigned[m])
       [] m = "Float32" -> ReadFloat32Bytes(b)
       [] m = "Float64" -> ReadFloat64Bytes(b)
       [] m = "Bytes"   -> slice(ReadBytesBytes(b))
       [] m = "String"  -> ReadStringZC(b)
       [] m = "MapKey"  -> ReadMapKeyZC(b)
       [] m = "Exact"   -> ReadExactBytes(b, Array)
       [] m = "Complex64"  -> ReadComplex64Bytes(b)
       [] m = "Complex128" -> ReadComplex128Bytes(b)
       [] m = "Time"    -> ReadTimeBytes(b)
       [] m = "Ext"     -> ReadExtensionBytes(b, ExtType)
       [] m = "MapHeader"   -> header(ReadMapHeaderBytes(b))
       [] m = "ArrayHeader" -> header(ReadArrayHeaderBytes(b))
       [] m = "Skip"    -> unit(Skip(b))

(* A call that delivers a value.                                           *)
Ok(r) == r.err = NoError
=============================================================================

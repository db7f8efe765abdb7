------------------------------- MODULE Codec --------------------------------
(***************************************************************************)
(* One message and its clients: an encoder appends objects to a byte       *)
(* slice, the end of the slice may be lost, and a decoder applies any      *)
(* reader, Skip or Raw at its start, as generated MarshalMsg and           *)
(* UnmarshalMsg methods and hand-written callers do.  A decoder that gets  *)
(* an error may try another reader (ReadMapKeyZC and the generated struct  *)
(* decoders do).                                                           *)
(***************************************************************************)
EXTENDS Encode, Readers, FiniteSets, SequencesExt

CONSTANTS Values,       \* the objects the encoder appends
          Companions,   \* bound: those that share a message with others
          MaxObjects,   \* bound: objects in the message at any time
          MaxCut,       \* bound: bytes lost from the end of the message
          Widened       \* float64(f) for the float32 objects in Values

VARIABLES wire,     \* the slice: what has been appended and not yet read
          closed,   \* the end of the message has been lost
          out       \* what the last call returned

vars == <<wire, closed, out>>

-----------------------------------------------------------------------------
(* The encoder.                                                            *)

RECURSIVE AppendObject(_, _)
AppendObject(b, v) ==
  LET elements == [i \in 1..Len(v.e) |-> AppendObject(<<>>, v.e[i])] IN
  CASE v.k = "nil"     -> AppendNil(b)
    [] v.k = "bool"    -> AppendBool(b, v.d = <<1>>)
    [] v.k = "int"     -> AppendInt64(b, v.d)
    [] v.k = "uint"    -> AppendUint64(b, v.d)
    [] v.k = "float32" -> AppendFloat32(b, v.d)
    [] v.k = "float64" -> AppendFloat64(b, v.d)
    [] v.k = "str"     -> AppendString(b, v.d)
    [] v.k = "bin"     -> AppendBytes(b, Bytes(v.d))
    [] v.k = "complex64"  -> AppendComplex64(b, v.d)
    [] v.k = "complex128" -> AppendComplex128(b, v.d)
    [] v.k = "time"    -> AppendTime(b, v.d)
    [] v.k = "ext"     -> AppendExtension(b, v.t, v.d)
    [] v.k = "array"   -> AppendArrayHeader(b, Len(v.e)) \o FlattenSeq(elements)
    [] v.k = "map"     -> AppendMapHeader(b, Len(v.e) \div 2) \o FlattenSeq(elements)

Encoded(v) == AppendObject(<<>>, v)

(***************************************************************************)
(* The objects a slice holds, by its encoder: the value whose encoding the *)
(* slice starts with, and so on.  Elements of arrays and maps count, since *)
(* reading a header exposes them.                                          *)
(***************************************************************************)
Parts(S) == UNION {{v.e[i] : i \in 1..Len(v.e)} : v \in S}

EncodedObjects ==
  {[obj |-> v, enc |-> Encoded(v)] : v \in Values \cup Parts(Values) \cup Parts(Parts(Values))}

At(b, i) == {x \in EncodedObjects : Len(x.enc) <= Len(b) - i /\ x.enc[1] = b[i + 1]
                                     /\ SubSeq(b, i + 1, i + Len(x.enc)) = x.enc}

Objects(b) ==
  LET from[i \in 0..Len(b)] ==
        LET here == At(b, i)
            x    == CHOOSE x \in here : TRUE
        IN IF here = {} THEN <<>> ELSE <<x.obj>> \o from[i + Len(x.enc)]
  IN from[0]

Stream == INSTANCE ObjectStream WITH queue <- Objects(wire), lost <- closed, ZeroTimeVal <- ZeroTime

-----------------------------------------------------------------------------
Init == wire = <<>> /\ closed = FALSE /\ out = Stream!Quiet

Encode(v) == /\ ~closed
             /\ LET there == Objects(wire)
                IN \/ there = <<>>
                   \/ Len(there) < MaxObjects /\ Range(there) \cup {v} \subseteq Companions
             /\ wire' = AppendObject(wire, v)
             /\ out' = Stream!Quiet
             /\ UNCHANGED closed

Cut == /\ ~closed
       /\ \E n \in 1..MaxCut : n <= Len(wire) /\ wire' = SubSeq(wire, 1, Len(wire) - n)
       /\ closed' = TRUE
       /\ out' = Stream!Quiet

(***************************************************************************)
(* Reader m returns r.  After an error the client still has its slice; the *)
(* generated struct decoders go on with the one that ReadMapHeaderBytes    *)
(* returned with its TypeError.                                            *)
(***************************************************************************)
Returned(m, r) == \/ r.err = NoError /\ wire' = r.o /\ out' = Stream!Delivered(m, r.v)
                  \/ r.err # NoError /\ wire' = (IF m = "MapHeader" /\ r.err.kind = "type" THEN r.o ELSE wire)
                                     /\ out' = Stream!Refused(m)

Read(m) == Returned(m, Call(m, wire)) /\ UNCHANGED closed

PutBack(r) == r.err = NoError /\ wire' = AppendRaw(r.o, r.v)

Forward == /\ ~closed
           /\ PutBack(ReadRaw(wire))
           /\ out' = Stream!Quiet
           /\ UNCHANGED closed

Next == \/ \E v \in Values : Encode(v)
        \/ Cut
        \/ \E m \in Methods : Read(m)
        \/ Forward

Spec == Init /\ [][Next]_vars

-----------------------------------------------------------------------------
(* The wire format and its readers implement a FIFO queue of objects:      *)
(* every reader, on every object the encoder can write, at every position  *)
(* of a message and after any loss of its end, delivers and consumes       *)
(* exactly one whole object or refuses and consumes nothing.               *)
RefinesStream == Stream!Spec

(* Encodings are uniquely decodable: no object's encoding starts another's.*)
PrefixFree == Cardinality(At(wire, 0)) <= 1
=============================================================================

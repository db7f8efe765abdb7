------------------------------ MODULE Arrival -------------------------------
(***************************************************************************)
(* Bytes of any origin arrive at the end of a slice while decoders look at *)
(* its start: other encoders, other encodings of the same object, bytes    *)
(* that are no object at all.  A program that gets ErrShortBytes waits for *)
(* more and calls the reader again on the longer slice, so what a reader   *)
(* reports must not depend on how much lies behind the object it reads.    *)
(***************************************************************************)
EXTENDS Readers

CONSTANTS Leads,    \* first bytes
          Chunks(_) \* bound: what can arrive behind that slice

ASSUME LeadsAssumption == Leads \subseteq Byte

VARIABLE buf

Init == buf = <<>>

Arrive == \/ buf = <<>> /\ \E c \in Leads : buf' = <<c>>
          \/ buf # <<>> /\ \E s \in Chunks(buf) : s \in Seq(Byte) /\ buf' = buf \o s

Spec == Init /\ [][Arrive]_buf

-----------------------------------------------------------------------------
(* What every reader returns for b.                                        *)
Results(b) == [m \in Methods |-> Call(m, b)]

(* What is left when reader m returned r, once the elements of an array or *)
(* map whose header it read are skipped.                                   *)
Rest(m, r) == SkipObjects(r.o, CASE m = "MapHeader"   -> 2 * r.v[1]
                                 [] m = "ArrayHeader" -> r.v[1]
                                 [] OTHER             -> 0)

(***************************************************************************)
(* Every reader that succeeds consumes the object Skip skips: the readers, *)
(* each with its own length arithmetic, and Skip, with the table `sizes`,  *)
(* agree on where an object ends, for every encoding of it.  Generated     *)
(* decoders mix both (an unknown field is skipped).                        *)
(***************************************************************************)
ReadersFollowSkip ==
  LET follow(skipped, rs) == \A m \in Methods : Ok(rs[m]) => Rest(m, rs[m]) = skipped
  IN follow(Skip(buf), Results(buf))

(***************************************************************************)
(* Arriving bytes change no success: the reader returns the same value and *)
(* consumes as many bytes.  And a call that had enough bytes to refuse the *)
(* object refuses it still: only ErrShortBytes, and the type error that    *)
(* readBytesBytes and ReadExactBytes put in its place for an array, may    *)
(* become a success.  (ReadFloat64Bytes reads a nil only when fewer than 9 *)
(* bytes are left: it is excepted on nil.)                                 *)
(***************************************************************************)
Stable(m, r, s, arrived) ==
  IF Ok(r) THEN Ok(s) /\ s.v = r.v /\ Len(s.o) = Len(r.o) + arrived
  ELSE Ok(s) => \/ r.err \in {ErrShort, Panic}
                \/ m \in {"Bytes", "Exact", "String", "MapKey"} /\ r.err.kind = "type"

ReadsAreStable ==
  [][\A m \in Methods : \/ Stable(m, Call(m, buf), Call(m, buf'), Len(buf') - Len(buf))
                        \/ m = "Float64" /\ IsNil(buf)]_buf

(***************************************************************************)
(* A number is the same through every reader that accepts it: a narrower   *)
(* reader accepts only what the wider ones accept, with the same value,    *)
(* and signed and unsigned readers agree (below 2^63).                     *)
(***************************************************************************)
NumbersAgree ==
  LET same(r, s) == Ok(r) => Ok(s) /\ s.v = r.v
      widths(ws, rs) == \A m, n \in DOMAIN ws : ws[m] <= ws[n] => same(rs[m], rs[n])
      agree(rs) == widths(Signed, rs) /\ widths(Unsigned, rs) /\ same(rs["Uint64"], rs["Int64"])
  IN agree(Results(buf))

(***************************************************************************)
(* NextType announces what a reader will accept: the reader of the type it *)
(* reports refuses only for want of bytes, or because the length does not  *)
(* fit an int.  (Extensions are left out: an application's may have one of *)
(* the numbers of time and complex, with another length.)                  *)
(***************************************************************************)
ReaderOf == [nil |-> "Nil", bool |-> "Bool", str |-> "String", bin |-> "Bytes", map |-> "MapHeader",
             array |-> "ArrayHeader", float32 |-> "Float32", float64 |-> "Float64",
             int |-> "Int64", uint |-> "Uint64"]

NextTypeIsReadable ==
  LET readable(t) == t \in DOMAIN ReaderOf => Call(ReaderOf[t], buf).err \in {NoError, ErrShort, ErrOverflow}
  IN readable(NextType(buf))

(* An extension is delivered only to a client that asked for its type,     *)
(* whichever of the eight headers announces it.  (An ext8 of length zero   *)
(* is the exception: ReadExtensionBytes returns before it compares.)       *)
ExtensionTypeChecked ==
  Ok(ReadExtensionBytes(buf, ExtType)) => peekExtension(buf).v = ExtType \/ (buf[1] = mext8 /\ buf[2] = 0)

(***************************************************************************)
(* NextType and ReadExtensionBytes find the number of an extension at the  *)
(* same place, one with the table, the other lead byte by lead byte: what  *)
(* NextType calls a time or a complex number is not refused for its number *)
(* by a client that asks for that one, however little of it has arrived;   *)
(* and an extension that such a client takes is called by its name once a  *)
(* byte lies behind it (up to then NextType may say "ext", for it tests    *)
(* the length of the whole object).                                        *)
(***************************************************************************)
NumberOf == [time |-> TimeExtension, complex128 |-> Complex128Extension, complex64 |-> Complex64Extension]

ExtensionsNamed ==
  LET named(t, r, x) == /\ t = x => r.err # errExt
                        /\ Ok(r) /\ r.v # <<>> /\ r.o # <<>> => t = x
  IN \A x \in DOMAIN NumberOf : named(NextType(buf), ReadExtensionBytes(buf, NumberOf[x]), x)

(* The length ReadBytesBytesHeader announces is the length ReadBytesBytes  *)
(* delivers.                                                               *)
AnnouncedLength ==
  LET announced(h, r) == Ok(r) => Ok(h) /\ h.sz = Len(r.v.s)
  IN announced(ReadBytesBytesHeader(buf), ReadBytesBytes(buf))

(***************************************************************************)
(* What the comments of the readers say, where the code disagrees.         *)
(***************************************************************************)

(* "Possible errors: ErrShortBytes (too few bytes)": on an empty slice.    *)
EmptyIsShort == buf = <<>> => \A m \in Methods : Call(m, buf).err = ErrShort

(* "IntOverflow{} (value doesn't fit in int32)": what ReadInt32Bytes and   *)
(* its kin deliver is the number on the wire, so not negative for a uint.  *)
IntOverflowReported ==
  LET reported(r) == Ok(r) /\ NextType(buf) = "uint" => ~Negative(r.v)
  IN \A m \in DOMAIN Signed \ {"Int64"} : reported(Call(m, buf))
=============================================================================

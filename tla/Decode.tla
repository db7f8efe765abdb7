------------------------------- MODULE Decode -------------------------------
(***************************************************************************)
(* The ReadXxxxBytes family, Skip, NextType and Raw.UnmarshalMsg           *)
(* (read_bytes.go, extension.go).  Every operator returns what the Go      *)
(* function returns: the value v, the remaining bytes o and the error err. *)
(* A nil slice is the empty sequence unless the code tells them apart.     *)
(* An out-of-range index, which panics in Go, is the error Panic.          *)
(***************************************************************************)
EXTENDS Wire

Err(kind, encoded) == [kind |-> kind, encoded |-> encoded]
NoError     == Err("none", "-")
ErrShort    == Err("short", "-")
ErrOverflow == Err("overflow", "-")
Panic       == Err("panic", "-")
TypeError(encoded) == Err("type", encoded)

Result(v, o, err) == [v |-> v, o |-> o, err |-> err]

(* r with its error, if it has one, replaced by err.                       *)
Reported(r, err) == [r EXCEPT !.err = IF @ # NoError THEN err ELSE @]

badPrefix(c) ==
  LET error(typ) == IF typ = "invalid" THEN Err("prefix", "-") ELSE TypeError(typ)
  IN error(getType(c))

Zero(n) == Filled(0, n)

-----------------------------------------------------------------------------
(* Types and headers.                                                      *)

(* Mutant: the type is looked for behind the header, at b[spec.size].      *)
NextType_BehindHeader(b) ==
  LET tp(spec) == IF spec.extra = constsize THEN b[2] ELSE b[spec.size + 1]
      extension(n) == CASE n = TimeExtension       -> "time"
                        [] n = Complex128Extension -> "complex128"
                        [] n = Complex64Extension  -> "complex64"
                        [] OTHER                   -> "ext"
      announced(spec) == IF spec.typ = "ext" /\ Len(b) > spec.size THEN extension(tp(spec)) ELSE spec.typ
  IN IF Len(b) = 0 THEN "invalid" ELSE announced(sizes(b[1]))

(* tp is compared as a byte: the three extension numbers are positive.     *)
NextType(b) ==
  LET tp(spec) == IF spec.extra = constsize THEN b[2] ELSE b[spec.size]
      extension(n) == CASE n = TimeExtension       -> "time"
                        [] n = Complex128Extension -> "complex128"
                        [] n = Complex64Extension  -> "complex64"
                        [] OTHER                   -> "ext"
      announced(spec) == IF spec.typ = "ext" /\ Len(b) > spec.size THEN extension(tp(spec)) ELSE spec.typ
  IN IF Len(b) = 0 THEN "invalid" ELSE announced(sizes(b[1]))

IsNil(b) == Len(b) # 0 /\ b[1] = mnil

Header(sz, isnil, o)  == [sz |-> sz, isnil |-> isnil, o |-> o, err |-> NoError]
HeaderError(o, err)   == [sz |-> 0, isnil |-> FALSE, o |-> o, err |-> err]

(* A count of n bytes behind the lead, scaled by k; u32int and u64int      *)
(* refuse what does not fit an int.                                        *)
CountHeader(b, n, k) ==
  IF Len(b) < n + 1 THEN HeaderError(<<>>, ErrShort)
  ELSE LET count == IF n = 2 THEN Uint16(b) ELSE Uint32(b)
       IN IF count > MaxInt \div k THEN HeaderError(<<>>, ErrOverflow)
          ELSE Header(k * count, FALSE, From(b, n + 1))

ReadMapHeaderBytes(b) ==
  IF Len(b) < 1 THEN HeaderError(<<>>, ErrShort)
  ELSE LET lead == b[1]
       IN CASE isfixmap(lead) -> Header(rfixmap(lead), FALSE, From(b, 1))
            [] lead = mnil    -> Header(0, TRUE, From(b, 1))
            [] lead = mmap16  -> CountHeader(b, 2, 1)
            [] lead = mmap32  -> CountHeader(b, 4, 1)
            [] OTHER          -> HeaderError(b, badPrefix(lead))

(* go-codec compatibility: a map is an array of its keys and values.       *)
readArrayHeaderBytes(b, flattenMap) ==
  IF Len(b) < 1 THEN HeaderError(<<>>, ErrShort)
  ELSE LET lead == b[1]
       IN CASE isfixarray(lead) -> Header(rfixarray(lead), FALSE, From(b, 1))
            [] flattenMap /\ isfixmap(lead) -> Header(2 * rfixmap(lead), FALSE, From(b, 1))
            [] lead = mnil      -> Header(0, TRUE, From(b, 1))
            [] lead = marray16  -> CountHeader(b, 2, 1)
            [] lead = marray32  -> CountHeader(b, 4, 1)
            [] flattenMap /\ lead = mmap16 -> CountHeader(b, 2, 2)
            [] flattenMap /\ lead = mmap32 -> CountHeader(b, 4, 2)
            [] OTHER            -> HeaderError(b, badPrefix(lead))

ReadArrayHeaderBytes(b) == readArrayHeaderBytes(b, TRUE)

-----------------------------------------------------------------------------
(* Scalars.                                                                *)

ReadNilBytes(b) ==
  CASE Len(b) < 1 -> Result("nil", <<>>, ErrShort)
    [] Len(b) >= 1 /\ b[1] # mnil -> Result("nil", b, badPrefix(b[1]))
    [] OTHER -> Result("nil", From(b, 1), NoError)

ReadBoolBytes(b) ==
  IF Len(b) < 1 THEN Result(FALSE, b, ErrShort)
  ELSE CASE b[1] = mtrue            -> Result(TRUE, From(b, 1), NoError)
         [] b[1] \in {mfalse, mnil} -> Result(FALSE, From(b, 1), NoError)
         [] OTHER                   -> Result(FALSE, b, badPrefix(b[1]))

ReadFloat32Bytes(b) ==
  IF Len(b) < 1 THEN Result(Zero(4), <<>>, ErrShort)
  ELSE CASE b[1] = mnil     -> Result(Zero(4), From(b, 1), NoError)
         [] b[1] \notin {mnil, mfloat32} -> Result(Zero(4), <<>>, TypeError(getType(b[1])))
         [] b[1] = mfloat32 /\ Len(b) < 5 -> Result(Zero(4), <<>>, ErrShort)
         [] OTHER           -> Result(Field(b, 4), From(b, 5), NoError)

(***************************************************************************)
(* float64(f) of a float32: rebias the exponent, shift the fraction left   *)
(* by 29 bits; a subnormal float32 is normalised first.  (NaNs are not     *)
(* among the values the models use: Go may quiet them.)                    *)
(***************************************************************************)
float64(f) ==
  LET e == 2 * (f[1] % 128) + f[2] \div 128
      m == 65536 * (f[2] % 128) + 256 * f[3] + f[4]
      k == CHOOSE j \in 0..23 : m * 2^j \in 2^23..2^24 - 1
      E == CASE e = 0 /\ m = 0 -> 0
             [] e = 0 /\ m # 0 -> 897 - k
             [] e = 255        -> 2047
             [] OTHER          -> e + 896
      M == IF e = 0 /\ m # 0 THEN m * 2^k - 2^23 ELSE m
  IN << 128 * (f[1] \div 128) + E \div 16, 16 * (E % 16) + M \div 2^19,
        (M \div 2^11) % 256, (M \div 2^3) % 256, 32 * (M % 8), 0, 0, 0 >>

ReadFloat64Bytes(b) ==
  LET widen(r) == [r EXCEPT !.v = IF r.err = NoError THEN float64(r.v) ELSE Zero(8)]
      widened  == widen(ReadFloat32Bytes(b))
  IN IF Len(b) < 9
       THEN CASE Len(b) = 0 -> Result(Zero(8), <<>>, Panic)
              [] Len(b) >= 5 /\ b[1] = mfloat32 -> widened
              [] Len(b) > 0 /\ b[1] = mnil -> Result(Zero(8), From(b, 1), NoError)
              [] OTHER -> Result(Zero(8), <<>>, ErrShort)
       ELSE CASE b[1] = mfloat64 -> Result(Field(b, 8), From(b, 9), NoError)
              [] b[1] = mfloat32 -> widened
              [] OTHER -> Result(Zero(8), <<>>, badPrefix(b[1]))

(* Mutant: int64 is forgotten.                                             *)
intLeads_Short == mint8..mint32

intLeads  == mint8..mint64
uintLeads == muint8..muint64

(* The number of value bytes behind an intN or uintN lead: 1, 2, 4, 8.     *)
intBytes(c) == 2^(c % 4)

ReadInt64Bytes(b) ==
  IF Len(b) < 1 THEN Result(Zero(8), <<>>, ErrShort)
  ELSE LET lead == b[1]
           n    == intBytes(lead)
       IN CASE isfixint(lead)  -> Result(ZeroExtend(<<lead>>), From(b, 1), NoError)
            [] isnfixint(lead) -> Result(SignExtend(<<lead>>), From(b, 1), NoError)
            [] lead = mnil     -> Result(Zero(8), From(b, 1), NoError)
            [] lead \in intLeads \cup uintLeads ->
                 IF Len(b) < n + 1 THEN Result(Zero(8), <<>>, ErrShort)
                 ELSE Result(IF lead \in intLeads THEN SignExtend(Field(b, n))
                                                  ELSE ZeroExtend(Field(b, n)),
                             From(b, n + 1), NoError)
            [] OTHER -> Result(Zero(8), <<>>, badPrefix(lead))

(* Mutant: no range check.                                                 *)
ReadIntBytes_Unchecked(b, k) == ReadInt64Bytes(b)

(* ReadInt32Bytes, ReadInt16Bytes, ReadInt8Bytes: k = 4, 2, 1 bytes.       *)
ReadIntBytes(b, k) ==
  LET checked(r) == IF ~FitsSigned(r.v, k) THEN Result(Zero(8), r.o, Err("intoverflow", "-")) ELSE r
  IN checked(ReadInt64Bytes(b))

ReadUint64Bytes(b) ==
  IF Len(b) < 1 THEN Result(Zero(8), <<>>, ErrShort)
  ELSE LET lead == b[1]
           n    == intBytes(lead)
       IN CASE isfixint(lead) -> Result(ZeroExtend(<<lead>>), From(b, 1), NoError)
            [] lead = mnil    -> Result(Zero(8), From(b, 1), NoError)
            [] lead \in intLeads \cup uintLeads ->
                 IF Len(b) < n + 1 THEN Result(Zero(8), <<>>, ErrShort)
                 ELSE IF lead \in intLeads /\ b[2] >= 128
                        THEN Result(Zero(8), <<>>, Err("belowzero", "-"))
                        ELSE Result(ZeroExtend(Field(b, n)), From(b, n + 1), NoError)
            [] isnfixint(lead) -> Result(Zero(8), <<>>, Err("belowzero", "-"))
            [] OTHER -> Result(Zero(8), <<>>, badPrefix(lead))

(* Mutant: a conversion in place of the range check.                       *)
ReadUintBytes_Truncates(b, k) ==
  LET r == ReadUint64Bytes(b) IN [r EXCEPT !.v = ZeroExtend(Low(r.v, k))]

(* ReadUint32Bytes, ReadUint16Bytes, ReadUint8Bytes, ReadByteBytes.        *)
ReadUintBytes(b, k) ==
  LET checked(r) == IF ~FitsUnsigned(r.v, k) THEN Result(Zero(8), <<>>, Err("uintoverflow", "-")) ELSE r
  IN checked(ReadUint64Bytes(b))

-----------------------------------------------------------------------------
(* Strings and byte slices.                                                *)

strLead(c) == isfixstr(c) \/ c \in mstr8..mstr32
binLead(c) == c \in mbin8..mbin32

(* The length field of a str or bin object: 1, 2 or 4 bytes.               *)
lengthBytes(c) == IF c \in {mstr8, mbin8} THEN 1 ELSE IF c \in {mstr16, mbin16} THEN 2 ELSE 4

(* read bytes of data follow skip bytes of prefix.                         *)
blobHeader(b) ==
  LET n == lengthBytes(b[1])
      prefix(read, skip, err) == [read |-> read, skip |-> skip, err |-> err]
  IN IF isfixstr(b[1]) THEN prefix(rfixstr(b[1]), 1, NoError)
     ELSE IF Len(b) < n + 1 THEN prefix(0, 0, ErrShort)
     ELSE CASE n = 1 -> prefix(Uint8(b), 2, NoError)
            [] n = 2 -> prefix(Uint16(b), 3, NoError)
            [] n = 4 -> IF Uint32(b) > MaxInt THEN prefix(0, 0, ErrOverflow)
                                              ELSE prefix(Uint32(b), 5, NoError)

(* Mutant: a short slice yields what it has.                               *)
blob_Partial(b, h) ==
  LET n == IF Len(b) - h.skip < h.read THEN Len(b) - h.skip ELSE h.read
  IN IF h.err # NoError THEN Result(<<>>, <<>>, h.err)
     ELSE Result(SubSeq(b, h.skip + 1, h.skip + n), From(b, h.skip + n), NoError)

(* The data behind a prefix h of b, or an error.                           *)
blob(b, h) ==
  CASE h.err # NoError -> Result(<<>>, <<>>, h.err)
    [] h.err = NoError /\ Len(b) - h.skip < h.read -> Result(<<>>, <<>>, ErrShort)
    [] OTHER -> Result(SubSeq(b, h.skip + 1, h.skip + h.read), From(b, h.skip + h.read), NoError)

(* []byte values: nil, and a slice with contents s.                        *)
NilBytes == [isnil |-> TRUE, s |-> <<>>]
Bytes(s) == [isnil |-> FALSE, s |-> s]

(* into[idx], o, err = ReadByteBytes(o) for count objects, until an error:  *)
(* the result after i of them.                                             *)
nextByteObject(prev, i) ==
  LET stored(r) == Result([prev.v EXCEPT ![i] = r.v[8]], r.o, r.err)
  IN IF prev.err # NoError THEN prev ELSE stored(ReadUintBytes(prev.o, 1))

readByteObjects(o, count, into) ==
  LET after[i \in 0..count] == IF i = 0 THEN Result(into, o, NoError) ELSE nextByteObject(after[i - 1], i)
  IN after[count]

readBytesBytesSlow(b, flattenMap) ==
  LET slice(r) == [r EXCEPT !.v = Bytes(@)]
      elements(h) ==
        CASE h.err # NoError -> Result(NilBytes, h.o, h.err)
          [] h.err = NoError /\ Len(h.o) < h.sz -> Result(NilBytes, h.o, ErrShort)
          [] OTHER -> slice(readByteObjects(h.o, h.sz, Zero(h.sz)))
  IN elements(readArrayHeaderBytes(b, flattenMap))

(* Mutant: maps are not flattened here.                                    *)
ReadBytesBytesHeader_NoMaps(b) ==
  IF Len(b) < 1 THEN HeaderError(<<>>, ErrShort)
  ELSE IF strLead(b[1]) \/ binLead(b[1])
         THEN LET h == blobHeader(b) IN [HeaderError(<<>>, h.err) EXCEPT !.sz = h.read]
  ELSE IF b[1] = mnil THEN Header(0, FALSE, <<>>)
  ELSE readArrayHeaderBytes(b, FALSE)

ReadBytesBytesHeader(b) ==
  IF Len(b) < 1 THEN HeaderError(<<>>, ErrShort)
  ELSE IF strLead(b[1]) \/ binLead(b[1])
         THEN LET h == blobHeader(b) IN [HeaderError(<<>>, h.err) EXCEPT !.sz = h.read]
  ELSE IF b[1] = mnil THEN Header(0, FALSE, <<>>)
  ELSE readArrayHeaderBytes(b, TRUE)

(* Whether v is a copy of the data, and in whose memory, is not modelled.  *)
readBytesBytes(b, flattenMap) ==
  LET slice(r) == [r EXCEPT !.v = IF r.err = NoError THEN Bytes(@) ELSE NilBytes]
  IN IF Len(b) < 1 THEN Result(NilBytes, <<>>, ErrShort)
     ELSE CASE strLead(b[1]) \/ binLead(b[1]) -> slice(blob(b, blobHeader(b)))
            [] b[1] = mnil -> Result(NilBytes, From(b, 1), NoError)
            [] OTHER -> Reported(readBytesBytesSlow(b, flattenMap), badPrefix(b[1]))

ReadBytesBytes(b) == readBytesBytes(b, TRUE)

(* A reader of bytes' result, the bytes only: nil is no bytes to a string. *)
contents(r) == [r EXCEPT !.v = @.s]

ReadStringZC(b) ==
  IF Len(b) < 1 THEN Result(<<>>, <<>>, ErrShort)
  ELSE CASE strLead(b[1]) -> blob(b, blobHeader(b))
         [] b[1] = mnil   -> Result(<<>>, From(b, 1), NoError)
         [] OTHER -> Reported(contents(readBytesBytes(b, FALSE)), TypeError(getType(b[1])))

ReadMapKeyZC(b) ==
  LET key(r) == CASE r.err = NoError          -> r
                  [] r.err = TypeError("bin") -> contents(ReadBytesBytes(b))
                  [] OTHER                    -> Result(<<>>, b, r.err)
  IN key(ReadStringZC(b))

(* into is overwritten from its start; v is into after the call.           *)
ReadExactBytes(b, into) ==
  LET over(r) == [r EXCEPT !.v = [i \in 1..Len(into) |-> IF i <= Len(r.v) THEN r.v[i] ELSE into[i]]]
      elements(h) ==
        CASE h.err # NoError -> Result(into, h.o, h.err)
          [] h.err = NoError /\ h.sz > Len(into) -> Result(into, h.o, Err("array", "-"))
          [] OTHER -> readByteObjects(h.o, h.sz, into)
  IN IF Len(b) < 1 THEN Result(into, <<>>, ErrShort)
     ELSE CASE strLead(b[1]) \/ binLead(b[1]) -> over(blob(b, blobHeader(b)))
            [] b[1] = mnil -> Result(Zero(Len(into)), From(b, 1), NoError)
            [] OTHER -> Reported(elements(ReadArrayHeaderBytes(b)), badPrefix(b[1]))

-----------------------------------------------------------------------------
(* Extensions.                                                             *)

errExt == Err("exttype", "-")

peekExtension(b) ==
  LET peek(spec) ==
        CASE spec.typ # "ext" -> Result(0, b, badPrefix(b[1]))
          [] spec.typ = "ext" /\ Len(b) < spec.size -> Result(0, b, ErrShort)
          [] OTHER -> Result(IF spec.extra = constsize THEN b[2] ELSE b[spec.size], b, NoError)
  IN peek(sizes(b[1]))

ReadComplex128Bytes(b) ==
  IF Len(b) < 18 THEN Result(Zero(16), <<>>, ErrShort)
  ELSE CASE b[1] # mfixext16 -> Result(Zero(16), <<>>, badPrefix(b[1]))
         [] b[1] = mfixext16 /\ b[2] # Complex128Extension -> Result(Zero(16), <<>>, errExt)
         [] OTHER -> Result(SubSeq(b, 3, 18), From(b, 18), NoError)

ReadComplex64Bytes(b) ==
  IF Len(b) < 10 THEN Result(Zero(8), <<>>, ErrShort)
  ELSE CASE b[1] # mfixext8 -> Result(Zero(8), <<>>, badPrefix(b[1]))
         [] b[1] = mfixext8 /\ b[2] # Complex64Extension -> Result(Zero(8), <<>>, errExt)
         [] OTHER -> Result(SubSeq(b, 3, 10), From(b, 10), NoError)

(* time.Time{} as seconds and nanoseconds of the Unix epoch.               *)
ZeroTime == <<255, 255, 255, 241, 136, 110, 9, 0, 0, 0, 0, 0>>

ReadTimeBytes(b) ==
  CASE Len(b) < 1 -> Result(ZeroTime, <<>>, ErrShort)
    [] Len(b) >= 1 /\ b[1] = mnil -> Result(ZeroTime, From(b, 1), NoError)
    [] Len(b) \in 1..14 /\ b[1] # mnil -> Result(ZeroTime, <<>>, ErrShort)
    [] OTHER ->
         IF b[1] # mext8 \/ b[2] # 12 THEN Result(ZeroTime, <<>>, badPrefix(b[1]))
         ELSE IF b[3] # TimeExtension THEN Result(ZeroTime, <<>>, errExt)
         ELSE Result(SubSeq(b, 4, 15), From(b, 15), NoError)

(* Mutant: the type is not compared.                                       *)
extensionData_AnyType(b, etype, sz, typ, off) ==
  IF Len(b) - off < sz THEN Result(<<>>, b, ErrShort)
  ELSE Result(SubSeq(b, off + 1, off + sz), From(b, off + sz), NoError)

(* The sz bytes behind a header of off bytes that announces type typ.      *)
extensionData(b, etype, sz, typ, off) ==
  CASE typ # etype -> Result(<<>>, b, errExt)
    [] typ = etype /\ Len(b) - off < sz -> Result(<<>>, b, ErrShort)
    [] OTHER -> Result(SubSeq(b, off + 1, off + sz), From(b, off + sz), NoError)

(* Into an extension whose ExtensionType() is etype; v is what             *)
(* UnmarshalBinary is given.                                               *)
ReadExtensionBytes(b, etype) ==
  LET fixsz(c) == 2^(c - mfixext1)
      data(sz, typ, off) == extensionData(b, etype, sz, typ, off)
  IN IF Len(b) < 3 THEN Result(<<>>, b, ErrShort)
     ELSE CASE b[1] \in mfixext1..mfixext16 -> data(fixsz(b[1]), b[2], 2)
            [] b[1] = mext8  -> IF b[2] = 0 THEN Result(<<>>, From(b, 3), NoError)
                                            ELSE data(b[2], b[3], 3)
            [] b[1] = mext16 -> IF Len(b) < 4 THEN Result(<<>>, b, ErrShort)
                                              ELSE data(Uint16(b), b[4], 4)
            [] b[1] = mext32 -> IF Len(b) < 6 THEN Result(<<>>, b, ErrShort)
                                ELSE IF Uint32(b) > MaxInt THEN Result(<<>>, b, ErrOverflow)
                                ELSE data(Uint32(b), b[6], 6)
            [] OTHER -> Result(<<>>, b, badPrefix(b[1]))

-----------------------------------------------------------------------------
(* Whole objects.                                                          *)

(* The loop of Skip at position i, with asz = n objects to go; skip is the *)
(* function of positions and counts that Skip computes.  An error leaves   *)
(* the slice where it was met.                                             *)
stopAt(i, err) == [at |-> i, err |-> err]

skipNext(b, skip, i, n) ==
  LET rest(r) == IF r.err # NoError THEN r ELSE skip[<<r.at, n - 1>>]
      object(g) == CASE g.err # "none" -> stopAt(i, Err(g.err, "-"))
                     [] g.err = "none" /\ Len(b) - i < g.sz -> stopAt(i, ErrShort)
                     [] OTHER -> rest(skip[<<i + g.sz, g.asz>>])
  IN IF n = 0 THEN stopAt(i, NoError) ELSE object(getSize(From(b, i)))

skipLoop(b) == LET skip[p \in (0..Len(b)) \X Nat] == skipNext(b, skip, p[1], p[2]) IN skip

SkipObjects(b, asz) ==
  LET result(end) == Result("-", From(b, end.at), end.err)
  IN result(skipLoop(b)[<<0, asz>>])

Skip(b) == SkipObjects(b, 1)

(* Raw.UnmarshalMsg; v is the new contents of *r.                          *)
ReadRaw(b) ==
  LET object(r) == SubSeq(b, 1, Len(b) - Len(r.o))
      raw(r) == IF r.err # NoError THEN Result(<<>>, b, r.err)
                ELSE Result(IF IsNil(object(r)) THEN <<>> ELSE object(r), r.o, NoError)
  IN raw(Skip(b))
=============================================================================

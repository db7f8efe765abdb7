------------------------------- MODULE Encode -------------------------------
(***************************************************************************)
(* The AppendXxxx family (write_bytes.go, extension.go) and                *)
(* Raw.MarshalMsg: each returns the slice b with one object appended.      *)
(* Growing the backing array is the subject of module Buffer; here b is    *)
(* its contents.                                                           *)
(*   - integers are 8-byte vectors (see Wire), floats their IEEE bytes;    *)
(*   - a []byte argument is [isnil, s], since AppendBytes tells nil from   *)
(*     empty.                                                              *)
(***************************************************************************)
EXTENDS Wire

AppendMapHeader(b, sz) ==
  b \o CASE sz <= 15            -> <<wfixmap(sz)>>
         [] sz \in 16..65535    -> <<mmap16>> \o PutUint16(sz)
         [] OTHER               -> <<mmap32>> \o PutUint32(sz)

AppendArrayHeader(b, sz) ==
  b \o CASE sz <= 15            -> <<wfixarray(sz)>>
         [] sz \in 16..65535    -> <<marray16>> \o PutUint16(sz)
         [] OTHER               -> <<marray32>> \o PutUint32(sz)

AppendNil(b) == Append(b, mnil)

AppendBool(b, t) == Append(b, IF t THEN mtrue ELSE mfalse)

AppendFloat64(b, f) == b \o <<mfloat64>> \o f

AppendFloat32(b, f) == b \o <<mfloat32>> \o f

AppendUint64(b, u) ==
  b \o IF FitsUnsigned(u, 1) /\ u[8] <= 127 THEN <<wfixint(u[8])>>
       ELSE IF FitsUnsigned(u, 1) THEN <<muint8>>  \o Low(u, 1)
       ELSE IF FitsUnsigned(u, 2) THEN <<muint16>> \o Low(u, 2)
       ELSE IF FitsUnsigned(u, 4) THEN <<muint32>> \o Low(u, 4)
       ELSE <<muint64>> \o u

AppendInt64(b, i) ==
  IF ~Negative(i) THEN AppendUint64(b, i)
  ELSE b \o IF FitsSigned(i, 1) /\ i[8] >= 224 THEN <<wnfixint(i[8])>>
            ELSE IF FitsSigned(i, 1) THEN <<mint8>>  \o Low(i, 1)
            ELSE IF FitsSigned(i, 2) THEN <<mint16>> \o Low(i, 2)
            ELSE IF FitsSigned(i, 4) THEN <<mint32>> \o Low(i, 4)
            ELSE <<mint64>> \o i

(* Mutant: binary data under a string's lead byte.                         *)
AppendBytes_AsString(b, bts) == b \o <<mstr8, Len(bts.s) % 256>> \o bts.s

AppendBytes(b, bts) ==
  LET sz == Len(bts.s)
      header == CASE bts.isnil         -> <<mnil>>
                  [] ~bts.isnil /\ sz <= 255         -> <<mbin8, sz>>
                  [] ~bts.isnil /\ sz \in 256..65535 -> <<mbin16>> \o PutUint16(sz)
                  [] OTHER             -> <<mbin32>> \o PutUint32(sz)
  IN b \o header \o bts.s

AppendString(b, s) ==
  LET sz == Len(s)
      header == CASE sz <= 31          -> <<wfixstr(sz)>>
                  [] sz \in 32..255    -> <<mstr8, sz>>
                  [] sz \in 256..65535 -> <<mstr16>> \o PutUint16(sz)
                  [] OTHER             -> <<mstr32>> \o PutUint32(sz)
  IN b \o header \o s

(* c is the 8, respectively 16, bytes of the real and the imaginary part.  *)
AppendComplex64(b, c)  == b \o <<mfixext8, Complex64Extension>> \o c
AppendComplex128(b, c) == b \o <<mfixext16, Complex128Extension>> \o c

(* t is Unix() and Nanosecond() as putUnix lays them out: 8 + 4 bytes.     *)
AppendTime(b, t) == b \o <<mext8, 12, TimeExtension>> \o t

(* typ is the extension's int8 type number as a byte.                      *)
AppendExtension(b, typ, data) ==
  LET l == Len(data)
      header == CASE l = 0  -> <<mext8, 0, typ>>
                  [] l = 1  -> <<mfixext1, typ>>
                  [] l = 2  -> <<mfixext2, typ>>
                  [] l = 4  -> <<mfixext4, typ>>
                  [] l = 8  -> <<mfixext8, typ>>
                  [] l = 16 -> <<mfixext16, typ>>
                  [] l \notin {0, 1, 2, 4, 8, 16} /\ l < 255 -> <<mext8, l, typ>>
                  [] l \in 255..65534 -> <<mext16>> \o PutUint16(l) \o <<typ>>
                  [] OTHER            -> <<mext32>> \o PutUint32(l) \o <<typ>>
  IN b \o header \o data

(* Mutant: an empty Raw is appended as it is.                              *)
AppendRaw_Empty(b, r) == b \o r

(* Raw.MarshalMsg: r is already one encoded object, or empty.              *)
AppendRaw(b, r) == IF r = <<>> THEN AppendNil(b) ELSE b \o r
=============================================================================

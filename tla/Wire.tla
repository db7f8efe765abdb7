-------------------------------- MODULE Wire --------------------------------
(***************************************************************************)
(* The MessagePack wire format as package msgp sees it: lead bytes         *)
(* (defs.go), the table `sizes` (elsize.go), big-endian integers           *)
(* (integers.go), the width of int (int.go) and getSize (read_bytes.go).   *)
(* A message is a sequence of bytes; b[0] of the Go code is b[1] here.  A  *)
(* 64-bit integer is the sequence of its 8 bytes, most significant first,  *)
(* in two's complement, so every comparison the code makes with a power of *)
(* two is a condition on those bytes.                                      *)
(***************************************************************************)
EXTENDS Integers, Sequences

CONSTANT MaxInt   \* the largest int of the platform (int.go)

ASSUME MaxIntAssumption == MaxInt \in Nat /\ MaxInt >= 2 * 65535 + 5

Byte == 0..255

mnfixint  == 224
mfixmap   == 128
mfixarray == 144
mfixstr   == 160
mnil      == 192
mfalse    == 194
mtrue     == 195
mbin8     == 196
mbin16    == 197
mbin32    == 198
mext8     == 199
mext16    == 200
mext32    == 201
mfloat32  == 202
mfloat64  == 203
muint8    == 204
muint16   == 205
muint32   == 206
muint64   == 207
mint8     == 208
mint16    == 209
mint32    == 210
mint64    == 211
mfixext1  == 212
mfixext2  == 213
mfixext4  == 214
mfixext8  == 215
mfixext16 == 216
mstr8     == 217
mstr16    == 218
mstr32    == 219
marray16  == 220
marray32  == 221
mmap16    == 222
mmap32    == 223

isfixint(c)   == c < 128
isnfixint(c)  == c >= mnfixint
isfixmap(c)   == c \in mfixmap..mfixmap + 15
isfixarray(c) == c \in mfixarray..mfixarray + 15
isfixstr(c)   == c \in mfixstr..mfixstr + 31

rfixmap(c)   == c % 16
rfixarray(c) == c % 16
rfixstr(c)   == c % 32

wfixint(u)   == u % 128
wnfixint(c)  == mnfixint + (c % 32)
wfixmap(u)   == mfixmap + (u % 16)
wfixarray(u) == mfixarray + (u % 16)
wfixstr(u)   == mfixstr + (u % 32)

(***************************************************************************)
(* The table `sizes`: prefix size, how the rest of the object is counted,  *)
(* and type.  A positive extra is a number of element objects, 0 is        *)
(* constsize, the negative modes say where the count is.  Byte 0xc1 has no *)
(* entry: its size is 0 and its type InvalidType.                          *)
(***************************************************************************)
constsize == 0
extra8    == -1
extra16   == -2
extra32   == -3
map16v    == -4
map32v    == -5
array16v  == -6
array32v  == -7

bytespec(size, extra, typ) == [size |-> size, extra |-> extra, typ |-> typ]

sizes(c) ==
  IF isfixint(c) \/ isnfixint(c) THEN bytespec(1, constsize, "int") ELSE
  IF isfixstr(c)              THEN bytespec(1 + rfixstr(c), constsize, "str") ELSE
  IF isfixmap(c)              THEN bytespec(1, 2 * rfixmap(c), "map") ELSE
  IF isfixarray(c)            THEN bytespec(1, rfixarray(c), "array") ELSE
  IF c = mnil                 THEN bytespec(1, constsize, "nil") ELSE
  IF c \in {mfalse, mtrue}    THEN bytespec(1, constsize, "bool") ELSE
  IF c = mbin8                THEN bytespec(2, extra8, "bin") ELSE
  IF c = mbin16               THEN bytespec(3, extra16, "bin") ELSE
  IF c = mbin32               THEN bytespec(5, extra32, "bin") ELSE
  IF c = mext8                THEN bytespec(3, extra8, "ext") ELSE
  IF c = mext16               THEN bytespec(4, extra16, "ext") ELSE
  IF c = mext32               THEN bytespec(6, extra32, "ext") ELSE
  IF c = mfloat32             THEN bytespec(5, constsize, "float32") ELSE
  IF c = mfloat64             THEN bytespec(9, constsize, "float64") ELSE
  IF c = muint8               THEN bytespec(2, constsize, "uint") ELSE
  IF c = muint16              THEN bytespec(3, constsize, "uint") ELSE
  IF c = muint32              THEN bytespec(5, constsize, "uint") ELSE
  IF c = muint64              THEN bytespec(9, constsize, "uint") ELSE
  IF c = mint8                THEN bytespec(2, constsize, "int") ELSE
  IF c = mint16               THEN bytespec(3, constsize, "int") ELSE
  IF c = mint32               THEN bytespec(5, constsize, "int") ELSE
  IF c = mint64               THEN bytespec(9, constsize, "int") ELSE
  IF c = mfixext1             THEN bytespec(3, constsize, "ext") ELSE
  IF c = mfixext2             THEN bytespec(4, constsize, "ext") ELSE
  IF c = mfixext4             THEN bytespec(6, constsize, "ext") ELSE
  IF c = mfixext8             THEN bytespec(10, constsize, "ext") ELSE
  IF c = mfixext16            THEN bytespec(18, constsize, "ext") ELSE
  IF c = mstr8                THEN bytespec(2, extra8, "str") ELSE
  IF c = mstr16               THEN bytespec(3, extra16, "str") ELSE
  IF c = mstr32               THEN bytespec(5, extra32, "str") ELSE
  IF c = marray16             THEN bytespec(3, array16v, "array") ELSE
  IF c = marray32             THEN bytespec(5, array32v, "array") ELSE
  IF c = mmap16               THEN bytespec(3, map16v, "map") ELSE
  IF c = mmap32               THEN bytespec(5, map32v, "map") ELSE
  bytespec(0, constsize, "invalid")

getType(c) == sizes(c).typ

(* The extension types the library itself uses.                            *)
Complex64Extension  == 3
Complex128Extension == 4
TimeExtension       == 5

(***************************************************************************)
(* Big-endian fields behind the lead byte, and slicing: From(b, n) is the  *)
(* Go slice b[n:].                                                         *)
(***************************************************************************)
From(b, n)  == SubSeq(b, n + 1, Len(b))
Field(b, n) == SubSeq(b, 2, n + 1)
Uint8(b)    == b[2]
Uint16(b)   == 256 * b[2] + b[3]
Uint32(b)   == 16777216 * b[2] + 65536 * b[3] + 256 * b[4] + b[5]

PutUint16(u) == <<(u \div 256) % 256, u % 256>>
PutUint32(u) == <<(u \div 16777216) % 256, (u \div 65536) % 256>> \o PutUint16(u)

(* 64-bit integers as byte vectors.                                        *)
Low(v, k)       == SubSeq(v, 9 - k, 8)
Negative(v)     == v[1] >= 128
Filled(c, n)    == [i \in 1..n |-> c]
ZeroExtend(s)   == Filled(0, 8 - Len(s)) \o s
SignExtend(s)   == Filled(IF s[1] >= 128 THEN 255 ELSE 0, 8 - Len(s)) \o s
FitsUnsigned(v, k) == ZeroExtend(Low(v, k)) = v
FitsSigned(v, k)   == SignExtend(Low(v, k)) = v

(***************************************************************************)
(* Lengths.  uintptr has one bit more than MaxInt: Uintptr reduces a sum   *)
(* of two of its values.                                                   *)
(***************************************************************************)
Uintptr(x) == IF x - MaxInt - 1 <= MaxInt THEN x ELSE x - MaxInt - 1 - MaxInt - 1

(***************************************************************************)
(* getSize: how many bytes, and then how many objects, to skip.            *)
(***************************************************************************)
Sized(n, m)     == [sz |-> n, asz |-> m, err |-> "none"]
SizeError(kind) == [sz |-> 0, asz |-> 0, err |-> kind]

(* Mutant: a map has as many objects as its count says.                    *)
sizeByMode_Pairs(b, size, mode) ==
  IF size = 0        THEN SizeError("prefix") ELSE
  IF mode >= 0       THEN Sized(size, mode) ELSE
  IF Len(b) < size   THEN SizeError("short") ELSE
  IF mode = extra8   THEN Sized(Uintptr(size + Uint8(b)), 0) ELSE
  IF mode = extra16  THEN Sized(Uintptr(size + Uint16(b)), 0) ELSE
  IF mode = extra32  THEN Sized(Uintptr(size + Uint32(b)), 0) ELSE
  IF mode \in {map16v, array16v} THEN Sized(size, Uint16(b))
                                 ELSE Sized(size, Uint32(b))

sizeByMode(b, size, mode) ==
  IF size = 0        THEN SizeError("prefix") ELSE
  IF mode >= 0       THEN Sized(size, mode) ELSE
  IF Len(b) < size   THEN SizeError("short") ELSE
  IF mode = extra8   THEN Sized(Uintptr(size + Uint8(b)), 0) ELSE
  IF mode = extra16  THEN Sized(Uintptr(size + Uint16(b)), 0) ELSE
  IF mode = extra32  THEN Sized(Uintptr(size + Uint32(b)), 0) ELSE
  IF mode = map16v   THEN Sized(size, Uintptr(2 * Uint16(b))) ELSE
  IF mode = map32v   THEN Sized(size, Uintptr(2 * Uint32(b))) ELSE
  IF mode = array16v THEN Sized(size, Uint16(b))
                     ELSE Sized(size, Uint32(b))

getSize(b) == IF Len(b) = 0 THEN SizeError("short")
              ELSE sizeByMode(b, sizes(b[1]).size, sizes(b[1]).extra)
=============================================================================

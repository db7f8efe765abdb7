--------------------------- MODULE ArrivalProofs ----------------------------
(***************************************************************************)
(* What the readers promise of each other, of NextType and of Skip, for    *)
(* every slice of bytes that can be in the buffer and every width of int.  *)
(* The buffer holds bytes (Bytewise), and each property follows from that  *)
(* for one buffer, or for two of which one is the start of the other.      *)
(***************************************************************************)
EXTENDS Arrival, ReaderProofs

(* Reading b gave r and reading d gave s, and if r is no error, s is the   *)
(* same, and n objects behind r are the rest of the object Skip skips.     *)
Kept(b, d, r, s, n) ==
  Ok(r) => /\ Ok(s) /\ s.v = r.v /\ Len(s.o) = Len(r.o) + (Len(d) - Len(b))
           /\ SkipObjects(r.o, n) = Skip(b)

(* A reader that takes the prefix the table names leaves what Skip would   *)
(* have left, but for n objects.                                           *)
LEMMA TakesKept ==
  ASSUME NEW b \in Seq(Byte), NEW d \in Seq(Byte), Longer(b, d), NEW k \in 1..Len(b), NEW n \in Nat, NEW v,
         getSize(b) = Sized(k, n)
  PROVE  Kept(b, d, Result(v, From(b, k), NoError), Result(v, From(d, k), NoError), n)
<1>1. k \in 0..Len(b) /\ 1 \in Nat \ {0} /\ n + (1 - 1) = n
  OBVIOUS
<1>2. Len(From(d, k)) = Len(From(b, k)) + (Len(d) - Len(b))
  BY <1>1, LongerRest
<1>3. SkipObjects(b, 1) = SkipObjects(From(b, k), n + (1 - 1))
  BY <1>1, SkipObject
<1>4. SkipObjects(From(b, k), n) = Skip(b)
  BY <1>1, <1>3 DEF Skip
<1> QED BY <1>2, <1>4, OkResult, SMTT(30) DEF Kept

(* Nothing is to be kept of a call without a value.                        *)
LEMMA NotKept ==
  ASSUME NEW b, NEW d, NEW r, NEW s, NEW n, ~Ok(r)
  PROVE  Kept(b, d, r, s, n)
  BY DEF Kept

(* A call that waits has no value.                                         *)
LEMMA WaitsNotOk ==
  ASSUME NEW r, Waits(r)
  PROVE  ~Ok(r)
  BY ErrorsDiffer DEF Waits, Ok

(* A steady reader keeps its value and consumes what Skip does.            *)
LEMMA SteadyKept ==
  ASSUME NEW b \in Seq(Byte), NEW d \in Seq(Byte), Longer(b, d), NEW r, NEW s, Steady(b, d, r, s)
  PROVE  Kept(b, d, r, s, 0) /\ (Ok(s) /\ ~Ok(r) => Waits(r))
<1>1. CASE Waits(r)
  BY <1>1, WaitsNotOk, NotKept
<1>2. CASE ~Ok(r) /\ ~Ok(s)
  BY <1>2, NotKept
<1>3. ASSUME NEW k \in 1..Len(b), NEW v, Takes(b, d, k, 0, v, r, s)
      PROVE  Kept(b, d, r, s, 0) /\ Ok(r)
  <2>1. r = Result(v, From(b, k), NoError) /\ s = Result(v, From(d, k), NoError) /\ getSize(b) = Sized(k, 0) /\ 0 \in Nat
    BY <1>3 DEF Takes
  <2>2. Kept(b, d, r, s, 0)
    BY <2>1, TakesKept
  <2> QED BY <2>1, <2>2, OkResult
<1> QED BY <1>1, <1>2, <1>3 DEF Steady

(* What a client of such a reader relies on: a value is kept, and only a   *)
(* reader that waits, or one that took the bytes for another type, may     *)
(* succeed later.                                                          *)
Meets(b, d, r, s) == Kept(b, d, r, s, 0) /\ (Ok(s) /\ ~Ok(r) => Waits(r) \/ r.err.kind = "type")

(* A steady reader meets what a client relies on.                          *)
LEMMA SteadyMeets ==
  ASSUME NEW b \in Seq(Byte), NEW d \in Seq(Byte), Longer(b, d), NEW r, NEW s, Steady(b, d, r, s)
  PROVE  Meets(b, d, r, s)
  BY SteadyKept DEF Meets

(* A call that asks for more bytes does too.                               *)
LEMMA MeetsWaits ==
  ASSUME NEW b, NEW d, NEW v, NEW o, NEW s
  PROVE  Meets(b, d, Result(v, o, ErrShort), s)
<1>1. Waits(Result(v, o, ErrShort))
  BY OkResult DEF Waits
<1> QED BY <1>1, WaitsNotOk, NotKept DEF Meets

(* So does one that reads nil.                                             *)
LEMMA MeetsNil ==
  ASSUME NEW b \in Seq(Byte), NEW d \in Seq(Byte), Longer(b, d), Len(b) >= 1, b[1] = mnil, NEW v
  PROVE  Kept(b, d, Result(v, From(b, 1), NoError), Result(v, From(d, 1), NoError), 0)
         /\ Meets(b, d, Result(v, From(b, 1), NoError), Result(v, From(d, 1), NoError))
<1>1. getSize(b) = Sized(1, 0) /\ 1 \in 1..Len(b) /\ 0 \in Nat
  BY NilSize
<1>2. Kept(b, d, Result(v, From(b, 1), NoError), Result(v, From(d, 1), NoError), 0)
  BY <1>1, TakesKept
<1> QED BY <1>2, OkResult DEF Meets

(* The value in another form.                                              *)
LEMMA MeetsAs ==
  ASSUME NEW b, NEW d, NEW r, NEW s, Meets(b, d, r, s), NEW q, NEW t, q.err = r.err, t.err = s.err, q.o = r.o, t.o = s.o,
         Ok(r) /\ s.v = r.v => t.v = q.v
  PROVE  Meets(b, d, q, t)
<1>1. (Ok(q) <=> Ok(r)) /\ (Ok(t) <=> Ok(s)) /\ (Waits(q) <=> Waits(r))
  BY DEF Ok, Waits
<1> QED BY <1>1 DEF Meets, Kept

(* A reader that reports another error in the place of its own.            *)
LEMMA ReportedIs ==
  ASSUME NEW r, IsResult(r), NEW x
  PROVE  /\ Ok(r) => Reported(r, x) = r
         /\ ~Ok(r) => Reported(r, x) = Result(r.v, r.o, x)
<1>1. CASE Ok(r)
  BY <1>1 DEF IsResult, Reported, Result, Ok
<1>2. CASE ~Ok(r)
  BY <1>2 DEF IsResult, Reported, Result, Ok
<1> QED BY <1>1, <1>2

(* The contents of the slice a reader returns.                             *)
LEMMA ContentsIs ==
  ASSUME NEW r, IsResult(r)
  PROVE  contents(r) = Result(r.v.s, r.o, r.err)
  BY DEF IsResult, contents, Result

(* badPrefix is a type error, unless no type has the byte.                 *)
LEMMA BadPrefixKind ==
  ASSUME NEW c \in Byte
  PROVE  badPrefix(c).kind = "type" \/ getType(c) = "invalid"
  BY Zenon DEF badPrefix, TypeError, Err

-----------------------------------------------------------------------------

(* nil is no header of bytes.                                              *)
LEMMA NilNoBlob ==
 ~BlobLead(mnil) /\ ~strLead(mnil)
  BY DEF BlobLead, strLead, binLead, isfixstr, mnil, mfixstr, mstr8, mstr32, mbin8, mbin32

(* A reader of bytes returns a slice that is not nil, or nil with the      *)
(* error.                                                                  *)
LEMMA SlicedIs ==
  ASSUME NEW r, IsResult(r)
  PROVE  Sliced(r) = Result(IF Ok(r) THEN Bytes(r.v) ELSE NilBytes, r.o, r.err)
<1>1. CASE Ok(r)
  BY <1>1 DEF IsResult, Sliced, Result, Ok
<1>2. CASE ~Ok(r)
  BY <1>2 DEF IsResult, Sliced, Result, Ok
<1> QED BY <1>1, <1>2

(* The three ways of readBytesBytes.                                       *)
LEMMA BytesCases ==
  ASSUME NEW b \in Seq(Byte), NEW m
  PROVE  /\ Len(b) < 1 => readBytesBytes(b, m) = Result(NilBytes, <<>>, ErrShort)
         /\ ~(Len(b) < 1) =>
              /\ BlobLead(b[1]) => readBytesBytes(b, m) = Sliced(blob(b, blobHeader(b)))
              /\ b[1] = mnil => readBytesBytes(b, m) = Result(NilBytes, From(b, 1), NoError)
              /\ ~BlobLead(b[1]) /\ b[1] # mnil =>
                   readBytesBytes(b, m) = Reported(readBytesBytesSlow(b, m), badPrefix(b[1]))
<1>0. b[1] = mnil => ~BlobLead(b[1])
  BY NilNoBlob
<1> HIDE DEF mnil
<1>1. CASE Len(b) < 1
  BY <1>1, Zenon DEF readBytesBytes
<1>2. CASE ~(Len(b) < 1) /\ BlobLead(b[1])
  BY <1>0, <1>2, Zenon DEF readBytesBytes, Sliced, BlobLead
<1>3. CASE ~(Len(b) < 1) /\ b[1] = mnil
  BY <1>0, <1>3, Zenon DEF readBytesBytes, BlobLead
<1>4. CASE ~(Len(b) < 1) /\ ~BlobLead(b[1]) /\ b[1] # mnil
  BY <1>4, Zenon DEF readBytesBytes, BlobLead
<1> QED BY <1>0, <1>1, <1>2, <1>3, <1>4, Zenon

(* The array of numbers as a slice.                                        *)
AsBytes(r) == [r EXCEPT !.v = Bytes(@)]

(* readBytesBytesSlow keeps a value.                                       *)
SlowKeeps(b, d, m) ==
  LET r == readBytesBytesSlow(b, m)
      s == readBytesBytesSlow(d, m)
      h == readArrayHeaderBytes(b, m)
  IN Ok(r) => /\ Kept(b, d, r, s, 0) /\ Ok(h)
              /\ h.sz \in Nat /\ \E v \in [1..h.sz -> Byte] : r.v = Bytes(v)
              /\ r = Result(r.v, r.o, r.err) /\ s = Result(s.v, s.o, s.err)

(* AnnouncedLength, of any slice.                                          *)
AnnouncedIn(b) ==
  LET h == ReadBytesBytesHeader(b)
      r == ReadBytesBytes(b)
  IN Ok(r) => Ok(h) /\ h.sz = Len(r.v.s)

(* What the reader of a byte slice promises.                               *)
LEMMA ByteSlices ==
  \A b \in Seq(Byte) :
    /\ AnnouncedIn(b)
    /\ \A d \in Seq(Byte), m \in BOOLEAN : Longer(b, d) =>
         Meets(b, d, readBytesBytes(b, m), readBytesBytes(d, m)) /\ IsResult(readBytesBytes(b, m))
<1>SlowCases. ASSUME NEW b, NEW m, NEW h, h = readArrayHeaderBytes(b, m)
              PROVE  /\ ~Ok(h) => readBytesBytesSlow(b, m) = Result(NilBytes, h.o, h.err)
                     /\ Ok(h) /\ Len(h.o) < h.sz => readBytesBytesSlow(b, m) = Result(NilBytes, h.o, ErrShort)
                     /\ Ok(h) /\ ~(Len(h.o) < h.sz) => readBytesBytesSlow(b, m) = AsBytes(readByteObjects(h.o, h.sz, Zero(h.sz)))
  <2> USE <1>SlowCases
  <2>1. CASE ~Ok(h)
    BY <2>1, Zenon DEF readBytesBytesSlow, Ok
  <2>2. CASE Ok(h) /\ Len(h.o) < h.sz
    BY <2>2, Zenon DEF readBytesBytesSlow, Ok
  <2>3. CASE Ok(h) /\ ~(Len(h.o) < h.sz)
    BY <2>3, Zenon DEF readBytesBytesSlow, Ok, AsBytes
  <2> QED BY <2>1, <2>2, <2>3, Zenon
<1>ZeroArray. ASSUME NEW c \in Nat
              PROVE  Zero(c) \in [1..c -> Byte]
  BY DEF Zero, Filled, Byte
<1>SlowKept. ASSUME NEW b \in Seq(Byte), NEW d \in Seq(Byte), Longer(b, d), NEW m \in BOOLEAN
             PROVE  SlowKeeps(b, d, m)
  <2> USE <1>SlowKept
  <2>0. PICK r, s, h, g : /\ r = readBytesBytesSlow(b, m) /\ s = readBytesBytesSlow(d, m)
                          /\ h = readArrayHeaderBytes(b, m) /\ g = readArrayHeaderBytes(d, m)
    BY Zenon
  <2> SUFFICES ASSUME Ok(r)
               PROVE  /\ Kept(b, d, r, s, 0) /\ Ok(h)
                      /\ h.sz \in Nat /\ \E v \in [1..h.sz -> Byte] : r.v = Bytes(v)
                      /\ r = Result(r.v, r.o, r.err) /\ s = Result(s.v, s.o, s.err)
    BY <2>0, Zenon DEF SlowKeeps
  <2>1. Ok(h)
    <3> SUFFICES ASSUME ~Ok(h) PROVE FALSE
      OBVIOUS
    <3>1. r = Result(NilBytes, h.o, h.err)
      BY <2>0, <1>SlowCases, Zenon
    <3> QED BY <3>1, OkResult DEF Ok
  <2>2. ~(Len(h.o) < h.sz)
    <3> SUFFICES ASSUME Len(h.o) < h.sz PROVE FALSE
      OBVIOUS
    <3>1. r = Result(NilBytes, h.o, ErrShort)
      BY <2>0, <2>1, <1>SlowCases, Zenon
    <3> QED BY <3>1, OkResult, ErrorsDiffer
  <2>3. HeaderSteady(b, d, 1, h, g)
    BY <2>0, HeaderReaders, Zenon
  <2>4. h.err # ErrShort
    BY <2>1, ErrorsDiffer DEF Ok
  <2>5. PICK k \in 1..Len(b), c \in Nat : HeadTakes(b, d, k, 1, c, h, g)
    BY <2>1, <2>3, <2>4 DEF HeaderSteady
  <2>6. h.o = From(b, k) /\ h.sz = c /\ g.o = From(d, k) /\ g.sz = c /\ Ok(g) /\ getSize(b) = Sized(k, 1 * c) /\ 1 * c = c
    BY <2>5 DEF HeadTakes, Ok
  <2>7. k \in 0..Len(b) /\ 1 \in Nat \ {0} /\ c + (1 - 1) = c
    OBVIOUS
  <2>8. PICK o \in Seq(Byte), p \in Seq(Byte) : o = From(b, k) /\ p = From(d, k) /\ Longer(o, p) /\ Len(p) = Len(o) + (Len(d) - Len(b))
    BY <2>7, LongerRest
  <2>9. Len(o) \in Nat /\ Len(p) \in Nat /\ ~(Len(o) < c) /\ ~(Len(p) < c) /\ Len(p) - Len(o) = Len(d) - Len(b)
    <3>1. Len(o) <= Len(p) /\ ~(Len(o) < c)
      BY <2>2, <2>6, <2>8 DEF Longer
    <3> QED BY <2>8, <3>1
  <2>10a. Zero(c) \in [1..c -> Byte]
    BY <1>ZeroArray
  <2>10b. PICK z \in [1..c -> Byte] : z = Zero(c)
    BY <2>10a, Zenon
  <2>10. PICK R, S : R = readByteObjects(o, c, z) /\ S = readByteObjects(p, c, z)
    BY Zenon
  <2>11. r = AsBytes(R)
    <3>1. readBytesBytesSlow(b, m) = AsBytes(readByteObjects(h.o, h.sz, Zero(h.sz)))
      BY <2>0, <2>1, <2>2, <1>SlowCases, Zenon
    <3>2. h.o = o /\ h.sz = c
      BY <2>6, <2>8
    <3> QED BY <2>0, <2>10, <2>10b, <3>1, <3>2, Zenon
  <2>12. s = AsBytes(S)
    <3>2. g.o = p /\ g.sz = c /\ Ok(g)
      BY <2>6, <2>8
    <3>3. ~(Len(g.o) < g.sz)
      BY <2>9, <3>2
    <3>1. readBytesBytesSlow(d, m) = AsBytes(readByteObjects(g.o, g.sz, Zero(g.sz)))
      BY <2>0, <3>2, <3>3, <1>SlowCases, Zenon
    <3> QED BY <2>0, <2>10, <2>10b, <3>1, <3>2, Zenon
  <2>13. R = Result(R.v, R.o, R.err) /\ S = Result(S.v, S.o, S.err)
    BY <2>10, ByteObjects, Zenon DEF IsResult
  <2>14. r = Result(Bytes(R.v), R.o, R.err) /\ s = Result(Bytes(S.v), S.o, S.err)
    BY <2>11, <2>12, <2>13, Zenon DEF Result, AsBytes
  <2>15. Ok(R)
    BY <2>14, OkResult DEF Ok
  <2>16. /\ Ok(S) /\ S.v = R.v /\ R.v \in [1..c -> Byte]
         /\ R.o \in Seq(Byte) /\ Len(S.o) = Len(R.o) + (Len(p) - Len(o))
         /\ SkipObjects(R.o, 0) = SkipObjects(o, c)
    <3>1. Ok(readByteObjects(o, c, z)) /\ Longer(o, p)
      BY <2>8, <2>10, <2>15
    <3>2. ObjectsKeep(o, p, c, c, z)
      BY <3>1, ByteObjects, Zenon
    <3> QED BY <2>10, <3>2, Zenon DEF ObjectsKeep
  <2>17. SkipObjects(o, c) = Skip(b)
    <3>1. SkipObjects(b, 1) = SkipObjects(From(b, k), c + (1 - 1))
      BY <2>6, <2>7, SkipObject
    <3> QED BY <2>7, <2>8, <3>1 DEF Skip
  <2>18. /\ r.v = Bytes(R.v) /\ r.o = R.o /\ r.err = R.err
         /\ s.v = Bytes(S.v) /\ s.o = S.o /\ s.err = S.err
    BY <2>14, OkResult
  <2>19. Kept(b, d, r, s, 0)
    BY <2>9, <2>16, <2>17, <2>18, Zenon DEF Kept, Ok
  <2> QED BY <2>1, <2>6, <2>14, <2>16, <2>18, <2>19
<1>SlowResult. \A b \in Seq(Byte), m \in BOOLEAN :
                 IsResult(readBytesBytesSlow(b, m))
  <2>AsBytesIs. ASSUME NEW r, IsResult(r)
                PROVE  AsBytes(r) = Result(Bytes(r.v), r.o, r.err)
    BY <2>AsBytesIs DEF IsResult, AsBytes, Result
  <2> SUFFICES ASSUME NEW b \in Seq(Byte), NEW m \in BOOLEAN
               PROVE  IsResult(readBytesBytesSlow(b, m))
    OBVIOUS
  <2>0. PICK h : h = readArrayHeaderBytes(b, m)
    BY Zenon
  <2>1. CASE ~Ok(h)
    BY <2>0, <2>1, <1>SlowCases, ResultIs
  <2>3. CASE Ok(h) /\ Len(h.o) < h.sz
    BY <2>0, <2>3, <1>SlowCases, ResultIs
  <2>2. CASE Ok(h) /\ ~(Len(h.o) < h.sz)
    <3>1. h.o \in Seq(Byte) /\ h.sz \in Nat
      BY <2>0, <2>2, HeaderReaders
    <3>2. IsResult(readByteObjects(h.o, h.sz, Zero(h.sz)))
      BY <3>1, <1>ZeroArray, ByteObjects, Zenon DEF IsResult
    <3>3. readBytesBytesSlow(b, m) = AsBytes(readByteObjects(h.o, h.sz, Zero(h.sz)))
      BY <2>0, <2>2, <1>SlowCases, Zenon
    <3> QED BY <3>2, <3>3, <2>AsBytesIs, ResultIs, Zenon
  <2> QED BY <2>1, <2>2, <2>3
<1>BytesMeets. \A b \in Seq(Byte), d \in Seq(Byte), m \in BOOLEAN :
                 Longer(b, d) =>
                   Meets(b, d, readBytesBytes(b, m), readBytesBytes(d, m)) /\ IsResult(readBytesBytes(b, m))
  <2>SlicedMeets. ASSUME NEW b, NEW d, NEW r, NEW s, Meets(b, d, r, s), IsResult(r), IsResult(s)
                  PROVE  Meets(b, d, Sliced(r), Sliced(s)) /\ IsResult(Sliced(r)) /\ Sliced(r).err = r.err
    <3> USE <2>SlicedMeets
    <3>1. /\ Sliced(r) = Result(IF Ok(r) THEN Bytes(r.v) ELSE NilBytes, r.o, r.err)
          /\ Sliced(s) = Result(IF Ok(s) THEN Bytes(s.v) ELSE NilBytes, s.o, s.err)
      BY SlicedIs
    <3>2. /\ Sliced(r).v = (IF Ok(r) THEN Bytes(r.v) ELSE NilBytes) /\ Sliced(r).o = r.o /\ Sliced(r).err = r.err
          /\ Sliced(s).v = (IF Ok(s) THEN Bytes(s.v) ELSE NilBytes) /\ Sliced(s).o = s.o /\ Sliced(s).err = s.err
      BY <3>1, OkResult
    <3>3. ASSUME Ok(r), s.v = r.v PROVE Sliced(s).v = Sliced(r).v
      <4>1. Ok(s)
        BY <3>3 DEF Meets, Kept
      <4> QED BY <3>2, <3>3, <4>1, Zenon
    <3>4. Meets(b, d, Sliced(r), Sliced(s))
      BY <3>2, <3>3, MeetsAs
    <3> QED BY <3>1, <3>2, <3>4, ResultIs
  <2>SlowMeets. ASSUME NEW b \in Seq(Byte), NEW d \in Seq(Byte), Longer(b, d), NEW m \in BOOLEAN, Len(b) >= 1,
                       NEW r, NEW s, r = Reported(readBytesBytesSlow(b, m), badPrefix(b[1])),
                       s = Reported(readBytesBytesSlow(d, m), badPrefix(d[1]))
                PROVE  Meets(b, d, r, s) /\ IsResult(r)
    <3> USE <2>SlowMeets
    <3>0. PICK q, t : q = readBytesBytesSlow(b, m) /\ t = readBytesBytesSlow(d, m)
      BY Zenon
    <3>1. IsResult(q) /\ IsResult(t)
      BY <3>0, <1>SlowResult
    <3>2. d[1] = b[1] /\ b[1] \in Byte /\ Len(d) >= 1
      BY SameFields, Elements
    <3>3. CASE Ok(q)
      <4>1. Kept(b, d, q, t, 0)
        BY <3>0, <3>3, <1>SlowKept, Zenon DEF SlowKeeps
      <4>2. Ok(t)
        BY <3>3, <4>1 DEF Kept
      <4>3. r = q /\ s = t
        BY <3>0, <3>1, <3>3, <4>2, ReportedIs, Zenon
      <4> QED BY <3>1, <3>3, <4>1, <4>3 DEF Meets
    <3>4. CASE ~Ok(q)
      <4>1. r = Result(q.v, q.o, badPrefix(b[1]))
        BY <3>0, <3>1, <3>4, ReportedIs, Zenon
      <4>2. ~Ok(r) /\ r.err = badPrefix(b[1]) /\ IsResult(r)
        BY <4>1, OkResult, ErrorsDiffer, ResultIs
      <4>3. ASSUME Ok(s), getType(b[1]) = "invalid" PROVE FALSE
        <5>1. ~Ok(readArrayHeaderBytes(d, m))
          BY <3>2, <4>3, HeaderReaders
        <5>2. PICK h : h = readArrayHeaderBytes(d, m)
          BY Zenon
        <5>3. t = Result(NilBytes, h.o, h.err) /\ ~Ok(h)
          BY <3>0, <5>1, <5>2, <1>SlowCases, Zenon
        <5>4. ~Ok(t)
          BY <5>3, OkResult DEF Ok
        <5>5. s = Result(t.v, t.o, badPrefix(d[1]))
          BY <3>0, <3>1, <5>4, ReportedIs, Zenon
        <5> QED BY <4>3, <5>5, OkResult, ErrorsDiffer
      <4>4. Ok(s) => r.err.kind = "type"
        BY <3>2, <4>2, <4>3, BadPrefixKind
      <4> QED BY <4>2, <4>4, NotKept DEF Meets
    <3> QED BY <3>3, <3>4
  <2> SUFFICES ASSUME NEW b \in Seq(Byte), NEW d \in Seq(Byte), Longer(b, d), NEW m \in BOOLEAN
               PROVE  Meets(b, d, readBytesBytes(b, m), readBytesBytes(d, m)) /\ IsResult(readBytesBytes(b, m))
    OBVIOUS
  <2>0. PICK r, s : r = readBytesBytes(b, m) /\ s = readBytesBytes(d, m)
    BY Zenon
  <2>1. CASE Len(b) < 1
    <3>1. r = Result(NilBytes, <<>>, ErrShort)
      BY <2>0, <2>1, BytesCases
    <3> QED BY <2>0, <3>1, MeetsWaits, ResultIs
  <2>2. CASE ~(Len(b) < 1)
    <3>1. d[1] = b[1] /\ Len(b) >= 1 /\ ~(Len(d) < 1)
      BY <2>2, SameFields
    <3>2. CASE BlobLead(b[1])
      <4>0. PICK q, t : q = blob(b, blobHeader(b)) /\ t = blob(d, blobHeader(d))
        BY Zenon
      <4>1. Steady(b, d, q, t)
        BY <3>1, <3>2, <4>0, BlobReaders DEF BlobLead
      <4>2. Meets(b, d, q, t) /\ IsResult(q) /\ IsResult(t)
        BY <4>0, <4>1, SteadyMeets, BlobResult
      <4>3. r = Sliced(q) /\ s = Sliced(t)
        BY <2>0, <2>2, <3>1, <3>2, <4>0, BytesCases, Zenon
      <4> QED BY <2>0, <4>2, <4>3, <2>SlicedMeets
    <3>3. CASE b[1] = mnil
      <4>1. r = Result(NilBytes, From(b, 1), NoError) /\ s = Result(NilBytes, From(d, 1), NoError)
        BY <2>0, <2>2, <3>1, <3>3, BytesCases, Zenon
      <4> QED BY <2>0, <3>1, <3>3, <4>1, MeetsNil, ResultIs, Zenon
    <3>4. CASE ~BlobLead(b[1]) /\ b[1] # mnil
      <4>1. /\ r = Reported(readBytesBytesSlow(b, m), badPrefix(b[1]))
            /\ s = Reported(readBytesBytesSlow(d, m), badPrefix(d[1]))
        BY <2>0, <2>2, <3>1, <3>4, BytesCases, Zenon
      <4> QED BY <2>0, <3>1, <4>1, <2>SlowMeets, Zenon
    <3> QED BY <3>2, <3>3, <3>4
  <2> QED BY <2>1, <2>2
<1>LengthIs. \A b \in Seq(Byte) :
               AnnouncedIn(b)
  <2>HeaderCases. ASSUME NEW b
                  PROVE  /\ ~(Len(b) < 1) /\ BlobLead(b[1]) =>
                              ReadBytesBytesHeader(b).sz = blobHeader(b).read /\ ReadBytesBytesHeader(b).err = blobHeader(b).err
                         /\ ~(Len(b) < 1) /\ b[1] = mnil => ReadBytesBytesHeader(b) = Header(0, FALSE, <<>>)
                         /\ ~(Len(b) < 1) /\ ~BlobLead(b[1]) /\ b[1] # mnil => ReadBytesBytesHeader(b) = readArrayHeaderBytes(b, TRUE)
    <3>0. b[1] = mnil => ~BlobLead(b[1])
      BY NilNoBlob
    <3>1. ASSUME ~(Len(b) < 1), BlobLead(b[1])
          PROVE  ReadBytesBytesHeader(b).sz = blobHeader(b).read /\ ReadBytesBytesHeader(b).err = blobHeader(b).err
      <4>1. ReadBytesBytesHeader(b) = [HeaderError(<<>>, blobHeader(b).err) EXCEPT !.sz = blobHeader(b).read]
        BY <3>1, Zenon DEF ReadBytesBytesHeader, BlobLead
      <4> QED BY <4>1 DEF HeaderError
    <3>2. ASSUME ~(Len(b) < 1), b[1] = mnil PROVE ReadBytesBytesHeader(b) = Header(0, FALSE, <<>>)
      BY <3>0, <3>2, Zenon DEF ReadBytesBytesHeader, BlobLead
    <3>3. ASSUME ~(Len(b) < 1), ~BlobLead(b[1]), b[1] # mnil
          PROVE  ReadBytesBytesHeader(b) = readArrayHeaderBytes(b, TRUE)
      BY <3>3, Zenon DEF ReadBytesBytesHeader, BlobLead
    <3> QED BY <3>1, <3>2, <3>3, Zenon
  <2>BlobLength. \A b \in Seq(Byte) :
                   /\ Len(b) >= 1
                   /\ BlobLead(b[1])
                   =>
                     AnnouncedIn(b)
    <3> SUFFICES ASSUME NEW b \in Seq(Byte), Len(b) >= 1, BlobLead(b[1])
                 PROVE  AnnouncedIn(b)
      OBVIOUS
    <3>0. PICK r, h, q : r = ReadBytesBytes(b) /\ h = ReadBytesBytesHeader(b) /\ q = blob(b, blobHeader(b)) /\ IsResult(q)
      BY BlobResult, Zenon
    <3> SUFFICES ASSUME Ok(r) PROVE Ok(h) /\ h.sz = Len(r.v.s)
      BY <3>0, Zenon DEF AnnouncedIn
    <3>1. ~(Len(b) < 1)
      OBVIOUS
    <3>2. r = Sliced(q)
      BY <3>0, <3>1, BytesCases, Zenon DEF ReadBytesBytes
    <3>3. Sliced(q) = Result(IF Ok(q) THEN Bytes(q.v) ELSE NilBytes, q.o, q.err)
      BY <3>0, SlicedIs
    <3>4. Ok(q)
      BY <3>2, <3>3, OkResult DEF Ok
    <3>5. r.v = Bytes(q.v)
      <4>1. (IF Ok(q) THEN Bytes(q.v) ELSE NilBytes) = Bytes(q.v)
        BY <3>4, Zenon
      <4>2. r = Result(Bytes(q.v), q.o, q.err)
        BY <3>2, <3>3, <4>1, Zenon
      <4> QED BY <4>2, OkResult
    <3>12. blobHeader(b).err = NoError /\ Len(q.v) = blobHeader(b).read
      BY <3>0, <3>4, BlobReaders
    <3>13. r.v.s = q.v
      BY <3>5 DEF Bytes
    <3>14. h.sz = blobHeader(b).read /\ h.err = blobHeader(b).err
      BY <3>0, <3>1, <2>HeaderCases, Zenon
    <3> QED BY <3>12, <3>13, <3>14 DEF Ok
  <2>SlowLength. ASSUME NEW b \in Seq(Byte), Len(b) >= 1, ~BlobLead(b[1]), b[1] # mnil
                 PROVE  AnnouncedIn(b)
    <3> USE <2>SlowLength
    <3>0. PICK r, h, q : r = ReadBytesBytes(b) /\ h = ReadBytesBytesHeader(b) /\ q = readBytesBytesSlow(b, TRUE)
      BY Zenon
    <3>0a. ~(Len(b) < 1)
      OBVIOUS
    <3> SUFFICES ASSUME Ok(r) PROVE Ok(h) /\ h.sz = Len(r.v.s)
      BY <3>0, Zenon DEF AnnouncedIn
    <3>1. h = readArrayHeaderBytes(b, TRUE)
      BY <3>0, <3>0a, <2>HeaderCases, Zenon
    <3>2. r = Reported(q, badPrefix(b[1]))
      BY <3>0, <3>0a, BytesCases, Zenon DEF ReadBytesBytes
    <3>3. IsResult(q)
      BY <3>0, <1>SlowResult, Zenon
    <3>4. Ok(q)
      <4> SUFFICES ASSUME ~Ok(q) PROVE FALSE
        OBVIOUS
      <4>1. r = Result(q.v, q.o, badPrefix(b[1]))
        BY <3>2, <3>3, ReportedIs, Zenon
      <4> QED BY <4>1, OkResult, ErrorsDiffer
    <3>5. r = q
      BY <3>2, <3>3, <3>4, ReportedIs, Zenon
    <3>6. SlowKeeps(b, b, TRUE)
      BY LongerSelf, <1>SlowKept, Zenon
    <3>7. Ok(h) /\ h.sz \in Nat /\ \E v \in [1..h.sz -> Byte] : q.v = Bytes(v)
      BY <3>0, <3>1, <3>4, <3>6, ZenonT(60) DEF SlowKeeps
    <3>8a. PICK n \in Nat : n = h.sz
      BY <3>7, Zenon
    <3>8. PICK v \in [1..n -> Byte] : q.v = Bytes(v)
      BY <3>7, <3>8a, Zenon
    <3>9. v \in Seq(Byte) /\ Len(v) = n
      OBVIOUS
    <3>10. r.v.s = v
      BY <3>5, <3>8 DEF Bytes
    <3> QED BY <3>7, <3>8a, <3>9, <3>10, SMTT(30)
  <2>NilLength. ASSUME NEW b \in Seq(Byte), Len(b) >= 1, b[1] = mnil
                PROVE  AnnouncedIn(b)
    <3> USE <2>NilLength
    <3>1. ~(Len(b) < 1)
      OBVIOUS
    <3>2. ReadBytesBytes(b) = Result(NilBytes, From(b, 1), NoError)
      BY <3>1, BytesCases, Zenon DEF ReadBytesBytes
    <3>3. ReadBytesBytesHeader(b) = Header(0, FALSE, <<>>)
      BY <3>1, <2>HeaderCases, Zenon
    <3>4. Len(NilBytes.s) = 0
      BY DEF NilBytes
    <3>5. ReadBytesBytes(b).v = NilBytes
      BY <3>2, OkResult
    <3>6. Ok(ReadBytesBytesHeader(b)) /\ ReadBytesBytesHeader(b).sz = 0
      BY <3>3 DEF Header, Ok
    <3> QED BY <3>4, <3>5, <3>6, ZenonT(60) DEF AnnouncedIn
  <2> SUFFICES ASSUME NEW b \in Seq(Byte)
               PROVE  AnnouncedIn(b)
    OBVIOUS
  <2>1. CASE Len(b) < 1
    <3>1. ReadBytesBytes(b) = Result(NilBytes, <<>>, ErrShort)
      BY <2>1, BytesCases, Zenon DEF ReadBytesBytes
    <3>2. ~Ok(ReadBytesBytes(b))
      BY <3>1, OkResult, ErrorsDiffer
    <3> QED BY <3>2, Zenon DEF AnnouncedIn
  <2>2. CASE ~(Len(b) < 1)
    <3>1. Len(b) >= 1
      BY <2>2
    <3> QED BY <3>1, <2>BlobLength, <2>SlowLength, <2>NilLength
  <2> QED BY <2>1, <2>2
<1> QED
  BY <1>BytesMeets, <1>LengthIs, Zenon

-----------------------------------------------------------------------------

(* The contents of a slice meet what the slice does.                       *)
LEMMA ContentsMeets ==
  ASSUME NEW b, NEW d, NEW r, NEW s, Meets(b, d, r, s), IsResult(r), IsResult(s)
  PROVE  Meets(b, d, contents(r), contents(s)) /\ IsResult(contents(r)) /\ IsResult(contents(s))
         /\ contents(r).err = r.err /\ contents(s).err = s.err
<1>1. contents(r) = Result(r.v.s, r.o, r.err) /\ contents(s) = Result(s.v.s, s.o, s.err)
  BY ContentsIs
<1>2. /\ contents(r).v = r.v.s /\ contents(r).o = r.o /\ contents(r).err = r.err
      /\ contents(s).v = s.v.s /\ contents(s).o = s.o /\ contents(s).err = s.err
  BY <1>1, OkResult
<1>3. Ok(r) /\ s.v = r.v => contents(s).v = contents(r).v
  BY <1>2, Zenon
<1>4. Meets(b, d, contents(r), contents(s))
  BY <1>2, <1>3, MeetsAs
<1> QED BY <1>1, <1>2, <1>4, ResultIs

(* What the readers of a string and of a map key promise.                  *)
LEMMA StringReaders ==
  \A b \in Seq(Byte) :
    /\ Len(b) >= 1 /\ strLead(b[1]) => ReadStringZC(b).err \in Wants
    /\ \A d \in Seq(Byte) : Longer(b, d) => /\ Meets(b, d, ReadStringZC(b), ReadStringZC(d))
                                            /\ Meets(b, d, ReadMapKeyZC(b), ReadMapKeyZC(d))
<1>StringCases. ASSUME NEW b \in Seq(Byte)
                PROVE  /\ Len(b) < 1 => ReadStringZC(b) = Result(<<>>, <<>>, ErrShort)
                       /\ ~(Len(b) < 1) =>
                            /\ strLead(b[1]) => ReadStringZC(b) = blob(b, blobHeader(b))
                            /\ b[1] = mnil => ReadStringZC(b) = Result(<<>>, From(b, 1), NoError)
                            /\ ~strLead(b[1]) /\ b[1] # mnil =>
                                 ReadStringZC(b) = Reported(contents(readBytesBytes(b, FALSE)), TypeError(getType(b[1])))
  <2>0. b[1] = mnil => ~strLead(b[1])
    BY NilNoBlob
  <2> HIDE DEF mnil
  <2>1. CASE Len(b) < 1
    BY <2>1, Zenon DEF ReadStringZC
  <2>2. CASE ~(Len(b) < 1) /\ strLead(b[1])
    BY <2>0, <2>2, Zenon DEF ReadStringZC
  <2>3. CASE ~(Len(b) < 1) /\ b[1] = mnil
    BY <2>0, <2>3, Zenon DEF ReadStringZC
  <2>4. CASE ~(Len(b) < 1) /\ ~strLead(b[1]) /\ b[1] # mnil
    BY <2>4, Zenon DEF ReadStringZC
  <2> QED BY <2>0, <2>1, <2>2, <2>3, <2>4, Zenon
<1>StringMeets. \A b \in Seq(Byte), d \in Seq(Byte) :
                  Longer(b, d) =>
                    Meets(b, d, ReadStringZC(b), ReadStringZC(d))
  <2>TypeErrorMeets. ASSUME NEW b, NEW d, NEW v, NEW o, NEW t, NEW s
                     PROVE  Meets(b, d, Result(v, o, TypeError(t)), s)
    <3>1. ~Ok(Result(v, o, TypeError(t))) /\ Result(v, o, TypeError(t)).err.kind = "type"
      BY OkResult, ErrorsDiffer DEF TypeError, Err
    <3> QED BY <3>1, NotKept DEF Meets
  <2> SUFFICES ASSUME NEW b \in Seq(Byte), NEW d \in Seq(Byte), Longer(b, d)
               PROVE  Meets(b, d, ReadStringZC(b), ReadStringZC(d))
    OBVIOUS
  <2>0. PICK r, s : r = ReadStringZC(b) /\ s = ReadStringZC(d)
    BY Zenon
  <2>1. CASE Len(b) < 1
    <3>1. r = Result(<<>>, <<>>, ErrShort)
      BY <2>0, <2>1, <1>StringCases, Zenon
    <3> QED BY <2>0, <3>1, MeetsWaits, Zenon
  <2>2. CASE ~(Len(b) < 1)
    <3>1. d[1] = b[1] /\ Len(b) >= 1 /\ ~(Len(d) < 1)
      BY <2>2, SameFields
    <3>2. CASE strLead(b[1])
      <4>1. Steady(b, d, blob(b, blobHeader(b)), blob(d, blobHeader(d)))
        BY <3>1, <3>2, BlobReaders, Zenon DEF BlobLead
      <4>3. r = blob(b, blobHeader(b)) /\ s = blob(d, blobHeader(d))
        BY <2>0, <2>2, <3>1, <3>2, <1>StringCases, Zenon
      <4> QED BY <2>0, <4>1, <4>3, SteadyMeets, Zenon
    <3>3. CASE b[1] = mnil
      <4>1. r = Result(<<>>, From(b, 1), NoError) /\ s = Result(<<>>, From(d, 1), NoError)
        BY <2>0, <2>2, <3>1, <3>3, <1>StringCases, Zenon
      <4> QED BY <2>0, <3>1, <3>3, <4>1, MeetsNil, Zenon
    <3>4. CASE ~strLead(b[1]) /\ b[1] # mnil
      <4>0. PICK q, t : q = contents(readBytesBytes(b, FALSE)) /\ t = contents(readBytesBytes(d, FALSE))
        BY Zenon
      <4>1. /\ Meets(b, d, readBytesBytes(b, FALSE), readBytesBytes(d, FALSE))
            /\ IsResult(readBytesBytes(b, FALSE)) /\ IsResult(readBytesBytes(d, FALSE))
        BY ByteSlices, LongerSelf, Zenon
      <4>2. Meets(b, d, q, t) /\ IsResult(q) /\ IsResult(t)
        BY <4>0, <4>1, ContentsMeets, Zenon
      <4>3. r = Reported(q, TypeError(getType(b[1]))) /\ s = Reported(t, TypeError(getType(d[1])))
        BY <2>0, <2>2, <3>1, <3>4, <4>0, <1>StringCases, Zenon
      <4>4. CASE Ok(q)
        <5>1. Ok(t)
          BY <4>2, <4>4 DEF Meets, Kept
        <5>2. r = q /\ s = t
          BY <4>2, <4>3, <4>4, <5>1, ReportedIs, Zenon
        <5> QED BY <2>0, <4>2, <5>2, Zenon
      <4>5. CASE ~Ok(q)
        <5>1. r = Result(q.v, q.o, TypeError(getType(b[1])))
          BY <4>2, <4>3, <4>5, ReportedIs, Zenon
        <5> QED BY <2>0, <5>1, <2>TypeErrorMeets, Zenon
      <4> QED BY <4>4, <4>5
    <3> QED BY <3>2, <3>3, <3>4
  <2> QED BY <2>1, <2>2
<1>KeyMeets. \A b \in Seq(Byte), d \in Seq(Byte) :
               Longer(b, d) =>
                 Meets(b, d, ReadMapKeyZC(b), ReadMapKeyZC(d))
  <2>KeyCases. ASSUME NEW b, NEW r, r = ReadStringZC(b)
               PROVE  /\ Ok(r) => ReadMapKeyZC(b) = r
                      /\ r.err = TypeError("bin") => ReadMapKeyZC(b) = contents(ReadBytesBytes(b))
                      /\ ~Ok(r) /\ r.err # TypeError("bin") => ReadMapKeyZC(b) = Result(<<>>, b, r.err)
    <3> USE <2>KeyCases
    <3>0. TypeError("bin") # NoError
      BY ErrorsDiffer
    <3>1. CASE Ok(r)
      BY <3>0, <3>1, Zenon DEF ReadMapKeyZC, Ok
    <3>2. CASE r.err = TypeError("bin")
      BY <3>0, <3>2, Zenon DEF ReadMapKeyZC, Ok
    <3>3. CASE ~Ok(r) /\ r.err # TypeError("bin")
      BY <3>3, Zenon DEF ReadMapKeyZC, Ok
    <3> QED BY <3>0, <3>1, <3>2, <3>3, Zenon DEF Ok
  (* ReadStringZC refuses with the type bin only bin objects cut short or     *)
  (* too long, which ReadBytesBytes refuses as well.                          *)
  <2>BinRefused. \A b \in Seq(Byte) :
                   ReadStringZC(b).err = TypeError("bin") =>
                     LET q == blob(b, blobHeader(b))
                     IN /\ ~Ok(q) /\ Len(b) >= 1 /\ BlobLead(b[1])
                        /\ \A m : readBytesBytes(b, m) = Sliced(q) /\ ~strLead(b[1]) /\ b[1] # mnil
    <3>SameTypeError. ASSUME NEW t, NEW u, TypeError(t) = TypeError(u)
                      PROVE  t = u
      BY <3>SameTypeError DEF TypeError, Err
    <3>KindsDiffer. /\ \A t : TypeError(t) # ErrShort /\ TypeError(t) # ErrOverflow /\ TypeError(t) # Panic
      BY DEF TypeError, Err, ErrShort, ErrOverflow, Panic
    <3> SUFFICES ASSUME NEW b \in Seq(Byte), ReadStringZC(b).err = TypeError("bin")
                 PROVE  LET q == blob(b, blobHeader(b))
                        IN /\ ~Ok(q) /\ Len(b) >= 1 /\ BlobLead(b[1])
                           /\ \A m : readBytesBytes(b, m) = Sliced(q) /\ ~strLead(b[1]) /\ b[1] # mnil
      OBVIOUS
    <3>0. PICK r, q : r = ReadStringZC(b) /\ q = blob(b, blobHeader(b)) /\ r.err = TypeError("bin") /\ TypeError("bin") # NoError
      BY ErrorsDiffer, Zenon
    <3>1. ~(Len(b) < 1)
      <4> SUFFICES ASSUME Len(b) < 1 PROVE FALSE
        OBVIOUS
      <4>1. r = Result(<<>>, <<>>, ErrShort)
        BY <3>0, <1>StringCases, Zenon
      <4> QED BY <3>0, <4>1, OkResult, <3>KindsDiffer
    <3>2. ~strLead(b[1])
      <4> SUFFICES ASSUME strLead(b[1]) PROVE FALSE
        OBVIOUS
      <4>1. r = q
        BY <3>0, <3>1, <1>StringCases, Zenon
      <4>2. Len(b) >= 1 /\ BlobLead(b[1])
        BY <3>1 DEF BlobLead
      <4> QED BY <3>0, <4>1, <4>2, BlobWants, <3>KindsDiffer DEF Wants
    <3>3. b[1] # mnil
      <4> SUFFICES ASSUME b[1] = mnil PROVE FALSE
        OBVIOUS
      <4>1. r = Result(<<>>, From(b, 1), NoError)
        BY <3>0, <3>1, <1>StringCases, Zenon
      <4> QED BY <3>0, <4>1, OkResult
    <3>4. PICK t, y : /\ y = readBytesBytes(b, FALSE) /\ t = contents(y)
                      /\ r = Reported(t, TypeError(getType(b[1])))
      BY <3>0, <3>1, <3>2, <3>3, <1>StringCases, Zenon
    <3>5. IsResult(y)
      BY <3>4, ByteSlices, LongerSelf, Zenon
    <3>6. t = Result(y.v.s, y.o, y.err)
      BY <3>4, <3>5, ContentsIs, Zenon
    <3>7. IsResult(t) /\ t.err = y.err
      BY <3>6, ResultIs, OkResult
    <3>8. ~Ok(t)
      <4> SUFFICES ASSUME Ok(t) PROVE FALSE
        OBVIOUS
      <4>1. r = t
        BY <3>4, <3>7, ReportedIs, Zenon
      <4> QED BY <3>0, <4>1 DEF Ok
    <3>9. r = Result(t.v, t.o, TypeError(getType(b[1])))
      BY <3>4, <3>7, <3>8, ReportedIs, Zenon
    <3>10. getType(b[1]) = "bin"
      BY <3>0, <3>9, OkResult, <3>SameTypeError
    <3>11. b[1] \in Byte /\ Len(b) >= 1
      BY <3>1, Elements
    <3>12. BlobLead(b[1])
      BY <3>10, <3>11, TypeLeads DEF getType, BlobLead
    <3>13. \A m : readBytesBytes(b, m) = Sliced(q)
      BY <3>0, <3>1, <3>12, BytesCases, Zenon
    <3>14. Sliced(q) = Result(IF Ok(q) THEN Bytes(q.v) ELSE NilBytes, q.o, q.err)
      BY <3>0, BlobResult, SlicedIs
    <3>15. y.err = q.err
      <4>1. Sliced(q).err = q.err
        BY <3>14, OkResult
      <4> QED BY <3>4, <3>13, <4>1, Zenon
    <3>16. ~Ok(q)
      BY <3>7, <3>8, <3>15 DEF Ok
    <3> QED BY <3>0, <3>2, <3>3, <3>11, <3>12, <3>13, <3>16, Zenon
  <2>KeyOk. ASSUME NEW b \in Seq(Byte), NEW r, r = ReadStringZC(b)
            PROVE  /\ Ok(ReadMapKeyZC(b)) => Ok(r)
                   /\ Ok(r) => ReadMapKeyZC(b) = r
    <3> USE <2>KeyOk
    <3>1. CASE Ok(r)
      BY <3>1, <2>KeyCases, Zenon
    <3>2. CASE r.err = TypeError("bin")
      <4>1. PICK q : q = blob(b, blobHeader(b)) /\ ~Ok(q) /\ readBytesBytes(b, TRUE) = Sliced(q)
        BY <3>2, <2>BinRefused, Zenon
      <4>2. Sliced(q) = Result(NilBytes, q.o, q.err)
        BY <4>1, BlobResult, SlicedIs
      <4>3. contents(Sliced(q)) = Result(NilBytes.s, q.o, q.err)
        <5>1. IsResult(Sliced(q)) /\ Sliced(q).v = NilBytes /\ Sliced(q).o = q.o /\ Sliced(q).err = q.err
          BY <4>2, ResultIs, OkResult
        <5> QED BY <5>1, ContentsIs
      <4>4. ReadMapKeyZC(b) = contents(Sliced(q))
        BY <3>2, <4>1, <2>KeyCases, Zenon DEF ReadBytesBytes
      <4>5. ~Ok(contents(Sliced(q)))
        BY <4>1, <4>3, OkResult DEF Ok
      <4>6. ~Ok(r)
        BY <3>2, ErrorsDiffer DEF Ok
      <4> QED BY <4>4, <4>5, <4>6, Zenon
    <3>3. CASE ~Ok(r) /\ r.err # TypeError("bin")
      <4>1. ReadMapKeyZC(b) = Result(<<>>, b, r.err)
        BY <3>3, <2>KeyCases, Zenon
      <4>2. ~Ok(Result(<<>>, b, r.err))
        BY <3>3, OkResult DEF Ok
      <4> QED BY <3>3, <4>1, <4>2, Zenon
    <3> QED BY <3>1, <3>2, <3>3
  <2> SUFFICES ASSUME NEW b \in Seq(Byte), NEW d \in Seq(Byte), Longer(b, d)
               PROVE  Meets(b, d, ReadMapKeyZC(b), ReadMapKeyZC(d))
    OBVIOUS
  <2>0. PICK r, s : r = ReadStringZC(b) /\ s = ReadStringZC(d)
    BY Zenon
  <2>1. Meets(b, d, r, s)
    BY <2>0, <1>StringMeets, Zenon
  <2>2. CASE Ok(r)
    <3>1. Ok(s)
      BY <2>1, <2>2 DEF Meets, Kept
    <3>2. ReadMapKeyZC(b) = r /\ ReadMapKeyZC(d) = s
      BY <2>0, <2>2, <3>1, <2>KeyOk, Zenon
    <3> QED BY <2>1, <3>2, Zenon
  <2>3. CASE r.err = TypeError("bin")
    <3>1. PICK q, t : /\ q = blob(b, blobHeader(b)) /\ t = blob(d, blobHeader(d)) /\ ~Ok(q) /\ Len(b) >= 1 /\ BlobLead(b[1])
                      /\ readBytesBytes(b, TRUE) = Sliced(q)
                      /\ ~strLead(b[1]) /\ b[1] # mnil
      BY <2>0, <2>3, <2>BinRefused, Zenon
    <3>2. Sliced(q) = Result(NilBytes, q.o, q.err)
      BY <3>1, BlobResult, SlicedIs
    <3>3. IsResult(Sliced(q)) /\ Sliced(q).err = q.err
      BY <3>2, ResultIs, OkResult
    <3>4. ReadMapKeyZC(b) = contents(Sliced(q))
      BY <2>0, <2>3, <3>1, <2>KeyCases, ZenonT(60) DEF ReadBytesBytes
    <3>5. contents(Sliced(q)).err = q.err
      BY <3>3, ContentsIs, OkResult
    <3>6. Steady(b, d, q, t)
      BY <3>1, BlobReaders DEF BlobLead
    <3>7. ASSUME ~Waits(q) PROVE ~Ok(ReadMapKeyZC(d))
      <4>1. ~Ok(t)
        BY <3>1, <3>6, <3>7, SteadyKept
      <4>2. d[1] = b[1] /\ ~(Len(d) < 1)
        BY <3>1, SameFields
      <4>3. readBytesBytes(d, FALSE) = Sliced(t)
        BY <3>1, <4>2, BytesCases, Zenon
      <4>4. Sliced(t) = Result(NilBytes, t.o, t.err)
        BY <3>1, <4>1, BlobResult, SlicedIs
      <4>5. IsResult(Sliced(t)) /\ Sliced(t).err = t.err
        BY <4>4, ResultIs, OkResult
      <4>6. PICK y : y = contents(Sliced(t)) /\ IsResult(y) /\ y.err = t.err
        BY <4>5, ContentsIs, OkResult, ResultIs
      <4>7. ~Ok(y)
        BY <4>1, <4>6 DEF Ok
      <4>8. s = Reported(y, TypeError(getType(d[1])))
        BY <2>0, <3>1, <4>2, <4>3, <4>6, <1>StringCases, ZenonT(60)
      <4>9. s = Result(y.v, y.o, TypeError(getType(d[1])))
        BY <4>6, <4>7, <4>8, ReportedIs, Zenon
      <4>10. ~Ok(s)
        BY <4>9, OkResult, ErrorsDiffer
      <4> QED BY <2>0, <4>10, <2>KeyOk, Zenon
    <3>8. ~Ok(ReadMapKeyZC(b)) /\ (Waits(q) <=> Waits(ReadMapKeyZC(b)))
      BY <3>1, <3>4, <3>5, SMTT(30) DEF Ok, Waits
    <3> QED BY <3>7, <3>8, NotKept, Zenon DEF Meets
  <2>4. CASE ~Ok(r) /\ r.err # TypeError("bin")
    <3>1. ReadMapKeyZC(b) = Result(<<>>, b, r.err)
      BY <2>0, <2>4, <2>KeyCases, Zenon
    <3>2. ReadMapKeyZC(b).err = r.err
      BY <3>1, OkResult
    <3>3. ~Ok(ReadMapKeyZC(b)) /\ (Waits(r) <=> Waits(ReadMapKeyZC(b)))
      BY <2>4, <3>2 DEF Ok, Waits
    <3>4. Ok(ReadMapKeyZC(d)) => Ok(s)
      BY <2>0, <2>KeyOk, Zenon
    <3>5. Ok(s) => Waits(r) \/ r.err.kind = "type"
      BY <2>1, <2>4, Zenon DEF Meets
    <3> QED BY <3>2, <3>3, <3>4, <3>5, NotKept, ZenonT(60) DEF Meets
  <2> QED BY <2>2, <2>3, <2>4
<1>1. ASSUME NEW b \in Seq(Byte), Len(b) >= 1, strLead(b[1]) PROVE ReadStringZC(b).err \in Wants
  <2>1. ~(Len(b) < 1)
    BY <1>1
  <2>2. ReadStringZC(b) = blob(b, blobHeader(b))
    BY <1>1, <2>1, <1>StringCases, Zenon
  <2> QED BY <2>2, BlobWants
<1> QED BY <1>1, <1>StringMeets, <1>KeyMeets, Zenon

-----------------------------------------------------------------------------
(* ReadExactBytes: what was read over what was there, and its way with an  *)
(* array of numbers.                                                       *)
Over(r, into) == [r EXCEPT !.v = [i \in 1..Len(into) |-> IF i <= Len(r.v) THEN r.v[i] ELSE into[i]]]
ExactSlow(b, into) ==
  LET elements(h) ==
        CASE h.err # NoError -> Result(into, h.o, h.err)
          [] h.err = NoError /\ h.sz > Len(into) -> Result(into, h.o, Err("array", "-"))
          [] OTHER -> readByteObjects(h.o, h.sz, into)
  IN elements(ReadArrayHeaderBytes(b))

-----------------------------------------------------------------------------
(* The readers of bytes and strings.                                       *)
ByteMethods == {"Bytes", "Exact", "String", "MapKey"}

(* What arrives behind b, to make it d, changes nothing for reader m.      *)
Settles(b, d, m) ==
  LET r == Call(m, b)
      s == Call(m, d)
  IN Kept(b, d, r, s, 0) /\ (Ok(s) /\ ~Ok(r) => Waits(r) \/ (m \in ByteMethods /\ r.err.kind = "type"))

(* A steady reader settles.                                                *)
LEMMA SettlesSteady ==
  ASSUME NEW b \in Seq(Byte), NEW d \in Seq(Byte), Longer(b, d), NEW m, Steady(b, d, Call(m, b), Call(m, d))
  PROVE  Settles(b, d, m)
<1>1. PICK r, s : r = Call(m, b) /\ s = Call(m, d)
  BY Zenon
<1>2. Kept(b, d, r, s, 0) /\ (Ok(s) /\ ~Ok(r) => Waits(r))
  BY <1>1, SteadyKept
<1> QED BY <1>1, <1>2, Zenon DEF Settles

(* The readers of integers settle (read_bytes.go, ReadInt64Bytes to        *)
(* ReadUint8Bytes).                                                        *)
LEMMA NumbersSettle ==
  ASSUME NEW b \in Seq(Byte), NEW d \in Seq(Byte), Longer(b, d), NEW m \in DOMAIN Signed \cup DOMAIN Unsigned
  PROVE  Settles(b, d, m)
  BY IntegerReaders, SettlesSteady

(* The readers of the other objects of fixed size settle, and of           *)
(* extensions.                                                             *)
LEMMA ScalarsSettle ==
  ASSUME NEW b \in Seq(Byte), NEW d \in Seq(Byte), Longer(b, d),
         NEW m \in {"Nil", "Bool", "Float32", "Complex64", "Complex128", "Time", "Ext"}
  PROVE  Settles(b, d, m)
<1>1. CASE m \in {"Nil", "Bool", "Float32"}
  BY <1>1, ScalarReaders, SettlesSteady
<1>2. CASE m \in {"Complex64", "Complex128", "Time", "Ext"}
  BY <1>2, ExtensionReaders, SettlesSteady
<1> QED BY <1>1, <1>2

(* What a client gets of the readers of bytes and strings.                 *)
LEMMA CallBlob ==
  ASSUME NEW b
  PROVE  /\ Call("Bytes", b) = [ReadBytesBytes(b) EXCEPT !.v = ReadBytesBytes(b).v.s]
         /\ Call("String", b) = ReadStringZC(b)
         /\ Call("MapKey", b) = ReadMapKeyZC(b)
         /\ Call("Exact", b) = ReadExactBytes(b, Array)
  BY DEF Call

(* A client of ReadBytesBytes gets the contents.                           *)
LEMMA CallBytes ==
  ASSUME NEW b
  PROVE  Call("Bytes", b) = contents(readBytesBytes(b, TRUE))
  BY CallBlob, Zenon DEF ReadBytesBytes, contents

(* The readers of bytes and strings settle: ReadBytesBytes, ReadStringZC,  *)
(* ReadMapKeyZC and ReadExactBytes, with the arrays of numbers the first   *)
(* and the last take for bytes.                                            *)
LEMMA BytesSettle ==
  \A b \in Seq(Byte), d \in Seq(Byte), m \in ByteMethods :
    Longer(b, d) =>
      Settles(b, d, m)
<1>ExactMeets. \A b \in Seq(Byte), d \in Seq(Byte), into \in Seq(Byte) :
                 Longer(b, d) =>
                   Meets(b, d, ReadExactBytes(b, into), ReadExactBytes(d, into))
  <2>ExactCases. ASSUME NEW b \in Seq(Byte), NEW into
                 PROVE  /\ Len(b) < 1 => ReadExactBytes(b, into) = Result(into, <<>>, ErrShort)
                        /\ ~(Len(b) < 1) =>
                             /\ BlobLead(b[1]) => ReadExactBytes(b, into) = Over(blob(b, blobHeader(b)), into)
                             /\ b[1] = mnil => ReadExactBytes(b, into) = Result(Zero(Len(into)), From(b, 1), NoError)
                             /\ ~BlobLead(b[1]) /\ b[1] # mnil =>
                                  ReadExactBytes(b, into) = Reported(ExactSlow(b, into), badPrefix(b[1]))
    <3>0. b[1] = mnil => ~BlobLead(b[1])
      BY NilNoBlob
    <3> HIDE DEF mnil
    <3>1. CASE Len(b) < 1
      BY <3>1, Zenon DEF ReadExactBytes
    <3>2. CASE ~(Len(b) < 1) /\ BlobLead(b[1])
      BY <3>0, <3>2, Zenon DEF ReadExactBytes, Over, BlobLead
    <3>3. CASE ~(Len(b) < 1) /\ b[1] = mnil
      BY <3>0, <3>3, Zenon DEF ReadExactBytes, BlobLead
    <3>4. CASE ~(Len(b) < 1) /\ ~BlobLead(b[1]) /\ b[1] # mnil
      BY <3>4, Zenon DEF ReadExactBytes, BlobLead, ExactSlow
    <3> QED BY <3>0, <3>1, <3>2, <3>3, <3>4, Zenon
  <2>OverMeets. \A b, d, r, s, into :
                  /\ Meets(b, d, r, s)
                  /\ IsResult(r)
                  /\ IsResult(s)
                  =>
                    Meets(b, d, Over(r, into), Over(s, into))
    <3>OverIs. ASSUME NEW r, IsResult(r), NEW into
               PROVE  Over(r, into) = Result([i \in 1..Len(into) |-> IF i <= Len(r.v) THEN r.v[i] ELSE into[i]], r.o, r.err)
      <4>1. \A v, o, x, w : [Result(v, o, x) EXCEPT !.v = w] = Result(w, o, x)
        BY DEF Result
      <4>2. r = Result(r.v, r.o, r.err)
        BY <3>OverIs, Zenon DEF IsResult
      <4>3. \A w : [r EXCEPT !.v = w] = Result(w, r.o, r.err)
        BY <4>1, <4>2
      <4> QED BY <4>3, Zenon DEF Over
    <3> SUFFICES ASSUME NEW b, NEW d, NEW r, NEW s, Meets(b, d, r, s), IsResult(r), IsResult(s), NEW into
                 PROVE  Meets(b, d, Over(r, into), Over(s, into))
      OBVIOUS
    <3> DEFINE F(q) == [i \in 1..Len(into) |-> IF i <= Len(q.v) THEN q.v[i] ELSE into[i]]
    <3>1. Over(r, into) = Result(F(r), r.o, r.err) /\ Over(s, into) = Result(F(s), s.o, s.err)
      BY <3>OverIs
    <3>2. s.v = r.v => F(s) = F(r)
      BY Zenon
    <3> HIDE DEF F
    <3>3. /\ Over(r, into).v = F(r) /\ Over(r, into).o = r.o /\ Over(r, into).err = r.err
          /\ Over(s, into).v = F(s) /\ Over(s, into).o = s.o /\ Over(s, into).err = s.err
      BY <3>1, OkResult
    <3> QED BY <3>2, <3>3, MeetsAs
  <2>ExactSlowMeets. \A b \in Seq(Byte), d \in Seq(Byte), into \in Seq(Byte) : \A r, s :
                       /\ Longer(b, d)
                       /\ Len(b) >= 1
                       /\ r = Reported(ExactSlow(b, into), badPrefix(b[1]))
                       /\ s = Reported(ExactSlow(d, into), badPrefix(d[1]))
                       =>
                         Meets(b, d, r, s)
    <3>ExactSlowCases. ASSUME NEW b, NEW into, NEW h, h = readArrayHeaderBytes(b, TRUE)
                       PROVE  /\ ~Ok(h) => ExactSlow(b, into) = Result(into, h.o, h.err)
                              /\ Ok(h) /\ h.sz > Len(into) => ExactSlow(b, into) = Result(into, h.o, Err("array", "-"))
                              /\ Ok(h) /\ ~(h.sz > Len(into)) => ExactSlow(b, into) = readByteObjects(h.o, h.sz, into)
      <4> USE <3>ExactSlowCases
      <4>0. ReadArrayHeaderBytes(b) = h
        BY Zenon DEF ReadArrayHeaderBytes
      <4>1. CASE ~Ok(h)
        BY <4>0, <4>1, Zenon DEF ExactSlow, Ok
      <4>2. CASE Ok(h) /\ h.sz > Len(into)
        BY <4>0, <4>2, Zenon DEF ExactSlow, Ok
      <4>3. CASE Ok(h) /\ ~(h.sz > Len(into))
        BY <4>0, <4>3, Zenon DEF ExactSlow, Ok
      <4> QED BY <4>1, <4>2, <4>3, Zenon
    <3>ArrayFunction. ASSUME NEW into \in Seq(Byte)
                      PROVE  Len(into) \in Nat /\ into \in [1..Len(into) -> Byte]
      OBVIOUS
    <3>ExactSlowKept. ASSUME NEW b \in Seq(Byte), NEW d \in Seq(Byte), Longer(b, d), NEW into \in Seq(Byte)
                      PROVE  Kept(b, d, ExactSlow(b, into), ExactSlow(d, into), 0)
      <4> USE <3>ExactSlowKept
      <4>0. PICK r, s, h, g : /\ r = ExactSlow(b, into) /\ s = ExactSlow(d, into)
                              /\ h = readArrayHeaderBytes(b, TRUE) /\ g = readArrayHeaderBytes(d, TRUE)
        BY Zenon
      <4> SUFFICES ASSUME Ok(r)
                   PROVE  Kept(b, d, r, s, 0)
        BY <4>0, NotKept, Zenon
      <4>1. Ok(h)
        <5> SUFFICES ASSUME ~Ok(h) PROVE FALSE
          OBVIOUS
        <5>1. r = Result(into, h.o, h.err)
          BY <4>0, <3>ExactSlowCases, Zenon
        <5> QED BY <5>1, OkResult DEF Ok
      <4>2. ~(h.sz > Len(into))
        <5> SUFFICES ASSUME h.sz > Len(into) PROVE FALSE
          OBVIOUS
        <5>1. r = Result(into, h.o, Err("array", "-"))
          BY <4>0, <4>1, <3>ExactSlowCases, Zenon
        <5>2. Err("array", "-") # NoError
          BY DEF Err, NoError
        <5> QED BY <5>1, <5>2, OkResult
      <4>3. HeaderSteady(b, d, 1, h, g)
        BY <4>0, HeaderReaders, Zenon
      <4>4. h.err # ErrShort
        BY <4>1, ErrorsDiffer DEF Ok
      <4>5. PICK k \in 1..Len(b), c \in Nat : HeadTakes(b, d, k, 1, c, h, g)
        BY <4>1, <4>3, <4>4 DEF HeaderSteady
      <4>6. h.o = From(b, k) /\ h.sz = c /\ g.o = From(d, k) /\ g.sz = c /\ Ok(g) /\ getSize(b) = Sized(k, 1 * c) /\ 1 * c = c
        BY <4>5 DEF HeadTakes, Ok
      <4>7. k \in 0..Len(b) /\ 1 \in Nat \ {0} /\ c + (1 - 1) = c
        OBVIOUS
      <4>8. PICK o \in Seq(Byte), p \in Seq(Byte) : o = From(b, k) /\ p = From(d, k) /\ Longer(o, p) /\ Len(p) = Len(o) + (Len(d) - Len(b))
        BY <4>7, LongerRest
      <4>9. Len(o) \in Nat /\ Len(p) \in Nat /\ Len(p) - Len(o) = Len(d) - Len(b)
        BY <4>8
      <4>10. PICK N \in Nat : N = Len(into) /\ into \in [1..N -> Byte]
        BY <3>ArrayFunction
      <4>11. r = readByteObjects(o, c, into) /\ s = readByteObjects(p, c, into)
        <5>1. h.o = o /\ h.sz = c /\ g.o = p /\ g.sz = c /\ ~(g.sz > Len(into))
          BY <4>2, <4>6, <4>8
        <5>2. r = readByteObjects(h.o, h.sz, into)
          BY <4>0, <4>1, <4>2, <3>ExactSlowCases, Zenon
        <5>3. s = readByteObjects(g.o, g.sz, into)
          BY <4>0, <4>6, <5>1, <3>ExactSlowCases, Zenon
        <5> QED BY <5>1, <5>2, <5>3, Zenon
      <4>16. /\ Ok(s) /\ s.v = r.v /\ Len(s.o) = Len(r.o) + (Len(p) - Len(o))
             /\ SkipObjects(r.o, 0) = SkipObjects(o, c)
        <5>1. ObjectsKeep(o, p, N, c, into)
          BY <4>8, <4>10, <4>11, ByteObjects, Zenon
        <5> QED BY <4>11, <5>1, Zenon DEF ObjectsKeep
      <4>17. SkipObjects(o, c) = Skip(b)
        <5>1. SkipObjects(b, 1) = SkipObjects(From(b, k), c + (1 - 1))
          BY <4>6, <4>7, SkipObject
        <5> QED BY <4>7, <4>8, <5>1 DEF Skip
      <4> QED BY <4>9, <4>16, <4>17, Zenon DEF Kept
    <3>ExactSlowResult. ASSUME NEW b \in Seq(Byte), NEW into \in Seq(Byte)
                        PROVE  IsResult(ExactSlow(b, into))
      <4>0. PICK h : h = readArrayHeaderBytes(b, TRUE)
        BY Zenon
      <4>1. CASE ~Ok(h)
        <5>1. ExactSlow(b, into) = Result(into, h.o, h.err)
          BY <4>0, <4>1, <3>ExactSlowCases, Zenon
        <5> QED BY <5>1, ResultIs
      <4>2. CASE Ok(h) /\ h.sz > Len(into)
        <5>1. ExactSlow(b, into) = Result(into, h.o, Err("array", "-"))
          BY <4>0, <4>2, <3>ExactSlowCases, Zenon
        <5> QED BY <5>1, ResultIs
      <4>3. CASE Ok(h) /\ ~(h.sz > Len(into))
        <5>1. h.o \in Seq(Byte) /\ h.sz \in Nat
          BY <4>0, <4>3, HeaderReaders, Zenon
        <5>2. IsResult(readByteObjects(h.o, h.sz, into))
          BY <5>1, <3>ArrayFunction, ByteObjects, SMTT(30) DEF IsResult
        <5>3. ExactSlow(b, into) = readByteObjects(h.o, h.sz, into)
          BY <4>0, <4>3, <3>ExactSlowCases, Zenon
        <5> QED BY <5>2, <5>3, Zenon
      <4> QED BY <4>1, <4>2, <4>3
    <3> SUFFICES ASSUME NEW b \in Seq(Byte), NEW d \in Seq(Byte), Longer(b, d), NEW into \in Seq(Byte), Len(b) >= 1,
                        NEW r, NEW s, r = Reported(ExactSlow(b, into), badPrefix(b[1])),
                        s = Reported(ExactSlow(d, into), badPrefix(d[1]))
                 PROVE  Meets(b, d, r, s)
      OBVIOUS
    <3>0. PICK q, t : q = ExactSlow(b, into) /\ t = ExactSlow(d, into)
      BY Zenon
    <3>1. IsResult(q) /\ IsResult(t)
      BY <3>0, <3>ExactSlowResult
    <3>2. d[1] = b[1] /\ b[1] \in Byte /\ Len(d) >= 1
      BY SameFields, Elements
    <3>3. CASE Ok(q)
      <4>1. Kept(b, d, q, t, 0)
        BY <3>0, <3>ExactSlowKept, Zenon
      <4>2. Ok(t)
        BY <3>3, <4>1 DEF Kept
      <4>3. r = q /\ s = t
        BY <3>0, <3>1, <3>3, <4>2, ReportedIs, Zenon
      <4> QED BY <3>3, <4>1, <4>3 DEF Meets
    <3>4. CASE ~Ok(q)
      <4>1. r = Result(q.v, q.o, badPrefix(b[1]))
        BY <3>0, <3>1, <3>4, ReportedIs, Zenon
      <4>2. ~Ok(r) /\ r.err = badPrefix(b[1])
        BY <4>1, OkResult, ErrorsDiffer
      <4>3. ASSUME Ok(s), getType(b[1]) = "invalid" PROVE FALSE
        <5>1. ~Ok(readArrayHeaderBytes(d, TRUE))
          BY <3>2, <4>3, HeaderReaders, Zenon
        <5>2. PICK h : h = readArrayHeaderBytes(d, TRUE)
          BY Zenon
        <5>3. t = Result(into, h.o, h.err) /\ ~Ok(h)
          BY <3>0, <5>1, <5>2, <3>ExactSlowCases, Zenon
        <5>4. ~Ok(t)
          BY <5>3, OkResult DEF Ok
        <5>5. s = Result(t.v, t.o, badPrefix(d[1]))
          BY <3>0, <3>1, <5>4, ReportedIs, ZenonT(60)
        <5> QED BY <4>3, <5>5, OkResult, ErrorsDiffer
      <4>4. Ok(s) => r.err.kind = "type"
        BY <3>2, <4>2, <4>3, BadPrefixKind
      <4> QED BY <4>2, <4>4, NotKept DEF Meets
    <3> QED BY <3>3, <3>4
  <2> SUFFICES ASSUME NEW b \in Seq(Byte), NEW d \in Seq(Byte), Longer(b, d), NEW into \in Seq(Byte)
               PROVE  Meets(b, d, ReadExactBytes(b, into), ReadExactBytes(d, into))
    OBVIOUS
  <2>0. PICK r, s : r = ReadExactBytes(b, into) /\ s = ReadExactBytes(d, into)
    BY Zenon
  <2>1. CASE Len(b) < 1
    <3>1. r = Result(into, <<>>, ErrShort)
      BY <2>0, <2>1, <2>ExactCases, Zenon
    <3> QED BY <2>0, <3>1, MeetsWaits, Zenon
  <2>2. CASE ~(Len(b) < 1)
    <3>1. d[1] = b[1] /\ Len(b) >= 1 /\ ~(Len(d) < 1)
      BY <2>2, SameFields
    <3>2. CASE BlobLead(b[1])
      <4>0. PICK q, t : q = blob(b, blobHeader(b)) /\ t = blob(d, blobHeader(d))
        BY Zenon
      <4>1. Steady(b, d, q, t)
        BY <3>1, <3>2, <4>0, BlobReaders DEF BlobLead
      <4>2. Meets(b, d, q, t) /\ IsResult(q) /\ IsResult(t)
        BY <4>0, <4>1, SteadyMeets, BlobResult
      <4>3. r = Over(q, into) /\ s = Over(t, into)
        BY <2>0, <2>2, <3>1, <3>2, <4>0, <2>ExactCases, ZenonT(60)
      <4> QED BY <2>0, <4>2, <4>3, <2>OverMeets, Zenon
    <3>3. CASE b[1] = mnil
      <4>1. r = Result(Zero(Len(into)), From(b, 1), NoError) /\ s = Result(Zero(Len(into)), From(d, 1), NoError)
        BY <2>0, <2>2, <3>1, <3>3, <2>ExactCases, ZenonT(60)
      <4> QED BY <2>0, <3>1, <3>3, <4>1, MeetsNil, ZenonT(60)
    <3>4. CASE ~BlobLead(b[1]) /\ b[1] # mnil
      <4>1. /\ r = Reported(ExactSlow(b, into), badPrefix(b[1]))
            /\ s = Reported(ExactSlow(d, into), badPrefix(d[1]))
        BY <2>0, <2>2, <3>1, <3>4, <2>ExactCases, ZenonT(60)
      <4> QED BY <2>0, <3>1, <4>1, <2>ExactSlowMeets, ZenonT(60)
    <3> QED BY <3>2, <3>3, <3>4
  <2> QED BY <2>1, <2>2
<1>SettlesMeets. ASSUME NEW b, NEW d, NEW m \in ByteMethods, Meets(b, d, Call(m, b), Call(m, d))
                 PROVE  Settles(b, d, m)
  BY <1>SettlesMeets, Zenon DEF Settles, Meets
<1> SUFFICES ASSUME NEW b \in Seq(Byte), NEW d \in Seq(Byte), Longer(b, d), NEW m \in ByteMethods
             PROVE  Settles(b, d, m)
  OBVIOUS
<1>1. CASE m = "Bytes"
  <2>1. /\ Meets(b, d, readBytesBytes(b, TRUE), readBytesBytes(d, TRUE))
        /\ IsResult(readBytesBytes(b, TRUE)) /\ IsResult(readBytesBytes(d, TRUE))
    BY ByteSlices, LongerSelf, Zenon
  <2>2. Meets(b, d, contents(readBytesBytes(b, TRUE)), contents(readBytesBytes(d, TRUE)))
    BY <2>1, ContentsMeets, Zenon
  <2>4. Call(m, b) = contents(readBytesBytes(b, TRUE)) /\ Call(m, d) = contents(readBytesBytes(d, TRUE))
    BY <1>1, CallBytes, Zenon
  <2>3. Meets(b, d, Call(m, b), Call(m, d))
    BY <2>2, <2>4, Zenon
  <2> QED BY <2>3, <1>SettlesMeets, Zenon
<1>2. CASE m = "String"
  BY <1>2, CallBlob, StringReaders, <1>SettlesMeets, ZenonT(60)
<1>3. CASE m = "MapKey"
  BY <1>3, CallBlob, StringReaders, <1>SettlesMeets, ZenonT(60)
<1>4. CASE m = "Exact"
  <2>1. Meets(b, d, ReadExactBytes(b, Array), ReadExactBytes(d, Array))
    BY TargetsAssumption, <1>ExactMeets, Zenon
  <2> QED BY <1>4, <2>1, CallBlob, <1>SettlesMeets, Zenon
<1> QED BY <1>1, <1>2, <1>3, <1>4 DEF ByteMethods

(* Skip settles.                                                           *)
LEMMA SkipSettles ==
  \A b \in Seq(Byte), d \in Seq(Byte) :
    Longer(b, d) =>
      Settles(b, d, "Skip")
<1>SkipKept. \A b \in Seq(Byte), d \in Seq(Byte) :
               Longer(b, d) =>
                 /\ Kept(b, d, Call("Skip", b), Call("Skip", d), 0)
                 /\ Ok(Call("Skip", d)) /\ ~Ok(Call("Skip", b)) => Waits(Call("Skip", b))
  <2>CallSkip. ASSUME NEW b, NEW o, NEW x, Skip(b) = Result("-", o, x)
               PROVE  Call("Skip", b) = Result(<<>>, o, x)
    <3> USE <2>CallSkip
    <3>1. Call("Skip", b) = [Skip(b) EXCEPT !.v = <<>>]
      BY CallHeader, Zenon
    <3> QED BY <3>1 DEF Result
  <2> SUFFICES ASSUME NEW b \in Seq(Byte), NEW d \in Seq(Byte), Longer(b, d)
               PROVE  /\ Kept(b, d, Call("Skip", b), Call("Skip", d), 0)
                      /\ Ok(Call("Skip", d)) /\ ~Ok(Call("Skip", b)) => Waits(Call("Skip", b))
    OBVIOUS
  <2>0. 0 \in 0..Len(b) /\ 0 \in 0..Len(d) /\ 1 \in Nat
    BY DEF Longer
  <2>1. PICK j \in 0..Len(b), x \in SkipErrors : SkipAt(b, 0, 1) = stopAt(j, x)
    BY <2>0, SkipStops
  <2>2. Skip(b) = Result("-", From(b, j), x)
    BY <2>1, ObjectsIs DEF Skip
  <2>4. Call("Skip", b) = Result(<<>>, From(b, j), x)
    BY <2>2, <2>CallSkip
  <2>5. CASE x = ErrShort
    <3>1. Waits(Call("Skip", b))
      BY <2>4, <2>5, OkResult DEF Waits
    <3> QED BY <3>1, WaitsNotOk, NotKept
  <2>6. CASE x # ErrShort
    <3>1. Lasts(b, d, 0, 1)
      BY <2>0, SkipLasts
    <3>2. SkipAt(d, 0, 1) = stopAt(j, x)
      BY <2>1, <2>6, <3>1, StopIs DEF Lasts
    <3>3. Skip(d) = Result("-", From(d, j), x)
      BY <3>2, ObjectsIs DEF Skip
    <3>4. Call("Skip", d) = Result(<<>>, From(d, j), x)
      BY <3>3, <2>CallSkip
    <3>5. CASE x # NoError
      <4>1. ~Ok(Call("Skip", b)) /\ ~Ok(Call("Skip", d))
        BY <2>4, <3>4, <3>5, OkResult
      <4> QED BY <4>1, NotKept
    <3>6. CASE x = NoError
      <4>1. From(b, j) \in Seq(Byte) /\ Len(From(d, j)) = Len(From(b, j)) + (Len(d) - Len(b))
        BY LongerRest
      <4>2. SkipObjects(From(b, j), 0) = Skip(b)
        BY <2>2, <3>6, <4>1, SkipNone
      <4>3. Kept(b, d, Result(<<>>, From(b, j), x), Result(<<>>, From(d, j), x), 0)
        <5>1. \A o : LET r == Result(<<>>, o, x) IN Ok(r) /\ r.v = <<>> /\ r.o = o
          BY <3>6, OkResult
        <5> QED BY <4>1, <4>2, <5>1, Zenon DEF Kept
      <4>4. Ok(Call("Skip", b))
        BY <2>4, <3>6, OkResult
      <4> QED BY <2>4, <3>4, <4>3, <4>4
    <3> QED BY <3>5, <3>6
  <2> QED BY <2>5, <2>6
<1> SUFFICES ASSUME NEW b \in Seq(Byte), NEW d \in Seq(Byte), Longer(b, d)
             PROVE  Settles(b, d, "Skip")
  OBVIOUS
<1> QED
  BY <1>SkipKept, Zenon DEF Settles

(* Every reader is in one of the groups above.                             *)
LEMMA MethodNames ==
  ASSUME NEW m \in Methods
  PROVE  \/ m \in DOMAIN Signed \cup DOMAIN Unsigned
         \/ m \in {"Nil", "Bool", "Float32", "Complex64", "Complex128", "Time", "Ext"}
         \/ m \in ByteMethods
         \/ m \in {"Skip", "Float64", "MapHeader", "ArrayHeader"}
  BY DEF Methods, Headers, ByteMethods

(* A header, with its count.                                               *)
HeaderSettles(b, d, m, f) ==
  LET r == Call(m, b)
      s == Call(m, d)
  IN Kept(b, d, r, s, f * r.v[1]) /\ (Ok(s) /\ ~Ok(r) => Waits(r))

(* The readers of headers settle: what they leave is the objects they      *)
(* announce, two for each entry of a map.                                  *)
LEMMA HeadersSettle ==
  \A b \in Seq(Byte), d \in Seq(Byte) :
    Longer(b, d) =>
      HeaderSettles(b, d, "MapHeader", 2) /\ HeaderSettles(b, d, "ArrayHeader", 1)
<1>HeaderKept. ASSUME NEW b \in Seq(Byte), NEW d \in Seq(Byte), Longer(b, d), NEW f \in Nat, NEW h, NEW g, HeaderSteady(b, d, f, h, g)
               PROVE  /\ Kept(b, d, Result(<<h.sz>>, h.o, h.err), Result(<<g.sz>>, g.o, g.err), f * h.sz)
                      /\ Ok(g) /\ ~Ok(h) => h.err = ErrShort
  <2> USE <1>HeaderKept
  <2>1. CASE ~Ok(h)
    <3>1. ~Ok(Result(<<h.sz>>, h.o, h.err))
      BY <2>1, OkResult DEF Ok
    <3>2. Kept(b, d, Result(<<h.sz>>, h.o, h.err), Result(<<g.sz>>, g.o, g.err), f * h.sz)
      BY <3>1, NotKept
    <3>3. Ok(g) => h.err = ErrShort
      BY <2>1 DEF HeaderSteady, HeadTakes, Ok
    <3> QED BY <3>2, <3>3
  <2>2. CASE Ok(h)
    <3>1. h.err # ErrShort
      BY <2>2, ErrorsDiffer DEF Ok
    <3>2. PICK k \in 1..Len(b), c \in Nat : HeadTakes(b, d, k, f, c, h, g)
      BY <2>2, <3>1 DEF HeaderSteady
    <3>3. /\ Result(<<h.sz>>, h.o, h.err) = Result(<<c>>, From(b, k), NoError)
          /\ Result(<<g.sz>>, g.o, g.err) = Result(<<c>>, From(d, k), NoError)
          /\ getSize(b) = Sized(k, f * c) /\ h.sz = c
      BY <3>2 DEF HeadTakes
    <3>4. f * c \in Nat
      OBVIOUS
    <3>5. Kept(b, d, Result(<<c>>, From(b, k), NoError), Result(<<c>>, From(d, k), NoError), f * c)
      BY <3>3, <3>4, TakesKept
    <3> QED BY <2>2, <3>3, <3>5
  <2> QED BY <2>1, <2>2
<1> SUFFICES ASSUME NEW b \in Seq(Byte), NEW d \in Seq(Byte), Longer(b, d)
             PROVE  HeaderSettles(b, d, "MapHeader", 2) /\ HeaderSettles(b, d, "ArrayHeader", 1)
  OBVIOUS
<1>1. ASSUME NEW h, NEW g, NEW f \in Nat, HeaderSteady(b, d, f, h, g), NEW r, NEW s,
             r = Result(<<h.sz>>, h.o, h.err), s = Result(<<g.sz>>, g.o, g.err)
      PROVE  Kept(b, d, r, s, f * r.v[1]) /\ (Ok(s) /\ ~Ok(r) => Waits(r))
  <2>1. /\ Kept(b, d, r, s, f * h.sz)
        /\ Ok(g) /\ ~Ok(h) => h.err = ErrShort
    BY <1>1, <1>HeaderKept
  <2>2. r.v[1] = h.sz /\ r.err = h.err /\ s.err = g.err
    BY <1>1, OkResult
  <2>3. Ok(s) /\ ~Ok(r) => Waits(r)
    BY <2>1, <2>2 DEF Ok, Waits
  <2> QED BY <2>1, <2>2, <2>3, Zenon
<1>2. HeaderSettles(b, d, "MapHeader", 2)
  <2>1. PICK h, g : h = ReadMapHeaderBytes(b) /\ g = ReadMapHeaderBytes(d)
    BY Zenon
  <2>2. Call("MapHeader", b) = Result(<<h.sz>>, h.o, h.err) /\ Call("MapHeader", d) = Result(<<g.sz>>, g.o, g.err)
    BY <2>1, CallHeader, Zenon
  <2>3. HeaderSteady(b, d, 2, h, g) /\ 2 \in Nat
    BY <2>1, HeaderReaders
  <2> QED BY <1>1, <2>2, <2>3, Zenon DEF HeaderSettles
<1>3. HeaderSettles(b, d, "ArrayHeader", 1)
  <2>1. PICK h, g : h = readArrayHeaderBytes(b, TRUE) /\ g = readArrayHeaderBytes(d, TRUE)
    BY Zenon
  <2>2. Call("ArrayHeader", b) = Result(<<h.sz>>, h.o, h.err) /\ Call("ArrayHeader", d) = Result(<<g.sz>>, g.o, g.err)
    BY <2>1, CallHeader, Zenon DEF ReadArrayHeaderBytes
  <2>3. HeaderSteady(b, d, 1, h, g) /\ 1 \in Nat
    BY <2>1, HeaderReaders, Zenon
  <2> QED BY <1>1, <2>2, <2>3, Zenon DEF HeaderSettles
<1> QED BY <1>2, <1>3

-----------------------------------------------------------------------------
(* The buffer holds bytes.                                                 *)
Bytewise == buf \in Seq(Byte)

(* Only bytes arrive.                                                      *)
LEMMA BytesArrive == Spec => []Bytewise
<1>1. Init => Bytewise
  BY DEF Init, Bytewise
<1>2. Bytewise /\ [Arrive]_buf => Bytewise'
  <2> SUFFICES ASSUME Bytewise, [Arrive]_buf PROVE Bytewise'
    OBVIOUS
  <2>1. CASE \E c \in Leads : buf' = <<c>>
    <3>1. PICK c \in Byte : buf' = <<c>>
      BY <2>1, LeadsAssumption
    <3> QED BY <3>1 DEF Bytewise
  <2>2. CASE \E s \in Seq(Byte) : buf' = buf \o s
    BY <2>2 DEF Bytewise
  <2>3. CASE buf' = buf
    BY <2>3 DEF Bytewise
  <2> QED BY <2>1, <2>2, <2>3, Zenon DEF Arrive
<1> QED BY <1>1, <1>2, PTL DEF Spec

(* In every buffer, for every width of int: a number that a reader of      *)
(* integers delivers (ReadInt8Bytes to ReadUint64Bytes), every wider       *)
(* reader of the same sign delivers, and ReadInt64Bytes what               *)
(* ReadUint64Bytes does.                                                   *)
THEOREM NumbersAlwaysAgree == Spec => []NumbersAgree
<1>1. Bytewise => NumbersAgree
  <2> SUFFICES ASSUME buf \in Seq(Byte) PROVE NumbersAgree
    BY DEF Bytewise
  <2> DEFINE same(r, s) == Ok(r) => Ok(s) /\ s.v = r.v
  <2>0. \A m \in DOMAIN Signed \cup DOMAIN Unsigned : Results(buf)[m] = Call(m, buf)
    BY DEF Results, Methods
  <2>1. "Int64" \in DOMAIN Signed /\ "Uint64" \in DOMAIN Unsigned
    BY DEF Signed, Unsigned
  <2>2. NumbersIn(buf)
    BY IntegerReaders
  <2>3. /\ \A m, n \in DOMAIN Signed : Signed[m] <= Signed[n] => same(Results(buf)[m], Results(buf)[n])
        /\ \A m, n \in DOMAIN Unsigned : Unsigned[m] <= Unsigned[n] => same(Results(buf)[m], Results(buf)[n])
    BY <2>0, <2>2 DEF NumbersIn, Agree
  <2>4. same(Results(buf)["Uint64"], Results(buf)["Int64"])
    BY <2>0, <2>1, <2>2 DEF NumbersIn, Agree
  <2> QED BY <2>3, <2>4, Zenon DEF NumbersAgree
<1> QED BY <1>1, BytesArrive, PTL

(* In every buffer, ReadExtensionBytes delivers an extension only to a     *)
(* client that asked for its type, but for the ext8 of length zero, where  *)
(* it returns before it compares (extension.go:251).                       *)
THEOREM ExtensionsAlwaysChecked == Spec => []ExtensionTypeChecked
<1>1. Bytewise => ExtensionTypeChecked
  <2> SUFFICES ASSUME buf \in Seq(Byte), Ok(ReadExtensionBytes(buf, ExtType))
               PROVE  peekExtension(buf).v = ExtType \/ (buf[1] = mext8 /\ buf[2] = 0)
    BY DEF Bytewise, ExtensionTypeChecked
  <2>1. PICK off, sz, typ : ExtAt(buf, off, sz, typ) /\ (typ = ExtType \/ (buf[1] = mext8 /\ buf[2] = 0))
    BY ExtensionReaders DEF ExtRead
  <2>2. peekExtension(buf).v = typ
    BY <2>1 DEF peekExtension, ExtAt, Result, constsize, extra8, extra16, extra32
  <2> QED BY <2>1, <2>2
<1> QED BY <1>1, BytesArrive, PTL

(* In every buffer, NextType and ReadExtensionBytes find the number of an  *)
(* extension at the same place: NextType calls no other extension a time   *)
(* or a complex number, and those by their names, once a byte lies behind. *)
THEOREM ExtensionsAlwaysNamed == Spec => []ExtensionsNamed
<1>1. Bytewise => ExtensionsNamed
  <2> SUFFICES ASSUME buf \in Seq(Byte), NEW x \in DOMAIN NumberOf, NEW n, n = NumberOf[x],
                      NEW r, r = ReadExtensionBytes(buf, n)
               PROVE  /\ NextType(buf) = x => r.err # errExt
                      /\ Ok(r) /\ r.v # <<>> /\ r.o # <<>> => NextType(buf) = x
    BY Zenon DEF Bytewise, ExtensionsNamed
  <2>n. \/ x = "time" /\ n = TimeExtension
        \/ x = "complex128" /\ n = Complex128Extension
        \/ x = "complex64" /\ n = Complex64Extension
    BY DEF NumberOf
  <2>c. ASSUME buf # <<>>
        PROVE  buf[1] \in Byte /\ Len(buf) # 0
    BY <2>c, Elements
  <2>1. ASSUME NextType(buf) = x, r.err = errExt
        PROVE  FALSE
    <3> DEFINE spec == sizes(buf[1])
    <3>1. buf # <<>> /\ n = (IF spec.extra = constsize THEN buf[2] ELSE buf[spec.size])
      <4>1. CASE Len(buf) = 0
        BY <2>1, <2>n, <4>1 DEF NextType
      <4>2. CASE Len(buf) # 0 /\ ~(spec.typ = "ext" /\ Len(buf) > spec.size)
        <5>1. NextType(buf) = spec.typ
          BY <4>2 DEF NextType
        <5>2. spec.typ \notin {"time", "complex128", "complex64"}
          BY <2>c, <4>2 DEF sizes, bytespec
        <5> QED BY <2>1, <2>n, <5>1, <5>2
      <4>3. CASE Len(buf) # 0 /\ spec.typ = "ext" /\ Len(buf) > spec.size
        BY <2>1, <2>n, <4>3 DEF NextType
      <4> QED BY <4>1, <4>2, <4>3
    <3>2. \A sz, typ, off : extensionData(buf, n, sz, typ, off).err = errExt => typ # n
      BY DEF extensionData, errExt, ErrShort, NoError, Err, Result
    <3>3. /\ Result(<<>>, buf, ErrShort).err # errExt /\ Result(<<>>, buf, ErrOverflow).err # errExt
          /\ Result(<<>>, From(buf, 3), NoError).err # errExt
          /\ Result(<<>>, buf, badPrefix(buf[1])).err # errExt
      BY DEF Result, errExt, ErrShort, ErrOverflow, NoError, Err, badPrefix, TypeError
    <3>4. CASE buf[1] \in mfixext1..mfixext16
      <4>1. spec.extra = constsize
        BY <3>4, ExtensionSizes DEF bytespec, mfixext1, mfixext2, mfixext4, mfixext8, mfixext16
      <4>2. r = Result(<<>>, buf, ErrShort) \/ \E sz : r = extensionData(buf, n, sz, buf[2], 2)
        BY <3>4 DEF ReadExtensionBytes, mfixext1, mfixext16, mext8, mext16, mext32
      <4> QED BY <2>1, <3>1, <3>2, <3>3, <4>1, <4>2
    <3>5. CASE buf[1] = mext8
      <4>1. spec.extra # constsize /\ spec.size = 3
        BY <3>5, ExtensionSizes DEF bytespec, constsize, extra8
      <4>2. \/ r = Result(<<>>, buf, ErrShort) \/ r = Result(<<>>, From(buf, 3), NoError)
            \/ \E sz : r = extensionData(buf, n, sz, buf[3], 3)
        BY <3>5 DEF ReadExtensionBytes, mfixext1, mfixext16, mext8, mext16, mext32
      <4> QED BY <2>1, <3>1, <3>2, <3>3, <4>1, <4>2
    <3>6. CASE buf[1] = mext16
      <4>1. spec.extra # constsize /\ spec.size = 4
        BY <3>6, ExtensionSizes DEF bytespec, constsize, extra16
      <4>2. r = Result(<<>>, buf, ErrShort) \/ \E sz : r = extensionData(buf, n, sz, buf[4], 4)
        BY <3>6 DEF ReadExtensionBytes, mfixext1, mfixext16, mext8, mext16, mext32
      <4> QED BY <2>1, <3>1, <3>2, <3>3, <4>1, <4>2
    <3>7. CASE buf[1] = mext32
      <4>1. spec.extra # constsize /\ spec.size = 6
        BY <3>7, ExtensionSizes DEF bytespec, constsize, extra32
      <4>2. \/ r = Result(<<>>, buf, ErrShort) \/ r = Result(<<>>, buf, ErrOverflow)
            \/ \E sz : r = extensionData(buf, n, sz, buf[6], 6)
        BY <3>7 DEF ReadExtensionBytes, mfixext1, mfixext16, mext8, mext16, mext32
      <4> QED BY <2>1, <3>1, <3>2, <3>3, <4>1, <4>2
    <3>8. CASE buf[1] \notin mfixext1..mfixext16 \cup {mext8, mext16, mext32}
      <4>1. r \in {Result(<<>>, buf, ErrShort), Result(<<>>, buf, badPrefix(buf[1]))}
        BY <3>8 DEF ReadExtensionBytes, mfixext1, mfixext16, mext8, mext16, mext32
      <4> QED BY <2>1, <3>3, <4>1
    <3> QED BY <3>4, <3>5, <3>6, <3>7, <3>8
  <2>2. ASSUME Ok(r), r.v # <<>>, r.o # <<>>
        PROVE  NextType(buf) = x
    <3>1. PICK off, sz, typ : ExtRead(buf, n, off, sz, typ)
      BY <2>2, ExtensionReaders
    <3>2. /\ r.v = SubSeq(buf, off + 1, off + sz) /\ r.o = From(buf, off + sz)
          /\ off \in Nat /\ sz \in Nat /\ off + sz <= Len(buf)
      BY <3>1 DEF ExtRead, ExtAt, Result
    <3>3. off + sz < Len(buf)
      BY <2>2, <3>2 DEF From
    <3>4. sz # 0
      BY <2>2, <3>2
    <3>5. typ = n
      <4>1. ASSUME buf[1] = mext8
            PROVE  sz = buf[2]
        <5>1. sizes(buf[1]).extra = extra8
          BY <4>1, ExtensionSizes DEF bytespec
        <5> QED BY <3>1, <5>1 DEF ExtRead, ExtAt, Uint8, constsize, extra8, extra16, extra32
      <4> QED BY <3>1, <3>4, <4>1 DEF ExtRead
    <3>6. /\ sizes(buf[1]).typ = "ext" /\ Len(buf) > sizes(buf[1]).size
          /\ n = IF sizes(buf[1]).extra = constsize THEN buf[2] ELSE buf[sizes(buf[1]).size]
      BY <3>1, <3>2, <3>3, <3>5 DEF ExtRead, ExtAt, constsize, extra8, extra16, extra32
    <3> QED BY <2>n, <3>3, <3>2, <3>6 DEF NextType, TimeExtension, Complex128Extension, Complex64Extension
  <2> QED BY <2>1, <2>2
<1> QED BY <1>1, BytesArrive, PTL

(* In every buffer, for every width of int: the readers, each with length  *)
(* arithmetic of its own, consume the object that Skip passes with the     *)
(* arithmetic of the table `sizes`.  Behind a header that is read Skip     *)
(* passes as many objects as the header announced.                         *)
THEOREM ReadersAlwaysFollowSkip == Spec => []ReadersFollowSkip
<1>Follows. \A b \in Seq(Byte), m \in Methods :
              Ok(Call(m, b)) =>
                Rest(m, Call(m, b)) = Skip(b)
  <2>Float64Follows. ASSUME NEW b \in Seq(Byte), NEW r, r = Call("Float64", b)
                     PROVE  Kept(b, b, r, r, 0)
    <3>1. CASE ~IsNil(b)
      BY <2>Float64Follows, <3>1, LongerSelf, ScalarReaders, SteadyKept
    <3>2. CASE IsNil(b)
      <4>1. Len(b) >= 1 /\ b[1] = mnil
        BY <3>2 DEF IsNil
      <4>2. CASE r = Result(Zero(8), From(b, 1), NoError)
        <5>1. Kept(b, b, Result(Zero(8), From(b, 1), NoError), Result(Zero(8), From(b, 1), NoError), 0)
          BY <4>1, LongerSelf, MeetsNil
        <5> QED BY <4>2, <5>1, Zenon
      <4>3. CASE ~Ok(r)
        BY <4>3, NotKept
      <4> QED BY <2>Float64Follows, <4>1, <4>2, <4>3, ScalarReaders
    <3> QED BY <3>1, <3>2
  <2>RestIs. ASSUME NEW m, NEW r
             PROVE  /\ m = "MapHeader" => Rest(m, r) = SkipObjects(r.o, 2 * r.v[1])
                    /\ m = "ArrayHeader" => Rest(m, r) = SkipObjects(r.o, r.v[1])
                    /\ m \notin {"MapHeader", "ArrayHeader"} => Rest(m, r) = SkipObjects(r.o, 0)
    <3>1. CASE m = "MapHeader"
      BY <3>1 DEF Rest
    <3>2. CASE m = "ArrayHeader"
      BY <3>2 DEF Rest
    <3>3. CASE m \notin {"MapHeader", "ArrayHeader"}
      BY <3>3 DEF Rest
    <3> QED BY <3>1, <3>2, <3>3
  <2> SUFFICES ASSUME NEW b \in Seq(Byte), NEW m \in Methods, Ok(Call(m, b))
               PROVE  Rest(m, Call(m, b)) = Skip(b)
    OBVIOUS
  <2>0. PICK r : r = Call(m, b) /\ Ok(r)
    BY Zenon
  <2>1. ASSUME m \notin {"MapHeader", "ArrayHeader"}, Settles(b, b, m) PROVE Rest(m, r) = Skip(b)
    <3>1. Kept(b, b, r, r, 0)
      BY <2>0, <2>1, Zenon DEF Settles
    <3> QED BY <2>0, <2>1, <3>1, <2>RestIs DEF Kept
  <2>2. CASE m \in DOMAIN Signed \cup DOMAIN Unsigned
    <3>1. Settles(b, b, m) /\ m \notin {"MapHeader", "ArrayHeader"}
      BY <2>2, LongerSelf, NumbersSettle DEF Signed, Unsigned
    <3> QED BY <2>0, <2>1, <3>1
  <2>3. CASE m \in {"Nil", "Bool", "Float32", "Complex64", "Complex128", "Time", "Ext"}
    BY <2>0, <2>1, <2>3, LongerSelf, ScalarsSettle
  <2>4. CASE m \in ByteMethods
    <3>1. Settles(b, b, m) /\ m \notin {"MapHeader", "ArrayHeader"}
      BY <2>4, LongerSelf, BytesSettle DEF ByteMethods
    <3> QED BY <2>0, <2>1, <3>1
  <2>5. CASE m = "Skip"
    BY <2>0, <2>1, <2>5, LongerSelf, SkipSettles
  <2>6. CASE m = "Float64"
    <3>1. Kept(b, b, r, r, 0)
      BY <2>0, <2>6, <2>Float64Follows
    <3> QED BY <2>0, <2>6, <3>1, <2>RestIs DEF Kept
  <2>7. CASE m = "MapHeader"
    <3>1. Kept(b, b, r, r, 2 * r.v[1])
      BY <2>0, <2>7, LongerSelf, HeadersSettle DEF HeaderSettles
    <3> QED BY <2>0, <2>7, <3>1, <2>RestIs DEF Kept
  <2>8. CASE m = "ArrayHeader"
    <3>1. Kept(b, b, r, r, 1 * r.v[1])
      BY <2>0, <2>8, LongerSelf, HeadersSettle, SMTT(30) DEF HeaderSettles
    <3>2. PICK h : h = readArrayHeaderBytes(b, TRUE)
      BY Zenon
    <3>3. r = Result(<<h.sz>>, h.o, h.err)
      BY <2>0, <2>8, <3>2, CallHeader, ZenonT(60) DEF ReadArrayHeaderBytes
    <3>4. Ok(h) /\ r.v[1] = h.sz
      BY <2>0, <3>3, OkResult DEF Ok
    <3>5. 1 * r.v[1] = r.v[1]
      <4>1. h.sz \in Nat
        BY <3>2, <3>4, HeaderReaders, ZenonT(60)
      <4> QED BY <3>4, <4>1
    <3> QED BY <2>0, <2>8, <3>1, <3>5, <2>RestIs, SMTT(30) DEF Kept
  <2> QED BY <2>2, <2>3, <2>4, <2>5, <2>6, <2>7, <2>8, MethodNames, SMTT(30)
<1>1. Bytewise => ReadersFollowSkip
  <2> SUFFICES ASSUME buf \in Seq(Byte)
               PROVE  ReadersFollowSkip
    BY DEF Bytewise
  <2>1. ASSUME NEW m \in Methods, Ok(Results(buf)[m])
        PROVE  Rest(m, Results(buf)[m]) = Skip(buf)
    <3>1. Results(buf)[m] = Call(m, buf)
      BY DEF Results
    <3> QED BY <2>1, <3>1, <1>Follows
  <2> QED BY <2>1, Zenon DEF ReadersFollowSkip
<1> QED BY <1>1, BytesArrive, PTL

(* Whatever bytes arrive, for every width of int: a value that a reader    *)
(* has delivered is delivered again, with as many bytes consumed, and a    *)
(* refusal that was not for want of bytes is not withdrawn (but for the    *)
(* type error in the place of ErrShortBytes, see ReadsAreStable).  A       *)
(* client may read before all has arrived, and again after ErrShortBytes.  *)
THEOREM ReadsStayStable == Spec => ReadsAreStable
<1>Settled. \A b \in Seq(Byte), d \in Seq(Byte), m \in Methods :
              /\ Longer(b, d)
              /\ ~(m = "Float64" /\ IsNil(b))
              =>
                Stable(m, Call(m, b), Call(m, d), Len(d) - Len(b))
  <2>FloatSettles. ASSUME NEW b \in Seq(Byte), NEW d \in Seq(Byte), Longer(b, d), ~IsNil(b)
                   PROVE  Settles(b, d, "Float64")
    BY <2>FloatSettles, ScalarReaders, SettlesSteady
  <2>StableIs. ASSUME NEW b, NEW d, NEW m, NEW n, Kept(b, d, Call(m, b), Call(m, d), n),
                      Ok(Call(m, d)) /\ ~Ok(Call(m, b)) =>
                         Waits(Call(m, b)) \/ (m \in ByteMethods /\ Call(m, b).err.kind = "type")
               PROVE  Stable(m, Call(m, b), Call(m, d), Len(d) - Len(b))
    <3> USE <2>StableIs
    <3>0. PICK r, s, a : r = Call(m, b) /\ s = Call(m, d) /\ a = Len(d) - Len(b)
      BY Zenon
    <3>1. CASE Ok(r)
      BY <3>0, <3>1, Zenon DEF Stable, Kept
    <3>2. CASE ~Ok(r)
      BY <3>0, <3>2, Zenon DEF Stable, Waits, ByteMethods
    <3> QED BY <3>1, <3>2
  <2> SUFFICES ASSUME NEW b \in Seq(Byte), NEW d \in Seq(Byte), Longer(b, d), NEW m \in Methods, ~(m = "Float64" /\ IsNil(b))
               PROVE  Stable(m, Call(m, b), Call(m, d), Len(d) - Len(b))
    OBVIOUS
  <2>1. ASSUME Settles(b, d, m) PROVE Stable(m, Call(m, b), Call(m, d), Len(d) - Len(b))
    BY <2>1, <2>StableIs, Zenon DEF Settles
  <2>2. ASSUME NEW f, HeaderSettles(b, d, m, f) PROVE Stable(m, Call(m, b), Call(m, d), Len(d) - Len(b))
    BY <2>2, <2>StableIs, Zenon DEF HeaderSettles
  <2>3. CASE m = "Float64"
    BY <2>1, <2>3, <2>FloatSettles
  <2>4. CASE m \in {"MapHeader", "ArrayHeader"}
    BY <2>2, <2>4, HeadersSettle
  <2>5. CASE m = "Skip"
    BY <2>1, <2>5, SkipSettles
  <2> QED BY <2>1, <2>3, <2>4, <2>5, NumbersSettle, ScalarsSettle, BytesSettle, MethodNames, SMTT(30)
<1>ArrivedLonger. ASSUME buf \in Seq(Byte), buf' \in Seq(Byte), [Arrive]_buf
                  PROVE  Longer(buf, buf')
  <2> USE <1>ArrivedLonger
  <2>1. CASE buf = <<>>
    BY <2>1 DEF Longer
  <2>2. ASSUME NEW s \in Seq(Byte), buf' = buf \o s PROVE Longer(buf, buf')
    BY <2>2 DEF Longer
  <2>3. CASE buf' = buf
    BY <2>3, LongerSelf
  <2> QED BY <2>1, <2>2, <2>3, Zenon DEF Arrive
<1>1. Bytewise /\ Bytewise' /\ [Arrive]_buf =>
        [\A m \in Methods : \/ Stable(m, Call(m, buf), Call(m, buf'), Len(buf') - Len(buf))
                            \/ m = "Float64" /\ IsNil(buf)]_buf
  <2> SUFFICES ASSUME buf \in Seq(Byte), buf' \in Seq(Byte), [Arrive]_buf, NEW m \in Methods
               PROVE  \/ Stable(m, Call(m, buf), Call(m, buf'), Len(buf') - Len(buf))
                      \/ m = "Float64" /\ IsNil(buf)
    BY Zenon DEF Bytewise
  <2>1. Longer(buf, buf')
    BY <1>ArrivedLonger
  <2>2. PICK b \in Seq(Byte), d \in Seq(Byte) : b = buf /\ d = buf'
    BY Zenon
  <2>3. Longer(b, d)
    BY <2>1, <2>2
  <2>4. ~(m = "Float64" /\ IsNil(b)) => Stable(m, Call(m, b), Call(m, d), Len(d) - Len(b))
    BY <2>3, <1>Settled, Zenon
  <2> QED BY <2>2, <2>4, Zenon
<1> QED BY <1>1, BytesArrive, PTL DEF Spec, ReadsAreStable

(* In every buffer, the reader of the type that NextType announces fails   *)
(* only for want of bytes, or because the length does not fit an int.      *)
THEOREM AnnouncedTypesReadable == Spec => []NextTypeIsReadable
<1>BlobsReadable. \A b \in Seq(Byte), c \in Byte :
                    /\ Len(b) >= 1
                    /\ c = b[1]
                    =>
                      /\ sizes(c).typ = "str" => Call("String", b).err \in Wants
                      /\ sizes(c).typ = "bin" => Call("Bytes", b).err \in Wants
  <2> SUFFICES ASSUME NEW b \in Seq(Byte), Len(b) >= 1, NEW c \in Byte, c = b[1]
               PROVE  /\ sizes(c).typ = "str" => Call("String", b).err \in Wants
                      /\ sizes(c).typ = "bin" => Call("Bytes", b).err \in Wants
    OBVIOUS
  <2>0. ~(Len(b) < 1)
    OBVIOUS
  <2>1. ASSUME sizes(c).typ = "str" PROVE Call("String", b).err \in Wants
    <3>1. strLead(b[1])
      BY <2>1, TypeLeads, Zenon
    <3> QED BY <3>1, StringReaders, CallBlob
  <2>2. ASSUME sizes(c).typ = "bin" PROVE Call("Bytes", b).err \in Wants
    <3>1. BlobLead(b[1])
      BY <2>2, TypeLeads, Zenon DEF BlobLead
    <3>2. PICK q : q = blob(b, blobHeader(b)) /\ q.err \in Wants /\ IsResult(q)
      BY BlobWants, BlobResult
    <3>3. readBytesBytes(b, TRUE) = Sliced(q)
      BY <2>0, <3>1, <3>2, BytesCases, ZenonT(60)
    <3>4. Sliced(q) = Result(IF Ok(q) THEN Bytes(q.v) ELSE NilBytes, q.o, q.err)
      BY <3>2, SlicedIs
    <3>5. Sliced(q).err = q.err /\ IsResult(Sliced(q))
      BY <3>4, OkResult, ResultIs
    <3>6. contents(Sliced(q)).err = q.err
      BY <3>5, ContentsIs, OkResult
    <3>7. Call("Bytes", b) = contents(Sliced(q))
      BY <3>3, CallBytes, Zenon
    <3> QED BY <3>2, <3>6, <3>7, Zenon
  <2> QED BY <2>1, <2>2
(* NextType looks behind the lead byte for extensions only.                *)
<1>NextTypeIs. ASSUME NEW b, NextType(b) \in DOMAIN ReaderOf
               PROVE  Len(b) # 0 /\ NextType(b) = sizes(b[1]).typ
  <2> USE <1>NextTypeIs
  <2>1. \A t \in DOMAIN ReaderOf : t \notin {"invalid", "ext", "time", "complex128", "complex64"}
    BY DEF ReaderOf
  <2>2. NextType(b) \in {"invalid", "ext", "time", "complex128", "complex64"}
          \/ (Len(b) # 0 /\ NextType(b) = sizes(b[1]).typ)
    BY DEF NextType
  <2> QED BY <2>1, <2>2
<1>ReaderNames. /\ DOMAIN ReaderOf = {"nil", "bool", "str", "bin", "map", "array", "float32", "float64", "int", "uint"}
                /\ ReaderOf["nil"] = "Nil" /\ ReaderOf["bool"] = "Bool" /\ ReaderOf["str"] = "String" /\ ReaderOf["bin"] = "Bytes"
                /\ ReaderOf["map"] = "MapHeader" /\ ReaderOf["array"] = "ArrayHeader" /\ ReaderOf["float32"] = "Float32"
                /\ ReaderOf["float64"] = "Float64" /\ ReaderOf["int"] = "Int64" /\ ReaderOf["uint"] = "Uint64"
  BY DEF ReaderOf
<1>1. Bytewise => NextTypeIsReadable
  <2> SUFFICES ASSUME buf \in Seq(Byte), NextType(buf) \in DOMAIN ReaderOf
               PROVE  Call(ReaderOf[NextType(buf)], buf).err \in Wants
    BY DEF Bytewise, NextTypeIsReadable, Wants
  <2>1. Len(buf) # 0 /\ NextType(buf) = sizes(buf[1]).typ
    BY <1>NextTypeIs
  <2>2. Len(buf) >= 1
    BY <2>1
  <2>9. buf[1] \in Byte
    BY <2>2, Elements
  <2>10. PICK c \in Byte : \E t : c = buf[1] /\ t = NextType(buf) /\ t = sizes(c).typ
    BY <2>1, <2>9, Zenon
  <2>3. PICK t : t = NextType(buf) /\ t = sizes(c).typ
    BY <2>10, Zenon
  <2>4. t \in {"nil", "bool", "float32", "float64"} => Call(ReaderOf[t], buf).err \in Wants
    BY <2>2, <2>3, <2>10, ScalarReaders, <1>ReaderNames, Zenon
  <2>5. t \in {"int", "uint"} => Call(ReaderOf[t], buf).err \in Wants
    BY <2>2, <2>3, <2>10, IntegerReaders, <1>ReaderNames, Zenon
  <2>6. t \in {"map", "array"} => Call(ReaderOf[t], buf).err \in Wants
    BY <2>2, <2>3, <2>10, HeaderReaders, <1>ReaderNames, Zenon
  <2>7. t \in {"str", "bin"} => Call(ReaderOf[t], buf).err \in Wants
    BY <2>2, <2>3, <2>10, <1>BlobsReadable, <1>ReaderNames, SMTT(30)
  <2>8. t \in {"nil", "bool", "float32", "float64"} \/ t \in {"int", "uint"} \/ t \in {"map", "array"} \/ t \in {"str", "bin"}
    BY <2>3, <1>ReaderNames
  <2> QED BY <2>3, <2>4, <2>5, <2>6, <2>7, <2>8, ZenonT(60)
<1> QED BY <1>1, BytesArrive, PTL

(* In every buffer, the length that ReadBytesBytesHeader announces is the  *)
(* length of what ReadBytesBytes delivers.                                 *)
THEOREM LengthsAnnounced == Spec => []AnnouncedLength
<1>1. Bytewise => AnnouncedLength
  <2> SUFFICES ASSUME buf \in Seq(Byte)
               PROVE  AnnouncedIn(buf)
    BY Zenon DEF Bytewise, AnnouncedLength, AnnouncedIn
  <2> QED BY ByteSlices
<1> QED BY <1>1, BytesArrive, PTL

=============================================================================

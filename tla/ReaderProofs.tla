---------------------------- MODULE ReaderProofs ----------------------------
(***************************************************************************)
(* What one call of a reader of nil, booleans, floats, extensions,         *)
(* headers, strings and blobs does, for every slice of bytes and every     *)
(* width of int (read_bytes.go, extension.go).  Steady, of DecodeProofs:   *)
(* the reader asks for more bytes, or refuses the slice and every longer   *)
(* one, or takes the object the table `sizes` announces, the same one of   *)
(* every longer slice.  One lemma for each group of readers has what       *)
(* ArrivalProofs cites; what only its proof needs is inside the proof.     *)
(***************************************************************************)
EXTENDS DecodeProofs

(* A float32 read as a float64.                                            *)
Widened(b) == [ReadFloat32Bytes(b) EXCEPT !.v = IF ReadFloat32Bytes(b).err = NoError THEN float64(ReadFloat32Bytes(b).v) ELSE Zero(8)]

(* What the readers of nil, booleans and floats promise.                   *)
LEMMA ScalarReaders ==
  /\ \A b \in Seq(Byte), c \in Byte : Len(b) >= 1 /\ c = b[1] =>
       /\ sizes(c).typ = "nil" => Call("Nil", b).err \in Wants
       /\ sizes(c).typ = "bool" => Call("Bool", b).err \in Wants
       /\ sizes(c).typ = "float32" => Call("Float32", b).err \in Wants
       /\ sizes(c).typ = "float64" => Call("Float64", b).err \in Wants
  /\ \A b \in Seq(Byte), d \in Seq(Byte) : Longer(b, d) =>
       /\ \A m \in {"Nil", "Bool", "Float32"} : Steady(b, d, Call(m, b), Call(m, d))
       /\ ~IsNil(b) => Steady(b, d, Call("Float64", b), Call("Float64", d))
  /\ \A b \in Seq(Byte) : Len(b) >= 1 /\ b[1] = mnil =>
       \/ Call("Float64", b) = Result(Zero(8), From(b, 1), NoError)
       \/ ~Ok(Call("Float64", b))
<1>CallScalar. ASSUME NEW b
               PROVE  /\ Call("Nil", b) = [ReadNilBytes(b) EXCEPT !.v = <<>>]
                      /\ Call("Bool", b) = [ReadBoolBytes(b) EXCEPT !.v = IF ReadBoolBytes(b).v THEN <<1>> ELSE <<0>>]
                      /\ Call("Float32", b) = ReadFloat32Bytes(b)
                      /\ Call("Float64", b) = ReadFloat64Bytes(b)
  BY DEF Call
<1>NilCases. ASSUME NEW b \in Seq(Byte)
             PROVE  /\ Len(b) < 1 => ReadNilBytes(b) = Result("nil", <<>>, ErrShort)
                    /\ Len(b) >= 1 /\ b[1] # mnil => ReadNilBytes(b) = Result("nil", b, badPrefix(b[1]))
                    /\ Len(b) >= 1 /\ b[1] = mnil => ReadNilBytes(b) = Result("nil", From(b, 1), NoError)
  BY DEF ReadNilBytes
<1>BoolCases. \A b \in Seq(Byte) :
                /\ Len(b) < 1 => Call("Bool", b) = Result(<<0>>, b, ErrShort)
                /\ Len(b) >= 1 /\ b[1] = mtrue => Call("Bool", b) = Result(<<1>>, From(b, 1), NoError)
                /\ Len(b) >= 1 /\ b[1] \in {mfalse, mnil} => Call("Bool", b) = Result(<<0>>, From(b, 1), NoError)
                /\ Len(b) >= 1 /\ b[1] \notin {mtrue, mfalse, mnil} => Call("Bool", b) = Result(<<0>>, b, badPrefix(b[1]))
  <2>BoolValue. ASSUME NEW b, NEW o, NEW x
                PROVE  /\ ReadBoolBytes(b) = Result(TRUE, o, x) => Call("Bool", b) = Result(<<1>>, o, x)
                       /\ ReadBoolBytes(b) = Result(FALSE, o, x) => Call("Bool", b) = Result(<<0>>, o, x)
    <3>1. /\ [Result(TRUE, o, x) EXCEPT !.v = IF Result(TRUE, o, x).v THEN <<1>> ELSE <<0>>] = Result(<<1>>, o, x)
          /\ [Result(FALSE, o, x) EXCEPT !.v = IF Result(FALSE, o, x).v THEN <<1>> ELSE <<0>>] = Result(<<0>>, o, x)
      BY DEF Result
    <3>2. Call("Bool", b) = [ReadBoolBytes(b) EXCEPT !.v = IF ReadBoolBytes(b).v THEN <<1>> ELSE <<0>>]
      BY <1>CallScalar
    <3> QED BY <3>1, <3>2, Zenon
  <2> SUFFICES ASSUME NEW b \in Seq(Byte)
               PROVE  /\ Len(b) < 1 => Call("Bool", b) = Result(<<0>>, b, ErrShort)
                      /\ Len(b) >= 1 /\ b[1] = mtrue => Call("Bool", b) = Result(<<1>>, From(b, 1), NoError)
                      /\ Len(b) >= 1 /\ b[1] \in {mfalse, mnil} => Call("Bool", b) = Result(<<0>>, From(b, 1), NoError)
                      /\ Len(b) >= 1 /\ b[1] \notin {mtrue, mfalse, mnil} => Call("Bool", b) = Result(<<0>>, b, badPrefix(b[1]))
    OBVIOUS
  <2>1. Len(b) < 1 => Call("Bool", b) = Result(<<0>>, b, ErrShort)
    <3>1. Len(b) < 1 => ReadBoolBytes(b) = Result(FALSE, b, ErrShort)
      BY Zenon DEF ReadBoolBytes
    <3> QED BY <3>1, <2>BoolValue, Zenon
  <2>2. ASSUME Len(b) >= 1, b[1] = mtrue PROVE Call("Bool", b) = Result(<<1>>, From(b, 1), NoError)
    <3>1. ~(Len(b) < 1) /\ b[1] \notin {mfalse, mnil}
      BY <2>2 DEF mtrue, mfalse, mnil
    <3>2. ReadBoolBytes(b) = Result(TRUE, From(b, 1), NoError)
      BY <2>2, <3>1, Zenon DEF ReadBoolBytes
    <3> QED BY <3>2, <2>BoolValue, Zenon
  <2>3. ASSUME Len(b) >= 1, b[1] \in {mfalse, mnil} PROVE Call("Bool", b) = Result(<<0>>, From(b, 1), NoError)
    <3>1. ~(Len(b) < 1) /\ b[1] # mtrue
      BY <2>3 DEF mtrue, mfalse, mnil
    <3>2. ReadBoolBytes(b) = Result(FALSE, From(b, 1), NoError)
      BY <2>3, <3>1, Zenon DEF ReadBoolBytes
    <3> QED BY <3>2, <2>BoolValue, Zenon
  <2>4. ASSUME Len(b) >= 1, b[1] \notin {mtrue, mfalse, mnil} PROVE Call("Bool", b) = Result(<<0>>, b, badPrefix(b[1]))
    <3>1. ~(Len(b) < 1) /\ b[1] # mtrue /\ b[1] \notin {mfalse, mnil}
      BY <2>4 DEF mtrue, mfalse, mnil
    <3>2. ReadBoolBytes(b) = Result(FALSE, b, badPrefix(b[1]))
      BY <3>1, Zenon DEF ReadBoolBytes
    <3> QED BY <3>2, <2>BoolValue, Zenon
  <2> QED BY <2>1, <2>2, <2>3, <2>4
<1>Float32Cases. ASSUME NEW b \in Seq(Byte)
                 PROVE  /\ Len(b) < 1 => ReadFloat32Bytes(b) = Result(Zero(4), <<>>, ErrShort)
                        /\ Len(b) >= 1 /\ b[1] = mnil => ReadFloat32Bytes(b) = Result(Zero(4), From(b, 1), NoError)
                        /\ Len(b) >= 1 /\ b[1] \notin {mnil, mfloat32} =>
                             ReadFloat32Bytes(b) = Result(Zero(4), <<>>, TypeError(getType(b[1])))
                        /\ Len(b) >= 1 /\ b[1] = mfloat32 /\ Len(b) < 5 => ReadFloat32Bytes(b) = Result(Zero(4), <<>>, ErrShort)
                        /\ Len(b) >= 5 /\ b[1] = mfloat32 => ReadFloat32Bytes(b) = Result(Field(b, 4), From(b, 5), NoError)
  BY DEF ReadFloat32Bytes, mnil, mfloat32
<1>Float64Cases. \A b \in Seq(Byte) :
                   /\ Len(b) = 0 => ReadFloat64Bytes(b) = Result(Zero(8), <<>>, Panic)
                   /\ Len(b) >= 5 /\ b[1] = mfloat32 =>
                        ReadFloat64Bytes(b) = Result(float64(Field(b, 4)), From(b, 5), NoError)
                   /\ Len(b) >= 1 /\ Len(b) < 9 /\ b[1] = mnil => ReadFloat64Bytes(b) = Result(Zero(8), From(b, 1), NoError)
                   /\ Len(b) >= 1 /\ Len(b) < 5 /\ b[1] # mnil => ReadFloat64Bytes(b) = Result(Zero(8), <<>>, ErrShort)
                   /\ Len(b) >= 5 /\ Len(b) < 9 /\ b[1] \notin {mnil, mfloat32} => ReadFloat64Bytes(b) = Result(Zero(8), <<>>, ErrShort)
                   /\ Len(b) >= 9 /\ b[1] = mfloat64 => ReadFloat64Bytes(b) = Result(Field(b, 8), From(b, 9), NoError)
                   /\ Len(b) >= 9 /\ b[1] \notin {mfloat32, mfloat64} =>
                        ReadFloat64Bytes(b) = Result(Zero(8), <<>>, badPrefix(b[1]))
  <2>WidenedIs. ASSUME NEW b \in Seq(Byte), Len(b) >= 5, b[1] = mfloat32
                PROVE  Widened(b) = Result(float64(Field(b, 4)), From(b, 5), NoError)
    <3> USE <2>WidenedIs
    <3>1. ReadFloat32Bytes(b) = Result(Field(b, 4), From(b, 5), NoError)
      BY <1>Float32Cases
    <3> QED BY <3>1 DEF Widened, Result
  <2> SUFFICES ASSUME NEW b \in Seq(Byte)
               PROVE  /\ Len(b) = 0 => ReadFloat64Bytes(b) = Result(Zero(8), <<>>, Panic)
                      /\ Len(b) >= 5 /\ b[1] = mfloat32 =>
                           ReadFloat64Bytes(b) = Result(float64(Field(b, 4)), From(b, 5), NoError)
                      /\ Len(b) >= 1 /\ Len(b) < 9 /\ b[1] = mnil => ReadFloat64Bytes(b) = Result(Zero(8), From(b, 1), NoError)
                      /\ Len(b) >= 1 /\ Len(b) < 5 /\ b[1] # mnil => ReadFloat64Bytes(b) = Result(Zero(8), <<>>, ErrShort)
                      /\ Len(b) >= 5 /\ Len(b) < 9 /\ b[1] \notin {mnil, mfloat32} => ReadFloat64Bytes(b) = Result(Zero(8), <<>>, ErrShort)
                      /\ Len(b) >= 9 /\ b[1] = mfloat64 => ReadFloat64Bytes(b) = Result(Field(b, 8), From(b, 9), NoError)
                      /\ Len(b) >= 9 /\ b[1] \notin {mfloat32, mfloat64} =>
                           ReadFloat64Bytes(b) = Result(Zero(8), <<>>, badPrefix(b[1]))
    OBVIOUS
  <2>0. Len(b) \in Nat
    OBVIOUS
  <2>1. Len(b) >= 5 /\ b[1] = mfloat32 => ReadFloat64Bytes(b) = Widened(b)
    BY <2>0 DEF ReadFloat64Bytes, Widened, mnil, mfloat32, mfloat64
  <2>2. Len(b) >= 5 /\ b[1] = mfloat32 => ReadFloat64Bytes(b) = Result(float64(Field(b, 4)), From(b, 5), NoError)
    BY <2>1, <2>WidenedIs
  <2>3. Len(b) = 0 => ReadFloat64Bytes(b) = Result(Zero(8), <<>>, Panic)
    BY <2>0 DEF ReadFloat64Bytes, mnil, mfloat32, mfloat64
  <2>4. ASSUME Len(b) >= 1 /\ Len(b) < 9, b[1] = mnil PROVE ReadFloat64Bytes(b) = Result(Zero(8), From(b, 1), NoError)
    <3>1. Len(b) < 9 /\ Len(b) # 0 /\ ~(Len(b) >= 5 /\ b[1] = mfloat32) /\ Len(b) > 0 /\ b[1] = mnil
      BY <2>4 DEF mnil, mfloat32, mfloat64
    <3> QED BY <3>1, Zenon DEF ReadFloat64Bytes
  <2>5. ASSUME Len(b) >= 1 /\ Len(b) < 5, b[1] # mnil PROVE ReadFloat64Bytes(b) = Result(Zero(8), <<>>, ErrShort)
    <3>1. Len(b) < 9 /\ Len(b) # 0 /\ ~(Len(b) >= 5 /\ b[1] = mfloat32) /\ ~(Len(b) > 0 /\ b[1] = mnil)
      BY <2>5 DEF mnil, mfloat32, mfloat64
    <3> QED BY <3>1, Zenon DEF ReadFloat64Bytes
  <2>6. ASSUME Len(b) >= 5 /\ Len(b) < 9, b[1] \notin {mnil, mfloat32} PROVE ReadFloat64Bytes(b) = Result(Zero(8), <<>>, ErrShort)
    <3>1. Len(b) < 9 /\ Len(b) # 0 /\ ~(Len(b) >= 5 /\ b[1] = mfloat32) /\ ~(Len(b) > 0 /\ b[1] = mnil)
      BY <2>6 DEF mnil, mfloat32, mfloat64
    <3> QED BY <3>1, Zenon DEF ReadFloat64Bytes
  <2>7. Len(b) >= 9 /\ b[1] = mfloat64 => ReadFloat64Bytes(b) = Result(Field(b, 8), From(b, 9), NoError)
    BY <2>0 DEF ReadFloat64Bytes, mnil, mfloat32, mfloat64
  <2>8. Len(b) >= 9 /\ b[1] \notin {mfloat32, mfloat64} => ReadFloat64Bytes(b) = Result(Zero(8), <<>>, badPrefix(b[1]))
    BY <2>0 DEF ReadFloat64Bytes, mnil, mfloat32, mfloat64
  <2> QED BY <2>2, <2>3, <2>4, <2>5, <2>6, <2>7, <2>8
<1>ScalarsSteady. \A b \in Seq(Byte), d \in Seq(Byte) :
                    Longer(b, d) =>
                      /\ \A m \in {"Nil", "Bool", "Float32"} : Steady(b, d, Call(m, b), Call(m, d))
                      /\ ~IsNil(b) => Steady(b, d, Call("Float64", b), Call("Float64", d))
  <2>NilSteady. \A b \in Seq(Byte), d \in Seq(Byte) :
                  Longer(b, d) =>
                    Steady(b, d, Call("Nil", b), Call("Nil", d))
    (* The value may be converted.                                             *)
    <3>SteadyValue. ASSUME NEW v, NEW o, NEW x, NEW w
                    PROVE  [Result(v, o, x) EXCEPT !.v = w] = Result(w, o, x)
      BY DEF Result
    <3> SUFFICES ASSUME NEW b \in Seq(Byte), NEW d \in Seq(Byte), Longer(b, d)
                 PROVE  Steady(b, d, Call("Nil", b), Call("Nil", d))
      OBVIOUS
    <3>0. Len(b) \in Nat /\ Len(d) \in Nat /\ Len(b) <= Len(d) /\ (Len(b) >= 1 => d[1] = b[1])
      BY SameFields
    <3>1. CASE Len(b) < 1
      <4>1. Call("Nil", b) = Result(<<>>, <<>>, ErrShort)
        BY <3>1, <1>NilCases, <1>CallScalar, <3>SteadyValue
      <4> QED BY <4>1, SteadyWaits
    <3>2. CASE Len(b) >= 1 /\ b[1] # mnil
      <4>1. Call("Nil", b) = Result(<<>>, b, badPrefix(b[1]))
        BY <3>2, <1>NilCases, <1>CallScalar, <3>SteadyValue
      <4>2. Call("Nil", d) = Result(<<>>, d, badPrefix(d[1]))
        BY <3>0, <3>2, <1>NilCases, <1>CallScalar, <3>SteadyValue, SMTT(30)
      <4> QED BY <4>1, <4>2, SteadyRefuses, ErrorsDiffer
    <3>3. CASE Len(b) >= 1 /\ b[1] = mnil
      <4>1. Call("Nil", b) = Result(<<>>, From(b, 1), NoError)
        BY <3>3, <1>NilCases, <1>CallScalar, <3>SteadyValue
      <4>2a. Len(d) >= 1 /\ d[1] = mnil
        BY <3>0, <3>3
      <4>2b. ReadNilBytes(d) = Result("nil", From(d, 1), NoError)
        BY <4>2a, <1>NilCases
      <4>2. Call("Nil", d) = Result(<<>>, From(d, 1), NoError)
        BY <4>2b, <1>CallScalar, <3>SteadyValue
      <4> QED BY <3>3, <4>1, <4>2, SteadyTakes, NilSize
    <3> QED BY <3>0, <3>1, <3>2, <3>3
  <2>BoolSteady. ASSUME NEW b \in Seq(Byte), NEW d \in Seq(Byte), Longer(b, d)
                 PROVE  Steady(b, d, Call("Bool", b), Call("Bool", d))
    <3> USE <2>BoolSteady
    <3>0. Len(b) \in Nat /\ Len(d) \in Nat /\ Len(b) <= Len(d) /\ (Len(b) >= 1 => Len(d) >= 1 /\ d[1] = b[1])
      BY SameFields
    <3>1. CASE Len(b) < 1
      BY <3>1, <1>BoolCases, SteadyWaits
    <3>2. CASE Len(b) >= 1 /\ b[1] \notin {mtrue, mfalse, mnil}
      <4>1. Call("Bool", b) = Result(<<0>>, b, badPrefix(b[1])) /\ Call("Bool", d) = Result(<<0>>, d, badPrefix(d[1]))
        BY <3>0, <3>2, <1>BoolCases
      <4> QED BY <4>1, SteadyRefuses, ErrorsDiffer
    <3>3. CASE Len(b) >= 1 /\ b[1] \in {mtrue, mfalse, mnil}
      <4>1. PICK v : Call("Bool", b) = Result(v, From(b, 1), NoError) /\ Call("Bool", d) = Result(v, From(d, 1), NoError)
        BY <3>0, <3>3, <1>BoolCases
      <4>2. PICK t : sizes(b[1]) = bytespec(1, constsize, t)
        BY <3>3, LeadSizes
      <4>3. 1 \in Nat \ {0} /\ 1 \in 1..Len(b)
        BY <3>0, <3>3
      <4>4. getSize(b) = Sized(1, 0)
        BY <3>3, <4>2, <4>3, ConstSize, Zenon
      <4> QED BY <4>1, <4>3, <4>4, SteadyTakes
    <3> QED BY <3>0, <3>1, <3>2, <3>3
  <2>FloatSizes. ASSUME NEW b \in Seq(Byte)
                 PROVE  /\ Len(b) >= 1 /\ b[1] = mfloat32 => getSize(b) = Sized(5, 0)
                        /\ Len(b) >= 1 /\ b[1] = mfloat64 => getSize(b) = Sized(9, 0)
    <3>1. 5 \in Nat \ {0} /\ 9 \in Nat \ {0}
      OBVIOUS
    <3>2. Len(b) >= 1 /\ b[1] = mfloat32 => getSize(b) = Sized(5, 0)
      BY <3>1, ConstSize, LeadSizes
    <3>3. Len(b) >= 1 /\ b[1] = mfloat64 => getSize(b) = Sized(9, 0)
      BY <3>1, ConstSize, LeadSizes
    <3> QED BY <3>2, <3>3
  <2>Float32Steady. ASSUME NEW b \in Seq(Byte), NEW d \in Seq(Byte), Longer(b, d)
                    PROVE  Steady(b, d, ReadFloat32Bytes(b), ReadFloat32Bytes(d))
    <3> USE <2>Float32Steady
    <3>0. Len(b) \in Nat /\ Len(d) \in Nat /\ Len(b) <= Len(d) /\ (Len(b) >= 1 => Len(d) >= 1 /\ d[1] = b[1])
      BY SameFields
    <3>1. CASE Len(b) < 1
      BY <3>1, <1>Float32Cases, SteadyWaits
    <3>2. CASE Len(b) >= 1 /\ b[1] = mnil
      <4>1. ReadFloat32Bytes(b) = Result(Zero(4), From(b, 1), NoError) /\ ReadFloat32Bytes(d) = Result(Zero(4), From(d, 1), NoError)
        BY <3>0, <3>2, <1>Float32Cases
      <4> QED BY <3>2, <4>1, NilSize, SteadyTakes
    <3>3. CASE Len(b) >= 1 /\ b[1] \notin {mnil, mfloat32}
      <4>1. /\ ReadFloat32Bytes(b) = Result(Zero(4), <<>>, TypeError(getType(b[1])))
            /\ ReadFloat32Bytes(d) = Result(Zero(4), <<>>, TypeError(getType(d[1])))
        BY <3>0, <3>3, <1>Float32Cases
      <4> QED BY <4>1, SteadyRefuses, ErrorsDiffer
    <3>4. CASE Len(b) >= 1 /\ b[1] = mfloat32 /\ Len(b) < 5
      BY <3>4, <1>Float32Cases, SteadyWaits
    <3>5. CASE Len(b) >= 5 /\ b[1] = mfloat32
      <4>1. /\ ReadFloat32Bytes(b) = Result(Field(b, 4), From(b, 5), NoError)
            /\ ReadFloat32Bytes(d) = Result(Field(d, 4), From(d, 5), NoError)
        BY <3>0, <3>5, <1>Float32Cases
      <4>2. 5 \in 1..Len(b) /\ 4 \in Nat /\ 4 + 1 <= Len(b)
        BY <3>0, <3>5
      <4>3. Field(d, 4) = Field(b, 4)
        BY <4>2, SameField
      <4>4. getSize(b) = Sized(5, 0)
        BY <3>0, <3>5, <2>FloatSizes
      <4> QED BY <4>1, <4>2, <4>3, <4>4, SteadyTakes
    <3> QED BY <3>0, <3>1, <3>2, <3>3, <3>4, <3>5
  <2>Float64Steady. ASSUME NEW b \in Seq(Byte), NEW d \in Seq(Byte), Longer(b, d), ~IsNil(b)
                    PROVE  Steady(b, d, ReadFloat64Bytes(b), ReadFloat64Bytes(d))
    <3> USE <2>Float64Steady
    <3>0. Len(b) \in Nat /\ Len(d) \in Nat /\ Len(b) <= Len(d) /\ (Len(b) >= 1 => Len(d) >= 1 /\ d[1] = b[1] /\ b[1] # mnil)
      BY SameFields DEF IsNil
    <3>1. CASE Len(b) = 0
      BY <3>1, <1>Float64Cases, SteadyWaits, ZenonT(60)
    <3>2. CASE Len(b) >= 1 /\ b[1] \notin {mfloat32, mfloat64}
      <4>1. CASE Len(b) < 9
        <5>1. ReadFloat64Bytes(b) = Result(Zero(8), <<>>, ErrShort)
          BY <3>0, <3>2, <4>1, <1>Float64Cases
        <5> QED BY <5>1, SteadyWaits
      <4>2. CASE Len(b) >= 9
        <5>1. /\ ReadFloat64Bytes(b) = Result(Zero(8), <<>>, badPrefix(b[1]))
              /\ ReadFloat64Bytes(d) = Result(Zero(8), <<>>, badPrefix(d[1]))
          BY <3>0, <3>2, <4>2, <1>Float64Cases
        <5> QED BY <5>1, SteadyRefuses, ErrorsDiffer
      <4> QED BY <3>0, <4>1, <4>2
    <3>3. CASE Len(b) >= 1 /\ Len(b) < 5 /\ b[1] = mfloat32
      <4>1. ReadFloat64Bytes(b) = Result(Zero(8), <<>>, ErrShort)
        BY <3>0, <3>3, <1>Float64Cases
      <4> QED BY <4>1, SteadyWaits
    <3>4. CASE Len(b) >= 1 /\ Len(b) < 9 /\ b[1] = mfloat64
      <4>1. ReadFloat64Bytes(b) = Result(Zero(8), <<>>, ErrShort)
        BY <3>0, <3>4, <1>Float64Cases DEF mnil, mfloat32, mfloat64
      <4> QED BY <4>1, SteadyWaits
    <3>5. CASE Len(b) >= 5 /\ b[1] = mfloat32
      <4>1. /\ ReadFloat64Bytes(b) = Result(float64(Field(b, 4)), From(b, 5), NoError)
            /\ ReadFloat64Bytes(d) = Result(float64(Field(d, 4)), From(d, 5), NoError)
        BY <3>0, <3>5, <1>Float64Cases
      <4>2. 5 \in 1..Len(b) /\ 4 \in Nat /\ 4 + 1 <= Len(b)
        BY <3>0, <3>5
      <4>3. Field(d, 4) = Field(b, 4)
        BY <4>2, SameField
      <4>4. getSize(b) = Sized(5, 0)
        BY <3>0, <3>5, <2>FloatSizes
      <4> QED BY <4>1, <4>2, <4>3, <4>4, SteadyTakes
    <3>6. CASE Len(b) >= 9 /\ b[1] = mfloat64
      <4>1. /\ ReadFloat64Bytes(b) = Result(Field(b, 8), From(b, 9), NoError)
            /\ ReadFloat64Bytes(d) = Result(Field(d, 8), From(d, 9), NoError)
        BY <3>0, <3>6, <1>Float64Cases
      <4>2. 9 \in 1..Len(b) /\ 8 \in Nat /\ 8 + 1 <= Len(b)
        BY <3>0, <3>6
      <4>3. Field(d, 8) = Field(b, 8)
        BY <4>2, SameField
      <4>4. getSize(b) = Sized(9, 0)
        BY <3>0, <3>6, <2>FloatSizes
      <4> QED BY <4>1, <4>2, <4>3, <4>4, SteadyTakes
    <3> QED BY <3>0, <3>1, <3>2, <3>3, <3>4, <3>5, <3>6
  <2> SUFFICES ASSUME NEW b \in Seq(Byte), NEW d \in Seq(Byte), Longer(b, d)
               PROVE  /\ \A m \in {"Nil", "Bool", "Float32"} : Steady(b, d, Call(m, b), Call(m, d))
                      /\ ~IsNil(b) => Steady(b, d, Call("Float64", b), Call("Float64", d))
    OBVIOUS
  <2>1. Steady(b, d, Call("Nil", b), Call("Nil", d)) /\ Steady(b, d, Call("Bool", b), Call("Bool", d))
    BY <2>NilSteady, <2>BoolSteady
  <2>2. Steady(b, d, Call("Float32", b), Call("Float32", d))
    BY <1>CallScalar, <2>Float32Steady
  <2>3. ~IsNil(b) => Steady(b, d, Call("Float64", b), Call("Float64", d))
    BY <1>CallScalar, <2>Float64Steady
  <2> QED BY <2>1, <2>2, <2>3
<1>Float64Nil. ASSUME NEW b \in Seq(Byte), Len(b) >= 1, b[1] = mnil
               PROVE  \/ Call("Float64", b) = Result(Zero(8), From(b, 1), NoError)
                      \/ ~Ok(Call("Float64", b))
  <2> USE <1>Float64Nil
  <2>0. Call("Float64", b) = ReadFloat64Bytes(b)
    BY <1>CallScalar
  <2>1. CASE Len(b) < 9
    BY <2>0, <2>1, <1>Float64Cases
  <2>2. CASE ~(Len(b) < 9)
    <3>1. ReadFloat64Bytes(b) = Result(Zero(8), <<>>, badPrefix(b[1]))
      BY <2>2, <1>Float64Cases DEF mnil, mfloat32, mfloat64
    <3> QED BY <2>0, <3>1, OkResult, ErrorsDiffer
  <2> QED BY <2>1, <2>2
<1>ScalarsReadable. \A b \in Seq(Byte), c \in Byte :
                      /\ Len(b) >= 1
                      /\ c = b[1]
                      =>
                        /\ sizes(c).typ = "nil" => Call("Nil", b).err \in Wants
                        /\ sizes(c).typ = "bool" => Call("Bool", b).err \in Wants
                        /\ sizes(c).typ = "float32" => Call("Float32", b).err \in Wants
                        /\ sizes(c).typ = "float64" => Call("Float64", b).err \in Wants
  <2>ScalarLeads. ASSUME NEW c \in Byte
                  PROVE  /\ sizes(c).typ = "nil" => c = mnil
                         /\ sizes(c).typ = "bool" => c = mtrue \/ c \in {mfalse, mnil}
                         /\ sizes(c).typ = "float32" => c = mfloat32
                         /\ sizes(c).typ = "float64" => c = mfloat64
    BY TypeLeads
  <2> SUFFICES ASSUME NEW b \in Seq(Byte), Len(b) >= 1, NEW c \in Byte, c = b[1]
               PROVE  /\ sizes(c).typ = "nil" => Call("Nil", b).err \in Wants
                      /\ sizes(c).typ = "bool" => Call("Bool", b).err \in Wants
                      /\ sizes(c).typ = "float32" => Call("Float32", b).err \in Wants
                      /\ sizes(c).typ = "float64" => Call("Float64", b).err \in Wants
    OBVIOUS
  <2>1. ASSUME sizes(c).typ = "nil" PROVE Call("Nil", b).err \in Wants
    <3>1. b[1] = mnil
      BY <2>1, <2>ScalarLeads
    <3>2. ReadNilBytes(b) = Result("nil", From(b, 1), NoError)
      BY <3>1, <1>NilCases
    <3>3. Call("Nil", b) = [ReadNilBytes(b) EXCEPT !.v = <<>>]
      BY <1>CallScalar
    <3>4. Call("Nil", b) = Result(<<>>, From(b, 1), NoError)
      BY <3>2, <3>3 DEF Result
    <3> QED BY <3>4, ResultWants
  <2>2. ASSUME sizes(c).typ = "bool" PROVE Call("Bool", b).err \in Wants
    <3>1. b[1] = mtrue \/ b[1] \in {mfalse, mnil}
      BY <2>2, <2>ScalarLeads
    <3>2. PICK v : Call("Bool", b) = Result(v, From(b, 1), NoError)
      BY <3>1, <1>BoolCases
    <3> QED BY <3>2, ResultWants
  <2>3. ASSUME sizes(c).typ = "float32" PROVE Call("Float32", b).err \in Wants
    <3>1. b[1] = mfloat32
      BY <2>3, <2>ScalarLeads
    <3>2. \/ ReadFloat32Bytes(b) = Result(Zero(4), <<>>, ErrShort)
          \/ ReadFloat32Bytes(b) = Result(Field(b, 4), From(b, 5), NoError)
      BY <3>1, <1>Float32Cases
    <3> QED BY <3>2, ResultWants, <1>CallScalar
  <2>4. ASSUME sizes(c).typ = "float64" PROVE Call("Float64", b).err \in Wants
    <3>1. b[1] = mfloat64
      BY <2>4, <2>ScalarLeads
    <3>2. \/ ReadFloat64Bytes(b) = Result(Zero(8), <<>>, ErrShort)
          \/ ReadFloat64Bytes(b) = Result(Field(b, 8), From(b, 9), NoError)
      <4>1. b[1] # mnil /\ b[1] \notin {mnil, mfloat32} /\ Len(b) \in Nat
        BY <3>1 DEF mnil, mfloat32, mfloat64
      <4>2. CASE Len(b) < 5
        BY <4>1, <4>2, <1>Float64Cases
      <4>3. CASE Len(b) >= 5 /\ Len(b) < 9
        BY <4>1, <4>3, <1>Float64Cases
      <4>4. CASE Len(b) >= 9
        BY <3>1, <4>4, <1>Float64Cases
      <4> QED BY <4>1, <4>2, <4>3, <4>4
    <3> QED BY <3>2, ResultWants, <1>CallScalar
  <2> QED BY <2>1, <2>2, <2>3, <2>4
<1> QED
  BY <1>ScalarsReadable, <1>ScalarsSteady, <1>Float64Nil

-----------------------------------------------------------------------------

(* An extension that is no error: its header, its length and the place of  *)
(* its type.                                                               *)
ExtAt(b, off, sz, typ) ==
  /\ off + sz <= Len(b) /\ off \in {2, 3, 4, 6} /\ sz \in Nat
  /\ sizes(b[1]).typ = "ext"
  /\ \/ off = 2 /\ sizes(b[1]).extra = constsize /\ sizes(b[1]).size = off + sz /\ typ = b[2]
     \/ off = 3 /\ sizes(b[1]).extra = extra8 /\ sizes(b[1]).size = 3 /\ sz = Uint8(b) /\ typ = b[3]
     \/ off = 4 /\ sizes(b[1]).extra = extra16 /\ sizes(b[1]).size = 4 /\ sz = Uint16(b) /\ typ = b[4]
     \/ /\ off = 6 /\ sizes(b[1]).extra = extra32 /\ sizes(b[1]).size = 6
        /\ sz = Uint32(b) /\ sz <= MaxInt /\ typ = b[6]

(* Such an extension, with what ReadExtensionBytes asks of its type.       *)
ExtRead(b, etype, off, sz, typ) ==
  /\ ExtAt(b, off, sz, typ)
  /\ ReadExtensionBytes(b, etype) = Result(SubSeq(b, off + 1, off + sz), From(b, off + sz), NoError)
  /\ typ = etype \/ (b[1] = mext8 /\ b[2] = 0)

(* What the readers of extensions promise.                                 *)
LEMMA ExtensionReaders ==
  /\ \A b \in Seq(Byte), d \in Seq(Byte), m \in {"Complex64", "Complex128", "Time", "Ext"} :
       Longer(b, d) => Steady(b, d, Call(m, b), Call(m, d))
  /\ \A b \in Seq(Byte) : \A etype : Ok(ReadExtensionBytes(b, etype)) =>
       \E off, sz, typ : ExtRead(b, etype, off, sz, typ)
(* The five headers of fixed length, one by one.                           *)
<1>FixExt. ASSUME NEW c \in mfixext1..mfixext16
           PROVE  2^(c - mfixext1) \in Nat /\ sizes(c) = bytespec(2 + 2^(c - mfixext1), constsize, "ext")
  <2>1. c \in {212, 213, 214, 215, 216}
    BY DEF mfixext1, mfixext16
  <2>2. /\ sizes(212) = bytespec(3, constsize, "ext") /\ sizes(213) = bytespec(4, constsize, "ext")
        /\ sizes(214) = bytespec(6, constsize, "ext") /\ sizes(215) = bytespec(10, constsize, "ext")
        /\ sizes(216) = bytespec(18, constsize, "ext")
    BY ExtensionSizes DEF mfixext1, mfixext2, mfixext4, mfixext8, mfixext16
  <2>3. PICK x : x = 2^(c - mfixext1)
    OBVIOUS
  <2>4. x \in Nat /\ sizes(c) = bytespec(2 + x, constsize, "ext")
    <3>1. CASE c = 212
      <4>1. c - mfixext1 = 0 /\ 2^0 = 1
        BY <3>1 DEF mfixext1
      <4>2. x = 1
        BY <2>3, <4>1, Zenon
      <4> QED BY <2>2, <3>1, <4>2
    <3>2. CASE c = 213
      <4>1. c - mfixext1 = 1 /\ 2^1 = 2
        BY <3>2 DEF mfixext1
      <4>2. x = 2
        BY <2>3, <4>1, Zenon
      <4> QED BY <2>2, <3>2, <4>2
    <3>3. CASE c = 214
      <4>1. c - mfixext1 = 2 /\ 2^2 = 4
        BY <3>3 DEF mfixext1
      <4>2. x = 4
        BY <2>3, <4>1, Zenon
      <4> QED BY <2>2, <3>3, <4>2
    <3>4. CASE c = 215
      <4>1. c - mfixext1 = 3 /\ 2^3 = 8
        BY <3>4 DEF mfixext1
      <4>2. x = 8
        BY <2>3, <4>1, Zenon
      <4> QED BY <2>2, <3>4, <4>2
    <3>5. CASE c = 216
      <4>1. c - mfixext1 = 4 /\ 2^4 = 16
        BY <3>5 DEF mfixext1
      <4>2. x = 16
        BY <2>3, <4>1, Zenon
      <4> QED BY <2>2, <3>5, <4>2
    <3> QED BY <2>1, <3>1, <3>2, <3>3, <3>4, <3>5
  <2> QED BY <2>3, <2>4, Zenon
<1>ExtensionOk. \A b \in Seq(Byte) : \A etype :
                  Ok(ReadExtensionBytes(b, etype)) =>
                    \E off, sz, typ : ExtRead(b, etype, off, sz, typ)
  (* A result that is no error took the type for its own and has the bytes.  *)
  <2>ExtensionDataOk. ASSUME NEW b \in Seq(Byte), NEW etype, NEW sz \in Nat, NEW typ, NEW off \in Nat,
                             Ok(extensionData(b, etype, sz, typ, off))
                      PROVE  /\ typ = etype /\ off + sz <= Len(b)
                             /\ extensionData(b, etype, sz, typ, off)
                                  = Result(SubSeq(b, off + 1, off + sz), From(b, off + sz), NoError)
    BY <2>ExtensionDataOk DEF extensionData, Ok, Result, errExt, ErrShort, NoError, Err
  <2> SUFFICES ASSUME NEW b \in Seq(Byte), NEW etype, Ok(ReadExtensionBytes(b, etype))
               PROVE  \E off, sz, typ : ExtRead(b, etype, off, sz, typ)
    OBVIOUS
  <2> DEFINE R == ReadExtensionBytes(b, etype)
             data(sz, typ, off) == extensionData(b, etype, sz, typ, off)
  <2>1. ~(Len(b) < 3)
    BY ErrorsDiffer, OkResult DEF ReadExtensionBytes, mfixext1, mfixext16, mext8, mext16, mext32
  <2>2. PICK c \in Byte : c = b[1]
    BY <2>1, Elements
  <2>3. CASE c \in mfixext1..mfixext16
    <3>1. PICK sz : sz = 2^(c - mfixext1)
      OBVIOUS
    <3>2. R = data(sz, b[2], 2)
      BY <2>1, <2>2, <2>3, <3>1, SMTT(30) DEF ReadExtensionBytes, mfixext1, mfixext16, mext8, mext16, mext32
    <3>3. sz \in Nat /\ sizes(c) = bytespec(2 + sz, constsize, "ext")
      BY <2>3, <3>1, <1>FixExt, Zenon
    <3>4. b[2] = etype /\ 2 + sz <= Len(b) /\ R = Result(SubSeq(b, 2 + 1, 2 + sz), From(b, 2 + sz), NoError)
      BY <3>2, <3>3, <2>ExtensionDataOk
    <3>5. ExtAt(b, 2, sz, b[2])
      BY <2>2, <3>3, <3>4 DEF ExtAt, bytespec
    <3> QED BY <3>4, <3>5 DEF ExtRead
  <2>4. CASE c = mext8
    <3>1. sizes(c) = bytespec(3, extra8, "ext")
      BY <2>4, ExtensionSizes
    <3>2. CASE b[2] = 0
      <4>1. R = Result(<<>>, From(b, 3), NoError)
        BY <2>1, <2>2, <2>4, <3>2 DEF ReadExtensionBytes, mfixext1, mfixext16, mext8, mext16, mext32
      <4>2. ExtAt(b, 3, 0, b[3])
        BY <2>1, <2>2, <3>1, <3>2 DEF ExtAt, bytespec, Uint8
      <4>3. SubSeq(b, 3 + 1, 3 + 0) = <<>> /\ 3 + 0 = 3
        BY SliceOf
      <4>4. R = Result(SubSeq(b, 3 + 1, 3 + 0), From(b, 3 + 0), NoError)
        BY <4>1, <4>3, Zenon
      <4>5. ExtRead(b, etype, 3, 0, b[3])
        BY <2>2, <2>4, <3>2, <4>2, <4>4 DEF ExtRead
      <4> QED BY <4>5
    <3>3. CASE b[2] # 0
      <4>1. PICK sz \in Nat : sz = b[2]
        BY <2>1, Elements
      <4>2. R = data(sz, b[3], 3)
        BY <2>1, <2>2, <2>4, <3>3, <4>1 DEF ReadExtensionBytes, mfixext1, mfixext16, mext8, mext16, mext32
      <4>3. b[3] = etype /\ 3 + sz <= Len(b) /\ R = Result(SubSeq(b, 3 + 1, 3 + sz), From(b, 3 + sz), NoError)
        BY <4>2, <2>ExtensionDataOk
      <4>4. ExtAt(b, 3, sz, b[3])
        BY <2>2, <3>1, <4>1, <4>3 DEF ExtAt, bytespec, Uint8
      <4> QED BY <4>3, <4>4 DEF ExtRead
    <3> QED BY <3>2, <3>3
  <2>5. CASE c = mext16
    <3>1. sizes(c) = bytespec(4, extra16, "ext")
      BY <2>5, ExtensionSizes
    <3>2. ~(Len(b) < 4)
      BY <2>1, <2>2, <2>5, ErrorsDiffer, OkResult DEF ReadExtensionBytes, mfixext1, mfixext16, mext8, mext16, mext32
    <3>3. PICK sz \in Nat : sz = Uint16(b)
      BY <3>2, FieldsNat
    <3>4. R = data(sz, b[4], 4)
      BY <2>1, <2>2, <2>5, <3>2, <3>3 DEF ReadExtensionBytes, mfixext1, mfixext16, mext8, mext16, mext32
    <3>5. b[4] = etype /\ 4 + sz <= Len(b) /\ R = Result(SubSeq(b, 4 + 1, 4 + sz), From(b, 4 + sz), NoError)
      BY <3>4, <2>ExtensionDataOk
    <3>6. ExtAt(b, 4, sz, b[4])
      BY <2>2, <3>1, <3>3, <3>5 DEF ExtAt, bytespec
    <3> QED BY <3>5, <3>6 DEF ExtRead
  <2>6. CASE c = mext32
    <3>1. sizes(c) = bytespec(6, extra32, "ext")
      BY <2>6, ExtensionSizes
    <3>2. ~(Len(b) < 6)
      BY <2>1, <2>2, <2>6, ErrorsDiffer, OkResult DEF ReadExtensionBytes, mfixext1, mfixext16, mext8, mext16, mext32
    <3>3. PICK sz \in Nat : sz = Uint32(b)
      BY <3>2, FieldsNat
    <3>4. ~(Uint32(b) > MaxInt)
      BY <2>1, <2>2, <2>6, <3>2, ErrorsDiffer, OkResult DEF ReadExtensionBytes, mfixext1, mfixext16, mext8, mext16, mext32
    <3>5. R = data(sz, b[6], 6)
      BY <2>1, <2>2, <2>6, <3>2, <3>3, <3>4 DEF ReadExtensionBytes, mfixext1, mfixext16, mext8, mext16, mext32
    <3>6. b[6] = etype /\ 6 + sz <= Len(b) /\ R = Result(SubSeq(b, 6 + 1, 6 + sz), From(b, 6 + sz), NoError)
      BY <3>5, <2>ExtensionDataOk
    <3>7. ExtAt(b, 6, sz, b[6])
      BY <2>2, <3>1, <3>3, <3>4, <3>6, MaxIntAssumption DEF ExtAt, bytespec
    <3> QED BY <3>6, <3>7 DEF ExtRead
  <2>7. CASE c \notin (mfixext1..mfixext16) \cup {mext8, mext16, mext32}
    BY <2>1, <2>2, <2>7, ErrorsDiffer, OkResult DEF ReadExtensionBytes, mfixext1, mfixext16, mext8, mext16, mext32
  <2> QED BY <2>3, <2>4, <2>5, <2>6, <2>7
<1>CallExtension. ASSUME NEW b
                  PROVE  /\ Call("Complex64", b) = ReadComplex64Bytes(b)
                         /\ Call("Complex128", b) = ReadComplex128Bytes(b)
                         /\ Call("Time", b) = ReadTimeBytes(b)
                         /\ Call("Ext", b) = ReadExtensionBytes(b, ExtType)
  BY DEF Call
(* Complex numbers and times.                                              *)
<1>ComplexSteady. ASSUME NEW b \in Seq(Byte), NEW d \in Seq(Byte), Longer(b, d)
                  PROVE  /\ Steady(b, d, ReadComplex64Bytes(b), ReadComplex64Bytes(d))
                         /\ Steady(b, d, ReadComplex128Bytes(b), ReadComplex128Bytes(d))
  <2> USE <1>ComplexSteady
  <2>0. Len(b) \in Nat /\ Len(d) \in Nat /\ Len(b) <= Len(d) /\ (Len(b) >= 2 => d[1] = b[1] /\ d[2] = b[2])
    BY SameFields
  <2>1. Steady(b, d, ReadComplex64Bytes(b), ReadComplex64Bytes(d))
    <3>1. CASE Len(b) < 10
      <4>1. ReadComplex64Bytes(b) = Result(Zero(8), <<>>, ErrShort)
        BY <3>1 DEF ReadComplex64Bytes
      <4> QED BY <4>1, SteadyWaits
    <3>2. CASE ~(Len(b) < 10)
      <4>0. ~(Len(d) < 10) /\ d[1] = b[1] /\ d[2] = b[2] /\ Len(b) >= 1
        BY <2>0, <3>2
      <4>1. CASE b[1] # mfixext8
        <5>1. /\ ReadComplex64Bytes(b) = Result(Zero(8), <<>>, badPrefix(b[1]))
              /\ ReadComplex64Bytes(d) = Result(Zero(8), <<>>, badPrefix(b[1]))
          BY <3>2, <4>0, <4>1 DEF ReadComplex64Bytes
        <5> QED BY <5>1, SteadyRefuses, ErrorsDiffer
      <4>2. CASE b[1] = mfixext8 /\ b[2] # Complex64Extension
        <5>1. /\ ReadComplex64Bytes(b) = Result(Zero(8), <<>>, errExt)
              /\ ReadComplex64Bytes(d) = Result(Zero(8), <<>>, errExt)
          BY <3>2, <4>0, <4>2 DEF ReadComplex64Bytes
        <5> QED BY <5>1, SteadyRefuses, ErrorsDiffer
      <4>3. CASE b[1] = mfixext8 /\ b[2] = Complex64Extension
        <5>1. /\ ReadComplex64Bytes(b) = Result(SubSeq(b, 3, 10), From(b, 10), NoError)
              /\ ReadComplex64Bytes(d) = Result(SubSeq(d, 3, 10), From(d, 10), NoError)
          BY <3>2, <4>0, <4>3 DEF ReadComplex64Bytes
        <5>2. 3 \in Nat \ {0} /\ 10 \in Nat /\ 10 <= Len(b) /\ 10 \in 1..Len(b) /\ 10 \in Nat \ {0}
          BY <2>0, <3>2
        <5>3. SubSeq(d, 3, 10) = SubSeq(b, 3, 10)
          BY <5>2, SamePart, Zenon
        <5>4. getSize(b) = Sized(10, 0)
          BY <4>0, <4>3, <5>2, ConstSize, ExtensionSizes
        <5> QED BY <5>1, <5>2, <5>3, <5>4, SteadyTakes, Zenon
      <4> QED BY <4>1, <4>2, <4>3
    <3> QED BY <3>1, <3>2
  <2>2. Steady(b, d, ReadComplex128Bytes(b), ReadComplex128Bytes(d))
    <3>1. CASE Len(b) < 18
      <4>1. ReadComplex128Bytes(b) = Result(Zero(16), <<>>, ErrShort)
        BY <3>1 DEF ReadComplex128Bytes
      <4> QED BY <4>1, SteadyWaits
    <3>2. CASE ~(Len(b) < 18)
      <4>0. ~(Len(d) < 18) /\ d[1] = b[1] /\ d[2] = b[2] /\ Len(b) >= 1
        BY <2>0, <3>2
      <4>1. CASE b[1] # mfixext16
        <5>1. /\ ReadComplex128Bytes(b) = Result(Zero(16), <<>>, badPrefix(b[1]))
              /\ ReadComplex128Bytes(d) = Result(Zero(16), <<>>, badPrefix(b[1]))
          BY <3>2, <4>0, <4>1 DEF ReadComplex128Bytes
        <5> QED BY <5>1, SteadyRefuses, ErrorsDiffer
      <4>2. CASE b[1] = mfixext16 /\ b[2] # Complex128Extension
        <5>1. /\ ReadComplex128Bytes(b) = Result(Zero(16), <<>>, errExt)
              /\ ReadComplex128Bytes(d) = Result(Zero(16), <<>>, errExt)
          BY <3>2, <4>0, <4>2 DEF ReadComplex128Bytes
        <5> QED BY <5>1, SteadyRefuses, ErrorsDiffer
      <4>3. CASE b[1] = mfixext16 /\ b[2] = Complex128Extension
        <5>1. /\ ReadComplex128Bytes(b) = Result(SubSeq(b, 3, 18), From(b, 18), NoError)
              /\ ReadComplex128Bytes(d) = Result(SubSeq(d, 3, 18), From(d, 18), NoError)
          BY <3>2, <4>0, <4>3 DEF ReadComplex128Bytes
        <5>2. 3 \in Nat \ {0} /\ 18 \in Nat /\ 18 <= Len(b) /\ 18 \in 1..Len(b) /\ 18 \in Nat \ {0}
          BY <2>0, <3>2
        <5>3. SubSeq(d, 3, 18) = SubSeq(b, 3, 18)
          BY <5>2, SamePart, Zenon
        <5>4. getSize(b) = Sized(18, 0)
          BY <4>0, <4>3, <5>2, ConstSize, ExtensionSizes
        <5> QED BY <5>1, <5>2, <5>3, <5>4, SteadyTakes, Zenon
      <4> QED BY <4>1, <4>2, <4>3
    <3> QED BY <3>1, <3>2
  <2> QED BY <2>1, <2>2
<1>TimeSteady. ASSUME NEW b \in Seq(Byte), NEW d \in Seq(Byte), Longer(b, d)
               PROVE  Steady(b, d, ReadTimeBytes(b), ReadTimeBytes(d))
  <2> USE <1>TimeSteady
  <2>0. /\ Len(b) \in Nat /\ Len(d) \in Nat /\ Len(b) <= Len(d)
        /\ Len(b) >= 1 => d[1] = b[1]
        /\ Len(b) >= 3 => d[2] = b[2] /\ d[3] = b[3]
    BY SameFields
  <2>1. CASE Len(b) < 1
    <3>1. ReadTimeBytes(b) = Result(ZeroTime, <<>>, ErrShort)
      BY <2>0, <2>1 DEF ReadTimeBytes
    <3> QED BY <3>1, SteadyWaits
  <2>2. CASE Len(b) >= 1 /\ b[1] = mnil
    <3>1. /\ ReadTimeBytes(b) = Result(ZeroTime, From(b, 1), NoError)
          /\ ReadTimeBytes(d) = Result(ZeroTime, From(d, 1), NoError)
      BY <2>0, <2>2 DEF ReadTimeBytes
    <3> QED BY <2>2, <3>1, SteadyTakes, NilSize
  <2>3. CASE Len(b) >= 1 /\ Len(b) < 15 /\ b[1] # mnil
    <3>1. ReadTimeBytes(b) = Result(ZeroTime, <<>>, ErrShort)
      <4>1. \A n \in Nat : n >= 1 /\ n < 15 => ~(n < 1) /\ n \in 1..14
        OBVIOUS
      <4> QED BY <2>0, <2>3, <4>1, Zenon DEF ReadTimeBytes
    <3> QED BY <3>1, SteadyWaits
  <2>4. CASE ~(Len(b) < 15) /\ b[1] # mnil
    <3>0. /\ ~(Len(b) < 1) /\ ~(Len(b) >= 1 /\ b[1] = mnil) /\ ~(Len(b) \in 1..14 /\ b[1] # mnil)
          /\ ~(Len(d) < 1) /\ ~(Len(d) >= 1 /\ d[1] = mnil) /\ ~(Len(d) \in 1..14 /\ d[1] # mnil)
          /\ d[1] = b[1] /\ d[2] = b[2] /\ d[3] = b[3]
      <4>1. \A n \in Nat : ~(n < 15) => ~(n < 1) /\ n \notin 1..14 /\ n >= 1 /\ n >= 3
        OBVIOUS
      <4>2. Len(d) \in Nat /\ ~(Len(d) < 15)
        BY <2>0, <2>4
      <4> QED BY <2>0, <2>4, <4>1, <4>2, Zenon
    <3>1. CASE b[1] # mext8 \/ b[2] # 12
      <4>1. /\ ReadTimeBytes(b) = Result(ZeroTime, <<>>, badPrefix(b[1]))
            /\ ReadTimeBytes(d) = Result(ZeroTime, <<>>, badPrefix(d[1]))
        BY <3>0, <3>1, Zenon DEF ReadTimeBytes
      <4> QED BY <4>1, SteadyRefuses, ErrorsDiffer
    <3>2. CASE ~(b[1] # mext8 \/ b[2] # 12) /\ b[3] # TimeExtension
      <4>0. b[1] = mext8 /\ b[2] = 12
        BY <3>2
      <4>1. ReadTimeBytes(b) = Result(ZeroTime, <<>>, errExt) /\ ReadTimeBytes(d) = Result(ZeroTime, <<>>, errExt)
        BY <3>0, <3>2, <4>0 DEF ReadTimeBytes
      <4> QED BY <4>1, SteadyRefuses, ErrorsDiffer
    <3>3. CASE ~(b[1] # mext8 \/ b[2] # 12) /\ b[3] = TimeExtension
      <4>1. /\ ReadTimeBytes(b) = Result(SubSeq(b, 4, 15), From(b, 15), NoError)
            /\ ReadTimeBytes(d) = Result(SubSeq(d, 4, 15), From(d, 15), NoError)
        BY <3>0, <3>3 DEF ReadTimeBytes
      <4>2. 4 \in Nat \ {0} /\ 15 \in Nat /\ 15 <= Len(b) /\ 15 \in 1..Len(b)
        BY <2>0, <2>4
      <4>3. SubSeq(d, 4, 15) = SubSeq(b, 4, 15)
        BY <4>2, SamePart, Zenon
      <4>4. b[1] \in Byte /\ 3 \in 1..32 /\ 12 \in Nat /\ 12 <= MaxInt /\ Len(b) >= 3 /\ Len(b) >= 1 /\ 3 + 12 = 15
        BY <3>3, <4>2, MaxIntAssumption DEF Byte, mext8
      <4>5. sizes(b[1]) = bytespec(3, extra8, "ext")
        BY <3>3, <4>4, ExtensionSizes
      <4>6. sizes(b[1]).size = 3 /\ sizes(b[1]).extra = extra8 /\ 12 = Uint8(b)
        BY <3>3, <4>5 DEF bytespec, Uint8
      <4>7. getSize(b) = Sized(3 + 12, 0)
        BY <4>4, <4>6, CountedSize
      <4> QED BY <4>1, <4>2, <4>3, <4>4, <4>7, SteadyTakes, Zenon
    <3> QED BY <3>1, <3>2, <3>3
  <2> QED BY <2>0, <2>1, <2>2, <2>3, <2>4
<1>ExtSteady. \A b \in Seq(Byte), d \in Seq(Byte) : \A t :
                Longer(b, d) =>
                  Steady(b, d, ReadExtensionBytes(b, t), ReadExtensionBytes(d, t))
  <2>DataSteady. \A b \in Seq(Byte), d \in Seq(Byte) : \A etype : \A sz \in Nat : \A typ : \A off \in Nat \ {0} :
                   /\ Longer(b, d)
                   /\ getSize(b) = Sized(off + sz, 0)
                   =>
                     Steady(b, d, extensionData(b, etype, sz, typ, off), extensionData(d, etype, sz, typ, off))
    <3>DataCases. ASSUME NEW b \in Seq(Byte), NEW etype, NEW sz \in Nat, NEW typ, NEW off \in Nat
                  PROVE  /\ typ # etype => extensionData(b, etype, sz, typ, off) = Result(<<>>, b, errExt)
                         /\ typ = etype /\ Len(b) < off + sz => extensionData(b, etype, sz, typ, off) = Result(<<>>, b, ErrShort)
                         /\ typ = etype /\ ~(Len(b) < off + sz) =>
                              extensionData(b, etype, sz, typ, off) = Result(SubSeq(b, off + 1, off + sz), From(b, off + sz), NoError)
      BY DEF extensionData
    <3> SUFFICES ASSUME NEW b \in Seq(Byte), NEW d \in Seq(Byte), Longer(b, d), NEW etype, NEW sz \in Nat, NEW typ,
                        NEW off \in Nat \ {0}, getSize(b) = Sized(off + sz, 0)
                 PROVE  Steady(b, d, extensionData(b, etype, sz, typ, off), extensionData(d, etype, sz, typ, off))
      OBVIOUS
    <3>0. Len(b) \in Nat /\ Len(d) \in Nat /\ Len(b) <= Len(d)
      BY SameFields
    <3>1. CASE typ # etype
      <4>1. /\ extensionData(b, etype, sz, typ, off) = Result(<<>>, b, errExt)
            /\ extensionData(d, etype, sz, typ, off) = Result(<<>>, d, errExt)
        BY <3>1, <3>DataCases
      <4> QED BY <4>1, SteadyRefuses, ErrorsDiffer
    <3>2. CASE typ = etype /\ Len(b) < off + sz
      <4>1. extensionData(b, etype, sz, typ, off) = Result(<<>>, b, ErrShort)
        BY <3>2, <3>DataCases
      <4> QED BY <4>1, SteadyWaits
    <3>3. CASE typ = etype /\ ~(Len(b) < off + sz)
      <4>0. ~(Len(d) < off + sz) /\ off + 1 \in Nat \ {0} /\ off + sz \in Nat /\ off + sz <= Len(b) /\ off + sz \in 1..Len(b)
        BY <3>0, <3>3
      <4>1. /\ extensionData(b, etype, sz, typ, off) = Result(SubSeq(b, off + 1, off + sz), From(b, off + sz), NoError)
            /\ extensionData(d, etype, sz, typ, off) = Result(SubSeq(d, off + 1, off + sz), From(d, off + sz), NoError)
        BY <3>3, <4>0, <3>DataCases
      <4>2. SubSeq(d, off + 1, off + sz) = SubSeq(b, off + 1, off + sz)
        BY <4>0, SamePart
      <4> QED BY <4>0, <4>1, <4>2, SteadyTakes, Zenon
    <3> QED BY <3>1, <3>2, <3>3
  <2>ExtShort. ASSUME NEW b, NEW t, Len(b) < 3
               PROVE  ReadExtensionBytes(b, t) = Result(<<>>, b, ErrShort)
    BY <2>ExtShort, Zenon DEF ReadExtensionBytes, mfixext1, mfixext16, mext8, mext16, mext32
  <2>ExtOther. ASSUME NEW b, NEW t, ~(Len(b) < 3), b[1] \notin (mfixext1..mfixext16) \cup {mext8, mext16, mext32}
               PROVE  ReadExtensionBytes(b, t) = Result(<<>>, b, badPrefix(b[1]))
    BY <2>ExtOther DEF ReadExtensionBytes, mfixext1, mfixext16, mext8, mext16, mext32
  <2>ExtFixSteady. \A b \in Seq(Byte), d \in Seq(Byte) : \A t :
                     /\ Longer(b, d)
                     /\ ~(Len(b) < 3)
                     /\ b[1] \in mfixext1..mfixext16
                     =>
                       Steady(b, d, ReadExtensionBytes(b, t), ReadExtensionBytes(d, t))
    <3>ExtFix. ASSUME NEW b, NEW t, ~(Len(b) < 3), b[1] \in mfixext1..mfixext16
               PROVE  ReadExtensionBytes(b, t) = extensionData(b, t, 2^(b[1] - mfixext1), b[2], 2)
      <4> USE <3>ExtFix
      <4>1. b[1] # mext8 /\ b[1] # mext16 /\ b[1] # mext32
        BY DEF mfixext1, mfixext16, mext8, mext16, mext32
      <4> QED BY <4>1, Zenon DEF ReadExtensionBytes, mfixext1, mfixext16, mext8, mext16, mext32
    <3> SUFFICES ASSUME NEW b \in Seq(Byte), NEW d \in Seq(Byte), Longer(b, d), NEW t, ~(Len(b) < 3), b[1] \in mfixext1..mfixext16
                 PROVE  Steady(b, d, ReadExtensionBytes(b, t), ReadExtensionBytes(d, t))
      OBVIOUS
    <3>1. ~(Len(d) < 3) /\ d[1] = b[1] /\ d[2] = b[2] /\ Len(b) >= 1
      BY SameFields
    <3>2. PICK c \in mfixext1..mfixext16 : c = b[1]
      OBVIOUS
    <3>3. PICK sz \in Nat : sz = 2^(c - mfixext1) /\ sizes(c) = bytespec(2 + sz, constsize, "ext")
      BY <1>FixExt
    <3>4. /\ ReadExtensionBytes(b, t) = extensionData(b, t, 2^(b[1] - mfixext1), b[2], 2)
          /\ ReadExtensionBytes(d, t) = extensionData(d, t, 2^(d[1] - mfixext1), d[2], 2)
      BY <3>1, <3>ExtFix
    <3>5. /\ ReadExtensionBytes(b, t) = extensionData(b, t, sz, b[2], 2)
          /\ ReadExtensionBytes(d, t) = extensionData(d, t, sz, b[2], 2)
      <4>1. b[1] = c /\ d[1] = c /\ d[2] = b[2] /\ 2^(c - mfixext1) = sz
        BY <3>1, <3>2, <3>3
      <4> QED BY <3>4, <4>1, Zenon
    <3>6. 2 \in Nat \ {0} /\ 2 + sz \in Nat \ {0}
      OBVIOUS
    <3>7. sizes(b[1]) = bytespec(2 + sz, constsize, "ext")
      BY <3>2, <3>3
    <3>8. getSize(b) = Sized(2 + sz, 0)
      BY <3>1, <3>6, <3>7, ConstSize
    <3> QED BY <3>5, <3>6, <3>8, <2>DataSteady
  <2>Ext8Steady. \A b \in Seq(Byte), d \in Seq(Byte) : \A t :
                   /\ Longer(b, d)
                   /\ ~(Len(b) < 3)
                   /\ b[1] = mext8
                   =>
                     Steady(b, d, ReadExtensionBytes(b, t), ReadExtensionBytes(d, t))
    <3>Ext8. ASSUME NEW b, NEW t, ~(Len(b) < 3), b[1] = mext8
             PROVE  ReadExtensionBytes(b, t) = IF b[2] = 0 THEN Result(<<>>, From(b, 3), NoError)
                                                           ELSE extensionData(b, t, b[2], b[3], 3)
      BY <3>Ext8 DEF ReadExtensionBytes, mfixext1, mfixext16, mext8, mext16, mext32
    <3> SUFFICES ASSUME NEW b \in Seq(Byte), NEW d \in Seq(Byte), Longer(b, d), NEW t, ~(Len(b) < 3), b[1] = mext8
                 PROVE  Steady(b, d, ReadExtensionBytes(b, t), ReadExtensionBytes(d, t))
      OBVIOUS
    <3>1. ~(Len(d) < 3) /\ d[1] = mext8 /\ d[2] = b[2] /\ d[3] = b[3] /\ Len(b) >= 1 /\ Len(b) >= 2 /\ Len(b) >= 3
      BY SameFields
    <3>2. PICK sz \in Nat : sz = Uint8(b) /\ sz <= MaxInt
      BY <3>1, CountFits
    <3>3. sz = b[2]
      BY <3>2 DEF Uint8
    <3>4. 3 \in 1..32 /\ 3 \in Nat \ {0}
      OBVIOUS
    <3>5. mext8 \in Byte
      BY DEF Byte, mext8
    <3>6. sizes(b[1]).size = 3 /\ sizes(b[1]).extra = extra8
      BY <3>5, ExtensionSizes DEF bytespec
    <3>7. getSize(b) = Sized(3 + sz, 0)
      BY <3>1, <3>2, <3>4, <3>6, CountedSize
    <3>8. /\ ReadExtensionBytes(b, t) = IF sz = 0 THEN Result(<<>>, From(b, 3), NoError)
                                                  ELSE extensionData(b, t, sz, b[3], 3)
          /\ ReadExtensionBytes(d, t) = IF sz = 0 THEN Result(<<>>, From(d, 3), NoError)
                                                  ELSE extensionData(d, t, sz, b[3], 3)
      BY <3>1, <3>3, <3>Ext8
    <3>9. CASE sz = 0
      <4>1. 3 + sz = 3 /\ 3 \in 1..Len(b)
        BY <3>1, <3>9
      <4> QED BY <3>7, <3>8, <3>9, <4>1, SteadyTakes
    <3>10. CASE sz # 0
      BY <3>4, <3>7, <3>8, <3>10, <2>DataSteady
    <3> QED BY <3>9, <3>10
  <2>Ext16Steady. \A b \in Seq(Byte), d \in Seq(Byte) : \A t :
                    /\ Longer(b, d)
                    /\ ~(Len(b) < 3)
                    /\ b[1] = mext16
                    =>
                      Steady(b, d, ReadExtensionBytes(b, t), ReadExtensionBytes(d, t))
    <3>Ext16. ASSUME NEW b, NEW t, ~(Len(b) < 3), b[1] = mext16
              PROVE  ReadExtensionBytes(b, t) = IF Len(b) < 4 THEN Result(<<>>, b, ErrShort)
                                                              ELSE extensionData(b, t, Uint16(b), b[4], 4)
      BY <3>Ext16 DEF ReadExtensionBytes, mfixext1, mfixext16, mext8, mext16, mext32
    <3> SUFFICES ASSUME NEW b \in Seq(Byte), NEW d \in Seq(Byte), Longer(b, d), NEW t, ~(Len(b) < 3), b[1] = mext16
                 PROVE  Steady(b, d, ReadExtensionBytes(b, t), ReadExtensionBytes(d, t))
      OBVIOUS
    <3>1. ~(Len(d) < 3) /\ d[1] = mext16 /\ Len(b) >= 1 /\ Len(b) >= 3
      BY SameFields
    <3>2. CASE Len(b) < 4
      <4>1. ReadExtensionBytes(b, t) = Result(<<>>, b, ErrShort)
        BY <3>2, <3>Ext16
      <4> QED BY <4>1, SteadyWaits
    <3>3. CASE ~(Len(b) < 4)
      <4>1. ~(Len(d) < 4) /\ Uint16(d) = Uint16(b) /\ d[4] = b[4] /\ Len(b) >= 4
        BY <3>3, SameFields
      <4>2. PICK sz \in Nat : sz = Uint16(b) /\ sz <= MaxInt
        BY <3>1, CountFits
      <4>3. 4 \in 1..32 /\ 4 \in Nat \ {0}
        OBVIOUS
      <4>4. mext16 \in Byte
        BY DEF Byte, mext16
      <4>5. sizes(b[1]).size = 4 /\ sizes(b[1]).extra = extra16
        BY <4>4, ExtensionSizes DEF bytespec
      <4>6. getSize(b) = Sized(4 + sz, 0)
        BY <3>1, <4>1, <4>2, <4>3, <4>5, CountedSize, SMTT(30)
      <4>7. /\ ReadExtensionBytes(b, t) = extensionData(b, t, sz, b[4], 4)
            /\ ReadExtensionBytes(d, t) = extensionData(d, t, sz, b[4], 4)
        BY <3>1, <3>3, <4>1, <4>2, <3>Ext16
      <4> QED BY <4>3, <4>6, <4>7, <2>DataSteady
    <3> QED BY <3>2, <3>3
  <2>Ext32Steady. \A b \in Seq(Byte), d \in Seq(Byte) : \A t :
                    /\ Longer(b, d)
                    /\ ~(Len(b) < 3)
                    /\ b[1] = mext32
                    =>
                      Steady(b, d, ReadExtensionBytes(b, t), ReadExtensionBytes(d, t))
    <3>Ext32. ASSUME NEW b, NEW t, ~(Len(b) < 3), b[1] = mext32
              PROVE  ReadExtensionBytes(b, t) = IF Len(b) < 6 THEN Result(<<>>, b, ErrShort)
                                                ELSE IF Uint32(b) > MaxInt THEN Result(<<>>, b, ErrOverflow)
                                                ELSE extensionData(b, t, Uint32(b), b[6], 6)
      BY <3>Ext32 DEF ReadExtensionBytes, mfixext1, mfixext16, mext8, mext16, mext32
    <3> SUFFICES ASSUME NEW b \in Seq(Byte), NEW d \in Seq(Byte), Longer(b, d), NEW t, ~(Len(b) < 3), b[1] = mext32
                 PROVE  Steady(b, d, ReadExtensionBytes(b, t), ReadExtensionBytes(d, t))
      OBVIOUS
    <3>1. ~(Len(d) < 3) /\ d[1] = mext32 /\ Len(b) >= 1 /\ Len(b) >= 3
      BY SameFields
    <3>2. CASE Len(b) < 6
      <4>1. ReadExtensionBytes(b, t) = Result(<<>>, b, ErrShort)
        BY <3>2, <3>Ext32
      <4> QED BY <4>1, SteadyWaits
    <3>3. CASE ~(Len(b) < 6)
      <4>1. ~(Len(d) < 6) /\ Uint32(d) = Uint32(b) /\ d[6] = b[6] /\ Len(b) >= 6 /\ Len(b) >= 5
        BY <3>3, SameFields
      <4>2. PICK sz \in Nat : sz = Uint32(b)
        BY <4>1, FieldsNat
      <4>3. 6 \in 1..32 /\ 6 \in Nat \ {0}
        OBVIOUS
      <4>4. mext32 \in Byte
        BY DEF Byte, mext32
      <4>5. sizes(b[1]).size = 6 /\ sizes(b[1]).extra = extra32
        BY <4>4, ExtensionSizes DEF bytespec
      <4>6. CASE sz > MaxInt
        <5>1. ReadExtensionBytes(b, t) = Result(<<>>, b, ErrOverflow) /\ ReadExtensionBytes(d, t) = Result(<<>>, d, ErrOverflow)
          BY <3>1, <3>3, <4>1, <4>2, <4>6, <3>Ext32
        <5> QED BY <5>1, SteadyRefuses, ErrorsDiffer
      <4>7. CASE ~(sz > MaxInt)
        <5>1. sz <= MaxInt
          BY <4>7, MaxIntAssumption
        <5>2. getSize(b) = Sized(6 + sz, 0)
          BY <3>1, <4>1, <4>2, <4>3, <4>5, <5>1, CountedSize, SMTT(30)
        <5>3. /\ ReadExtensionBytes(b, t) = extensionData(b, t, sz, b[6], 6)
              /\ ReadExtensionBytes(d, t) = extensionData(d, t, sz, b[6], 6)
          BY <3>1, <3>3, <4>1, <4>2, <4>7, <3>Ext32
        <5> QED BY <4>3, <5>2, <5>3, <2>DataSteady
      <4> QED BY <4>6, <4>7
    <3> QED BY <3>2, <3>3
  <2> SUFFICES ASSUME NEW b \in Seq(Byte), NEW d \in Seq(Byte), Longer(b, d), NEW t
               PROVE  Steady(b, d, ReadExtensionBytes(b, t), ReadExtensionBytes(d, t))
    OBVIOUS
  <2>1. CASE Len(b) < 3
    <3>1. ReadExtensionBytes(b, t) = Result(<<>>, b, ErrShort)
      BY <2>1, <2>ExtShort
    <3> QED BY <3>1, SteadyWaits
  <2>2. CASE ~(Len(b) < 3) /\ b[1] \notin (mfixext1..mfixext16) \cup {mext8, mext16, mext32}
    <3>1. ~(Len(d) < 3) /\ d[1] = b[1]
      BY <2>2, SameFields
    <3>2. ReadExtensionBytes(b, t) = Result(<<>>, b, badPrefix(b[1])) /\ ReadExtensionBytes(d, t) = Result(<<>>, d, badPrefix(d[1]))
      BY <2>2, <3>1, <2>ExtOther
    <3> QED BY <3>2, SteadyRefuses, ErrorsDiffer
  <2> QED BY <2>1, <2>2, <2>ExtFixSteady, <2>Ext8Steady, <2>Ext16Steady, <2>Ext32Steady
<1>1. ASSUME NEW b \in Seq(Byte), NEW d \in Seq(Byte), Longer(b, d)
      PROVE  /\ Steady(b, d, Call("Complex64", b), Call("Complex64", d))
             /\ Steady(b, d, Call("Complex128", b), Call("Complex128", d))
             /\ Steady(b, d, Call("Time", b), Call("Time", d))
             /\ Steady(b, d, Call("Ext", b), Call("Ext", d))
  BY <1>1, <1>CallExtension, <1>ComplexSteady, <1>TimeSteady, <1>ExtSteady
<1>2. \A b \in Seq(Byte), d \in Seq(Byte), m \in {"Complex64", "Complex128", "Time", "Ext"} :
        Longer(b, d) => Steady(b, d, Call(m, b), Call(m, d))
  BY <1>1
<1> QED BY <1>2, <1>ExtensionOk

-----------------------------------------------------------------------------
(* Array and map headers.  Both of h and g announce c, behind k bytes; the  *)
(* object has f times as many elements.                                    *)
HeadTakes(b, d, k, f, c, h, g) ==
  /\ h.sz = c /\ h.o = From(b, k) /\ h.err = NoError
  /\ g.sz = c /\ g.o = From(d, k) /\ g.err = NoError
  /\ getSize(b) = Sized(k, f * c)

(* The verdict of a reader of headers is steady.                           *)
HeaderSteady(b, d, f, h, g) ==
  \/ h.err = ErrShort
  \/ ~Ok(h) /\ ~Ok(g)
  \/ \E k \in 1..Len(b), c \in Nat : HeadTakes(b, d, k, f, c, h, g)

(* The count of a header with a length of n bytes.                         *)
CountOf(b, n) == IF n = 2 THEN Uint16(b) ELSE Uint32(b)

(* What the readers of array and map headers promise.                      *)
LEMMA HeaderReaders ==
  /\ \A b \in Seq(Byte), d \in Seq(Byte) : Longer(b, d) =>
       /\ HeaderSteady(b, d, 2, ReadMapHeaderBytes(b), ReadMapHeaderBytes(d))
       /\ \A m \in BOOLEAN : HeaderSteady(b, d, 1, readArrayHeaderBytes(b, m), readArrayHeaderBytes(d, m))
  /\ \A b \in Seq(Byte), c \in Byte : Len(b) >= 1 /\ c = b[1] =>
       /\ sizes(c).typ = "map" => Call("MapHeader", b).err \in Wants
       /\ sizes(c).typ = "array" => Call("ArrayHeader", b).err \in Wants
  /\ \A b \in Seq(Byte), m \in BOOLEAN : Ok(readArrayHeaderBytes(b, m)) =>
       /\ readArrayHeaderBytes(b, m).o \in Seq(Byte) /\ readArrayHeaderBytes(b, m).sz \in Nat
       /\ Len(b) >= 1 => getType(b[1]) # "invalid"
<1>HeadTakesIs. ASSUME NEW b, NEW d, NEW k \in 1..Len(b), NEW f, NEW c \in Nat, NEW z, getSize(b) = Sized(k, f * c)
                PROVE  HeaderSteady(b, d, f, Header(c, z, From(b, k)), Header(c, z, From(d, k)))
  <2> USE <1>HeadTakesIs
  <2>1. \A o : Header(c, z, o).sz = c /\ Header(c, z, o).o = o /\ Header(c, z, o).err = NoError
    BY Zenon DEF Header
  <2>2. HeadTakes(b, d, k, f, c, Header(c, z, From(b, k)), Header(c, z, From(d, k)))
    BY <2>1 DEF HeadTakes
  <2> QED BY <2>2, Zenon DEF HeaderSteady
<1>HeadRefuses. ASSUME NEW b, NEW d, NEW f, NEW o, NEW p, NEW x, x # NoError
                PROVE  HeaderSteady(b, d, f, HeaderError(o, x), HeaderError(p, x))
  <2> USE <1>HeadRefuses
  <2>1. HeaderError(o, x).err = x /\ HeaderError(p, x).err = x
    BY Zenon DEF HeaderError
  <2> QED BY <2>1 DEF HeaderSteady, Ok
<1>HeadWaits. ASSUME NEW b, NEW d, NEW f, NEW o, NEW g
              PROVE  HeaderSteady(b, d, f, HeaderError(o, ErrShort), g)
  <2>1. HeaderError(o, ErrShort).err = ErrShort
    BY Zenon DEF HeaderError
  <2> QED BY <2>1 DEF HeaderSteady
<1>CountCases. ASSUME NEW b, NEW n, NEW k
               PROVE  /\ Len(b) < n + 1 => CountHeader(b, n, k) = HeaderError(<<>>, ErrShort)
                      /\ ~(Len(b) < n + 1) /\ CountOf(b, n) > MaxInt \div k => CountHeader(b, n, k) = HeaderError(<<>>, ErrOverflow)
                      /\ ~(Len(b) < n + 1) /\ ~(CountOf(b, n) > MaxInt \div k) =>
                           CountHeader(b, n, k) = Header(k * CountOf(b, n), FALSE, From(b, n + 1))
  BY Zenon DEF CountHeader, CountOf
<1>Halves. ASSUME NEW x \in Nat, NEW k \in {1, 2}, ~(x > MaxInt \div k)
           PROVE  k * x \in Nat /\ k * x <= MaxInt /\ x <= MaxInt
  <2> USE <1>Halves
  <2>1. CASE k = 1
    <3>1. MaxInt \div 1 = MaxInt
      BY MaxIntAssumption
    <3> QED BY <2>1, <3>1, MaxIntAssumption
  <2>2. CASE k = 2
    BY <2>2, MaxIntAssumption
  <2> QED BY <2>1, <2>2
<1>CountSteady. ASSUME NEW b \in Seq(Byte), NEW d \in Seq(Byte), Longer(b, d), Len(b) >= 1, NEW n \in {2, 4}, NEW k \in {1, 2}, NEW f \in {1, 2},
                       \A x \in Nat : Len(b) >= n + 1 /\ x = CountOf(b, n) /\ x <= MaxInt => getSize(b) = Sized(n + 1, f * (k * x))
                PROVE  HeaderSteady(b, d, f, CountHeader(b, n, k), CountHeader(d, n, k))
  <2> USE <1>CountSteady
  <2>1. CASE Len(b) < n + 1
    BY <2>1, <1>CountCases, <1>HeadWaits, Zenon
  <2>2. CASE ~(Len(b) < n + 1)
    <3>1. Len(b) \in Nat /\ Len(b) >= n + 1 /\ Len(b) >= 3 /\ (n # 2 => Len(b) >= 5) /\ n + 1 \in 1..Len(b)
      BY <2>2
    <3>2. ~(Len(d) < n + 1) /\ CountOf(d, n) = CountOf(b, n)
      <4>1. Len(d) \in Nat /\ Len(b) <= Len(d) /\ Uint16(d) = Uint16(b) /\ (n # 2 => Uint32(d) = Uint32(b))
        BY <3>1, SameFields
      <4>2. ~(Len(d) < n + 1)
        BY <3>1, <4>1
      <4> QED BY <4>1, <4>2 DEF CountOf
    <3>3. PICK x \in Nat : x = CountOf(b, n)
      BY <3>1, FieldsNat DEF CountOf
    <3>4. CASE x > MaxInt \div k
      <4>1. CountHeader(b, n, k) = HeaderError(<<>>, ErrOverflow) /\ CountHeader(d, n, k) = HeaderError(<<>>, ErrOverflow)
        BY <2>2, <3>2, <3>3, <3>4, <1>CountCases, Zenon
      <4> QED BY <4>1, <1>HeadRefuses, ErrorsDiffer
    <3>5. CASE ~(x > MaxInt \div k)
      <4>1. CountHeader(b, n, k) = Header(k * x, FALSE, From(b, n + 1)) /\ CountHeader(d, n, k) = Header(k * x, FALSE, From(d, n + 1))
        BY <2>2, <3>2, <3>3, <3>5, <1>CountCases, Zenon
      <4>2. k * x \in Nat /\ x <= MaxInt
        BY <3>5, <1>Halves
      <4>3. getSize(b) = Sized(n + 1, f * (k * x))
        BY <3>1, <3>3, <4>2
      <4> QED BY <3>1, <4>1, <4>2, <4>3, <1>HeadTakesIs, Zenon
    <3> QED BY <3>4, <3>5
  <2> QED BY <2>1, <2>2
<1>CountSizes. \A b \in Seq(Byte), x \in Nat :
                 /\ Len(b) >= 1
                 /\ x <= MaxInt
                 =>
                   /\ b[1] = mmap16 /\ Len(b) >= 2 + 1 /\ x = CountOf(b, 2) => getSize(b) = Sized(2 + 1, 2 * x)
                   /\ b[1] = mmap32 /\ Len(b) >= 4 + 1 /\ x = CountOf(b, 4) => getSize(b) = Sized(4 + 1, 2 * x)
                   /\ b[1] = marray16 /\ Len(b) >= 2 + 1 /\ x = CountOf(b, 2) => getSize(b) = Sized(2 + 1, x)
                   /\ b[1] = marray32 /\ Len(b) >= 4 + 1 /\ x = CountOf(b, 4) => getSize(b) = Sized(4 + 1, x)
  <2>ModeSize. ASSUME NEW b \in Seq(Byte), Len(b) >= 1, NEW k \in Nat \ {0}, NEW m, NEW t, sizes(b[1]) = bytespec(k, m, t)
               PROVE  getSize(b) = sizeByMode(b, k, m)
    <3> USE <2>ModeSize
    <3>1. Len(b) # 0
      OBVIOUS
    <3>2. sizes(b[1]).size = k /\ sizes(b[1]).extra = m
      BY DEF bytespec
    <3> QED BY <3>1, <3>2, Zenon DEF getSize
  <2>Twice. ASSUME NEW x \in Nat, x <= MaxInt
            PROVE  Uintptr(2 * x) = 2 * x
    <3> USE <2>Twice
    <3>1. 2 * x \in Nat /\ 2 * x <= MaxInt + MaxInt + 1
      BY MaxIntAssumption
    <3> QED BY <3>1, NoWrap
  <2>CountModes. ASSUME NEW b \in Seq(Byte), NEW k \in Nat \ {0}, Len(b) >= k
                 PROVE  /\ sizeByMode(b, k, map16v) = Sized(k, Uintptr(2 * Uint16(b)))
                        /\ sizeByMode(b, k, map32v) = Sized(k, Uintptr(2 * Uint32(b)))
                        /\ sizeByMode(b, k, array16v) = Sized(k, Uint16(b))
                        /\ sizeByMode(b, k, array32v) = Sized(k, Uint32(b))
    <3> USE <2>CountModes
    <3>1. k # 0 /\ ~(Len(b) < k)
      OBVIOUS
    <3>2. /\ ~(map16v >= 0) /\ ~(map32v >= 0) /\ ~(array16v >= 0) /\ ~(array32v >= 0)
          /\ map16v # extra8 /\ map16v # extra16 /\ map16v # extra32
          /\ map32v # extra8 /\ map32v # extra16 /\ map32v # extra32 /\ map32v # map16v
          /\ array16v # extra8 /\ array16v # extra16 /\ array16v # extra32 /\ array16v # map16v /\ array16v # map32v
          /\ array32v # extra8 /\ array32v # extra16 /\ array32v # extra32 /\ array32v # map16v /\ array32v # map32v
          /\ array32v # array16v
      BY DEF extra8, extra16, extra32, map16v, map32v, array16v, array32v
    <3> QED BY <3>1, <3>2, Zenon DEF sizeByMode
  <2> SUFFICES ASSUME NEW b \in Seq(Byte), Len(b) >= 1, NEW x \in Nat, x <= MaxInt
               PROVE  /\ b[1] = mmap16 /\ Len(b) >= 2 + 1 /\ x = CountOf(b, 2) => getSize(b) = Sized(2 + 1, 2 * x)
                      /\ b[1] = mmap32 /\ Len(b) >= 4 + 1 /\ x = CountOf(b, 4) => getSize(b) = Sized(4 + 1, 2 * x)
                      /\ b[1] = marray16 /\ Len(b) >= 2 + 1 /\ x = CountOf(b, 2) => getSize(b) = Sized(2 + 1, x)
                      /\ b[1] = marray32 /\ Len(b) >= 4 + 1 /\ x = CountOf(b, 4) => getSize(b) = Sized(4 + 1, x)
    OBVIOUS
  <2>0. 3 \in Nat \ {0} /\ 5 \in Nat \ {0} /\ 2 + 1 = 3 /\ 4 + 1 = 5
    OBVIOUS
  <2>1. CountOf(b, 2) = Uint16(b) /\ CountOf(b, 4) = Uint32(b)
    BY DEF CountOf
  <2>2. Uintptr(2 * x) = 2 * x
    BY <2>Twice
  <2>3. b[1] = mmap16 => getSize(b) = sizeByMode(b, 3, map16v)
    BY <2>0, HeaderSizes, <2>ModeSize
  <2>4. b[1] = mmap32 => getSize(b) = sizeByMode(b, 5, map32v)
    BY <2>0, HeaderSizes, <2>ModeSize
  <2>5. b[1] = marray16 => getSize(b) = sizeByMode(b, 3, array16v)
    BY <2>0, HeaderSizes, <2>ModeSize
  <2>6. b[1] = marray32 => getSize(b) = sizeByMode(b, 5, array32v)
    BY <2>0, HeaderSizes, <2>ModeSize
  <2>7. Len(b) >= 3 => sizeByMode(b, 3, map16v) = Sized(3, Uintptr(2 * Uint16(b))) /\ sizeByMode(b, 3, array16v) = Sized(3, Uint16(b))
    BY <2>0, <2>CountModes
  <2>8. Len(b) >= 5 => sizeByMode(b, 5, map32v) = Sized(5, Uintptr(2 * Uint32(b))) /\ sizeByMode(b, 5, array32v) = Sized(5, Uint32(b))
    BY <2>0, <2>CountModes
  <2> QED BY <2>0, <2>1, <2>2, <2>3, <2>4, <2>5, <2>6, <2>7, <2>8, SMTT(30)
<1>FixLeads. ASSUME NEW c \in Byte
             PROVE  /\ isfixmap(c) => sizes(c) = bytespec(1, 2 * rfixmap(c), "map")
                    /\ isfixarray(c) => sizes(c) = bytespec(1, rfixarray(c), "array")
  <2>1. /\ isfixmap(c) => ~(isfixint(c) \/ isnfixint(c)) /\ ~isfixstr(c)
        /\ isfixarray(c) => ~(isfixint(c) \/ isnfixint(c)) /\ ~isfixstr(c) /\ ~isfixmap(c)
    BY DEF isfixstr, isfixint, isnfixint, isfixmap, isfixarray, Byte, mfixstr, mnfixint, mfixmap, mfixarray
  <2>2. isfixmap(c) => sizes(c) = bytespec(1, 2 * rfixmap(c), "map")
    BY <2>1, ZenonT(60) DEF sizes
  <2>3. isfixarray(c) => sizes(c) = bytespec(1, rfixarray(c), "array")
    BY <2>1, ZenonT(60) DEF sizes
  <2> QED BY <2>2, <2>3, Zenon
<1>FixHeaders. ASSUME NEW b \in Seq(Byte), Len(b) >= 1
               PROVE  /\ isfixmap(b[1]) => rfixmap(b[1]) \in Nat /\ 2 * rfixmap(b[1]) \in Nat /\ getSize(b) = Sized(1, 2 * rfixmap(b[1]))
                      /\ isfixarray(b[1]) => rfixarray(b[1]) \in Nat /\ getSize(b) = Sized(1, rfixarray(b[1]))
  <2> USE <1>FixHeaders
  <2>1. PICK c \in Byte : c = b[1]
    BY Elements
  <2>2. rfixmap(c) \in Nat /\ rfixarray(c) \in Nat /\ 2 * rfixmap(c) \in Nat /\ 1 \in Nat \ {0}
    BY DEF rfixmap, rfixarray, Byte
  <2>4. \A k, x, t : bytespec(k, x, t).size = k /\ bytespec(k, x, t).extra = x
    BY DEF bytespec
  <2>5. isfixmap(c) => sizes(c) = bytespec(1, 2 * rfixmap(c), "map")
    BY <1>FixLeads, Zenon
  <2>6. isfixarray(c) => sizes(c) = bytespec(1, rfixarray(c), "array")
    BY <1>FixLeads, Zenon
  <2>7. isfixmap(c) => getSize(b) = Sized(1, 2 * rfixmap(c))
    BY <2>1, <2>2, <2>4, <2>5, PlainSize
  <2>8. isfixarray(c) => getSize(b) = Sized(1, rfixarray(c))
    BY <2>1, <2>2, <2>4, <2>6, PlainSize
  <2> QED BY <2>1, <2>2, <2>7, <2>8
<1>HeaderLeads. ASSUME NEW c \in Byte
                PROVE  /\ isfixmap(c) => ~isfixarray(c) /\ c # mnil /\ c # mmap16 /\ c # mmap32 /\ c # marray16 /\ c # marray32
                       /\ isfixarray(c) => c # mnil /\ c # mmap16 /\ c # mmap32 /\ c # marray16 /\ c # marray32
                       /\ c = mnil => c # mmap16 /\ c # mmap32 /\ c # marray16 /\ c # marray32
                       /\ c = mmap16 => c # mmap32 /\ c # marray16 /\ c # marray32
                       /\ c = mmap32 => c # marray16 /\ c # marray32
                       /\ c = marray16 => c # marray32
  BY DEF isfixmap, isfixarray, Byte, mfixmap, mfixarray, mnil, mmap16, mmap32, marray16, marray32
<1>MapCases. ASSUME NEW b \in Seq(Byte)
             PROVE  /\ Len(b) < 1 => ReadMapHeaderBytes(b) = HeaderError(<<>>, ErrShort)
                    /\ Len(b) >= 1 =>
                         /\ isfixmap(b[1]) => ReadMapHeaderBytes(b) = Header(rfixmap(b[1]), FALSE, From(b, 1))
                         /\ b[1] = mnil => ReadMapHeaderBytes(b) = Header(0, TRUE, From(b, 1))
                         /\ b[1] = mmap16 => ReadMapHeaderBytes(b) = CountHeader(b, 2, 1)
                         /\ b[1] = mmap32 => ReadMapHeaderBytes(b) = CountHeader(b, 4, 1)
                         /\ ~isfixmap(b[1]) /\ b[1] # mnil /\ b[1] # mmap16 /\ b[1] # mmap32 =>
                              ReadMapHeaderBytes(b) = HeaderError(b, badPrefix(b[1]))
  <2> HIDE DEF mnil, mmap16, mmap32, marray16, marray32
  <2>1. Len(b) >= 1 => b[1] \in Byte /\ ~(Len(b) < 1)
    BY Elements
  <2>2. CASE Len(b) < 1
    <3>1. ~(Len(b) >= 1)
      BY <2>2
    <3> QED BY <2>2, <3>1, Zenon DEF ReadMapHeaderBytes
  <2>3. CASE Len(b) >= 1
    <3>1. CASE isfixmap(b[1])
      BY <2>1, <2>3, <3>1, <1>HeaderLeads, Zenon DEF ReadMapHeaderBytes
    <3>2. CASE b[1] = mnil
      BY <2>1, <2>3, <3>2, <1>HeaderLeads, Zenon DEF ReadMapHeaderBytes
    <3>3. CASE b[1] = mmap16
      BY <2>1, <2>3, <3>3, <1>HeaderLeads, Zenon DEF ReadMapHeaderBytes
    <3>4. CASE b[1] = mmap32
      BY <2>1, <2>3, <3>4, <1>HeaderLeads, Zenon DEF ReadMapHeaderBytes
    <3>5. CASE ~isfixmap(b[1]) /\ b[1] # mnil /\ b[1] # mmap16 /\ b[1] # mmap32
      BY <2>1, <2>3, <3>5, Zenon DEF ReadMapHeaderBytes
    <3> QED BY <3>1, <3>2, <3>3, <3>4, <3>5, Zenon
  <2> QED BY <2>2, <2>3, Zenon
<1>ArrayCases. ASSUME NEW b \in Seq(Byte), NEW m \in BOOLEAN
               PROVE  /\ Len(b) < 1 => readArrayHeaderBytes(b, m) = HeaderError(<<>>, ErrShort)
                      /\ Len(b) >= 1 =>
                           /\ isfixarray(b[1]) => readArrayHeaderBytes(b, m) = Header(rfixarray(b[1]), FALSE, From(b, 1))
                           /\ m /\ isfixmap(b[1]) => readArrayHeaderBytes(b, m) = Header(2 * rfixmap(b[1]), FALSE, From(b, 1))
                           /\ b[1] = mnil => readArrayHeaderBytes(b, m) = Header(0, TRUE, From(b, 1))
                           /\ b[1] = marray16 => readArrayHeaderBytes(b, m) = CountHeader(b, 2, 1)
                           /\ b[1] = marray32 => readArrayHeaderBytes(b, m) = CountHeader(b, 4, 1)
                           /\ m /\ b[1] = mmap16 => readArrayHeaderBytes(b, m) = CountHeader(b, 2, 2)
                           /\ m /\ b[1] = mmap32 => readArrayHeaderBytes(b, m) = CountHeader(b, 4, 2)
                           /\ ~isfixarray(b[1]) /\ ~(m /\ isfixmap(b[1])) /\ b[1] # mnil /\ b[1] # marray16 /\ b[1] # marray32
                                /\ ~(m /\ b[1] = mmap16) /\ ~(m /\ b[1] = mmap32) =>
                                readArrayHeaderBytes(b, m) = HeaderError(b, badPrefix(b[1]))
  <2> HIDE DEF mnil, mmap16, mmap32, marray16, marray32
  <2>1. Len(b) >= 1 => b[1] \in Byte /\ ~(Len(b) < 1)
    BY Elements
  <2>2. CASE Len(b) < 1
    <3>1. ~(Len(b) >= 1)
      BY <2>2
    <3> QED BY <2>2, <3>1, Zenon DEF readArrayHeaderBytes
  <2>3. CASE Len(b) >= 1
    <3>1. CASE isfixarray(b[1])
      BY <2>1, <2>3, <3>1, <1>HeaderLeads, Zenon DEF readArrayHeaderBytes
    <3>2. CASE isfixmap(b[1]) /\ m
      BY <2>1, <2>3, <3>2, <1>HeaderLeads, Zenon DEF readArrayHeaderBytes
    <3>3. CASE b[1] = mnil
      BY <2>1, <2>3, <3>3, <1>HeaderLeads, ZenonT(60) DEF readArrayHeaderBytes
    <3>4. CASE b[1] = marray16
      BY <2>1, <2>3, <3>4, <1>HeaderLeads, ZenonT(60) DEF readArrayHeaderBytes
    <3>5. CASE b[1] = marray32
      BY <2>1, <2>3, <3>5, <1>HeaderLeads, ZenonT(60) DEF readArrayHeaderBytes
    <3>6. CASE m /\ b[1] = mmap16
      BY <2>1, <2>3, <3>6, <1>HeaderLeads, ZenonT(60) DEF readArrayHeaderBytes
    <3>7. CASE m /\ b[1] = mmap32
      BY <2>1, <2>3, <3>7, <1>HeaderLeads, ZenonT(60) DEF readArrayHeaderBytes
    <3>8. CASE ~isfixarray(b[1]) /\ ~(m /\ isfixmap(b[1])) /\ b[1] # mnil /\ b[1] # marray16 /\ b[1] # marray32
                     /\ ~(m /\ b[1] = mmap16) /\ ~(m /\ b[1] = mmap32)
      BY <2>1, <2>3, <3>8, ZenonT(60) DEF readArrayHeaderBytes
    <3> QED BY <2>3, <3>1, <3>2, <3>3, <3>4, <3>5, <3>6, <3>7, <3>8, ZenonT(60)
  <2> QED BY <2>2, <2>3, Zenon
<1>FixHeader. ASSUME NEW b \in Seq(Byte), NEW d \in Seq(Byte), Len(b) >= 1, NEW f \in Nat, NEW c \in Nat, NEW n, n = f * c,
                     getSize(b) = Sized(1, n), NEW z
              PROVE  HeaderSteady(b, d, f, Header(c, z, From(b, 1)), Header(c, z, From(d, 1)))
  <2> USE <1>FixHeader
  <2>1. 1 \in 1..Len(b)
    OBVIOUS
  <2> QED BY <2>1, <1>HeadTakesIs, Zenon
<1>NilHeader. ASSUME NEW b \in Seq(Byte), NEW d \in Seq(Byte), Len(b) >= 1, b[1] = mnil, NEW f \in Nat, NEW z
              PROVE  HeaderSteady(b, d, f, Header(0, z, From(b, 1)), Header(0, z, From(d, 1)))
  <2> USE <1>NilHeader
  <2>1. getSize(b) = Sized(1, 0) /\ 1 \in 1..Len(b)
    BY NilSize
  <2>2. PICK n \in Nat : n = 0 /\ n = f * n
    OBVIOUS
  <2>3. HeaderSteady(b, d, f, Header(n, z, From(b, 1)), Header(n, z, From(d, 1)))
    BY <2>1, <2>2, <1>FixHeader
  <2> QED BY <2>2, <2>3
<1>MapSteady. ASSUME NEW b \in Seq(Byte), NEW d \in Seq(Byte), Longer(b, d)
              PROVE  HeaderSteady(b, d, 2, ReadMapHeaderBytes(b), ReadMapHeaderBytes(d))
  <2> USE <1>MapSteady
  <2>1. CASE Len(b) < 1
    BY <2>1, <1>MapCases, <1>HeadWaits, Zenon
  <2>2. CASE Len(b) >= 1
    <3>0. d[1] = b[1] /\ Len(d) >= 1 /\ 2 \in Nat /\ 2 \in {2, 4} /\ 4 \in {2, 4} /\ 1 \in {1, 2} /\ 2 \in {1, 2}
      BY <2>2, SameFields
    <3>1. CASE isfixmap(b[1])
      <4>1. PICK c \in Nat : c = rfixmap(b[1]) /\ getSize(b) = Sized(1, 2 * c)
        BY <2>2, <3>1, <1>FixHeaders
      <4>2. ReadMapHeaderBytes(b) = Header(c, FALSE, From(b, 1)) /\ ReadMapHeaderBytes(d) = Header(c, FALSE, From(d, 1))
        BY <2>2, <3>0, <3>1, <4>1, <1>MapCases, Zenon
      <4>3. HeaderSteady(b, d, 2, Header(c, FALSE, From(b, 1)), Header(c, FALSE, From(d, 1)))
        BY <2>2, <3>0, <4>1, <1>FixHeader, Zenon
      <4> QED BY <4>2, <4>3, Zenon
    <3>2. CASE b[1] = mnil
      <4>1. ReadMapHeaderBytes(b) = Header(0, TRUE, From(b, 1)) /\ ReadMapHeaderBytes(d) = Header(0, TRUE, From(d, 1))
        BY <2>2, <3>0, <3>2, <1>MapCases, Zenon
      <4>2. HeaderSteady(b, d, 2, Header(0, TRUE, From(b, 1)), Header(0, TRUE, From(d, 1)))
        BY <2>2, <3>0, <3>2, <1>NilHeader, Zenon
      <4> QED BY <4>1, <4>2, Zenon
    <3>3. CASE b[1] = mmap16
      <4>1. ReadMapHeaderBytes(b) = CountHeader(b, 2, 1) /\ ReadMapHeaderBytes(d) = CountHeader(d, 2, 1)
        BY <2>2, <3>0, <3>3, <1>MapCases, Zenon
      <4>2. \A x \in Nat : Len(b) >= 2 + 1 /\ x = CountOf(b, 2) /\ x <= MaxInt => getSize(b) = Sized(2 + 1, 2 * (1 * x))
        BY <2>2, <3>3, <1>CountSizes
      <4>3. HeaderSteady(b, d, 2, CountHeader(b, 2, 1), CountHeader(d, 2, 1))
        BY <2>2, <3>0, <4>2, <1>CountSteady, Zenon
      <4> QED BY <4>1, <4>3, Zenon
    <3>4. CASE b[1] = mmap32
      <4>1. ReadMapHeaderBytes(b) = CountHeader(b, 4, 1) /\ ReadMapHeaderBytes(d) = CountHeader(d, 4, 1)
        BY <2>2, <3>0, <3>4, <1>MapCases, Zenon
      <4>2. \A x \in Nat : Len(b) >= 4 + 1 /\ x = CountOf(b, 4) /\ x <= MaxInt => getSize(b) = Sized(4 + 1, 2 * (1 * x))
        BY <2>2, <3>4, <1>CountSizes
      <4>3. HeaderSteady(b, d, 2, CountHeader(b, 4, 1), CountHeader(d, 4, 1))
        BY <2>2, <3>0, <4>2, <1>CountSteady, Zenon
      <4> QED BY <4>1, <4>3, Zenon
    <3>5. CASE ~isfixmap(b[1]) /\ b[1] # mnil /\ b[1] # mmap16 /\ b[1] # mmap32
      <4>1. ReadMapHeaderBytes(b) = HeaderError(b, badPrefix(b[1])) /\ ReadMapHeaderBytes(d) = HeaderError(d, badPrefix(b[1]))
        BY <2>2, <3>0, <3>5, <1>MapCases, Zenon
      <4> QED BY <4>1, <1>HeadRefuses, ErrorsDiffer, Zenon
    <3> QED BY <3>1, <3>2, <3>3, <3>4, <3>5
  <2> QED BY <2>1, <2>2
<1>ArraySteady. ASSUME NEW b \in Seq(Byte), NEW d \in Seq(Byte), Longer(b, d), NEW m \in BOOLEAN
                PROVE  HeaderSteady(b, d, 1, readArrayHeaderBytes(b, m), readArrayHeaderBytes(d, m))
  <2> USE <1>ArraySteady
  <2>1. CASE Len(b) < 1
    BY <2>1, <1>ArrayCases, <1>HeadWaits, Zenon
  <2>2. CASE Len(b) >= 1
    <3>0. d[1] = b[1] /\ Len(d) >= 1 /\ 1 \in Nat /\ 2 \in {2, 4} /\ 4 \in {2, 4} /\ 1 \in {1, 2} /\ 2 \in {1, 2}
      BY <2>2, SameFields
    <3>1. CASE isfixarray(b[1])
      <4>1. PICK c \in Nat : c = rfixarray(b[1]) /\ getSize(b) = Sized(1, 1 * c)
        BY <2>2, <3>1, <1>FixHeaders
      <4>2. readArrayHeaderBytes(b, m) = Header(c, FALSE, From(b, 1)) /\ readArrayHeaderBytes(d, m) = Header(c, FALSE, From(d, 1))
        BY <2>2, <3>0, <3>1, <4>1, <1>ArrayCases, Zenon
      <4>3. HeaderSteady(b, d, 1, Header(c, FALSE, From(b, 1)), Header(c, FALSE, From(d, 1)))
        BY <2>2, <3>0, <4>1, <1>FixHeader, Zenon
      <4> QED BY <4>2, <4>3, Zenon
    <3>2. CASE m /\ isfixmap(b[1])
      <4>1. PICK c \in Nat : c = 2 * rfixmap(b[1]) /\ getSize(b) = Sized(1, 1 * c)
        BY <2>2, <3>2, <1>FixHeaders
      <4>2. readArrayHeaderBytes(b, m) = Header(c, FALSE, From(b, 1)) /\ readArrayHeaderBytes(d, m) = Header(c, FALSE, From(d, 1))
        BY <2>2, <3>0, <3>2, <4>1, <1>ArrayCases, Zenon
      <4>3. HeaderSteady(b, d, 1, Header(c, FALSE, From(b, 1)), Header(c, FALSE, From(d, 1)))
        BY <2>2, <3>0, <4>1, <1>FixHeader, Zenon
      <4> QED BY <4>2, <4>3, Zenon
    <3>3. CASE b[1] = mnil
      <4>1. readArrayHeaderBytes(b, m) = Header(0, TRUE, From(b, 1)) /\ readArrayHeaderBytes(d, m) = Header(0, TRUE, From(d, 1))
        BY <2>2, <3>0, <3>3, <1>ArrayCases, Zenon
      <4>2. HeaderSteady(b, d, 1, Header(0, TRUE, From(b, 1)), Header(0, TRUE, From(d, 1)))
        BY <2>2, <3>0, <3>3, <1>NilHeader, Zenon
      <4> QED BY <4>1, <4>2, Zenon
    <3>4. CASE b[1] = marray16
      <4>1. readArrayHeaderBytes(b, m) = CountHeader(b, 2, 1) /\ readArrayHeaderBytes(d, m) = CountHeader(d, 2, 1)
        BY <2>2, <3>0, <3>4, <1>ArrayCases, Zenon
      <4>2. \A x \in Nat : Len(b) >= 2 + 1 /\ x = CountOf(b, 2) /\ x <= MaxInt => getSize(b) = Sized(2 + 1, 1 * (1 * x))
        BY <2>2, <3>4, <1>CountSizes
      <4>3. HeaderSteady(b, d, 1, CountHeader(b, 2, 1), CountHeader(d, 2, 1))
        BY <2>2, <3>0, <4>2, <1>CountSteady, Zenon
      <4> QED BY <4>1, <4>3, Zenon
    <3>5. CASE b[1] = marray32
      <4>1. readArrayHeaderBytes(b, m) = CountHeader(b, 4, 1) /\ readArrayHeaderBytes(d, m) = CountHeader(d, 4, 1)
        BY <2>2, <3>0, <3>5, <1>ArrayCases, Zenon
      <4>2. \A x \in Nat : Len(b) >= 4 + 1 /\ x = CountOf(b, 4) /\ x <= MaxInt => getSize(b) = Sized(4 + 1, 1 * (1 * x))
        BY <2>2, <3>5, <1>CountSizes
      <4>3. HeaderSteady(b, d, 1, CountHeader(b, 4, 1), CountHeader(d, 4, 1))
        BY <2>2, <3>0, <4>2, <1>CountSteady, Zenon
      <4> QED BY <4>1, <4>3, Zenon
    <3>6. CASE m /\ b[1] = mmap16
      <4>1. readArrayHeaderBytes(b, m) = CountHeader(b, 2, 2) /\ readArrayHeaderBytes(d, m) = CountHeader(d, 2, 2)
        BY <2>2, <3>0, <3>6, <1>ArrayCases, Zenon
      <4>2. \A x \in Nat : Len(b) >= 2 + 1 /\ x = CountOf(b, 2) /\ x <= MaxInt => getSize(b) = Sized(2 + 1, 1 * (2 * x))
        BY <2>2, <3>6, <1>CountSizes
      <4>3. HeaderSteady(b, d, 1, CountHeader(b, 2, 2), CountHeader(d, 2, 2))
        BY <2>2, <3>0, <4>2, <1>CountSteady, Zenon
      <4> QED BY <4>1, <4>3, Zenon
    <3>7. CASE m /\ b[1] = mmap32
      <4>1. readArrayHeaderBytes(b, m) = CountHeader(b, 4, 2) /\ readArrayHeaderBytes(d, m) = CountHeader(d, 4, 2)
        BY <2>2, <3>0, <3>7, <1>ArrayCases, Zenon
      <4>2. \A x \in Nat : Len(b) >= 4 + 1 /\ x = CountOf(b, 4) /\ x <= MaxInt => getSize(b) = Sized(4 + 1, 1 * (2 * x))
        BY <2>2, <3>7, <1>CountSizes
      <4>3. HeaderSteady(b, d, 1, CountHeader(b, 4, 2), CountHeader(d, 4, 2))
        BY <2>2, <3>0, <4>2, <1>CountSteady, Zenon
      <4> QED BY <4>1, <4>3, Zenon
    <3>8. CASE ~isfixarray(b[1]) /\ ~(m /\ isfixmap(b[1])) /\ b[1] # mnil /\ b[1] # marray16 /\ b[1] # marray32
                     /\ ~(m /\ b[1] = mmap16) /\ ~(m /\ b[1] = mmap32)
      <4>1. readArrayHeaderBytes(b, m) = HeaderError(b, badPrefix(b[1])) /\ readArrayHeaderBytes(d, m) = HeaderError(d, badPrefix(b[1]))
        BY <2>2, <3>0, <3>8, <1>ArrayCases, Zenon
      <4> QED BY <4>1, <1>HeadRefuses, ErrorsDiffer, Zenon
    <3> QED BY <3>1, <3>2, <3>3, <3>4, <3>5, <3>6, <3>7, <3>8, Zenon
  <2> QED BY <2>1, <2>2
<1>HeaderOk. ASSUME NEW b \in Seq(Byte), NEW m \in BOOLEAN, Ok(readArrayHeaderBytes(b, m))
             PROVE  readArrayHeaderBytes(b, m).o \in Seq(Byte) /\ readArrayHeaderBytes(b, m).sz \in Nat
  <2> USE <1>HeaderOk
  <2>1. PICK h : h = readArrayHeaderBytes(b, m)
    BY Zenon
  <2>2. HeaderSteady(b, b, 1, h, h) /\ h.err # ErrShort /\ Ok(h)
    BY <2>1, LongerSelf, <1>ArraySteady, ErrorsDiffer DEF Ok
  <2>3. PICK k \in 1..Len(b), c \in Nat : HeadTakes(b, b, k, 1, c, h, h)
    BY <2>2 DEF HeaderSteady
  <2>4. h.o = From(b, k) /\ h.sz = c /\ k \in 0..Len(b)
    BY <2>3 DEF HeadTakes
  <2>5. From(b, k) \in Seq(Byte)
    BY <2>4, LongerSelf, LongerRest
  <2> QED BY <2>1, <2>4, <2>5
<1>InvalidFails. \A b \in Seq(Byte), m \in BOOLEAN :
                   /\ Len(b) >= 1
                   /\ getType(b[1]) = "invalid"
                   =>
                     ~Ok(readArrayHeaderBytes(b, m))
  <2>InvalidLead. ASSUME NEW c \in Byte, getType(c) = "invalid"
                  PROVE  ~isfixarray(c) /\ ~isfixmap(c) /\ c # mnil /\ c \notin {marray16, marray32, mmap16, mmap32}
    <3>1. \A k, x, t : bytespec(k, x, t).typ = t
      BY DEF bytespec
    <3>2. /\ sizes(mnil).typ = "nil"
          /\ sizes(marray16).typ = "array" /\ sizes(marray32).typ = "array"
          /\ sizes(mmap16).typ = "map" /\ sizes(mmap32).typ = "map"
      BY <3>1, LeadSizes, HeaderSizes
    <3>3. (isfixmap(c) => sizes(c).typ = "map") /\ (isfixarray(c) => sizes(c).typ = "array")
      BY <3>1, <1>FixLeads
    <3>4. sizes(c).typ = "invalid"
      BY <2>InvalidLead DEF getType
    <3>5. "invalid" # "nil" /\ "invalid" # "map" /\ "invalid" # "array"
      OBVIOUS
    <3> QED BY <3>2, <3>3, <3>4, <3>5, Zenon
  <2> SUFFICES ASSUME NEW b \in Seq(Byte), NEW m \in BOOLEAN, Len(b) >= 1, getType(b[1]) = "invalid"
               PROVE  ~Ok(readArrayHeaderBytes(b, m))
    OBVIOUS
  <2>1. b[1] \in Byte
    BY Elements
  <2>4. ~isfixarray(b[1]) /\ ~isfixmap(b[1]) /\ b[1] # mnil /\ b[1] # marray16 /\ b[1] # marray32 /\ b[1] # mmap16 /\ b[1] # mmap32
    BY <2>1, <2>InvalidLead
  <2>2. readArrayHeaderBytes(b, m) = HeaderError(b, badPrefix(b[1]))
    BY <2>4, <1>ArrayCases, Zenon
  <2>3. readArrayHeaderBytes(b, m).err = badPrefix(b[1])
    BY <2>2 DEF HeaderError
  <2> QED BY <2>3, ErrorsDiffer, Zenon DEF Ok
<1>HeadersReadable. \A b \in Seq(Byte), c \in Byte :
                      /\ Len(b) >= 1
                      /\ c = b[1]
                      =>
                        /\ sizes(c).typ = "map" => Call("MapHeader", b).err \in Wants
                        /\ sizes(c).typ = "array" => Call("ArrayHeader", b).err \in Wants
  <2>CountWants. ASSUME NEW b, NEW n, NEW k
                 PROVE  CountHeader(b, n, k).err \in Wants
    BY DEF CountHeader, Header, HeaderError, Wants
  <2>HeaderWants. ASSUME NEW x, NEW y, NEW z
                  PROVE  Header(x, y, z).err \in Wants
    BY DEF Header, Wants
  <2> SUFFICES ASSUME NEW b \in Seq(Byte), Len(b) >= 1, NEW c \in Byte, c = b[1]
               PROVE  /\ sizes(c).typ = "map" => Call("MapHeader", b).err \in Wants
                      /\ sizes(c).typ = "array" => Call("ArrayHeader", b).err \in Wants
    OBVIOUS
  <2>1. ASSUME sizes(c).typ = "map" PROVE Call("MapHeader", b).err \in Wants
    <3>0. isfixmap(c) \/ c \in {mmap16, mmap32}
      BY <2>1, TypeLeads, Zenon
    <3>1. isfixmap(b[1]) \/ b[1] = mmap16 \/ b[1] = mmap32
      BY <3>0
    <3>4. PICK h : h = ReadMapHeaderBytes(b)
      BY Zenon
    <3>2. h.err \in Wants
      <4>1. CASE isfixmap(b[1])
        <5>1. h = Header(rfixmap(b[1]), FALSE, From(b, 1))
          BY <3>4, <4>1, <1>MapCases, Zenon
        <5> QED BY <5>1, <2>HeaderWants, Zenon
      <4>2. CASE b[1] = mmap16
        <5>1. h = CountHeader(b, 2, 1)
          BY <3>4, <4>2, <1>MapCases, Zenon
        <5> QED BY <5>1, <2>CountWants
      <4>3. CASE b[1] = mmap32
        <5>1. h = CountHeader(b, 4, 1)
          BY <3>4, <4>3, <1>MapCases, Zenon
        <5> QED BY <5>1, <2>CountWants
      <4> QED BY <3>1, <4>1, <4>2, <4>3
    <3>3. Call("MapHeader", b) = Result(<<h.sz>>, h.o, h.err)
      BY <3>4, CallHeader, Zenon
    <3> QED BY <3>2, <3>3, OkResult
  <2>2. ASSUME sizes(c).typ = "array" PROVE Call("ArrayHeader", b).err \in Wants
    <3>0. isfixarray(c) \/ c \in {marray16, marray32}
      BY <2>2, TypeLeads, Zenon
    <3>1. isfixarray(b[1]) \/ b[1] = marray16 \/ b[1] = marray32
      BY <3>0
    <3>4. PICK h : h = ReadArrayHeaderBytes(b)
      BY Zenon
    <3>2. h.err \in Wants
      <4>1. CASE isfixarray(b[1])
        <5>1. h = Header(rfixarray(b[1]), FALSE, From(b, 1))
          BY <3>4, <4>1, <1>ArrayCases, Zenon DEF ReadArrayHeaderBytes
        <5> QED BY <5>1, <2>HeaderWants, Zenon
      <4>2. CASE b[1] = marray16
        <5>1. h = CountHeader(b, 2, 1)
          BY <3>4, <4>2, <1>ArrayCases, Zenon DEF ReadArrayHeaderBytes
        <5> QED BY <5>1, <2>CountWants
      <4>3. CASE b[1] = marray32
        <5>1. h = CountHeader(b, 4, 1)
          BY <3>4, <4>3, <1>ArrayCases, Zenon DEF ReadArrayHeaderBytes
        <5> QED BY <5>1, <2>CountWants
      <4> QED BY <3>1, <4>1, <4>2, <4>3
    <3>3. Call("ArrayHeader", b) = Result(<<h.sz>>, h.o, h.err)
      BY <3>4, CallHeader, Zenon
    <3> QED BY <3>2, <3>3, OkResult
  <2> QED BY <2>1, <2>2
<1>1. ASSUME NEW b \in Seq(Byte), NEW d \in Seq(Byte), Longer(b, d)
      PROVE  /\ HeaderSteady(b, d, 2, ReadMapHeaderBytes(b), ReadMapHeaderBytes(d))
             /\ \A m \in BOOLEAN : HeaderSteady(b, d, 1, readArrayHeaderBytes(b, m), readArrayHeaderBytes(d, m))
  BY <1>1, <1>MapSteady, <1>ArraySteady, Zenon
<1>2. \A b \in Seq(Byte), m \in BOOLEAN : Ok(readArrayHeaderBytes(b, m)) =>
        /\ readArrayHeaderBytes(b, m).o \in Seq(Byte) /\ readArrayHeaderBytes(b, m).sz \in Nat
        /\ Len(b) >= 1 => getType(b[1]) # "invalid"
  BY <1>HeaderOk, <1>InvalidFails, Zenon
<1> QED BY <1>1, <1>2, <1>HeadersReadable, Zenon

-----------------------------------------------------------------------------
(* Strings and byte slices.                                                *)
Prefix(read, skip, err) == [read |-> read, skip |-> skip, err |-> err]

(* The prefix waits, refuses for good, or says how long the object is.     *)
Announced(b, d) ==
  \/ blobHeader(b) = Prefix(0, 0, ErrShort)
  \/ blobHeader(b) = Prefix(0, 0, ErrOverflow) /\ blobHeader(d) = Prefix(0, 0, ErrOverflow)
  \/ \E read \in Nat, skip \in Nat \ {0} :
        /\ blobHeader(b) = Prefix(read, skip, NoError)
        /\ blobHeader(d) = Prefix(read, skip, NoError)
        /\ getSize(b) = Sized(skip + read, 0)

(* A blob as a slice, nil if there is an error.                            *)
Sliced(r) == [r EXCEPT !.v = IF r.err = NoError THEN Bytes(@) ELSE NilBytes]

(* The lead bytes of strings and of bytes.                                 *)
BlobLead(c) == strLead(c) \/ binLead(c)

(* What the readers of strings and byte slices have in common.             *)
LEMMA BlobReaders ==
  \A b \in Seq(Byte) : Len(b) >= 1 /\ BlobLead(b[1]) =>
     /\ \A d \in Seq(Byte) : Longer(b, d) => Steady(b, d, blob(b, blobHeader(b)), blob(d, blobHeader(d)))
     /\ Ok(blob(b, blobHeader(b))) =>
          blobHeader(b).err = NoError /\ Len(blob(b, blobHeader(b)).v) = blobHeader(b).read
<1>HeadSteady. \A b \in Seq(Byte), d \in Seq(Byte) :
                 /\ Longer(b, d)
                 /\ Len(b) >= 1
                 /\ strLead(b[1]) \/ binLead(b[1])
                 =>
                   Announced(b, d)
  <2>BlobLeads. ASSUME NEW c, strLead(c) \/ binLead(c)
                PROVE  isfixstr(c) \/ c \in {mstr8, mbin8} \/ c \in {mstr16, mbin16} \/ c \in {mstr32, mbin32}
    BY <2>BlobLeads DEF strLead, binLead, mstr8, mstr16, mstr32, mbin8, mbin16, mbin32
  <2>HeadFix. ASSUME NEW b, isfixstr(b[1])
              PROVE  blobHeader(b) = Prefix(rfixstr(b[1]), 1, NoError)
    BY <2>HeadFix, Zenon DEF blobHeader, Prefix
  <2>Head8. ASSUME NEW b, b[1] \in {mstr8, mbin8}
            PROVE  blobHeader(b) = IF Len(b) < 2 THEN Prefix(0, 0, ErrShort) ELSE Prefix(Uint8(b), 2, NoError)
    <3> USE <2>Head8
    <3>1. ~isfixstr(b[1]) /\ lengthBytes(b[1]) = 1 /\ 1 + 1 = 2
      BY DEF isfixstr, lengthBytes, mfixstr, mstr8, mstr16, mstr32, mbin8, mbin16, mbin32
    <3> QED BY <3>1 DEF blobHeader, Prefix
  <2>Head16. ASSUME NEW b, b[1] \in {mstr16, mbin16}
             PROVE  blobHeader(b) = IF Len(b) < 3 THEN Prefix(0, 0, ErrShort) ELSE Prefix(Uint16(b), 3, NoError)
    <3> USE <2>Head16
    <3>1. ~isfixstr(b[1]) /\ lengthBytes(b[1]) = 2 /\ 2 + 1 = 3
      BY DEF isfixstr, lengthBytes, mfixstr, mstr8, mstr16, mstr32, mbin8, mbin16, mbin32
    <3> QED BY <3>1 DEF blobHeader, Prefix
  <2>Head32. ASSUME NEW b, b[1] \in {mstr32, mbin32}
             PROVE  blobHeader(b) = IF Len(b) < 5 THEN Prefix(0, 0, ErrShort)
                                    ELSE IF Uint32(b) > MaxInt THEN Prefix(0, 0, ErrOverflow)
                                    ELSE Prefix(Uint32(b), 5, NoError)
    <3> USE <2>Head32
    <3>1. ~isfixstr(b[1]) /\ lengthBytes(b[1]) = 4 /\ 4 + 1 = 5
      BY DEF isfixstr, lengthBytes, mfixstr, mstr8, mstr16, mstr32, mbin8, mbin16, mbin32
    <3> QED BY <3>1 DEF blobHeader, Prefix
  <2>BlobTable. \A c \in Byte :
                  /\ isfixstr(c) => sizes(c) = bytespec(1 + rfixstr(c), constsize, "str") /\ rfixstr(c) \in Nat
                  /\ c \in {mstr8, mbin8} => sizes(c).size = 2 /\ sizes(c).extra = extra8
                  /\ c \in {mstr16, mbin16} => sizes(c).size = 3 /\ sizes(c).extra = extra16
                  /\ c \in {mstr32, mbin32} => sizes(c).size = 5 /\ sizes(c).extra = extra32
    <3> SUFFICES ASSUME NEW c \in Byte
                 PROVE  /\ isfixstr(c) => sizes(c) = bytespec(1 + rfixstr(c), constsize, "str") /\ rfixstr(c) \in Nat
                        /\ c \in {mstr8, mbin8} => sizes(c).size = 2 /\ sizes(c).extra = extra8
                        /\ c \in {mstr16, mbin16} => sizes(c).size = 3 /\ sizes(c).extra = extra16
                        /\ c \in {mstr32, mbin32} => sizes(c).size = 5 /\ sizes(c).extra = extra32
      OBVIOUS
    <3>1. isfixstr(c) => ~(isfixint(c) \/ isnfixint(c))
      BY DEF isfixstr, isfixint, isnfixint, mfixstr, mnfixint
    <3>2. isfixstr(c) => sizes(c) = bytespec(1 + rfixstr(c), constsize, "str")
      BY <3>1, Zenon DEF sizes
    <3>3. rfixstr(c) \in Nat
      BY DEF rfixstr, Byte
    <3>4. \A k, x, t : bytespec(k, x, t).size = k /\ bytespec(k, x, t).extra = x
      BY DEF bytespec
    <3>5. c \in {mstr8, mbin8} => sizes(c).size = 2 /\ sizes(c).extra = extra8
      BY <3>4, BlobSizes
    <3>6. c \in {mstr16, mbin16} => sizes(c).size = 3 /\ sizes(c).extra = extra16
      BY <3>4, BlobSizes
    <3>7. c \in {mstr32, mbin32} => sizes(c).size = 5 /\ sizes(c).extra = extra32
      BY <3>4, BlobSizes
    <3> QED BY <3>2, <3>3, <3>5, <3>6, <3>7
  <2>AnnouncedIs. ASSUME NEW b, NEW d, NEW read \in Nat, NEW skip \in Nat \ {0},
                         blobHeader(b) = Prefix(read, skip, NoError), blobHeader(d) = Prefix(read, skip, NoError),
                         getSize(b) = Sized(skip + read, 0)
                  PROVE  Announced(b, d)
    BY <2>AnnouncedIs DEF Announced
  <2> SUFFICES ASSUME NEW b \in Seq(Byte), NEW d \in Seq(Byte), Longer(b, d), Len(b) >= 1, strLead(b[1]) \/ binLead(b[1])
               PROVE  Announced(b, d)
    OBVIOUS
  <2>0. d[1] = b[1] /\ b[1] \in Byte
    BY SameFields, Elements
  <2>1. CASE isfixstr(b[1])
    <3>1. PICK c \in Byte, n \in Nat : c = b[1] /\ n = rfixstr(c) /\ sizes(c) = bytespec(1 + n, constsize, "str")
      BY <2>0, <2>1, <2>BlobTable
    <3>2. blobHeader(b) = Prefix(n, 1, NoError) /\ blobHeader(d) = Prefix(n, 1, NoError)
      BY <2>0, <2>1, <3>1, <2>HeadFix
    <3>3. 1 + n \in Nat \ {0} /\ 1 \in Nat \ {0}
      OBVIOUS
    <3>4. getSize(b) = Sized(1 + n, 0)
      BY <3>1, <3>3, ConstSize
    <3> QED BY <3>2, <3>3, <3>4, <2>AnnouncedIs
  <2>2. CASE b[1] \in {mstr8, mbin8}
    <3>1. CASE Len(b) < 2
      BY <2>2, <3>1, <2>Head8 DEF Announced
    <3>2. CASE ~(Len(b) < 2)
      <4>1. ~(Len(d) < 2) /\ Uint8(d) = Uint8(b) /\ Len(b) >= 2 /\ d[1] \in {mstr8, mbin8}
        BY <2>2, <3>2, SameFields
      <4>2. PICK n \in Nat : n = Uint8(b) /\ n <= MaxInt
        BY <4>1, CountFits
      <4>3. blobHeader(b) = Prefix(n, 2, NoError) /\ blobHeader(d) = Prefix(n, 2, NoError)
        BY <2>2, <3>2, <4>1, <4>2, <2>Head8
      <4>4. 2 \in 1..32 /\ 2 \in Nat \ {0}
        OBVIOUS
      <4>5. sizes(b[1]).size = 2 /\ sizes(b[1]).extra = extra8
        BY <2>0, <2>2, <2>BlobTable, Zenon
      <4>6. getSize(b) = Sized(2 + n, 0)
        BY <4>1, <4>2, <4>4, <4>5, CountedSize
      <4> QED BY <4>3, <4>4, <4>6, <2>AnnouncedIs
    <3> QED BY <3>1, <3>2
  <2>3. CASE b[1] \in {mstr16, mbin16}
    <3>1. CASE Len(b) < 3
      BY <2>3, <3>1, <2>Head16 DEF Announced
    <3>2. CASE ~(Len(b) < 3)
      <4>1. ~(Len(d) < 3) /\ Uint16(d) = Uint16(b) /\ Len(b) >= 3 /\ d[1] \in {mstr16, mbin16}
        BY <2>3, <3>2, SameFields
      <4>2. PICK n \in Nat : n = Uint16(b) /\ n <= MaxInt
        BY <4>1, CountFits
      <4>3. blobHeader(b) = Prefix(n, 3, NoError) /\ blobHeader(d) = Prefix(n, 3, NoError)
        BY <2>3, <3>2, <4>1, <4>2, <2>Head16
      <4>4. 3 \in 1..32 /\ 3 \in Nat \ {0}
        OBVIOUS
      <4>5. sizes(b[1]).size = 3 /\ sizes(b[1]).extra = extra16
        BY <2>0, <2>3, <2>BlobTable
      <4>6. getSize(b) = Sized(3 + n, 0)
        BY <4>1, <4>2, <4>4, <4>5, CountedSize
      <4> QED BY <4>3, <4>4, <4>6, <2>AnnouncedIs
    <3> QED BY <3>1, <3>2
  <2>4. CASE b[1] \in {mstr32, mbin32}
    <3>1. CASE Len(b) < 5
      BY <2>4, <3>1, <2>Head32 DEF Announced
    <3>2. CASE ~(Len(b) < 5)
      <4>1. ~(Len(d) < 5) /\ Uint32(d) = Uint32(b) /\ Len(b) >= 5 /\ d[1] \in {mstr32, mbin32}
        BY <2>4, <3>2, SameFields
      <4>2. PICK n \in Nat : n = Uint32(b)
        BY <4>1, FieldsNat
      <4>3. CASE n > MaxInt
        <5>1. blobHeader(b) = Prefix(0, 0, ErrOverflow) /\ blobHeader(d) = Prefix(0, 0, ErrOverflow)
          BY <2>4, <3>2, <4>1, <4>2, <4>3, <2>Head32
        <5> QED BY <5>1 DEF Announced
      <4>4. CASE ~(n > MaxInt)
        <5>0. n <= MaxInt
          BY <4>4, MaxIntAssumption
        <5>1. blobHeader(b) = Prefix(n, 5, NoError) /\ blobHeader(d) = Prefix(n, 5, NoError)
          BY <2>4, <3>2, <4>1, <4>2, <4>4, <2>Head32
        <5>2. 5 \in 1..32 /\ 5 \in Nat \ {0}
          OBVIOUS
        <5>3. sizes(b[1]).size = 5 /\ sizes(b[1]).extra = extra32
          BY <2>0, <2>4, <2>BlobTable, Zenon
        <5>4. getSize(b) = Sized(5 + n, 0)
          BY <4>1, <4>2, <5>0, <5>2, <5>3, CountedSize
        <5> QED BY <5>1, <5>2, <5>4, <2>AnnouncedIs
      <4> QED BY <4>3, <4>4
    <3> QED BY <3>1, <3>2
  <2> QED BY <2>1, <2>2, <2>3, <2>4, <2>BlobLeads
<1>BlobCases. ASSUME NEW b \in Seq(Byte), NEW read \in Nat, NEW skip \in Nat
              PROVE  /\ \A x : x # NoError => blob(b, Prefix(read, skip, x)) = Result(<<>>, <<>>, x)
                     /\ Len(b) < skip + read => blob(b, Prefix(read, skip, NoError)) = Result(<<>>, <<>>, ErrShort)
                     /\ ~(Len(b) < skip + read) => blob(b, Prefix(read, skip, NoError))
                            = Result(SubSeq(b, skip + 1, skip + read), From(b, skip + read), NoError)
  <2>1. \A x : Prefix(read, skip, x).read = read /\ Prefix(read, skip, x).skip = skip /\ Prefix(read, skip, x).err = x
    BY DEF Prefix
  <2>2. Len(b) < skip + read <=> Len(b) - skip < read
    OBVIOUS
  <2>3. ASSUME NEW x, x # NoError PROVE blob(b, Prefix(read, skip, x)) = Result(<<>>, <<>>, x)
    BY <2>1, <2>3, Zenon DEF blob
  <2>4. ASSUME Len(b) < skip + read PROVE blob(b, Prefix(read, skip, NoError)) = Result(<<>>, <<>>, ErrShort)
    BY <2>1, <2>2, <2>4 DEF blob
  <2>5. ASSUME ~(Len(b) < skip + read)
        PROVE  blob(b, Prefix(read, skip, NoError)) = Result(SubSeq(b, skip + 1, skip + read), From(b, skip + read), NoError)
    BY <2>1, <2>2, <2>5 DEF blob
  <2> QED BY <2>3, <2>4, <2>5
<1>BlobSteady. ASSUME NEW b \in Seq(Byte), NEW d \in Seq(Byte), Longer(b, d), Len(b) >= 1, strLead(b[1]) \/ binLead(b[1])
               PROVE  Steady(b, d, blob(b, blobHeader(b)), blob(d, blobHeader(d)))
  <2> USE <1>BlobSteady
  <2>0. Announced(b, d) /\ Len(b) \in Nat /\ Len(d) \in Nat /\ Len(b) <= Len(d) /\ 0 \in Nat
    BY <1>HeadSteady, SameFields
  <2>1. CASE blobHeader(b) = Prefix(0, 0, ErrShort)
    <3>1. blob(b, blobHeader(b)) = Result(<<>>, <<>>, ErrShort)
      BY <2>0, <2>1, <1>BlobCases, ErrorsDiffer
    <3> QED BY <3>1, SteadyWaits
  <2>2. CASE blobHeader(b) = Prefix(0, 0, ErrOverflow) /\ blobHeader(d) = Prefix(0, 0, ErrOverflow)
    <3>1. blob(b, blobHeader(b)) = Result(<<>>, <<>>, ErrOverflow) /\ blob(d, blobHeader(d)) = Result(<<>>, <<>>, ErrOverflow)
      BY <2>0, <2>2, <1>BlobCases, ErrorsDiffer
    <3> QED BY <3>1, SteadyRefuses, ErrorsDiffer
  <2>3. ASSUME NEW read \in Nat, NEW skip \in Nat \ {0}, blobHeader(b) = Prefix(read, skip, NoError),
               blobHeader(d) = Prefix(read, skip, NoError), getSize(b) = Sized(skip + read, 0)
        PROVE  Steady(b, d, blob(b, blobHeader(b)), blob(d, blobHeader(d)))
    <3>1. CASE Len(b) < skip + read
      <4>1. blob(b, blobHeader(b)) = Result(<<>>, <<>>, ErrShort)
        BY <2>3, <3>1, <1>BlobCases
      <4> QED BY <4>1, SteadyWaits
    <3>2. CASE ~(Len(b) < skip + read)
      <4>1. ~(Len(d) < skip + read) /\ skip + 1 \in Nat \ {0} /\ skip + read \in Nat /\ skip + read <= Len(b) /\ skip + read \in 1..Len(b)
        BY <2>0, <3>2
      <4>2. /\ blob(b, blobHeader(b)) = Result(SubSeq(b, skip + 1, skip + read), From(b, skip + read), NoError)
            /\ blob(d, blobHeader(d)) = Result(SubSeq(d, skip + 1, skip + read), From(d, skip + read), NoError)
        BY <2>3, <3>2, <4>1, <1>BlobCases
      <4>3. SubSeq(d, skip + 1, skip + read) = SubSeq(b, skip + 1, skip + read)
        BY <4>1, SamePart
      <4> QED BY <2>3, <4>1, <4>2, <4>3, SteadyTakes, Zenon
    <3> QED BY <3>1, <3>2
  <2> QED BY <2>0, <2>1, <2>2, <2>3 DEF Announced
<1>BlobRead. ASSUME NEW b \in Seq(Byte), Len(b) >= 1, BlobLead(b[1]), Ok(blob(b, blobHeader(b)))
             PROVE  blobHeader(b).err = NoError /\ Len(blob(b, blobHeader(b)).v) = blobHeader(b).read
  <2> USE <1>BlobRead
  <2>0. PICK q : q = blob(b, blobHeader(b))
    BY Zenon
  <2>1. 0 \in Nat
    OBVIOUS
  <2>4. Ok(q)
    BY <2>0
  <2>6. Announced(b, b)
    BY LongerSelf, <1>HeadSteady DEF BlobLead
  <2>7. ASSUME NEW x, x # NoError, blobHeader(b) = Prefix(0, 0, x) PROVE FALSE
    <3>1. q = Result(<<>>, <<>>, x)
      BY <2>0, <2>1, <2>7, <1>BlobCases
    <3> QED BY <2>4, <2>7, <3>1, OkResult
  <2>8. PICK read \in Nat, skip \in Nat \ {0} : blobHeader(b) = Prefix(read, skip, NoError)
    BY <2>6, <2>7, ErrorsDiffer DEF Announced
  <2>9. ~(Len(b) < skip + read)
    <3> SUFFICES ASSUME Len(b) < skip + read PROVE FALSE
      OBVIOUS
    <3>1. q = Result(<<>>, <<>>, ErrShort)
      BY <2>0, <2>8, <1>BlobCases
    <3> QED BY <2>4, <3>1, OkResult, ErrorsDiffer
  <2>10. q = Result(SubSeq(b, skip + 1, skip + read), From(b, skip + read), NoError)
    BY <2>0, <2>8, <2>9, <1>BlobCases
  <2>11. q.v = SubSeq(b, skip + 1, skip + read)
    <3>1. \A v, o : Result(v, o, NoError).v = v
      BY OkResult
    <3>2. PICK v, o : v = SubSeq(b, skip + 1, skip + read) /\ q = Result(v, o, NoError)
      BY <2>10, Zenon
    <3> QED BY <3>1, <3>2, Zenon
  <2>12. Len(q.v) = read
    <3>1. Len(SubSeq(b, skip + 1, skip + read)) = read
      BY <2>9
    <3> QED BY <2>11, <3>1
  <2>13. blobHeader(b).err = NoError /\ blobHeader(b).read = read
    BY <2>8 DEF Prefix
  <2> QED BY <2>0, <2>12, <2>13
<1>1. ASSUME NEW b \in Seq(Byte), Len(b) >= 1, BlobLead(b[1]), NEW d \in Seq(Byte), Longer(b, d)
      PROVE  Steady(b, d, blob(b, blobHeader(b)), blob(d, blobHeader(d)))
  BY <1>1, <1>BlobSteady DEF BlobLead
<1> QED BY <1>1, <1>BlobRead

(* A reader of bytes returns a result.                                     *)
LEMMA BlobResult ==
  ASSUME NEW b, NEW h
  PROVE  IsResult(blob(b, h))
<1>1. CASE h.err # NoError
  BY <1>1, ResultIs, Zenon DEF blob
<1>2. CASE h.err = NoError /\ Len(b) - h.skip < h.read
  BY <1>2, ResultIs, Zenon DEF blob
<1>3. CASE h.err = NoError /\ ~(Len(b) - h.skip < h.read)
  BY <1>3, ResultIs, Zenon DEF blob
<1> QED BY <1>1, <1>2, <1>3

(* A reader of bytes returns a value or asks for more bytes, whatever the  *)
(* length says.                                                            *)
LEMMA BlobWants ==
  ASSUME NEW b
  PROVE  blob(b, blobHeader(b)).err \in Wants
<1>1. lengthBytes(b[1]) \in {1, 2, 4}
  BY DEF lengthBytes
<1>2. blobHeader(b).err \in Wants
  BY <1>1 DEF blobHeader, Wants
<1>3. blob(b, blobHeader(b)).err \in {blobHeader(b).err, ErrShort, NoError}
  BY OkResult DEF blob
<1> QED BY <1>2, <1>3 DEF Wants

-----------------------------------------------------------------------------
(* An array of numbers read as bytes.  One of them, j bytes long.          *)
OneByte(o, p, r, s, j) ==
  /\ r.o = From(o, j) /\ s.o = From(p, j) /\ Ok(s) /\ s.v = r.v
  /\ getSize(o) = Sized(j, 0)

(* The results of the rounds, for an array of N bytes.                     *)
Reads(N) == [v : [1..N -> Byte],
             o : Seq(Byte) \cup {ReadUintBytes(o, 1).o : o \in Seq(Byte)},
             err : {NoError} \cup {ReadUintBytes(o, 1).err : o \in Seq(Byte)}]

(* A round goes on with bytes as long as there is no error.                *)
Round(N) == {r \in Reads(N) : r.err = NoError => r.o \in Seq(Byte)}

(* f[i] is what i rounds have made of the bytes o and of the array.        *)
Loop(o, into, N, count, f) ==
  /\ f[0] = Result(into, o, NoError)
  /\ \A i \in 1..count : f[i] = nextByteObject(f[i - 1], i)
  /\ \A i \in 0..count : f[i] \in Round(N)
  /\ readByteObjects(o, count, into) = f[count]

(* After i rounds over o and over a longer p: as long as the first loop    *)
(* goes well, so does the second, and the same objects are behind them.    *)
Alike(o, p, count, i, r, s) ==
  r.err = NoError =>
    /\ s.err = NoError /\ s.v = r.v
    /\ r.o \in Seq(Byte) /\ s.o \in Seq(Byte) /\ Longer(r.o, s.o)
    /\ Len(s.o) = Len(r.o) + (Len(p) - Len(o))
    /\ SkipObjects(r.o, count - i) = SkipObjects(o, count)

(* The loop over a longer slice does the same and ends where Skip does.    *)
ObjectsKeep(o, p, N, count, into) ==
  LET r == readByteObjects(o, count, into)
      s == readByteObjects(p, count, into)
  IN /\ Ok(s) /\ s.v = r.v /\ r.v \in [1..N -> Byte]
     /\ r.o \in Seq(Byte) /\ Len(s.o) = Len(r.o) + (Len(p) - Len(o))
     /\ SkipObjects(r.o, 0) = SkipObjects(o, count)

(* What the loop promises that reads an array of bytes.                    *)
LEMMA ByteObjects ==
  \A o \in Seq(Byte), N \in Nat : \A into \in [1..N -> Byte], count \in Nat :
    /\ IsResult(readByteObjects(o, count, into))
    /\ \A p \in Seq(Byte) : Longer(o, p) /\ Ok(readByteObjects(o, count, into)) => ObjectsKeep(o, p, N, count, into)
<1>ByteSteady. ASSUME NEW o \in Seq(Byte), NEW p \in Seq(Byte), Longer(o, p), Ok(ReadUintBytes(o, 1))
               PROVE  \E j \in 1..Len(o) : OneByte(o, p, ReadUintBytes(o, 1), ReadUintBytes(p, 1), j)
  <2> USE <1>ByteSteady
  <2>1. Steady(o, p, ReadUintBytes(o, 1), ReadUintBytes(p, 1))
    BY IntegerReaders
  <2>2. ~Waits(ReadUintBytes(o, 1))
    BY ErrorsDiffer DEF Waits, Ok
  <2>3. PICK j \in 1..Len(o) : \E v : Takes(o, p, j, 0, v, ReadUintBytes(o, 1), ReadUintBytes(p, 1))
    BY <2>1, <2>2 DEF Steady
  <2>4. PICK v : Takes(o, p, j, 0, v, ReadUintBytes(o, 1), ReadUintBytes(p, 1))
    BY <2>3
  <2> QED BY <2>4, OkResult DEF Takes, OneByte
<1>NextObject. ASSUME NEW r, NEW i
               PROVE  /\ r.err # NoError => nextByteObject(r, i) = r
                      /\ r.err = NoError => nextByteObject(r, i)
                           = Result([r.v EXCEPT ![i] = ReadUintBytes(r.o, 1).v[8]], ReadUintBytes(r.o, 1).o, ReadUintBytes(r.o, 1).err)
  BY Zenon DEF nextByteObject
<1>LoopExists. \A o \in Seq(Byte), N \in Nat : \A into \in [1..N -> Byte], count \in Nat :
                 \E f : Loop(o, into, N, count, f)
  <2>NextRound. \A N \in Nat : \A r \in Round(N) : \A i :
                  nextByteObject(r, i) \in Round(N)
    <3>ByteIsByte. ASSUME NEW o \in Seq(Byte)
                   PROVE  ReadUintBytes(o, 1).v[8] \in Byte
      <4>1. ASSUME NEW v, Num(v) PROVE v[8] \in Byte
        <5>1. v \in Seq(Byte) /\ 8 \in 1..Len(v)
          BY <4>1 DEF Num
        <5> QED BY <5>1, Elements
      <4>2. Num(ReadUint64Bytes(o).v)
        BY IntegerReaders
      <4>3. Num(Zero(8))
        BY DEF Num, Zero, Filled, Byte
      <4>4. \/ ReadUintBytes(o, 1) = ReadUint64Bytes(o)
            \/ ReadUintBytes(o, 1) = Result(Zero(8), <<>>, Err("uintoverflow", "-"))
        BY Zenon DEF ReadUintBytes
      <4> QED BY <4>1, <4>2, <4>3, <4>4, OkResult
    <3> SUFFICES ASSUME NEW N \in Nat, NEW r \in Round(N), NEW i
                 PROVE  nextByteObject(r, i) \in Round(N)
      OBVIOUS
    <3>1. CASE r.err # NoError
      BY <3>1, <1>NextObject, Zenon
    <3>2. CASE r.err = NoError
      <4>1. r.o \in Seq(Byte) /\ r.v \in [1..N -> Byte]
        BY <3>2 DEF Round, Reads
      <4>2. PICK q : q = ReadUintBytes(r.o, 1)
        OBVIOUS
      <4>3. q.v[8] \in Byte
        BY <4>1, <4>2, <3>ByteIsByte
      <4>4. nextByteObject(r, i) = Result([r.v EXCEPT ![i] = q.v[8]], q.o, q.err)
        BY <3>2, <4>2, <1>NextObject
      <4>5. [r.v EXCEPT ![i] = q.v[8]] \in [1..N -> Byte]
        BY <4>1, <4>3, Zenon
      <4>6. /\ q.o \in Seq(Byte) \cup {ReadUintBytes(o, 1).o : o \in Seq(Byte)}
            /\ q.err \in {NoError} \cup {ReadUintBytes(o, 1).err : o \in Seq(Byte)}
        BY <4>1, <4>2
      <4>7. q.err = NoError => q.o \in Seq(Byte)
        <5> SUFFICES ASSUME Ok(q) PROVE q.o \in Seq(Byte)
          BY DEF Ok
        <5>1. Longer(r.o, r.o)
          BY <4>1 DEF Longer
        <5>2. PICK j \in 1..Len(r.o) : OneByte(r.o, r.o, q, q, j)
          BY <4>1, <4>2, <5>1, <1>ByteSteady
        <5>3. j \in 0..Len(r.o)
          BY <4>1
        <5> QED BY <4>1, <5>2, <5>3, FromFacts DEF OneByte
      <4>8. Result([r.v EXCEPT ![i] = q.v[8]], q.o, q.err) \in Reads(N)
        BY <4>5, <4>6 DEF Reads, Result
      <4> QED BY <4>4, <4>7, <4>8, OkResult DEF Round
    <3> QED BY <3>1, <3>2
  <2> SUFFICES ASSUME NEW o \in Seq(Byte), NEW N \in Nat, NEW into \in [1..N -> Byte], NEW count \in Nat
               PROVE  \E f : Loop(o, into, N, count, f)
    OBVIOUS
  <2> DEFINE V == Round(N)
             step == [i \in Nat |-> [r \in V |-> nextByteObject(r, i)]]
             v0 == Result(into, o, NoError)
  <2>1. v0 \in V
    BY OkResult DEF Round, Reads, Result
  <2>2. ASSUME NEW i \in Nat, NEW r \in V PROVE step[i][r] = nextByteObject(r, i) /\ step[i][r] \in V
    BY <2>NextRound
  <2> HIDE DEF v0, V, step
  <2>3. PICK g : Rounds(V, v0, step, count, g)
    BY <2>1, <2>2, Iterate, Zenon
  <2>4. g \in [0..count -> V] /\ g[0] = v0
    BY <2>3 DEF Rounds
  <2>5. ASSUME NEW i \in 1..count PROVE g[i] = nextByteObject(g[i - 1], i)
    <3>1. i - 1 \in 0..count /\ i \in Nat
      OBVIOUS
    <3>2. g[i - 1] \in V
      BY <2>4, <3>1
    <3>3. g[i] = step[i][g[i - 1]]
      BY <2>3 DEF Rounds
    <3> QED BY <2>2, <3>1, <3>2, <3>3
  <2> DEFINE Body(h, i) == IF i = 0 THEN Result(into, o, NoError) ELSE nextByteObject(h[i - 1], i)
             c == CHOOSE h : h = [i \in 0..count |-> Body(h, i)]
  <2>6. g = [i \in 0..count |-> Body(g, i)]
    <3>1. g = [i \in 0..count |-> g[i]]
      BY <2>4
    <3>2. ASSUME NEW i \in 0..count PROVE g[i] = Body(g, i)
      <4>1. CASE i = 0
        BY <2>4, <4>1, Zenon DEF v0
      <4>2. CASE i # 0
        <5>1. i \in 1..count
          BY <4>2
        <5> QED BY <2>5, <4>2, <5>1, Zenon
      <4> QED BY <4>1, <4>2
    <3> HIDE DEF Body
    <3> QED BY <3>1, <3>2
  <2>7. c = [i \in 0..count |-> Body(c, i)]
    BY <2>6, Zenon
  <2>8. readByteObjects(o, count, into) = c[count]
    BY Zenon DEF readByteObjects
  <2>9. ASSUME NEW i \in 0..count PROVE c[i] = Body(c, i)
    <3> HIDE DEF c, Body
    <3> QED BY <2>7, Zenon
  <2>10. \A i \in 0..count : c[i] = g[i]
    <3>1. 0 \in 0..count
      OBVIOUS
    <3>2. c[0] = g[0]
      BY <2>4, <2>9, <3>1, Zenon DEF v0
    <3>3. ASSUME NEW i \in 1..count, c[i - 1] = g[i - 1] PROVE c[i] = g[i]
      <4>1. i \in 0..count /\ i # 0
        OBVIOUS
      <4>2. c[i] = nextByteObject(c[i - 1], i)
        BY <2>9, <4>1, Zenon
      <4> HIDE DEF c
      <4> QED BY <2>5, <3>3, <4>2
    <3> HIDE DEF c
    <3> DEFINE S == {i \in Nat : c[i] = g[i]}
    <3>4. 0 \in S /\ \A i \in 1..count : i - 1 \in S => i \in S
      BY <3>2, <3>3
    <3> HIDE DEF S
    <3>5. \A i \in 0..count : i \in S
      BY <3>4, InductTo, Zenon
    <3> QED BY <3>5 DEF S
  <2>11. count \in 0..count
    OBVIOUS
  <2>12. readByteObjects(o, count, into) = g[count]
    <3> HIDE DEF c
    <3> QED BY <2>8, <2>10, <2>11
  <2> QED BY <2>4, <2>5, <2>12, Zenon DEF Loop, v0, V
<1>ObjectsKept. \A o \in Seq(Byte), p \in Seq(Byte), N \in Nat : \A into \in [1..N -> Byte], count \in Nat :
                  /\ Longer(o, p)
                  /\ Ok(readByteObjects(o, count, into))
                  =>
                    ObjectsKeep(o, p, N, count, into)
  <2>ObjectsSteady. \A o \in Seq(Byte), p \in Seq(Byte), N \in Nat : \A into \in [1..N -> Byte], count \in Nat :
                      /\ Longer(o, p)
                      /\ Ok(readByteObjects(o, count, into))
                      =>
                        LET r == readByteObjects(o, count, into)
                            s == readByteObjects(p, count, into)
                        IN /\ Ok(s) /\ s.v = r.v /\ r.v \in [1..N -> Byte]
                           /\ r.o \in Seq(Byte) /\ Len(s.o) = Len(r.o) + (Len(p) - Len(o))
                           /\ SkipObjects(r.o, 0) = SkipObjects(o, count)
    <3>AlikeStep. ASSUME NEW o \in Seq(Byte), NEW p \in Seq(Byte), NEW count \in Nat, NEW i \in 1..count, NEW r, NEW s,
                         Alike(o, p, count, i - 1, r, s)
                  PROVE  Alike(o, p, count, i, nextByteObject(r, i), nextByteObject(s, i))
      <4> USE <3>AlikeStep
      <4> SUFFICES ASSUME Ok(nextByteObject(r, i))
                   PROVE  Alike(o, p, count, i, nextByteObject(r, i), nextByteObject(s, i))
        BY DEF Alike, Ok
      <4>1. r.err = NoError
        BY <1>NextObject, Zenon DEF Ok
      <4>2. /\ s.err = NoError /\ s.v = r.v
            /\ r.o \in Seq(Byte) /\ s.o \in Seq(Byte) /\ Longer(r.o, s.o)
            /\ Len(s.o) = Len(r.o) + (Len(p) - Len(o))
            /\ SkipObjects(r.o, count - (i - 1)) = SkipObjects(o, count)
        BY <4>1 DEF Alike
      <4>0. PICK a, b \in Seq(Byte) : a = r.o /\ b = s.o
        BY <4>2
      <4>3. PICK q, t : a = r.o /\ b = s.o /\ q = ReadUintBytes(a, 1) /\ t = ReadUintBytes(b, 1)
        BY <4>0
      <4>4. /\ nextByteObject(r, i) = Result([r.v EXCEPT ![i] = q.v[8]], q.o, q.err)
            /\ nextByteObject(s, i) = Result([s.v EXCEPT ![i] = t.v[8]], t.o, t.err)
        BY <4>1, <4>2, <4>3, <1>NextObject, Zenon
      <4>5. Ok(q)
        BY <4>4, OkResult DEF Ok
      <4>6. PICK j \in 1..Len(a) : OneByte(a, b, q, t, j)
        BY <4>2, <4>3, <4>5, <1>ByteSteady
      <4>7. q.o = From(a, j) /\ t.o = From(b, j) /\ t.err = NoError /\ t.v = q.v /\ getSize(a) = Sized(j, 0)
        BY <4>6 DEF OneByte, Ok
      <4>8. j \in 0..Len(a) /\ count - (i - 1) \in Nat \ {0} /\ 0 \in Nat /\ 0 + ((count - (i - 1)) - 1) = count - i
        OBVIOUS
      <4>9. /\ q.o \in Seq(Byte) /\ t.o \in Seq(Byte) /\ Longer(q.o, t.o)
            /\ Len(t.o) = Len(q.o) + (Len(b) - Len(a))
        <5>1. Longer(a, b)
          BY <4>2, <4>3
        <5>2. /\ From(a, j) \in Seq(Byte) /\ From(b, j) \in Seq(Byte) /\ Longer(From(a, j), From(b, j))
              /\ Len(From(b, j)) = Len(From(a, j)) + (Len(b) - Len(a))
          BY <4>8, <5>1, LongerRest
        <5> QED BY <4>7, <5>2
      <4>10. Len(b) - Len(a) = Len(p) - Len(o)
        BY <4>2, <4>3
      <4>11. SkipObjects(a, count - (i - 1)) = SkipObjects(q.o, count - i)
        <5>1. PICK n \in Nat \ {0} : n = count - (i - 1) /\ 0 + (n - 1) = count - i
          BY <4>8
        <5>2. SkipObjects(a, n) = SkipObjects(From(a, j), 0 + (n - 1))
          BY <4>7, <4>8, SkipObject
        <5> QED BY <4>7, <5>1, <5>2
      <4>12. SkipObjects(q.o, count - i) = SkipObjects(o, count)
        BY <4>2, <4>3, <4>11
      <4>13. /\ nextByteObject(r, i).v = [r.v EXCEPT ![i] = q.v[8]] /\ nextByteObject(r, i).o = q.o
             /\ nextByteObject(s, i).v = [s.v EXCEPT ![i] = t.v[8]] /\ nextByteObject(s, i).o = t.o
             /\ nextByteObject(s, i).err = NoError
        <5>1. nextByteObject(r, i).v = [r.v EXCEPT ![i] = q.v[8]] /\ nextByteObject(r, i).o = q.o
          BY <4>4, OkResult
        <5>2. /\ nextByteObject(s, i).v = [s.v EXCEPT ![i] = t.v[8]] /\ nextByteObject(s, i).o = t.o
              /\ nextByteObject(s, i).err = t.err
          BY <4>4, OkResult
        <5> QED BY <4>7, <5>1, <5>2, Zenon
      <4> QED BY <4>2, <4>7, <4>9, <4>10, <4>12, <4>13, Zenon DEF Alike
    <3> SUFFICES ASSUME NEW o \in Seq(Byte), NEW p \in Seq(Byte), Longer(o, p),
                        NEW N \in Nat, NEW into \in [1..N -> Byte], NEW count \in Nat, Ok(readByteObjects(o, count, into))
                 PROVE  LET r == readByteObjects(o, count, into)
                            s == readByteObjects(p, count, into)
                        IN /\ Ok(s) /\ s.v = r.v /\ r.v \in [1..N -> Byte]
                           /\ r.o \in Seq(Byte) /\ Len(s.o) = Len(r.o) + (Len(p) - Len(o))
                           /\ SkipObjects(r.o, 0) = SkipObjects(o, count)
      OBVIOUS
    <3>1. PICK f : Loop(o, into, N, count, f)
      BY <1>LoopExists
    <3>2. PICK g : Loop(p, into, N, count, g)
      BY <1>LoopExists
    <3> DEFINE S == {i \in Nat : Alike(o, p, count, i, f[i], g[i])}
    <3>3. 0 \in S
      <4>1. f[0] = Result(into, o, NoError) /\ g[0] = Result(into, p, NoError)
        BY <3>1, <3>2 DEF Loop
      <4>2. /\ f[0].v = into /\ f[0].o = o /\ f[0].err = NoError
            /\ g[0].v = into /\ g[0].o = p /\ g[0].err = NoError
        BY <4>1, OkResult
      <4>3. count - 0 = count /\ Len(p) = Len(o) + (Len(p) - Len(o))
        OBVIOUS
      <4> QED BY <4>2, <4>3, Zenon DEF Alike
    <3>4. ASSUME NEW i \in 1..count, i - 1 \in S PROVE i \in S
      <4>1. f[i] = nextByteObject(f[i - 1], i) /\ g[i] = nextByteObject(g[i - 1], i)
        BY <3>1, <3>2, Zenon DEF Loop
      <4>2. Alike(o, p, count, i - 1, f[i - 1], g[i - 1])
        BY <3>4
      <4>3. Alike(o, p, count, i, nextByteObject(f[i - 1], i), nextByteObject(g[i - 1], i))
        BY <4>2, <3>AlikeStep
      <4>4. i \in Nat /\ Alike(o, p, count, i, f[i], g[i])
        <5>1. i \in Nat
          OBVIOUS
        <5> QED BY <4>1, <4>3, <5>1, Zenon
      <4> QED BY <4>4, Zenon
    <3>5. count \in 0..count /\ count - count = 0
      OBVIOUS
    <3>6. count \in S
      <4> HIDE DEF S
      <4> QED BY <3>3, <3>4, <3>5, InductTo, Zenon
    <3>7. Alike(o, p, count, count, f[count], g[count])
      BY <3>6
    <3>8. readByteObjects(o, count, into) = f[count] /\ readByteObjects(p, count, into) = g[count] /\ f[count] \in Round(N)
      BY <3>1, <3>2, <3>5, Zenon DEF Loop
    <3>9. f[count].v \in [1..N -> Byte]
      BY <3>8 DEF Round, Reads
    <3> QED BY <3>5, <3>7, <3>8, <3>9 DEF Alike, Ok
  <2> SUFFICES ASSUME NEW o \in Seq(Byte), NEW p \in Seq(Byte), Longer(o, p),
                      NEW N \in Nat, NEW into \in [1..N -> Byte], NEW count \in Nat, Ok(readByteObjects(o, count, into))
               PROVE  ObjectsKeep(o, p, N, count, into)
    OBVIOUS
  <2> QED
    BY <2>ObjectsSteady DEF ObjectsKeep
<1>ObjectsResult. ASSUME NEW o \in Seq(Byte), NEW N \in Nat, NEW into \in [1..N -> Byte], NEW count \in Nat
                  PROVE  LET r == readByteObjects(o, count, into) IN r = Result(r.v, r.o, r.err)
  <2>1. PICK f : Loop(o, into, N, count, f)
    BY <1>LoopExists
  <2>2. count \in 0..count
    OBVIOUS
  <2>3. readByteObjects(o, count, into) = f[count] /\ f[count] \in Round(N)
    BY <2>1, <2>2 DEF Loop
  <2>4. f[count] = Result(f[count].v, f[count].o, f[count].err)
    BY <2>3 DEF Round, Reads, Result
  <2> QED BY <2>3, <2>4
<1> SUFFICES ASSUME NEW o \in Seq(Byte), NEW N \in Nat, NEW into \in [1..N -> Byte], NEW count \in Nat
             PROVE  /\ IsResult(readByteObjects(o, count, into))
                    /\ \A p \in Seq(Byte) : Longer(o, p) /\ Ok(readByteObjects(o, count, into)) => ObjectsKeep(o, p, N, count, into)
  OBVIOUS
<1>1. IsResult(readByteObjects(o, count, into))
  BY <1>ObjectsResult DEF IsResult
<1> QED BY <1>1, <1>ObjectsKept

=============================================================================

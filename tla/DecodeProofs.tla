---------------------------- MODULE DecodeProofs ----------------------------
(***************************************************************************)
(* What the readers and Skip compute, for every slice of bytes and every   *)
(* width of int (read_bytes.go).  Skip is a recursive function of the      *)
(* position and of the objects to go: it has one value everywhere because  *)
(* each object moves it forward, or, on a platform whose uintptr wraps, at *)
(* least counts down.  Behind Skip come one call of a reader and a longer  *)
(* slice (Steady), the table `sizes` lead by lead, and the readers of      *)
(* integers; the other groups of readers are in ReaderProofs.              *)
(***************************************************************************)
EXTENDS Readers, WellFoundedInduction, TLAPS

(* A set of natural numbers has a least member.                            *)
LEMMA LeastMember ==
  ASSUME NEW T \in SUBSET Nat, T # {}
  PROVE  \E x \in T : \A y \in T : x <= y
<1> DEFINE R == OpToRel(<, Nat)
<1>1. \A y, z \in Nat : y < z => <<y, z>> \in R
  <2> SUFFICES ASSUME NEW y \in Nat, NEW z \in Nat, y < z PROVE <<y, z>> \in R
    OBVIOUS
  <2>1. <<y, z>> \in Nat \X Nat /\ <<y, z>>[1] = y /\ <<y, z>>[2] = z
    OBVIOUS
  <2> QED BY <2>1, Zenon DEF OpToRel
<1>2. IsWellFoundedOn(R, Nat)
  BY NatLessThanWellFounded
<1> HIDE DEF R
<1>3. PICK x \in T : \A y \in T : ~(<<y, x>> \in R)
  BY <1>2, WFMin, Zenon
<1>4. ASSUME NEW y \in T, ~(x <= y) PROVE FALSE
  <2>1. y \in Nat /\ x \in Nat /\ y < x
    BY <1>4
  <2> QED BY <1>1, <1>3, <2>1, Zenon
<1> QED BY <1>3, <1>4

(* Induction: a set that has 0, and the successor of what it has.          *)
LEMMA Induct ==
  ASSUME NEW S, 0 \in S, \A n \in Nat : n \in S => n + 1 \in S
  PROVE  \A n \in Nat : n \in S
<1> DEFINE T == Nat \ S
<1> SUFFICES ASSUME T # {} PROVE FALSE
  OBVIOUS
<1>1. PICK x \in T : \A y \in T : x <= y
  BY LeastMember, Zenon
<1>2. x # 0 /\ x - 1 \in Nat
  BY <1>1
<1>3. x - 1 \in S
  BY <1>1, <1>2
<1> QED BY <1>1, <1>2, <1>3

(* Induction as far as n.                                                  *)
LEMMA InductTo ==
  ASSUME NEW n \in Nat, NEW S, 0 \in S, \A i \in 1..n : i - 1 \in S => i \in S
  PROVE  \A i \in 0..n : i \in S
<1> DEFINE T == {i \in Nat : i <= n => i \in S}
<1>1. 0 \in T
  OBVIOUS
<1>2. ASSUME NEW i \in Nat, i \in T PROVE i + 1 \in T
  <2>1. CASE i + 1 <= n
    <3>1. i + 1 \in 1..n /\ (i + 1) - 1 = i /\ i \in S
      BY <1>2, <2>1
    <3>2. i + 1 \in S
      BY <3>1
    <3> QED BY <3>2
  <2>2. CASE ~(i + 1 <= n)
    BY <2>2
  <2> QED BY <2>1, <2>2
<1>3. \A i \in Nat : i \in T
  <2> HIDE DEF T
  <2> QED BY <1>1, <1>2, Induct
<1> QED BY <1>3

(* Induction over positions, from the last one down, and over counts at    *)
(* each.                                                                   *)
LEMMA InductPairs ==
  \A L \in Nat : \A P :
    /\ \A i \in 0..L : \A n \in Nat : (\A j \in 0..L : \A m \in Nat : j > i \/ (j = i /\ m < n) => <<j, m>> \in P) => <<i, n>> \in P
    =>
      \A i \in 0..L : \A n \in Nat : <<i, n>> \in P
(* Course-of-values induction: a set that has n if it has all below n.     *)
<1>InductBelow. ASSUME NEW S, \A n \in Nat : (\A m \in Nat : m < n => m \in S) => n \in S
                PROVE  \A n \in Nat : n \in S
  <2> DEFINE T == Nat \ S
  <2> SUFFICES ASSUME T # {} PROVE FALSE
    OBVIOUS
  <2>1. PICK x \in T : \A y \in T : x <= y
    BY LeastMember, Zenon
  <2>2. \A m \in Nat : m < x => m \in S
    BY <2>1
  <2> QED BY <1>InductBelow, <2>1, <2>2
<1> SUFFICES ASSUME NEW L \in Nat, NEW P,
                    \A i \in 0..L : \A n \in Nat :
                       (\A j \in 0..L : \A m \in Nat : j > i \/ (j = i /\ m < n) => <<j, m>> \in P) => <<i, n>> \in P
             PROVE  \A i \in 0..L : \A n \in Nat : <<i, n>> \in P
  OBVIOUS
<1> DEFINE S == {k \in Nat : k <= L => \A n \in Nat : <<L - k, n>> \in P}
<1>1. ASSUME NEW k \in Nat, \A l \in Nat : l < k => l \in S PROVE k \in S
  <2> SUFFICES ASSUME k <= L PROVE \A n \in Nat : <<L - k, n>> \in P
    OBVIOUS
  <2>0. PICK i \in 0..L : i = L - k
    OBVIOUS
  <2>1. ASSUME NEW j \in 0..L, NEW m \in Nat, j > i PROVE <<j, m>> \in P
    <3>1. L - j \in Nat /\ L - j < k /\ L - j <= L /\ L - (L - j) = j
      BY <2>0, <2>1
    <3>2. L - j \in S
      BY <1>1, <3>1, Zenon
    <3> QED BY <3>1, <3>2
  <2> DEFINE T == {n \in Nat : <<i, n>> \in P}
  <2>2. ASSUME NEW n \in Nat, \A m \in Nat : m < n => m \in T PROVE n \in T
    <3>1. \A j \in 0..L : \A m \in Nat : j > i \/ (j = i /\ m < n) => <<j, m>> \in P
      BY <2>1, <2>2
    <3>2. <<i, n>> \in P
      BY <3>1, Zenon
    <3> QED BY <3>2
  <2>3. \A n \in Nat : n \in T
    <3> HIDE DEF T
    <3> QED BY <2>2, <1>InductBelow
  <2> QED BY <2>0, <2>3
<1>2. \A k \in Nat : k \in S
  <2> HIDE DEF S
  <2> QED BY <1>1, <1>InductBelow
<1>3. ASSUME NEW i \in 0..L, NEW n \in Nat PROVE <<i, n>> \in P
  <2>1. PICK k \in Nat : k <= L /\ L - k = i
    BY L - i \in Nat, L - i <= L, L - (L - i) = i
  <2>2. k \in S
    BY <1>2
  <2> QED BY <2>1, <2>2
<1> QED BY <1>3

(* f[i] is the value after i rounds of a loop of count rounds, which       *)
(* starts with v0 and goes in round i from v to step[i][v].                *)
Rounds(V, v0, step, count, f) ==
  /\ f \in [0..count -> V]
  /\ f[0] = v0
  /\ \A i \in 1..count : f[i] = step[i][f[i - 1]]

(* A loop has a value after each round.                                    *)
LEMMA Iterate ==
  ASSUME NEW V, NEW v0 \in V, NEW step, NEW count \in Nat,
         \A i \in Nat : \A v \in V : step[i][v] \in V
  PROVE  \E f : Rounds(V, v0, step, count, f)
<1> DEFINE S == {n \in Nat : \E f : Rounds(V, v0, step, n, f)}
<1>1. 0 \in S
  <2>1. Rounds(V, v0, step, 0, [i \in 0..0 |-> v0])
    BY DEF Rounds
  <2> QED BY <2>1
<1>2. ASSUME NEW n \in Nat, n \in S PROVE n + 1 \in S
  <2>1. PICK f : Rounds(V, v0, step, n, f)
    BY <1>2
  <2> DEFINE new == step[n + 1][f[n]]
             g == [i \in 0..(n + 1) |-> IF i <= n THEN f[i] ELSE new]
  <2>2. new \in V
    BY <2>1 DEF Rounds
  <2>3. (\A i \in 0..n : g[i] = f[i]) /\ g[n + 1] = new
    OBVIOUS
  <2>4. g \in [0..(n + 1) -> V] /\ g[0] = v0
    <3> HIDE DEF new
    <3> QED BY <2>1, <2>2 DEF Rounds
  <2> HIDE DEF g
  <2>5. ASSUME NEW i \in 1..(n + 1) PROVE g[i] = step[i][g[i - 1]]
    <3>1. g[i - 1] = f[i - 1]
      BY <2>3
    <3>2. CASE i <= n
      BY <2>1, <2>3, <3>1, <3>2 DEF Rounds
    <3>3. CASE i = n + 1
      <4>1. g[i] = step[i][f[n]] /\ i - 1 = n
        BY <2>3, <3>3
      <4> QED BY <3>1, <4>1
    <3> QED BY <3>2, <3>3
  <2>6. Rounds(V, v0, step, n + 1, g)
    BY <2>4, <2>5, Zenon DEF Rounds
  <2> QED BY <2>6
<1>3. \A n \in Nat : n \in S
  <2> HIDE DEF S
  <2> QED BY <1>1, <1>2, Induct
<1> QED BY <1>3

(* Two functions that start alike and go on alike are alike.               *)
LEMMA SameRounds ==
  ASSUME NEW n \in Nat, NEW f, NEW g, f[0] = g[0],
         \A i \in 1..n : f[i - 1] = g[i - 1] => f[i] = g[i]
  PROVE  \A i \in 0..n : f[i] = g[i]
<1> DEFINE S == {i \in Nat : f[i] = g[i]}
<1>1. 0 \in S /\ \A i \in 1..n : i - 1 \in S => i \in S
  OBVIOUS
<1> HIDE DEF S
<1>2. \A i \in 0..n : i \in S
  BY <1>1, InductTo
<1> QED BY <1>2 DEF S

-----------------------------------------------------------------------------
(* Slices.                                                                 *)

(* The elements of a slice of a slice.                                     *)
LEMMA SliceOf ==
  ASSUME NEW S, NEW s, NEW m \in Int, NEW n \in Int, \A i \in m..n : s[i] \in S
  PROVE  /\ SubSeq(s, m, n) \in Seq(S)
         /\ Len(SubSeq(s, m, n)) = IF m <= n THEN n - m + 1 ELSE 0
         /\ \A i \in 1..(n - m + 1) : SubSeq(s, m, n)[i] = s[m + i - 1]
<1>1. SubSeq(s, m, n) \in Seq(S)
  OBVIOUS
<1>2. Len(SubSeq(s, m, n)) = IF m <= n THEN n - m + 1 ELSE 0
  OBVIOUS
<1>3. \A i \in 1..(n - m + 1) : SubSeq(s, m, n)[i] = s[m + i - 1]
  OBVIOUS
<1> QED BY <1>1, <1>2, <1>3

(* Slices with the same elements are the same.                             *)
LEMMA SameSlice ==
  ASSUME NEW S, NEW s \in Seq(S), NEW t \in Seq(S), Len(s) = Len(t), \A i \in 1..Len(s) : s[i] = t[i]
  PROVE  s = t
  OBVIOUS

(* A member of a slice is a byte.                                          *)
LEMMA Elements ==
  ASSUME NEW b \in Seq(Byte)
  PROVE  \A i \in 1..Len(b) : b[i] \in Byte /\ b[i] \in Nat /\ b[i] <= 255
<1>1. \A i \in 1..Len(b) : b[i] \in Byte
  OBVIOUS
<1>2. \A x \in Byte : x \in Nat /\ x <= 255
  BY DEF Byte
<1> QED BY <1>1, <1>2

(* Every entry of the table `sizes` has a small size and a known mode, and *)
(* a prefix that holds the count which its mode says is there.             *)
LEMMA SizesFacts ==
  ASSUME NEW c \in Byte
  PROVE  /\ sizes(c).size \in 0..32
         /\ sizes(c).extra \in -7..30
         /\ sizes(c).extra = extra8 => sizes(c).size >= 2
         /\ sizes(c).extra \in {extra16, map16v, array16v} => sizes(c).size >= 3
         /\ sizes(c).extra \in {extra32, map32v, array32v} => sizes(c).size >= 5
  BY DEF sizes, bytespec, Byte, isfixint, isnfixint, isfixmap, isfixarray, isfixstr, rfixmap,
     rfixarray, rfixstr, constsize, extra8, extra16, extra32, map16v, map32v, array16v, array32v,
     mnfixint, mfixmap, mfixarray, mfixstr, mnil, mfalse, mtrue, mbin8, mbin16, mbin32, mext8,
     mext16, mext32, mfloat32, mfloat64, muint8, muint16, muint32, muint64, mint8, mint16, mint32,
     mint64, mfixext1, mfixext2, mfixext4, mfixext8, mfixext16, mstr8, mstr16, mstr32, marray16,
     marray32, mmap16, mmap32

(* The count fields behind the lead byte are natural numbers, where there. *)
LEMMA FieldsNat ==
  ASSUME NEW b \in Seq(Byte)
  PROVE  /\ Len(b) >= 2 => Uint8(b) \in Nat
         /\ Len(b) >= 3 => Uint16(b) \in Nat
         /\ Len(b) >= 5 => Uint32(b) \in Nat
<1>1. \A i \in 1..Len(b) : b[i] \in Nat
  <2>1. \A i \in 1..Len(b) : b[i] \in Byte
    OBVIOUS
  <2>2. Byte \subseteq Nat
    BY DEF Byte
  <2> QED
    BY <2>1, <2>2, Zenon
<1>2. ASSUME Len(b) >= 2 PROVE Uint8(b) \in Nat
  BY <1>1, <1>2, SMT DEF Uint8
<1>3. ASSUME Len(b) >= 3 PROVE Uint16(b) \in Nat
  <2>1. b[2] \in Nat /\ b[3] \in Nat
    BY <1>1, <1>3, SMT
  <2> QED
    BY <2>1, SMT DEF Uint16
<1>4. ASSUME Len(b) >= 5 PROVE Uint32(b) \in Nat
  <2>1. b[2] \in Nat /\ b[3] \in Nat /\ b[4] \in Nat /\ b[5] \in Nat
    BY <1>1, <1>4, SMT
  <2>2. PICK x, y, z, w \in Nat : b[2] = x /\ b[3] = y /\ b[4] = z /\ b[5] = w
    BY <2>1, Zenon
  <2>3. 16777216 * x + 65536 * y + 256 * z + w \in Nat
    BY SMT
  <2> QED
    BY <2>2, <2>3, SMT DEF Uint32
<1> QED
  BY <1>2, <1>3, <1>4

(* What getSize may report: one of its two errors, or natural numbers, and *)
(* then a prefix of a byte at least for an object with elements.           *)
GoodSize(g) == /\ g.err \in {"none", "short", "prefix"}
               /\ g.sz \in Nat
               /\ g.asz \in Nat
               /\ g.err = "none" /\ g.asz > 0 => g.sz >= 1

(* getSize, for every slice.                                               *)
LEMMA GetSizeFacts ==
  \A b \in Seq(Byte) :
    GoodSize(getSize(b))
(* The switch of getSize reads only bytes that are there.                  *)
<1>SizeByModeFacts. \A b \in Seq(Byte), size \in 0..32, mode \in -7..30 :
                      /\ mode = extra8 => size >= 2
                      /\ mode \in {extra16, map16v, array16v} => size >= 3
                      /\ mode \in {extra32, map32v, array32v} => size >= 5
                      =>
                        GoodSize(sizeByMode(b, size, mode))
  (* A count wraps to a natural number, if it wraps.                         *)
  <2>UintptrNat. ASSUME NEW x \in Nat
                 PROVE  Uintptr(x) \in Nat
    BY MaxIntAssumption DEF Uintptr
  <2> SUFFICES ASSUME NEW b \in Seq(Byte), NEW size \in 0..32, NEW mode \in -7..30,
                      mode = extra8 => size >= 2,
                      mode \in {extra16, map16v, array16v} => size >= 3,
                      mode \in {extra32, map32v, array32v} => size >= 5
               PROVE  GoodSize(sizeByMode(b, size, mode))
    BY Zenon
  <2> USE DEF extra8, extra16, extra32, map16v, map32v, array16v, array32v
  <2>1. CASE size = 0 \/ mode >= 0 \/ Len(b) < size
    BY <2>1 DEF sizeByMode, Sized, SizeError, GoodSize
  <2>2. CASE mode = extra8 /\ Len(b) >= size
    <3>1. Uint8(b) \in Nat
      BY <2>2, FieldsNat
    <3>2. size + Uint8(b) \in Nat
      BY <3>1
    <3>3. Uintptr(size + Uint8(b)) \in Nat
      BY <3>2, <2>UintptrNat
    <3> QED
      BY <2>2, <3>3 DEF sizeByMode, Sized, GoodSize
  <2>3. CASE mode \in {extra16, map16v, array16v} /\ Len(b) >= size
    <3>1. Uint16(b) \in Nat
      BY <2>3, FieldsNat
    <3>2. size + Uint16(b) \in Nat /\ 2 * Uint16(b) \in Nat
      BY <3>1
    <3>3. Uintptr(size + Uint16(b)) \in Nat /\ Uintptr(2 * Uint16(b)) \in Nat
      BY <3>2, <2>UintptrNat
    <3> QED
      BY <2>3, <3>1, <3>3 DEF sizeByMode, Sized, GoodSize
  <2>4. CASE mode \in {extra32, map32v, array32v} /\ Len(b) >= size
    <3>1. Uint32(b) \in Nat
      BY <2>4, FieldsNat
    <3>2. size + Uint32(b) \in Nat /\ 2 * Uint32(b) \in Nat
      BY <3>1
    <3>3. Uintptr(size + Uint32(b)) \in Nat /\ Uintptr(2 * Uint32(b)) \in Nat
      BY <3>2, <2>UintptrNat
    <3> QED
      BY <2>4, <3>1, <3>3 DEF sizeByMode, Sized, GoodSize
  <2> QED
    BY <2>1, <2>2, <2>3, <2>4
<1> SUFFICES ASSUME NEW b \in Seq(Byte)
             PROVE  GoodSize(getSize(b))
  OBVIOUS
<1>1. CASE Len(b) = 0
  BY <1>1 DEF getSize, SizeError, GoodSize
<1>2. CASE Len(b) # 0
  <2>1. b[1] \in Byte
    BY <1>2
  <2>2. GoodSize(sizeByMode(b, sizes(b[1]).size, sizes(b[1]).extra))
    BY <2>1, SizesFacts, <1>SizeByModeFacts, Zenon
  <2> QED
    BY <1>2, <2>2 DEF getSize
<1> QED
  BY <1>1, <1>2

-----------------------------------------------------------------------------
(* Skip.  What is left of a slice.                                         *)
LEMMA FromFacts ==
  ASSUME NEW b \in Seq(Byte), NEW i \in 0..Len(b)
  PROVE  /\ From(b, i) \in Seq(Byte)
         /\ Len(From(b, i)) = Len(b) - i
         /\ \A j \in 1..(Len(b) - i) : From(b, i)[j] = b[i + j]
<1>1. Len(b) \in Nat /\ \A j \in 1..Len(b) : b[j] \in Byte
  OBVIOUS
<1>2. /\ From(b, i) \in Seq(Byte)
      /\ Len(From(b, i)) = (IF i + 1 <= Len(b) THEN Len(b) - (i + 1) + 1 ELSE 0)
      /\ \A j \in 1..(Len(b) - (i + 1) + 1) : From(b, i)[j] = b[(i + 1) + j - 1]
  <2>1. i + 1 \in Int /\ Len(b) \in Int /\ \A j \in (i + 1)..Len(b) : b[j] \in Byte
    BY <1>1
  <2> QED BY <2>1, SliceOf DEF From
<1>3. \A j : (i + 1) + j - 1 = i + j \/ j \notin Int
  OBVIOUS
<1>4. Len(From(b, i)) = Len(b) - i
  BY <1>1, <1>2
<1>5. ASSUME NEW j \in 1..(Len(b) - i) PROVE From(b, i)[j] = b[i + j]
  <2>1. j \in 1..(Len(b) - (i + 1) + 1) /\ (i + 1) + j - 1 = i + j
    BY <1>1
  <2> QED BY <1>2, <2>1
<1> QED BY <1>2, <1>4, <1>5

(* What getSize says at position i.                                        *)
SizeAt(b, i) == getSize(From(b, i))

(* It is one of its two errors, or natural numbers.                        *)
LEMMA SizeAtFacts ==
  ASSUME NEW b \in Seq(Byte), NEW i \in 0..Len(b)
  PROVE  GoodSize(SizeAt(b, i))
  BY FromFacts, GetSizeFacts DEF SizeAt

(* The object at position i can be passed.                                 *)
Passes(b, i) == SizeAt(b, i).err = "none" /\ SizeAt(b, i).sz <= Len(b) - i

(* The error at position i, if it can not.                                 *)
Refusal(b, i) == IF SizeAt(b, i).err # "none" THEN Err(SizeAt(b, i).err, "-") ELSE ErrShort

(* Where Skip stops: not before the place it starts at.                    *)
SkipErrors == {NoError, ErrShort, Err("prefix", "-")}
Skipped(b, i) == [at : i..Len(b), err : SkipErrors]

(* f has, from position j on, the values of Skip's loop.                   *)
Solves(b, f, j) == \A i \in j..Len(b) : \A n \in Nat :
                     f[<<i, n>>] = skipNext(b, f, i, n) /\ f[<<i, n>>] \in Skipped(b, i)

(* The error of a position is one of Skip's.                               *)
LEMMA RefusalIs ==
  ASSUME NEW b \in Seq(Byte), NEW i \in 0..Len(b)
  PROVE  Refusal(b, i) \in {ErrShort, Err("prefix", "-")}
  BY SizeAtFacts DEF Refusal, GoodSize, ErrShort

(* An object that can be passed ends in the slice, behind its first byte   *)
(* if it has elements.                                                     *)
LEMMA PassesFacts ==
  ASSUME NEW b \in Seq(Byte), NEW i \in 0..Len(b), Passes(b, i)
  PROVE  /\ SizeAt(b, i).sz \in Nat /\ SizeAt(b, i).asz \in Nat
         /\ i + SizeAt(b, i).sz \in i..Len(b)
         /\ SizeAt(b, i).sz = 0 => SizeAt(b, i).asz = 0
<1>1. GoodSize(SizeAt(b, i)) /\ Len(b) \in Nat
  BY SizeAtFacts
<1> QED BY <1>1 DEF GoodSize, Passes

(* An object passed with n to go leaves less to do: it moves the position, *)
(* or else has no elements.                                                *)
Before(j, m, i, n) == j > i \/ (j = i /\ m < n)

(* Past a prefix Skip has fewer bytes or fewer objects to go, which is     *)
(* what the induction goes down on.                                        *)
LEMMA PassesBefore ==
  ASSUME NEW b \in Seq(Byte), NEW i \in 0..Len(b), NEW n \in Nat, n # 0, Passes(b, i)
  PROVE  LET g == SizeAt(b, i)
         IN /\ g.sz \in Nat /\ g.asz \in Nat /\ n - 1 \in Nat /\ i + g.sz \in 0..Len(b)
            /\ Before(i + g.sz, g.asz, i, n)
            /\ \A j \in (i + g.sz)..Len(b) : j \in 0..Len(b) /\ Before(j, n - 1, i, n)
<1>1. PICK s, a \in Nat : s = SizeAt(b, i).sz /\ a = SizeAt(b, i).asz /\ i + s \in i..Len(b) /\ (s = 0 => a = 0)
  BY PassesFacts, Zenon
<1>2. Len(b) \in Nat /\ n - 1 \in Nat /\ i + s \in 0..Len(b)
  BY <1>1
<1>3. Before(i + s, a, i, n) /\ \A j \in (i + s)..Len(b) : j \in 0..Len(b) /\ Before(j, n - 1, i, n)
  BY <1>1, <1>2 DEF Before
<1> QED BY <1>1, <1>2, <1>3, Zenon

(* Where Skip stops that has n objects to go at position i, and why.       *)
SkipAt(b, i, n) == skipLoop(b)[<<i, n>>]

(* The loop of Skip, unfolded once: for every slice, skipLoop has the      *)
(* value its equation gives.                                               *)
LEMMA SkipCases ==
  \A b \in Seq(Byte) : \A i \in 0..Len(b), n \in Nat :
    LET g == SizeAt(b, i)
        r == SkipAt(b, i + g.sz, g.asz)
    IN /\ n = 0 => SkipAt(b, i, n) = stopAt(i, NoError)
       /\ n # 0 /\ ~Passes(b, i) => SkipAt(b, i, n) = stopAt(i, Refusal(b, i))
       /\ n # 0 /\ Passes(b, i) =>
            SkipAt(b, i, n) = IF r.err # NoError THEN r ELSE SkipAt(b, r.at, n - 1)
(* One round of the loop of Skip.                                          *)
<1>NextIs. ASSUME NEW b \in Seq(Byte), NEW f, NEW i \in 0..Len(b), NEW n \in Nat
           PROVE  LET g == SizeAt(b, i)
                      r == f[<<i + g.sz, g.asz>>]
                  IN /\ n = 0 => skipNext(b, f, i, n) = stopAt(i, NoError)
                     /\ n # 0 /\ ~Passes(b, i) => skipNext(b, f, i, n) = stopAt(i, Refusal(b, i))
                     /\ n # 0 /\ Passes(b, i) =>
                          skipNext(b, f, i, n) = IF r.err # NoError THEN r ELSE f[<<r.at, n - 1>>]
  <2>1. SizeAt(b, i).sz \in Nat /\ Len(b) \in Nat
    BY SizeAtFacts DEF GoodSize
  <2>2. Len(b) - i < SizeAt(b, i).sz <=> ~(SizeAt(b, i).sz <= Len(b) - i)
    BY <2>1
  <2>3. CASE n = 0
    BY <2>3, Zenon DEF skipNext
  <2>4. CASE n # 0 /\ SizeAt(b, i).err # "none"
    BY <2>4, Zenon DEF skipNext, SizeAt, Refusal, Passes
  <2>5. CASE n # 0 /\ SizeAt(b, i).err = "none" /\ Len(b) - i < SizeAt(b, i).sz
    BY <2>2, <2>5 DEF skipNext, SizeAt, Refusal, Passes
  <2>6. CASE n # 0 /\ SizeAt(b, i).err = "none" /\ ~(Len(b) - i < SizeAt(b, i).sz)
    BY <2>2, <2>6 DEF skipNext, SizeAt, Refusal, Passes
  <2> QED BY <2>3, <2>4, <2>5, <2>6
<1>NextNone. \A b, f, i : skipNext(b, f, i, 0) = stopAt(i, NoError)
  BY Zenon DEF skipNext
<1>NextStops. ASSUME NEW b \in Seq(Byte), NEW f, NEW i \in 0..Len(b), NEW n \in Nat
              PROVE  n # 0 /\ ~Passes(b, i) => skipNext(b, f, i, n) = stopAt(i, Refusal(b, i))
  BY <1>NextIs, Zenon
<1>NextGoes. ASSUME NEW b \in Seq(Byte), NEW f, NEW i \in 0..Len(b), NEW n \in Nat
             PROVE  LET r == f[<<i + SizeAt(b, i).sz, SizeAt(b, i).asz>>]
                    IN n # 0 /\ Passes(b, i) =>
                         skipNext(b, f, i, n) = IF r.err # NoError THEN r ELSE f[<<r.at, n - 1>>]
  BY <1>NextIs, Zenon
(* The recursive definition of the loop is satisfied.                      *)
<1>SkipLoopIs. \A b \in Seq(Byte) : \A i \in 0..Len(b), n \in Nat :
                 skipLoop(b)[<<i, n>>] = skipNext(b, skipLoop(b), i, n)
  (* Skip's loop has a value at every position and for every count.          *)
  <2>SkipExists. \A b \in Seq(Byte) :
                   \E f : Solves(b, f, 0)
    (* The values at the positions behind j determine those at j.              *)
    <3>SolveRow. ASSUME NEW b \in Seq(Byte), NEW j \in 0..Len(b), NEW f, Solves(b, f, j + 1)
                 PROVE  \E h : Solves(b, h, j)
      <4> DEFINE L == Len(b)
                 e == j + SizeAt(b, j).sz
                 r == f[<<e, SizeAt(b, j).asz>>]
                 row(n) == IF n = 0 \/ (Passes(b, j) /\ SizeAt(b, j).sz = 0) THEN stopAt(j, NoError)
                           ELSE IF ~Passes(b, j) THEN stopAt(j, Refusal(b, j))
                           ELSE IF r.err # NoError THEN r ELSE f[<<r.at, n - 1>>]
                 h == [p \in (0..L) \X Nat |-> IF p[1] = j THEN row(p[2]) ELSE f[p]]
      <4>1. L \in Nat /\ j + 1 \in Nat /\ j \in 0..L
        OBVIOUS
      <4>2. ASSUME NEW n \in Nat PROVE h[<<j, n>>] = row(n)
        <5>1. <<j, n>> \in (0..L) \X Nat /\ <<j, n>>[1] = j /\ <<j, n>>[2] = n
          OBVIOUS
        <5> QED BY <5>1, Zenon
      <4>3. ASSUME NEW i \in 0..L, i # j, NEW n \in Nat PROVE h[<<i, n>>] = f[<<i, n>>]
        <5>1. <<i, n>> \in (0..L) \X Nat /\ <<i, n>>[1] = i
          OBVIOUS
        <5> QED BY <4>3, <5>1, Zenon
      <4> HIDE DEF h
      <4>4. ASSUME NEW i \in (j + 1)..L, NEW n \in Nat
            PROVE  f[<<i, n>>] = skipNext(b, f, i, n) /\ f[<<i, n>>] \in Skipped(b, i)
        BY <3>SolveRow, <4>4 DEF Solves
      <4>5. ASSUME NEW i \in (j + 1)..L, NEW n \in Nat
            PROVE  h[<<i, n>>] = f[<<i, n>>] /\ i \in 0..L
        BY <4>1, <4>3
      <4>6. ASSUME NEW i \in (j + 1)..L, NEW n \in Nat
            PROVE  h[<<i, n>>] = skipNext(b, h, i, n) /\ h[<<i, n>>] \in Skipped(b, i)
        <5> DEFINE g == SizeAt(b, i)
                   q == f[<<i + g.sz, g.asz>>]
        <5>0. i \in 0..L
          BY <4>1
        <5>1. skipNext(b, h, i, n) = skipNext(b, f, i, n)
          <6>1. CASE n = 0
            BY <5>0, <6>1, <1>NextNone, Zenon
          <6>2. CASE n # 0 /\ ~Passes(b, i)
            <7>1. /\ skipNext(b, f, i, n) = stopAt(i, Refusal(b, i))
                  /\ skipNext(b, h, i, n) = stopAt(i, Refusal(b, i))
              BY <5>0, <6>2, <1>NextStops, Zenon
            <7> QED BY <7>1
          <6>3. CASE n # 0 /\ Passes(b, i)
            <7>1. g.asz \in Nat /\ i + g.sz \in (j + 1)..L
              <8>1. g.asz \in Nat /\ i + g.sz \in i..L
                BY <5>0, <6>3, PassesFacts
              <8> QED BY <8>1, <4>1
            <7>2. h[<<i + g.sz, g.asz>>] = q
              BY <7>1, <4>5
            <7>3. q \in Skipped(b, i + g.sz)
              BY <7>1, <4>4
            <7>4. q.at \in (i + g.sz)..L
              BY <7>3 DEF Skipped
            <7>5. q.at \in (j + 1)..L /\ n - 1 \in Nat
              BY <7>1, <7>4, <6>3, <4>1
            <7>6. h[<<q.at, n - 1>>] = f[<<q.at, n - 1>>]
              BY <7>5, <4>5
            <7>7. /\ skipNext(b, f, i, n) = IF q.err # NoError THEN q ELSE f[<<q.at, n - 1>>]
                  /\ skipNext(b, h, i, n) = IF h[<<i + g.sz, g.asz>>].err # NoError THEN h[<<i + g.sz, g.asz>>]
                                             ELSE h[<<h[<<i + g.sz, g.asz>>].at, n - 1>>]
              BY <5>0, <6>3, <1>NextGoes, Zenon
            <7>8. skipNext(b, h, i, n) = IF q.err # NoError THEN q ELSE h[<<q.at, n - 1>>]
              BY <7>2, <7>7, Zenon
            <7>9. skipNext(b, h, i, n) = IF q.err # NoError THEN q ELSE f[<<q.at, n - 1>>]
              BY <7>6, <7>8, Zenon
            <7> HIDE DEF q
            <7> QED BY <7>7, <7>9
          <6> QED BY <6>1, <6>2, <6>3
        <5>2. h[<<i, n>>] = f[<<i, n>>]
          BY <4>5
        <5> QED BY <4>4, <5>1, <5>2, Zenon
      <4>7. ASSUME NEW n \in Nat
            PROVE  h[<<j, n>>] = skipNext(b, h, j, n) /\ h[<<j, n>>] \in Skipped(b, j)
        <5>0. stopAt(j, NoError) \in Skipped(b, j) /\ stopAt(j, Refusal(b, j)) \in Skipped(b, j)
          BY RefusalIs, <4>1 DEF stopAt, Skipped, SkipErrors
        <5>1. CASE n = 0
          <6>1. row(n) = stopAt(j, NoError)
            BY <5>1, Zenon
          <6> QED BY <4>2, <5>0, <5>1, <6>1, <1>NextNone, Zenon
        <5>2. CASE n # 0 /\ ~Passes(b, j)
          <6>1. row(n) = stopAt(j, Refusal(b, j))
            BY <5>2, Zenon
          <6> QED BY <4>2, <5>0, <5>2, <6>1, <1>NextStops, Zenon
        <5>3. CASE n # 0 /\ Passes(b, j) /\ SizeAt(b, j).sz = 0
          <6>1. \A m \in Nat : row(m) = stopAt(j, NoError)
            BY <5>3, Zenon
          <6>2. \A m \in Nat : h[<<j, m>>] = stopAt(j, NoError)
            BY <4>2, <6>1, Zenon
          <6>3. SizeAt(b, j).asz = 0 /\ e = j /\ n - 1 \in Nat
            BY <5>3, PassesFacts
          <6>4. stopAt(j, NoError).err = NoError /\ stopAt(j, NoError).at = j
            BY DEF stopAt
          <6>5. h[<<e, SizeAt(b, j).asz>>] = stopAt(j, NoError) /\ h[<<j, n - 1>>] = stopAt(j, NoError)
            BY <6>2, <6>3
          <6>6. skipNext(b, h, j, n) = IF h[<<e, SizeAt(b, j).asz>>].err # NoError THEN h[<<e, SizeAt(b, j).asz>>]
                                       ELSE h[<<h[<<e, SizeAt(b, j).asz>>].at, n - 1>>]
            BY <5>3, <1>NextGoes, Zenon
          <6>7. skipNext(b, h, j, n) = stopAt(j, NoError)
            BY <6>4, <6>5, <6>6, Zenon
          <6> QED BY <5>0, <6>2, <6>7, Zenon
        <5>4. CASE n # 0 /\ Passes(b, j) /\ SizeAt(b, j).sz # 0
          <6>1. row(n) = IF r.err # NoError THEN r ELSE f[<<r.at, n - 1>>]
            BY <5>4, Zenon
          <6>2. SizeAt(b, j).asz \in Nat /\ e \in (j + 1)..L
            BY <4>1, <5>4, PassesFacts
          <6>3. h[<<e, SizeAt(b, j).asz>>] = r
            BY <4>5, <6>2
          <6>4. r \in Skipped(b, e)
            BY <4>4, <6>2
          <6>5. r.at \in e..L
            BY <6>4 DEF Skipped
          <6>6. r.at \in (j + 1)..L /\ n - 1 \in Nat
            BY <6>2, <6>5, <4>1, <5>4
          <6>7. h[<<r.at, n - 1>>] = f[<<r.at, n - 1>>]
            BY <6>6, <4>5
          <6>8. skipNext(b, h, j, n) = IF h[<<e, SizeAt(b, j).asz>>].err # NoError THEN h[<<e, SizeAt(b, j).asz>>]
                                       ELSE h[<<h[<<e, SizeAt(b, j).asz>>].at, n - 1>>]
            BY <5>4, <1>NextGoes, Zenon
          <6>9. h[<<j, n>>] = skipNext(b, h, j, n)
            <7> HIDE DEF r, e
            <7> QED BY <4>2, <6>1, <6>3, <6>7, <6>8, Zenon
          <6>10. \A i \in (j + 1)..L : Skipped(b, i) \subseteq Skipped(b, j)
            BY <4>1 DEF Skipped
          <6>11. f[<<r.at, n - 1>>] \in Skipped(b, r.at)
            BY <6>6, <4>4
          <6>12. row(n) \in Skipped(b, j)
            <7> HIDE DEF r, e
            <7> QED BY <6>1, <6>2, <6>4, <6>6, <6>10, <6>11, Zenon
          <6> QED BY <4>2, <6>9, <6>12, Zenon
        <5> QED BY <5>1, <5>2, <5>3, <5>4
      <4>8. ASSUME NEW i \in j..L PROVE i = j \/ i \in (j + 1)..L
        BY <4>1
      <4> QED BY <4>6, <4>7, <4>8, Zenon DEF Solves
    <3> SUFFICES ASSUME NEW b \in Seq(Byte)
                 PROVE  \E f : Solves(b, f, 0)
      OBVIOUS
    <3>0. PICK L \in Nat : L = Len(b)
      OBVIOUS
    <3> DEFINE S == {k \in Nat : k <= L + 1 => \E f : Solves(b, f, L + 1 - k)}
    <3>1. 0 \in S
      <4>1. (L + 1 - 0)..Len(b) = {}
        BY <3>0
      <4>2. Solves(b, <<>>, L + 1 - 0)
        BY <4>1, Zenon DEF Solves
      <4> QED BY <4>2
    <3>2. ASSUME NEW k \in Nat, k \in S PROVE k + 1 \in S
      <4> SUFFICES ASSUME k + 1 <= L + 1 PROVE \E f : Solves(b, f, L + 1 - (k + 1))
        OBVIOUS
      <4>1. PICK j \in 0..Len(b) : j = L + 1 - (k + 1) /\ L + 1 - k = j + 1 /\ k <= L + 1
        BY <3>0
      <4>2. PICK f : Solves(b, f, j + 1)
        BY <3>2, <4>1
      <4>3. \E h : Solves(b, h, j)
        BY <4>2, <3>SolveRow
      <4> QED BY <4>1, <4>3
    <3>3. \A k \in Nat : k \in S
      <4> HIDE DEF S
      <4> QED BY <3>1, <3>2, Induct
    <3>4. PICK k \in Nat : k = L + 1 /\ k <= L + 1 /\ L + 1 - k = 0
      OBVIOUS
    <3>5. k \in S
      BY <3>3
    <3> QED BY <3>4, <3>5
  <2> SUFFICES ASSUME NEW b \in Seq(Byte), NEW i \in 0..Len(b), NEW n \in Nat
               PROVE  skipLoop(b)[<<i, n>>] = skipNext(b, skipLoop(b), i, n)
    OBVIOUS
  <2> DEFINE D == (0..Len(b)) \X Nat
  <2>1. PICK f : Solves(b, f, 0)
    BY <2>SkipExists
  <2> DEFINE h == [p \in D |-> f[p]]
  <2>2. ASSUME NEW j \in 0..Len(b), NEW m \in Nat
        PROVE  /\ f[<<j, m>>] = skipNext(b, f, j, m) /\ f[<<j, m>>] \in Skipped(b, j)
               /\ h[<<j, m>>] = f[<<j, m>>]
    BY <2>1 DEF Solves
  <2>3. ASSUME NEW p \in D PROVE h[p] = skipNext(b, h, p[1], p[2])
    <3>0. PICK j \in 0..Len(b), m \in Nat : p = <<j, m>> /\ p[1] = j /\ p[2] = m
      OBVIOUS
    <3> HIDE DEF h
    <3> DEFINE g == SizeAt(b, j)
               q == f[<<j + g.sz, g.asz>>]
    <3>1. CASE m = 0 \/ ~Passes(b, j)
      <4>1. skipNext(b, f, j, m) = skipNext(b, h, j, m)
        <5>1. CASE m = 0
          <6>1. skipNext(b, f, j, m) = stopAt(j, NoError) /\ skipNext(b, h, j, m) = stopAt(j, NoError)
            BY <5>1, <1>NextNone, Zenon
          <6> QED BY <6>1
        <5>2. CASE m # 0 /\ ~Passes(b, j)
          <6>1. /\ skipNext(b, f, j, m) = stopAt(j, Refusal(b, j))
                /\ skipNext(b, h, j, m) = stopAt(j, Refusal(b, j))
            BY <5>2, <1>NextStops, Zenon
          <6> QED BY <6>1
        <5> QED BY <3>1, <5>1, <5>2
      <4> QED BY <2>2, <3>0, <4>1, Zenon
    <3>2. CASE m # 0 /\ Passes(b, j)
      <4>1. g.asz \in Nat /\ j + g.sz \in j..Len(b)
        BY <3>2, PassesFacts
      <4>2. j + g.sz \in 0..Len(b) /\ m - 1 \in Nat
        BY <4>1, <3>2
      <4>3. q \in Skipped(b, j + g.sz) /\ h[<<j + g.sz, g.asz>>] = q
        BY <2>2, <4>1, <4>2
      <4>4. q.at \in 0..Len(b)
        BY <4>2, <4>3 DEF Skipped
      <4>5. h[<<q.at, m - 1>>] = f[<<q.at, m - 1>>]
        BY <2>2, <4>2, <4>4
      <4>6. /\ skipNext(b, f, j, m) = IF q.err # NoError THEN q ELSE f[<<q.at, m - 1>>]
            /\ skipNext(b, h, j, m) = IF h[<<j + g.sz, g.asz>>].err # NoError THEN h[<<j + g.sz, g.asz>>]
                                       ELSE h[<<h[<<j + g.sz, g.asz>>].at, m - 1>>]
        BY <3>2, <1>NextGoes, ZenonT(60)
      <4>7. skipNext(b, h, j, m) = IF q.err # NoError THEN q ELSE h[<<q.at, m - 1>>]
        BY <4>3, <4>6, Zenon
      <4>8. skipNext(b, h, j, m) = IF q.err # NoError THEN q ELSE f[<<q.at, m - 1>>]
        BY <4>5, <4>7, Zenon
      <4>9. skipNext(b, h, j, m) = skipNext(b, f, j, m)
        <5> HIDE DEF q
        <5> QED BY <4>6, <4>8
      <4> QED BY <2>2, <3>0, <4>9, Zenon
    <3> QED BY <3>1, <3>2
  <2>4. h = [p \in D |-> skipNext(b, h, p[1], p[2])]
    <3>1. h = [p \in D |-> h[p]]
      BY Zenon
    <3> HIDE DEF h, D
    <3> QED BY <2>3, <3>1
  <2>5. skipLoop(b) = [p \in D |-> skipNext(b, skipLoop(b), p[1], p[2])]
    <3> HIDE DEF h
    <3> QED BY <2>4, Zenon DEF skipLoop
  <2>6. <<i, n>> \in D /\ <<i, n>>[1] = i /\ <<i, n>>[2] = n
    OBVIOUS
  <2> HIDE DEF D
  <2> QED BY <2>5, <2>6, Zenon
<1> SUFFICES ASSUME NEW b \in Seq(Byte), NEW i \in 0..Len(b), NEW n \in Nat
             PROVE  LET g == SizeAt(b, i)
                        r == SkipAt(b, i + g.sz, g.asz)
                    IN /\ n = 0 => SkipAt(b, i, n) = stopAt(i, NoError)
                       /\ n # 0 /\ ~Passes(b, i) => SkipAt(b, i, n) = stopAt(i, Refusal(b, i))
                       /\ n # 0 /\ Passes(b, i) =>
                            SkipAt(b, i, n) = IF r.err # NoError THEN r ELSE SkipAt(b, r.at, n - 1)
  OBVIOUS
<1>1. SkipAt(b, i, n) = skipNext(b, skipLoop(b), i, n)
  BY <1>SkipLoopIs, Zenon DEF SkipAt
<1>2. CASE n = 0
  BY <1>1, <1>2, <1>NextNone, Zenon
<1>3. CASE n # 0 /\ ~Passes(b, i)
  BY <1>1, <1>3, <1>NextStops, Zenon
<1>4. CASE n # 0 /\ Passes(b, i)
  BY <1>1, <1>4, <1>NextGoes, Zenon DEF SkipAt
<1> QED BY <1>2, <1>3, <1>4, Zenon

-----------------------------------------------------------------------------
(* Extensions.                                                             *)

-----------------------------------------------------------------------------
(* What a reader makes of a slice b and of a longer one, d.                *)
Longer(b, d) == Len(b) <= Len(d) /\ \A i \in 1..Len(b) : d[i] = b[i]

(* The part of b that is there is the same in d.                           *)
LEMMA SamePart ==
  ASSUME NEW b \in Seq(Byte), NEW d \in Seq(Byte), Longer(b, d), NEW i \in Nat \ {0}, NEW j \in Nat, j <= Len(b)
  PROVE  SubSeq(d, i, j) = SubSeq(b, i, j)
<1>1. Len(b) \in Nat /\ Len(d) \in Nat /\ Len(b) <= Len(d)
  BY DEF Longer
<1>2. \A x \in i..j : x \in 1..Len(b) /\ x \in 1..Len(d)
  BY <1>1
<1>3. \A x \in i..j : b[x] \in Byte /\ d[x] \in Byte /\ d[x] = b[x]
  BY <1>2, Elements DEF Longer
<1>4. /\ SubSeq(b, i, j) \in Seq(Byte) /\ SubSeq(d, i, j) \in Seq(Byte)
      /\ Len(SubSeq(b, i, j)) = (IF i <= j THEN j - i + 1 ELSE 0)
      /\ Len(SubSeq(d, i, j)) = (IF i <= j THEN j - i + 1 ELSE 0)
      /\ \A x \in 1..(j - i + 1) : SubSeq(b, i, j)[x] = b[i + x - 1]
      /\ \A x \in 1..(j - i + 1) : SubSeq(d, i, j)[x] = d[i + x - 1]
  BY <1>3, i \in Int, j \in Int, SliceOf
<1>5. \A x \in 1..(j - i + 1) : i + x - 1 \in i..j
  OBVIOUS
<1>6. PICK u \in Seq(Byte), w \in Seq(Byte) : u = SubSeq(b, i, j) /\ w = SubSeq(d, i, j)
  BY <1>4, Zenon
<1>7. Len(u) = Len(w) /\ \A x \in 1..Len(u) : u[x] = w[x]
  <2>1. Len(u) = Len(w)
    BY <1>4, <1>6
  <2>2. ASSUME NEW x \in 1..Len(u) PROVE u[x] = w[x]
    <3>1. x \in 1..(j - i + 1)
      BY <1>4, <1>6
    <3>2. i + x - 1 \in i..j
      BY <1>5, <3>1
    <3> QED BY <1>3, <1>4, <1>6, <3>1, <3>2
  <2> QED BY <2>1, <2>2
<1>8. u = w
  BY <1>7, SameSlice
<1> QED BY <1>6, <1>8

(* A longer slice has the same fields where the shorter one has them.      *)
LEMMA SameFields ==
  ASSUME NEW b \in Seq(Byte), NEW d \in Seq(Byte), Longer(b, d)
  PROVE  /\ Len(b) \in Nat /\ Len(d) \in Nat /\ Len(b) <= Len(d)
         /\ Len(b) >= 1 => d[1] = b[1]
         /\ Len(b) >= 2 => d[2] = b[2] /\ Uint8(d) = Uint8(b)
         /\ Len(b) >= 3 => d[3] = b[3] /\ Uint16(d) = Uint16(b)
         /\ Len(b) >= 4 => d[4] = b[4]
         /\ Len(b) >= 5 => d[5] = b[5] /\ Uint32(d) = Uint32(b)
         /\ Len(b) >= 6 => d[6] = b[6]
<1>1. Len(b) \in Nat /\ Len(d) \in Nat /\ Len(b) <= Len(d)
  BY DEF Longer
<1>2. \A i \in 1..6 : Len(b) >= i => d[i] = b[i]
  BY <1>1 DEF Longer
<1>3. /\ Len(b) >= 1 => d[1] = b[1]
      /\ Len(b) >= 2 => d[2] = b[2]
      /\ Len(b) >= 3 => d[3] = b[3]
      /\ Len(b) >= 4 => d[4] = b[4]
      /\ Len(b) >= 5 => d[5] = b[5]
      /\ Len(b) >= 6 => d[6] = b[6]
  BY <1>2
<1>4. /\ Len(b) >= 5 => Len(b) >= 4 /\ Len(b) >= 3 /\ Len(b) >= 2
      /\ Len(b) >= 3 => Len(b) >= 2
  BY <1>1
<1>5. Len(b) >= 2 => Uint8(d) = Uint8(b)
  BY <1>3 DEF Uint8
<1>6. Len(b) >= 3 => Uint16(d) = Uint16(b)
  BY <1>3, <1>4, Zenon DEF Uint16
<1>7. Len(b) >= 5 => Uint32(d) = Uint32(b)
  <2> DEFINE weigh(x, y, z, w) == 16777216 * x + 65536 * y + 256 * z + w
  <2>1. Uint32(d) = weigh(d[2], d[3], d[4], d[5]) /\ Uint32(b) = weigh(b[2], b[3], b[4], b[5])
    BY SMT DEF Uint32
  <2> HIDE DEF weigh
  <2> QED BY <1>3, <1>4, <2>1, Zenon
<1> QED BY <1>1, <1>3, <1>5, <1>6, <1>7

(* A longer slice is longer behind any prefix, by as many bytes.           *)
LEMMA LongerRest ==
  ASSUME NEW b \in Seq(Byte), NEW d \in Seq(Byte), Longer(b, d), NEW k \in 0..Len(b)
  PROVE  /\ From(b, k) \in Seq(Byte) /\ From(d, k) \in Seq(Byte) /\ Longer(From(b, k), From(d, k))
         /\ Len(From(d, k)) = Len(From(b, k)) + (Len(d) - Len(b))
<1>1. k \in 0..Len(d) /\ Len(b) \in Nat /\ Len(d) \in Nat /\ Len(b) <= Len(d)
  BY DEF Longer
<1>2. /\ From(b, k) \in Seq(Byte) /\ Len(From(b, k)) = Len(b) - k
      /\ From(d, k) \in Seq(Byte) /\ Len(From(d, k)) = Len(d) - k
      /\ \A j \in 1..(Len(b) - k) : From(b, k)[j] = b[k + j]
      /\ \A j \in 1..(Len(d) - k) : From(d, k)[j] = d[k + j]
  BY <1>1, FromFacts, Zenon
<1>3. ASSUME NEW j \in 1..Len(From(b, k)) PROVE From(d, k)[j] = From(b, k)[j]
  <2>1. j \in 1..(Len(b) - k) /\ j \in 1..(Len(d) - k) /\ k + j \in 1..Len(b)
    BY <1>1, <1>2
  <2>2. d[k + j] = b[k + j]
    BY <2>1 DEF Longer
  <2> QED BY <1>2, <2>1, <2>2
<1>4. Len(From(b, k)) <= Len(From(d, k)) /\ Len(From(d, k)) = Len(From(b, k)) + (Len(d) - Len(b))
  BY <1>1, <1>2
<1> QED BY <1>2, <1>3, <1>4 DEF Longer

-----------------------------------------------------------------------------

(* The fields of a stop.                                                   *)
LEMMA StopIs ==
  ASSUME NEW i, NEW x
  PROVE  stopAt(i, x).at = i /\ stopAt(i, x).err = x
  BY DEF stopAt

(* Behind no bytes is the whole slice.                                     *)
LEMMA FromZero ==
  ASSUME NEW b \in Seq(Byte)
  PROVE  From(b, 0) = b
<1>0. 0 \in 0..Len(b)
  OBVIOUS
<1>1. PICK c \in Seq(Byte) : c = From(b, 0) /\ Len(c) = Len(b) - 0 /\ \A j \in 1..(Len(b) - 0) : c[j] = b[0 + j]
  BY <1>0, FromFacts
<1>2. Len(c) = Len(b)
  BY <1>1
<1>3. ASSUME NEW j \in 1..Len(b) PROVE c[j] = b[j]
  <2>1. j \in 1..(Len(b) - 0) /\ 0 + j = j
    OBVIOUS
  <2> QED BY <1>1, <2>1
<1> QED BY <1>1, <1>2, <1>3, SameSlice

(* Skip always stops: in the slice, not before it started, and with one of *)
(* its errors.                                                             *)
LEMMA SkipStops ==
  \A b \in Seq(Byte) : \A i \in 0..Len(b), n \in Nat :
    \E j \in i..Len(b), x \in SkipErrors : SkipAt(b, i, n) = stopAt(j, x)
(* Skip stops in the slice, not before it started, with one of its errors. *)
<1>SkipType. ASSUME NEW b \in Seq(Byte)
             PROVE  \A i \in 0..Len(b) : \A n \in Nat : SkipAt(b, i, n) \in Skipped(b, i)
  <2>0. PICK L \in Nat : L = Len(b)
    OBVIOUS
  <2> DEFINE P == {p \in (0..L) \X Nat : SkipAt(b, p[1], p[2]) \in Skipped(b, p[1])}
  <2>1. ASSUME NEW i \in 0..L, NEW n \in Nat PROVE <<i, n>> \in P <=> SkipAt(b, i, n) \in Skipped(b, i)
    <3>1. <<i, n>> \in (0..L) \X Nat /\ <<i, n>>[1] = i /\ <<i, n>>[2] = n
      OBVIOUS
    <3> QED BY <3>1, Zenon
  <2> HIDE DEF P
  <2>2. ASSUME NEW i \in 0..L, NEW n \in Nat,
               \A j \in 0..L : \A m \in Nat : Before(j, m, i, n) => <<j, m>> \in P
        PROVE  <<i, n>> \in P
    <3>0. i \in 0..Len(b)
      BY <2>0
    <3>1. CASE n = 0
      <4>1. stopAt(i, NoError) \in Skipped(b, i)
        BY <2>0 DEF stopAt, Skipped, SkipErrors
      <4>2. SkipAt(b, i, n) = stopAt(i, NoError)
        BY <3>0, <3>1, SkipCases, Zenon
      <4> QED BY <2>1, <4>1, <4>2
    <3>2. CASE n # 0 /\ ~Passes(b, i)
      <4>1. stopAt(i, Refusal(b, i)) \in Skipped(b, i)
        BY <2>0, <3>0, RefusalIs DEF stopAt, Skipped, SkipErrors
      <4>2. SkipAt(b, i, n) = stopAt(i, Refusal(b, i))
        BY <3>0, <3>2, SkipCases, Zenon
      <4> QED BY <2>1, <4>1, <4>2
    <3>3. CASE n # 0 /\ Passes(b, i)
      <4> DEFINE g == SizeAt(b, i)
                 e == i + g.sz
                 r == SkipAt(b, e, g.asz)
      <4>1. /\ g.sz \in Nat /\ g.asz \in Nat /\ n - 1 \in Nat /\ e \in 0..L
            /\ Before(e, g.asz, i, n)
            /\ \A j \in e..L : j \in 0..L /\ Before(j, n - 1, i, n)
        BY <2>0, <3>0, <3>3, PassesBefore
      <4>2. SkipAt(b, i, n) = IF r.err # NoError THEN r ELSE SkipAt(b, r.at, n - 1)
        BY <3>0, <3>3, SkipCases, Zenon
      <4>3. e >= i
        BY <4>1
      <4> HIDE DEF e, g
      <4>4. r \in Skipped(b, e)
        BY <2>1, <2>2, <4>1, Zenon
      <4>5. r.at \in e..L
        BY <2>0, <4>4 DEF Skipped
      <4>6. SkipAt(b, r.at, n - 1) \in Skipped(b, r.at)
        <5> HIDE DEF r
        <5>1. r.at \in 0..L /\ <<r.at, n - 1>> \in P
          BY <2>2, <4>1, <4>5
        <5> QED BY <2>1, <4>1, <5>1
      <4>7. Skipped(b, e) \subseteq Skipped(b, i) /\ Skipped(b, r.at) \subseteq Skipped(b, i)
        <5> HIDE DEF r
        <5> QED BY <2>0, <4>1, <4>3, <4>5 DEF Skipped
      <4> HIDE DEF r
      <4>8. SkipAt(b, i, n) \in Skipped(b, i)
        BY <4>2, <4>4, <4>6, <4>7, Zenon
      <4> QED BY <2>1, <4>8
    <3> QED BY <3>1, <3>2, <3>3
  <2>3. \A i \in 0..L : \A n \in Nat : <<i, n>> \in P
    BY <2>2, InductPairs DEF Before
  <2> QED BY <2>0, <2>1, <2>3, Zenon
<1> SUFFICES ASSUME NEW b \in Seq(Byte), NEW i \in 0..Len(b), NEW n \in Nat
             PROVE  \E j \in i..Len(b), x \in SkipErrors : SkipAt(b, i, n) = stopAt(j, x)
  OBVIOUS
<1>1. SkipAt(b, i, n) \in Skipped(b, i)
  BY <1>SkipType
<1> QED BY <1>1 DEF Skipped, stopAt

(* Past a prefix Skip goes on with the objects in it, and then with the    *)
(* next one.                                                               *)
LEMMA SkipOn ==
  ASSUME NEW b \in Seq(Byte), NEW i \in 0..Len(b), NEW n \in Nat, n # 0, Passes(b, i),
         NEW e, e = i + SizeAt(b, i).sz, NEW a, a = SizeAt(b, i).asz,
         NEW j, NEW x, SkipAt(b, e, a) = stopAt(j, x)
  PROVE  SkipAt(b, i, n) = IF x # NoError THEN stopAt(j, x) ELSE SkipAt(b, j, n - 1)
<1>1. SkipAt(b, e, a).err = x /\ SkipAt(b, e, a).at = j
  BY StopIs
<1>2. SkipAt(b, i, n) = IF SkipAt(b, i + SizeAt(b, i).sz, SizeAt(b, i).asz).err # NoError
                        THEN SkipAt(b, i + SizeAt(b, i).sz, SizeAt(b, i).asz)
                        ELSE SkipAt(b, SkipAt(b, i + SizeAt(b, i).sz, SizeAt(b, i).asz).at, n - 1)
  BY SkipCases, Zenon
<1> QED BY <1>1, <1>2

(* Skip from position k + i of a slice stops where Skip from i stops in    *)
(* what is behind k.                                                       *)
Shifts(b, k, i, n) == LET r == SkipAt(From(b, k), i, n) IN SkipAt(b, k + i, n) = stopAt(k + r.at, r.err)

(* What SkipObjects returns where the loop stops.                          *)
LEMMA ObjectsIs ==
  ASSUME NEW b, NEW n, NEW j, NEW x, SkipAt(b, 0, n) = stopAt(j, x)
  PROVE  SkipObjects(b, n) = Result("-", From(b, j), x)
<1>1. skipLoop(b)[<<0, n>>].at = j /\ skipLoop(b)[<<0, n>>].err = x
  BY StopIs DEF SkipAt
<1> QED BY <1>1, Zenon DEF SkipObjects

(* One object of k bytes and a elements, of n to skip.                     *)
LEMMA SkipObject ==
  \A b \in Seq(Byte) : \A k \in 1..Len(b), a \in Nat, n \in Nat \ {0} :
    /\ getSize(b) = Sized(k, a)
    /\ a = 0 \/ n = 1
    =>
      SkipObjects(b, n) = SkipObjects(From(b, k), a + (n - 1))
<1>SameStop. ASSUME NEW i, NEW x, NEW j, NEW y, stopAt(i, x) = stopAt(j, y)
             PROVE  i = j /\ x = y
  <2>1. stopAt(i, x).at = stopAt(j, y).at /\ stopAt(i, x).err = stopAt(j, y).err
    BY <1>SameStop
  <2> QED BY <2>1, StopIs
<1>ObjectsBehind. \A b \in Seq(Byte) : \A k \in 0..Len(b), n \in Nat : \A j \in k..Len(b) : \A x :
                    SkipAt(b, k, n) = stopAt(j, x) =>
                      SkipObjects(From(b, k), n) = Result("-", From(b, j), x)
  (* Skip, from another position and with more bytes behind.                 *)
  <2>FromFrom. ASSUME NEW b \in Seq(Byte), NEW k \in 0..Len(b), NEW i \in 0..(Len(b) - k)
               PROVE  From(From(b, k), i) = From(b, k + i)
    <3>0. PICK L \in Nat : L = Len(b)
      OBVIOUS
    <3>1. k + i \in 0..L /\ k \in 0..L /\ i \in 0..(L - k) /\ L - (k + i) = (L - k) - i
      BY <3>0
    <3>2. PICK c \in Seq(Byte) : c = From(b, k) /\ Len(c) = L - k /\ \A j \in 1..(L - k) : c[j] = b[k + j]
      BY <3>0, <3>1, FromFacts, Zenon
    <3>30. i \in 0..Len(c) /\ Len(c) - i = (L - k) - i
      BY <3>1, <3>2
    <3>3. PICK u \in Seq(Byte) : u = From(c, i) /\ Len(u) = (L - k) - i /\ \A j \in 1..((L - k) - i) : u[j] = c[i + j]
      BY <3>30, FromFacts, Zenon
    <3>4. PICK w \in Seq(Byte) : w = From(b, k + i) /\ Len(w) = L - (k + i) /\ \A j \in 1..(L - (k + i)) : w[j] = b[(k + i) + j]
      BY <3>0, <3>1, FromFacts, Zenon
    <3>5. Len(u) = Len(w)
      BY <3>1, <3>3, <3>4
    <3>6. ASSUME NEW j \in 1..Len(u) PROVE u[j] = w[j]
      <4>1. j \in 1..((L - k) - i) /\ j \in 1..(L - (k + i)) /\ i + j \in 1..(L - k) /\ k + (i + j) = (k + i) + j
        BY <3>1, <3>3
      <4>2. u[j] = c[i + j] /\ c[i + j] = b[k + (i + j)] /\ w[j] = b[(k + i) + j]
        BY <3>2, <3>3, <3>4, <4>1, Zenon
      <4> QED BY <4>1, <4>2
    <3>7. u = w
      BY <3>5, <3>6, SameSlice
    <3> QED BY <3>2, <3>3, <3>4, <3>7
  <2>SkipShifts. ASSUME NEW b \in Seq(Byte), NEW k \in 0..Len(b)
                 PROVE  \A i \in 0..(Len(b) - k) : \A n \in Nat : Shifts(b, k, i, n)
    <3>0. PICK L \in Nat, M \in Nat : L = Len(b) /\ M = L - k /\ k <= L /\ k \in Nat
      BY Len(b) - k \in Nat
    <3>00. PICK c \in Seq(Byte) : c = From(b, k) /\ Len(c) = M
      BY <3>0, FromFacts
    <3> DEFINE P == {p \in (0..M) \X Nat : Shifts(b, k, p[1], p[2])}
    <3>1. ASSUME NEW i \in 0..M, NEW n \in Nat PROVE <<i, n>> \in P <=> Shifts(b, k, i, n)
      <4>1. <<i, n>> \in (0..M) \X Nat /\ <<i, n>>[1] = i /\ <<i, n>>[2] = n
        OBVIOUS
      <4> QED BY <4>1, Zenon
    <3> HIDE DEF P
    <3>2. ASSUME NEW i \in 0..M, NEW n \in Nat,
                 \A j \in 0..M : \A m \in Nat : Before(j, m, i, n) => <<j, m>> \in P
          PROVE  <<i, n>> \in P
      <4>0. i \in 0..Len(c) /\ k + i \in 0..Len(b) /\ i \in 0..(Len(b) - k)
        BY <3>0, <3>00
      <4>00. SizeAt(c, i) = SizeAt(b, k + i) /\ Len(c) - i = Len(b) - (k + i)
        <5>1. From(c, i) = From(b, k + i)
          BY <3>00, <4>0, <2>FromFrom
        <5>2. Len(c) - i = Len(b) - (k + i)
          BY <3>0, <3>00
        <5> QED BY <5>1, <5>2 DEF SizeAt
      <4>000. (Passes(c, i) <=> Passes(b, k + i)) /\ Refusal(c, i) = Refusal(b, k + i)
        BY <4>00 DEF Passes, Refusal
      <4>1. CASE n = 0
        <5>1. SkipAt(c, i, n) = stopAt(i, NoError) /\ SkipAt(b, k + i, n) = stopAt(k + i, NoError)
          BY <4>0, <4>1, SkipCases, Zenon
        <5>2. Shifts(b, k, i, n)
          BY <3>00, <5>1, StopIs DEF Shifts
        <5> QED BY <3>1, <5>2
      <4>2. CASE n # 0 /\ ~Passes(c, i)
        <5>1. SkipAt(c, i, n) = stopAt(i, Refusal(c, i)) /\ SkipAt(b, k + i, n) = stopAt(k + i, Refusal(b, k + i))
          BY <4>0, <4>000, <4>2, SkipCases, Zenon
        <5>2. Shifts(b, k, i, n)
          BY <3>00, <4>000, <5>1, StopIs DEF Shifts
        <5> QED BY <3>1, <5>2
      <4>3. CASE n # 0 /\ Passes(c, i)
        <5>00. PICK s, a \in Nat : SizeAt(c, i).sz = s /\ SizeAt(c, i).asz = a
          BY <4>0, <4>3, PassesBefore, Zenon
        <5>1. PICK e \in Nat : SizeAt(c, i).sz = s /\ SizeAt(c, i).asz = a /\ e = i + s /\ e \in 0..Len(c)
                     /\ n - 1 \in Nat /\ Before(e, a, i, n) /\ \A j \in e..Len(c) : j \in 0..Len(c) /\ Before(j, n - 1, i, n)
          <6>1. /\ i + s \in 0..Len(c) /\ n - 1 \in Nat /\ Before(i + s, a, i, n)
                /\ \A j \in (i + s)..Len(c) : j \in 0..Len(c) /\ Before(j, n - 1, i, n)
            BY <4>0, <4>3, <5>00, PassesBefore, Zenon
          <6>2. i + s \in Nat
            BY <6>1
          <6> QED BY <5>00, <6>1, <6>2, Zenon
        <5>2. e \in 0..M /\ (k + i) + s = k + e /\ k + e \in 0..Len(b) /\ k + e \in Nat
          BY <3>0, <3>00, <5>1
        <5>3. PICK j \in e..Len(c), x \in SkipErrors : SkipAt(c, e, a) = stopAt(j, x)
          BY <5>1, SkipStops, Zenon
        <5>4. j \in 0..M /\ Before(j, n - 1, i, n) /\ j \in 0..Len(c)
          BY <3>00, <5>1, <5>3
        <5>5. SkipAt(b, k + e, a) = stopAt(k + j, x)
          <6>1. <<e, a>> \in P
            BY <3>2, <5>1, <5>2
          <6>2. Shifts(b, k, e, a)
            BY <3>1, <5>1, <5>2, <6>1
          <6> QED BY <3>00, <5>3, <6>2, StopIs DEF Shifts
        <5>6. SkipAt(c, i, n) = IF x # NoError THEN stopAt(j, x) ELSE SkipAt(c, j, n - 1)
          <6>1. e = i + SizeAt(c, i).sz /\ a = SizeAt(c, i).asz
            BY <5>1
          <6> QED BY <4>0, <4>3, <5>3, <6>1, SkipOn
        <5>7. SkipAt(b, k + i, n) = IF x # NoError THEN stopAt(k + j, x) ELSE SkipAt(b, k + j, n - 1)
          <6>1. k + e = (k + i) + SizeAt(b, k + i).sz /\ a = SizeAt(b, k + i).asz
            BY <4>00, <5>1, <5>2, Zenon
          <6>2. Passes(b, k + i)
            BY <4>000, <4>3, Zenon
          <6> QED BY <4>0, <4>3, <5>5, <6>1, <6>2, SkipOn, SMTT(30)
        <5>8. CASE x # NoError
          <6>1. SkipAt(c, i, n) = stopAt(j, x) /\ SkipAt(b, k + i, n) = stopAt(k + j, x)
            BY <5>6, <5>7, <5>8, Zenon
          <6>2. Shifts(b, k, i, n)
            BY <3>00, <6>1, StopIs DEF Shifts
          <6> QED BY <3>1, <6>2
        <5>9. CASE x = NoError
          <6>1. SkipAt(c, i, n) = SkipAt(c, j, n - 1) /\ SkipAt(b, k + i, n) = SkipAt(b, k + j, n - 1)
            BY <5>6, <5>7, <5>9, Zenon
          <6>2. <<j, n - 1>> \in P
            BY <3>2, <5>1, <5>4
          <6>3. Shifts(b, k, j, n - 1)
            BY <3>1, <5>1, <5>4, <6>2
          <6>4. Shifts(b, k, i, n)
            BY <3>00, <6>1, <6>3 DEF Shifts
          <6> QED BY <3>1, <6>4
        <5> QED BY <5>8, <5>9
      <4> QED BY <4>1, <4>2, <4>3
    <3>3. \A i \in 0..M : \A n \in Nat : <<i, n>> \in P
      BY <3>2, InductPairs DEF Before
    <3> QED BY <3>0, <3>1, <3>3, Zenon
  <2> SUFFICES ASSUME NEW b \in Seq(Byte), NEW k \in 0..Len(b), NEW n \in Nat, NEW j \in k..Len(b), NEW x, SkipAt(b, k, n) = stopAt(j, x)
               PROVE  SkipObjects(From(b, k), n) = Result("-", From(b, j), x)
    OBVIOUS
  <2>0. 0 \in 0..(Len(b) - k) /\ k + 0 = k /\ j - k \in 0..(Len(b) - k) /\ k + (j - k) = j
    OBVIOUS
  <2>1. Shifts(b, k, 0, n)
    BY <2>0, <2>SkipShifts
  <2>2. PICK c \in Seq(Byte) : c = From(b, k) /\ 0 \in 0..Len(c)
    BY FromFacts
  <2>3. PICK i \in 0..Len(c), y \in SkipErrors : SkipAt(c, 0, n) = stopAt(i, y)
    BY <2>2, SkipStops, Zenon
  <2>4. SkipAt(b, k, n) = stopAt(k + i, y)
    BY <2>0, <2>1, <2>2, <2>3, StopIs DEF Shifts
  <2>4a. stopAt(j, x) = stopAt(k + i, y)
    BY <2>4, Zenon
  <2>5. j = k + i /\ x = y
    BY <2>4a, <1>SameStop, ZenonT(60)
  <2>6. i = j - k
    BY <2>5
  <2>7. SkipObjects(c, n) = Result("-", From(c, i), x)
    BY <2>3, <2>5, ObjectsIs
  <2>8. From(c, i) = From(b, j)
    BY <2>0, <2>2, <2>6, <2>FromFrom
  <2> QED BY <2>2, <2>7, <2>8
<1> SUFFICES ASSUME NEW b \in Seq(Byte), NEW k \in 1..Len(b), NEW a \in Nat, getSize(b) = Sized(k, a), NEW n \in Nat \ {0},
                    a = 0 \/ n = 1
             PROVE  SkipObjects(b, n) = SkipObjects(From(b, k), a + (n - 1))
  OBVIOUS
<1>0. 0 \in 0..Len(b) /\ k \in 0..Len(b) /\ n \in Nat /\ n # 0 /\ n - 1 \in Nat /\ 0 + k = k /\ a + (n - 1) \in Nat /\ k <= Len(b) - 0
  OBVIOUS
<1>1. From(b, 0) = b
  BY FromZero
<1>2. SizeAt(b, 0).sz = k /\ SizeAt(b, 0).asz = a /\ SizeAt(b, 0).err = "none"
  BY <1>1 DEF SizeAt, Sized
<1>3. Passes(b, 0)
  BY <1>0, <1>2 DEF Passes
<1>4. PICK j \in k..Len(b), x \in SkipErrors : SkipAt(b, k, a) = stopAt(j, x)
  BY <1>0, SkipStops
<1>5. SkipAt(b, 0, n) = IF x # NoError THEN stopAt(j, x) ELSE SkipAt(b, j, n - 1)
  BY <1>0, <1>2, <1>3, <1>4, SkipOn
<1>6. SkipAt(b, 0, n) = SkipAt(b, k, a + (n - 1))
  <2>1. CASE a = 0
    <3>1. SkipAt(b, k, a) = stopAt(k, NoError)
      BY <1>0, <2>1, SkipCases, Zenon
    <3>2. stopAt(j, x) = stopAt(k, NoError)
      BY <1>4, <3>1
    <3>20. j = k /\ x = NoError
      BY <3>2, <1>SameStop
    <3>3. a + (n - 1) = n - 1
      BY <2>1
    <3> QED BY <1>5, <3>20, <3>3
  <2>2. CASE n = 1
    <3>1. a + (n - 1) = a /\ n - 1 = 0 /\ j \in 0..Len(b)
      BY <2>2, <1>0
    <3>2. SkipAt(b, j, n - 1) = stopAt(j, NoError)
      BY <1>0, <3>1, SkipCases, Zenon
    <3> QED BY <1>4, <1>5, <3>1, <3>2
  <2> QED BY <2>1, <2>2
<1>7. PICK i \in k..Len(b), y \in SkipErrors : SkipAt(b, k, a + (n - 1)) = stopAt(i, y)
  BY <1>0, SkipStops, Zenon
<1>8. SkipObjects(b, n) = Result("-", From(b, i), y)
  BY <1>6, <1>7, ObjectsIs
<1>9. SkipObjects(From(b, k), a + (n - 1)) = Result("-", From(b, i), y)
  BY <1>0, <1>7, <1>ObjectsBehind
<1> QED BY <1>8, <1>9

(* No object to skip: the slice is left as it is.                          *)
LEMMA SkipNone ==
  ASSUME NEW b \in Seq(Byte)
  PROVE  SkipObjects(b, 0) = Result("-", b, NoError)
<1>0. 0 \in 0..Len(b) /\ 0 \in Nat
  OBVIOUS
<1>1. SkipAt(b, 0, 0) = stopAt(0, NoError)
  BY <1>0, SkipCases, Zenon
<1>2. From(b, 0) = b
  BY FromZero
<1> QED BY <1>1, <1>2, ObjectsIs

(* So does Skip.                                                           *)
Lasts(b, d, i, n) == SkipAt(b, i, n).err # ErrShort => SkipAt(d, i, n) = SkipAt(b, i, n)

(* Bytes that arrive change nothing Skip has found, unless it was waiting  *)
(* for them.                                                               *)
LEMMA SkipLasts ==
  \A b \in Seq(Byte), d \in Seq(Byte) :
    Longer(b, d) =>
      \A i \in 0..Len(b) : \A n \in Nat : Lasts(b, d, i, n)
(* getSize says the same of a longer slice, unless it waits.               *)
<1>SizeLonger. \A b \in Seq(Byte), d \in Seq(Byte) :
                 /\ Longer(b, d)
                 /\ getSize(b).err # "short"
                 =>
                   getSize(d) = getSize(b)
  <2>ByMode. ASSUME NEW b, Len(b) # 0
             PROVE  getSize(b) = sizeByMode(b, sizes(b[1]).size, sizes(b[1]).extra)
    BY <2>ByMode, Zenon DEF getSize
  <2>Modes. ASSUME NEW m \in -7..30, ~(m >= 0)
            PROVE  m = extra8 \/ m \in {extra16, map16v, array16v} \/ m \in {extra32, map32v, array32v}
    <3>1. m = -1 \/ m = -2 \/ m = -3 \/ m = -4 \/ m = -5 \/ m = -6 \/ m = -7
      BY <2>Modes
    <3> QED BY <3>1 DEF extra8, extra16, extra32, map16v, map32v, array16v, array32v
  <2> SUFFICES ASSUME NEW b \in Seq(Byte), NEW d \in Seq(Byte), Longer(b, d), getSize(b).err # "short"
               PROVE  getSize(d) = getSize(b)
    OBVIOUS
  <2>0. Len(b) # 0
    BY DEF getSize, SizeError
  <2>1. Len(b) \in Nat /\ Len(d) \in Nat /\ Len(b) <= Len(d) /\ d[1] = b[1] /\ Len(d) # 0 /\ Len(b) >= 1
    BY <2>0, SameFields
  <2>2. PICK c \in Byte : c = b[1]
    BY <2>1, Elements
  <2>30. /\ sizes(c).size \in Nat
         /\ sizes(c).extra \in -7..30
         /\ sizes(c).extra = extra8 => sizes(c).size >= 2
         /\ sizes(c).extra \in {extra16, map16v, array16v} => sizes(c).size >= 3
         /\ sizes(c).extra \in {extra32, map32v, array32v} => sizes(c).size >= 5
    <3>1. sizes(c).size \in 0..32
      BY SizesFacts, Zenon
    <3>0. \A x \in 0..32 : x \in Nat
      OBVIOUS
    <3>2. sizes(c).size \in Nat
      BY <3>0, <3>1, Zenon
    <3> QED BY <3>2, SizesFacts, Zenon
  <2>3. PICK k \in Nat, m \in -7..30 :
          /\ k = sizes(c).size
          /\ m = sizes(c).extra
          /\ m = extra8 => k >= 2
          /\ m \in {extra16, map16v, array16v} => k >= 3
          /\ m \in {extra32, map32v, array32v} => k >= 5
    BY <2>30, Zenon
  <2>4. getSize(b) = sizeByMode(b, k, m) /\ getSize(d) = sizeByMode(d, k, m)
    <3>1. /\ getSize(b) = sizeByMode(b, sizes(b[1]).size, sizes(b[1]).extra)
          /\ getSize(d) = sizeByMode(d, sizes(d[1]).size, sizes(d[1]).extra)
      BY <2>1, <2>ByMode
    <3> QED BY <2>1, <2>2, <2>3, <3>1
  <2>5. CASE k = 0
    <3>1. sizeByMode(b, k, m) = SizeError("prefix") /\ sizeByMode(d, k, m) = SizeError("prefix")
      BY <2>5, Zenon DEF sizeByMode
    <3> QED BY <2>4, <3>1
  <2>6. CASE k # 0 /\ m >= 0
    <3>1. sizeByMode(b, k, m) = Sized(k, m) /\ sizeByMode(d, k, m) = Sized(k, m)
      BY <2>6, Zenon DEF sizeByMode
    <3> QED BY <2>4, <3>1
  <2>7. CASE k # 0 /\ ~(m >= 0) /\ Len(b) < k
    <3>1. sizeByMode(b, k, m) = SizeError("short")
      BY <2>7, Zenon DEF sizeByMode
    <3> QED BY <2>4, <3>1 DEF SizeError
  <2>8. CASE k # 0 /\ ~(m >= 0) /\ ~(Len(b) < k)
    <3>0. ~(Len(d) < k)
      BY <2>1, <2>8
    <3>1. CASE m = extra8
      <4>1. Uint8(d) = Uint8(b)
        BY <2>1, <2>3, <2>8, <3>1, SameFields
      <4> QED BY <2>4, <2>8, <3>0, <3>1, <4>1 DEF sizeByMode, extra8, extra16, extra32, map16v, map32v, array16v
    <3>2. CASE m \in {extra16, map16v, array16v}
      <4>1. Uint16(d) = Uint16(b)
        BY <2>1, <2>3, <2>8, <3>2, SameFields
      <4> QED BY <2>4, <2>8, <3>0, <3>2, <4>1 DEF sizeByMode, extra8, extra16, extra32, map16v, map32v, array16v
    <3>3. CASE m \in {extra32, map32v, array32v}
      <4>1. Uint32(d) = Uint32(b)
        BY <2>1, <2>3, <2>8, <3>3, SameFields
      <4> QED BY <2>4, <2>8, <3>0, <3>3, <4>1 DEF sizeByMode, extra8, extra16, extra32, map16v, map32v, array16v, array32v
    <3> QED BY <2>8, <3>1, <3>2, <3>3, <2>Modes, Zenon
  <2> QED BY <2>5, <2>6, <2>7, <2>8
<1> SUFFICES ASSUME NEW b \in Seq(Byte), NEW d \in Seq(Byte), Longer(b, d)
             PROVE  \A i \in 0..Len(b) : \A n \in Nat : Lasts(b, d, i, n)
  OBVIOUS
<1>0. PICK L \in Nat : L = Len(b) /\ L <= Len(d) /\ Len(d) \in Nat
  BY SameFields
<1> DEFINE P == {p \in (0..L) \X Nat : Lasts(b, d, p[1], p[2])}
<1>1. ASSUME NEW i \in 0..L, NEW n \in Nat PROVE <<i, n>> \in P <=> Lasts(b, d, i, n)
  <2>1. <<i, n>> \in (0..L) \X Nat /\ <<i, n>>[1] = i /\ <<i, n>>[2] = n
    OBVIOUS
  <2> QED BY <2>1, Zenon
<1> HIDE DEF P
<1>2. ASSUME NEW i \in 0..L, NEW n \in Nat,
             \A j \in 0..L : \A m \in Nat : Before(j, m, i, n) => <<j, m>> \in P
      PROVE  <<i, n>> \in P
  <2> SUFFICES ASSUME SkipAt(b, i, n).err # ErrShort PROVE SkipAt(d, i, n) = SkipAt(b, i, n)
    BY <1>1 DEF Lasts
  <2>0. i \in 0..Len(b) /\ i \in 0..Len(d)
    BY <1>0
  <2>1. CASE n = 0
    <3>1. SkipAt(b, i, n) = stopAt(i, NoError) /\ SkipAt(d, i, n) = stopAt(i, NoError)
      BY <2>0, <2>1, SkipCases, Zenon
    <3> QED BY <3>1
  <2>2. CASE n # 0 /\ ~Passes(b, i)
    <3>1. SkipAt(b, i, n) = stopAt(i, Refusal(b, i))
      BY <2>0, <2>2, SkipCases, Zenon
    <3>2. Refusal(b, i) # ErrShort
      BY <3>1, StopIs
    <3>3. SizeAt(b, i).err # "none" /\ SizeAt(b, i).err # "short"
      BY <3>2 DEF Refusal, ErrShort
    <3>4. From(b, i) \in Seq(Byte) /\ From(d, i) \in Seq(Byte) /\ Longer(From(b, i), From(d, i))
      BY <2>0, LongerRest
    <3>5. SizeAt(d, i) = SizeAt(b, i)
      BY <3>3, <3>4, <1>SizeLonger DEF SizeAt
    <3>6. ~Passes(d, i) /\ Refusal(d, i) = Refusal(b, i)
      BY <3>3, <3>5 DEF Passes, Refusal
    <3>7. SkipAt(d, i, n) = stopAt(i, Refusal(d, i))
      BY <2>0, <2>2, <3>6, SkipCases, Zenon
    <3> QED BY <3>1, <3>6, <3>7
  <2>3. CASE n # 0 /\ Passes(b, i)
    <3>0. From(b, i) \in Seq(Byte) /\ From(d, i) \in Seq(Byte) /\ Longer(From(b, i), From(d, i))
      BY <2>0, LongerRest
    <3>1. SizeAt(d, i) = SizeAt(b, i)
      BY <2>3, <3>0, <1>SizeLonger DEF SizeAt, Passes
    <3>00. PICK s, a \in Nat : SizeAt(b, i).sz = s /\ SizeAt(b, i).asz = a
      BY <2>0, <2>3, PassesBefore
    <3>2. PICK e \in Nat : SizeAt(b, i).sz = s /\ SizeAt(b, i).asz = a /\ e = i + s /\ e \in 0..Len(b)
                 /\ n - 1 \in Nat /\ Before(e, a, i, n) /\ \A j \in e..Len(b) : j \in 0..Len(b) /\ Before(j, n - 1, i, n)
      BY <2>0, <2>3, <3>00, PassesBefore
    <3>3. Passes(d, i)
      <4>1. SizeAt(b, i).err = "none" /\ s <= Len(b) - i
        BY <2>3, <3>2 DEF Passes
      <4>2. s <= Len(d) - i
        BY <1>0, <4>1
      <4> QED BY <3>1, <3>2, <4>1, <4>2 DEF Passes
    <3>4. PICK j \in e..Len(b), x \in SkipErrors : SkipAt(b, e, a) = stopAt(j, x)
      BY <3>2, SkipStops
    <3>5. e = i + SizeAt(b, i).sz /\ a = SizeAt(b, i).asz
      BY <3>2
    <3>6. SkipAt(b, i, n) = IF x # NoError THEN stopAt(j, x) ELSE SkipAt(b, j, n - 1)
      BY <2>0, <2>3, <3>4, <3>5, SkipOn
    <3>7. x # ErrShort
      BY <3>6, StopIs DEF Err, NoError, ErrShort
    <3>8. SkipAt(d, e, a) = stopAt(j, x)
      <4>1. e \in 0..L /\ <<e, a>> \in P
        BY <1>0, <1>2, <3>2
      <4>2. Lasts(b, d, e, a)
        BY <1>1, <4>1
      <4> QED BY <3>4, <3>7, <4>2, StopIs DEF Lasts
    <3>9. SkipAt(d, i, n) = IF x # NoError THEN stopAt(j, x) ELSE SkipAt(d, j, n - 1)
      <4>1. e = i + SizeAt(d, i).sz /\ a = SizeAt(d, i).asz
        BY <3>1, <3>5
      <4> QED BY <2>0, <2>3, <3>3, <3>8, <4>1, SkipOn
    <3>10. CASE x # NoError
      BY <3>6, <3>9, <3>10
    <3>11. CASE x = NoError
      <4>1. SkipAt(b, i, n) = SkipAt(b, j, n - 1) /\ SkipAt(d, i, n) = SkipAt(d, j, n - 1)
        BY <3>6, <3>9, <3>11, Zenon
      <4>2. j \in 0..L /\ <<j, n - 1>> \in P
        BY <1>0, <1>2, <3>2
      <4>3. Lasts(b, d, j, n - 1)
        BY <1>1, <3>2, <4>2
      <4> QED BY <4>1, <4>3 DEF Lasts
    <3> QED BY <3>10, <3>11
  <2> QED BY <2>1, <2>2, <2>3
<1>3. \A i \in 0..L : \A n \in Nat : <<i, n>> \in P
  BY <1>2, InductPairs DEF Before
<1> QED BY <1>0, <1>1, <1>3, Zenon

-----------------------------------------------------------------------------
(* One call of a reader: its result, and what a longer slice changes.      *)

(* No error is mistaken for success.                                       *)
LEMMA ErrorsDiffer ==
  /\ ErrShort # NoError /\ ErrOverflow # NoError /\ Panic # NoError /\ errExt # NoError
  /\ \A c : badPrefix(c) # NoError
  /\ \A t : TypeError(t) # NoError
<1>1. \A c : badPrefix(c) # NoError
  BY DEF badPrefix, Err, NoError, TypeError
<1> QED BY <1>1 DEF Err, NoError, ErrShort, ErrOverflow, Panic, errExt, TypeError

(* The fields of a result.                                                 *)
LEMMA OkResult ==
  ASSUME NEW v, NEW o, NEW x
  PROVE  /\ Ok(Result(v, o, x)) <=> x = NoError
         /\ Result(v, o, x).v = v /\ Result(v, o, x).o = o /\ Result(v, o, x).err = x
  BY DEF Ok, Result

(* r is a result, with its three fields and no other.                      *)
IsResult(r) == r = Result(r.v, r.o, r.err)

(* A result is made of its fields.                                         *)
LEMMA ResultIs ==
  ASSUME NEW v, NEW o, NEW x
  PROVE  IsResult(Result(v, o, x))
  BY DEF IsResult, Result

(* A slice goes on from itself.                                            *)
LEMMA LongerSelf ==
  ASSUME NEW b \in Seq(Byte)
  PROVE  Longer(b, b)
  BY DEF Longer

(* Reading what was announced fails for want of bytes or of room only.     *)
Wants == {NoError, ErrShort, ErrOverflow}

(* A value or a call for more bytes does not contradict NextType.          *)
LEMMA ResultWants ==
  ASSUME NEW v, NEW o
  PROVE  Result(v, o, NoError).err \in Wants /\ Result(v, o, ErrShort).err \in Wants
  BY OkResult DEF Wants

(* The table `sizes`, read from a type to the lead bytes.                  *)
LEMMA TypeLeads ==
  ASSUME NEW c \in Byte
  PROVE  /\ sizes(c).typ = "nil" => c = mnil
         /\ sizes(c).typ = "bool" => c \in {mfalse, mtrue}
         /\ sizes(c).typ = "str" => strLead(c)
         /\ sizes(c).typ = "bin" => binLead(c)
         /\ sizes(c).typ = "map" => isfixmap(c) \/ c \in {mmap16, mmap32}
         /\ sizes(c).typ = "array" => isfixarray(c) \/ c \in {marray16, marray32}
         /\ sizes(c).typ = "float32" => c = mfloat32
         /\ sizes(c).typ = "float64" => c = mfloat64
         /\ sizes(c).typ = "int" => isfixint(c) \/ isnfixint(c) \/ c \in intLeads
         /\ sizes(c).typ = "uint" => c \in uintLeads
<1> USE DEF sizes, bytespec, Byte, isfixint, isnfixint, isfixmap, isfixarray, isfixstr
<1>1. sizes(c).typ = "nil" => c = mnil
  OBVIOUS
<1>2. sizes(c).typ = "bool" => c \in {mfalse, mtrue}
  OBVIOUS
<1>3. sizes(c).typ = "str" => strLead(c)
  BY DEF strLead, mstr8, mstr16, mstr32
<1>4. sizes(c).typ = "bin" => binLead(c)
  BY DEF binLead, mbin8, mbin16, mbin32
<1>5. sizes(c).typ = "map" => isfixmap(c) \/ c \in {mmap16, mmap32}
  OBVIOUS
<1>6. sizes(c).typ = "array" => isfixarray(c) \/ c \in {marray16, marray32}
  OBVIOUS
<1>7. sizes(c).typ = "float32" => c = mfloat32
  OBVIOUS
<1>8. sizes(c).typ = "float64" => c = mfloat64
  OBVIOUS
<1>9. sizes(c).typ = "int" => isfixint(c) \/ isnfixint(c) \/ c \in intLeads
  BY DEF intLeads, mint8, mint16, mint32, mint64
<1>10. sizes(c).typ = "uint" => c \in uintLeads
  BY DEF uintLeads, muint8, muint16, muint32, muint64
<1> HIDE DEF sizes, isfixint, isnfixint, isfixmap, isfixarray
<1> QED BY <1>1, <1>2, <1>3, <1>4, <1>5, <1>6, <1>7, <1>8, <1>9, <1>10

(* What a client gets of the readers of headers and of Skip.               *)
LEMMA CallHeader ==
  ASSUME NEW b
  PROVE  /\ Call("MapHeader", b) = LET h == ReadMapHeaderBytes(b) IN Result(<<h.sz>>, h.o, h.err)
         /\ Call("ArrayHeader", b) = LET h == ReadArrayHeaderBytes(b) IN Result(<<h.sz>>, h.o, h.err)
         /\ Call("Skip", b) = [Skip(b) EXCEPT !.v = <<>>]
  BY DEF Call

-----------------------------------------------------------------------------
(* Reading b gave r, reading d gave s.  Both took the same object of k     *)
(* bytes and n elements to come, with the value v.                         *)
Takes(b, d, k, n, v, r, s) == /\ r = Result(v, From(b, k), NoError)
                              /\ s = Result(v, From(d, k), NoError)
                              /\ getSize(b) = Sized(k, n)

(* More bytes may change the verdict; a Panic is an index out of range.    *)
Waits(r) == r.err \in {ErrShort, Panic}

(* The verdict of a reader is steady: it waits, refuses for good, or takes *)
(* a whole object.                                                         *)
Steady(b, d, r, s) == \/ Waits(r)
                      \/ ~Ok(r) /\ ~Ok(s)
                      \/ \E k \in 1..Len(b) : \E v : Takes(b, d, k, 0, v, r, s)

(* A reader that asks for more bytes may say anything later.               *)
LEMMA SteadyWaits ==
  ASSUME NEW b, NEW d, NEW v, NEW o, NEW s
  PROVE  Steady(b, d, Result(v, o, ErrShort), s) /\ Steady(b, d, Result(v, o, Panic), s)
  BY DEF Steady, Waits, Result

(* A reader that has refused a slice refuses a longer one.                 *)
LEMMA SteadyRefuses ==
  ASSUME NEW b, NEW d, NEW v, NEW o, NEW x, x # NoError, NEW w, NEW p, NEW y, y # NoError
  PROVE  Steady(b, d, Result(v, o, x), Result(w, p, y))
  BY DEF Steady, Ok, Result

(* A reader that takes as many bytes as the table says takes the same of a *)
(* longer slice.                                                           *)
LEMMA SteadyTakes ==
  ASSUME NEW b, NEW d, NEW k \in 1..Len(b), NEW v, getSize(b) = Sized(k, 0)
  PROVE  Steady(b, d, Result(v, From(b, k), NoError), Result(v, From(d, k), NoError))
  BY DEF Steady, Takes

(* A lead byte with a constant size and no elements.                       *)
LEMMA ConstSize ==
  ASSUME NEW b \in Seq(Byte), Len(b) >= 1, NEW k \in Nat \ {0}, NEW t, sizes(b[1]) = bytespec(k, constsize, t)
  PROVE  getSize(b) = Sized(k, 0)
<1>1. Len(b) # 0 /\ k # 0 /\ constsize >= 0 /\ constsize = 0
  BY DEF constsize
<1>2. sizes(b[1]).size = k /\ sizes(b[1]).extra = constsize
  BY DEF bytespec
<1> QED BY <1>1, <1>2, Zenon DEF getSize, sizeByMode

(* The entries of the table for the objects of one fixed size.             *)
LEMMA LeadSizes ==
  /\ sizes(mnil) = bytespec(1, constsize, "nil")
  /\ sizes(mtrue) = bytespec(1, constsize, "bool")
  /\ sizes(mfalse) = bytespec(1, constsize, "bool")
  /\ sizes(mfloat32) = bytespec(5, constsize, "float32")
  /\ sizes(mfloat64) = bytespec(9, constsize, "float64")
<1> USE DEF sizes, isfixint, isnfixint, isfixmap, isfixarray, isfixstr, mnfixint, mfixmap, mfixarray, mfixstr, mnil,
           mfalse, mtrue, mbin8, mbin16, mbin32, mext8, mext16, mext32, mfloat32, mfloat64, muint8, muint16, muint32,
           muint64, mint8, mint16, mint32, mint64, mfixext1, mfixext2, mfixext4, mfixext8, mfixext16, mstr8, mstr16,
           mstr32, marray16, marray32, mmap16, mmap32
<1>1. sizes(mnil) = bytespec(1, constsize, "nil")
  OBVIOUS
<1>2. sizes(mtrue) = bytespec(1, constsize, "bool")
  OBVIOUS
<1>3. sizes(mfalse) = bytespec(1, constsize, "bool")
  OBVIOUS
<1>4. sizes(mfloat32) = bytespec(5, constsize, "float32")
  OBVIOUS
<1>5. sizes(mfloat64) = bytespec(9, constsize, "float64")
  OBVIOUS
<1> HIDE DEF sizes
<1> QED BY <1>1, <1>2, <1>3, <1>4, <1>5, Zenon

(* Those for the integers behind a lead byte.                              *)
LEMMA IntegerSizes ==
  /\ sizes(muint8) = bytespec(2, constsize, "uint")
  /\ sizes(muint16) = bytespec(3, constsize, "uint")
  /\ sizes(muint32) = bytespec(5, constsize, "uint")
  /\ sizes(muint64) = bytespec(9, constsize, "uint")
  /\ sizes(mint8) = bytespec(2, constsize, "int")
  /\ sizes(mint16) = bytespec(3, constsize, "int")
  /\ sizes(mint32) = bytespec(5, constsize, "int")
  /\ sizes(mint64) = bytespec(9, constsize, "int")
<1> USE DEF sizes, isfixint, isnfixint, isfixmap, isfixarray, isfixstr, mnfixint, mfixmap, mfixarray, mfixstr, mnil,
           mfalse, mtrue, mbin8, mbin16, mbin32, mext8, mext16, mext32, mfloat32, mfloat64, muint8, muint16, muint32,
           muint64, mint8, mint16, mint32, mint64, mfixext1, mfixext2, mfixext4, mfixext8, mfixext16, mstr8, mstr16,
           mstr32, marray16, marray32, mmap16, mmap32
<1>1. sizes(muint8) = bytespec(2, constsize, "uint")
  OBVIOUS
<1>2. sizes(muint16) = bytespec(3, constsize, "uint")
  OBVIOUS
<1>3. sizes(muint32) = bytespec(5, constsize, "uint")
  OBVIOUS
<1>4. sizes(muint64) = bytespec(9, constsize, "uint")
  OBVIOUS
<1>5. sizes(mint8) = bytespec(2, constsize, "int")
  OBVIOUS
<1>6. sizes(mint16) = bytespec(3, constsize, "int")
  OBVIOUS
<1>7. sizes(mint32) = bytespec(5, constsize, "int")
  OBVIOUS
<1>8. sizes(mint64) = bytespec(9, constsize, "int")
  OBVIOUS
<1> HIDE DEF sizes
<1> QED BY <1>1, <1>2, <1>3, <1>4, <1>5, <1>6, <1>7, <1>8, Zenon

(* Those for extensions, of the five fixed lengths and of a given one.     *)
LEMMA ExtensionSizes ==
  /\ sizes(mfixext1) = bytespec(3, constsize, "ext")
  /\ sizes(mfixext2) = bytespec(4, constsize, "ext")
  /\ sizes(mfixext4) = bytespec(6, constsize, "ext")
  /\ sizes(mfixext8) = bytespec(10, constsize, "ext")
  /\ sizes(mfixext16) = bytespec(18, constsize, "ext")
  /\ sizes(mext8) = bytespec(3, extra8, "ext")
  /\ sizes(mext16) = bytespec(4, extra16, "ext")
  /\ sizes(mext32) = bytespec(6, extra32, "ext")
<1> USE DEF sizes, isfixint, isnfixint, isfixmap, isfixarray, isfixstr, mnfixint, mfixmap, mfixarray, mfixstr, mnil,
           mfalse, mtrue, mbin8, mbin16, mbin32, mext8, mext16, mext32, mfloat32, mfloat64, muint8, muint16, muint32,
           muint64, mint8, mint16, mint32, mint64, mfixext1, mfixext2, mfixext4, mfixext8, mfixext16, mstr8, mstr16,
           mstr32, marray16, marray32, mmap16, mmap32
<1>1. sizes(mfixext1) = bytespec(3, constsize, "ext")
  OBVIOUS
<1>2. sizes(mfixext2) = bytespec(4, constsize, "ext")
  OBVIOUS
<1>3. sizes(mfixext4) = bytespec(6, constsize, "ext")
  OBVIOUS
<1>4. sizes(mfixext8) = bytespec(10, constsize, "ext")
  OBVIOUS
<1>5. sizes(mfixext16) = bytespec(18, constsize, "ext")
  OBVIOUS
<1>6. sizes(mext8) = bytespec(3, extra8, "ext")
  OBVIOUS
<1>7. sizes(mext16) = bytespec(4, extra16, "ext")
  OBVIOUS
<1>8. sizes(mext32) = bytespec(6, extra32, "ext")
  OBVIOUS
<1> HIDE DEF sizes
<1> QED BY <1>1, <1>2, <1>3, <1>4, <1>5, <1>6, <1>7, <1>8, Zenon

(* Those for strings and blobs of a given length.                          *)
LEMMA BlobSizes ==
  /\ sizes(mstr8) = bytespec(2, extra8, "str")
  /\ sizes(mstr16) = bytespec(3, extra16, "str")
  /\ sizes(mstr32) = bytespec(5, extra32, "str")
  /\ sizes(mbin8) = bytespec(2, extra8, "bin")
  /\ sizes(mbin16) = bytespec(3, extra16, "bin")
  /\ sizes(mbin32) = bytespec(5, extra32, "bin")
<1> USE DEF sizes, isfixint, isnfixint, isfixmap, isfixarray, isfixstr, mnfixint, mfixmap, mfixarray, mfixstr, mnil,
           mfalse, mtrue, mbin8, mbin16, mbin32, mext8, mext16, mext32, mfloat32, mfloat64, muint8, muint16, muint32,
           muint64, mint8, mint16, mint32, mint64, mfixext1, mfixext2, mfixext4, mfixext8, mfixext16, mstr8, mstr16,
           mstr32, marray16, marray32, mmap16, mmap32
<1>1. sizes(mstr8) = bytespec(2, extra8, "str")
  OBVIOUS
<1>2. sizes(mstr16) = bytespec(3, extra16, "str")
  OBVIOUS
<1>3. sizes(mstr32) = bytespec(5, extra32, "str")
  OBVIOUS
<1>4. sizes(mbin8) = bytespec(2, extra8, "bin")
  OBVIOUS
<1>5. sizes(mbin16) = bytespec(3, extra16, "bin")
  OBVIOUS
<1>6. sizes(mbin32) = bytespec(5, extra32, "bin")
  OBVIOUS
<1> HIDE DEF sizes
<1> QED BY <1>1, <1>2, <1>3, <1>4, <1>5, <1>6, Zenon

(* Those for maps and arrays of a given length.                            *)
LEMMA HeaderSizes ==
  /\ sizes(mmap16) = bytespec(3, map16v, "map")
  /\ sizes(mmap32) = bytespec(5, map32v, "map")
  /\ sizes(marray16) = bytespec(3, array16v, "array")
  /\ sizes(marray32) = bytespec(5, array32v, "array")
<1> USE DEF sizes, isfixint, isnfixint, isfixmap, isfixarray, isfixstr, mnfixint, mfixmap, mfixarray, mfixstr, mnil,
           mfalse, mtrue, mbin8, mbin16, mbin32, mext8, mext16, mext32, mfloat32, mfloat64, muint8, muint16, muint32,
           muint64, mint8, mint16, mint32, mint64, mfixext1, mfixext2, mfixext4, mfixext8, mfixext16, mstr8, mstr16,
           mstr32, marray16, marray32, mmap16, mmap32
<1>1. sizes(mmap16) = bytespec(3, map16v, "map")
  OBVIOUS
<1>2. sizes(mmap32) = bytespec(5, map32v, "map")
  OBVIOUS
<1>3. sizes(marray16) = bytespec(3, array16v, "array")
  OBVIOUS
<1>4. sizes(marray32) = bytespec(5, array32v, "array")
  OBVIOUS
<1> HIDE DEF sizes
<1> QED BY <1>1, <1>2, <1>3, <1>4, Zenon

(* nil is one byte.                                                        *)
LEMMA NilSize ==
  ASSUME NEW b \in Seq(Byte), Len(b) >= 1, b[1] = mnil
  PROVE  getSize(b) = Sized(1, 0) /\ 1 \in 1..Len(b)
<1>1. 1 \in Nat \ {0} /\ 1 \in 1..Len(b)
  OBVIOUS
<1>2. sizes(b[1]) = bytespec(1, constsize, "nil")
  BY LeadSizes
<1>3. getSize(b) = Sized(1, 0)
  BY <1>1, <1>2, ConstSize
<1> QED BY <1>1, <1>3

(* A field that is there is the same in a longer slice.                    *)
LEMMA SameField ==
  ASSUME NEW b \in Seq(Byte), NEW d \in Seq(Byte), Longer(b, d), NEW n \in Nat, n + 1 <= Len(b)
  PROVE  Field(d, n) = Field(b, n)
<1>1. 2 \in Nat \ {0} /\ n + 1 \in Nat
  OBVIOUS
<1> QED BY <1>1, SamePart DEF Field

(* getSize, from the entry of the table.                                   *)
LEMMA PlainSize ==
  ASSUME NEW b \in Seq(Byte), Len(b) >= 1, NEW k \in Nat \ {0}, NEW n \in Nat,
         sizes(b[1]).size = k, sizes(b[1]).extra = n
  PROVE  getSize(b) = Sized(k, n)
<1>1. Len(b) # 0 /\ k # 0 /\ n >= 0
  OBVIOUS
<1> QED BY <1>1, Zenon DEF getSize, sizeByMode

(* A number up to the maximum of uintptr is not wrapped.                   *)
LEMMA NoWrap ==
  ASSUME NEW x \in Nat, x <= MaxInt + MaxInt + 1
  PROVE  Uintptr(x) = x
  BY MaxIntAssumption DEF Uintptr

(* The size of an object with a length: prefix and length, if the length   *)
(* is no more than an int holds.                                           *)
LEMMA CountedSize ==
  ASSUME NEW b \in Seq(Byte), NEW k \in 1..32, NEW x \in Nat, x <= MaxInt,
         Len(b) >= k, Len(b) >= 1, sizes(b[1]).size = k,
         \/ sizes(b[1]).extra = extra8 /\ x = Uint8(b)
         \/ sizes(b[1]).extra = extra16 /\ x = Uint16(b)
         \/ sizes(b[1]).extra = extra32 /\ x = Uint32(b)
  PROVE  getSize(b) = Sized(k + x, 0)
<1>1. Len(b) # 0 /\ k # 0 /\ ~(Len(b) < k) /\ k + x \in Nat /\ k + x <= MaxInt + MaxInt + 1
  BY MaxIntAssumption
<1>2. Uintptr(k + x) = k + x
  BY <1>1, NoWrap
<1>3. getSize(b) = sizeByMode(b, k, sizes(b[1]).extra)
  BY <1>1, Zenon DEF getSize
<1>4. sizeByMode(b, k, sizes(b[1]).extra) = Sized(Uintptr(k + x), 0)
  BY <1>1 DEF sizeByMode, extra8, extra16, extra32
<1> QED BY <1>2, <1>3, <1>4

(* A length of one or two bytes fits every int.                            *)
LEMMA CountFits ==
  \A b \in Seq(Byte) :
    /\ Len(b) >= 2 => Uint8(b) \in Nat /\ Uint8(b) <= 255 /\ Uint8(b) <= MaxInt
    /\ Len(b) >= 3 => Uint16(b) \in Nat /\ Uint16(b) <= 65535 /\ Uint16(b) <= MaxInt
(* A count of two bytes fits every int.                                    *)
<1>SmallCount. \A x, y \in Nat : x <= 255 /\ y <= 255 => 256 * x + y \in Nat /\ 256 * x + y <= 65535
  OBVIOUS
<1> SUFFICES ASSUME NEW b \in Seq(Byte)
             PROVE  /\ Len(b) >= 2 => Uint8(b) \in Nat /\ Uint8(b) <= 255 /\ Uint8(b) <= MaxInt
                    /\ Len(b) >= 3 => Uint16(b) \in Nat /\ Uint16(b) <= 65535 /\ Uint16(b) <= MaxInt
  OBVIOUS
<1>1. Len(b) >= 2 => b[2] \in Nat /\ b[2] <= 255
  BY Elements
<1>2. Len(b) >= 3 => b[2] \in Nat /\ b[2] <= 255 /\ b[3] \in Nat /\ b[3] <= 255
  BY Elements
<1>3. ASSUME Len(b) >= 2 PROVE Uint8(b) \in Nat /\ Uint8(b) <= 255 /\ Uint8(b) <= MaxInt
  <2>1. PICK x \in Nat : x = Uint8(b) /\ x <= 255
    BY <1>1, <1>3 DEF Uint8
  <2>2. x <= MaxInt
    BY <2>1, MaxIntAssumption
  <2> QED BY <2>1, <2>2
<1>4. ASSUME Len(b) >= 3 PROVE Uint16(b) \in Nat /\ Uint16(b) <= 65535 /\ Uint16(b) <= MaxInt
  <2>1. PICK x \in Nat, y \in Nat : b[2] = x /\ b[3] = y /\ x <= 255 /\ y <= 255
    BY <1>2, <1>4
  <2>2. PICK z \in Nat : z = 256 * x + y /\ z <= 65535
    BY <2>1, <1>SmallCount
  <2>3. z <= MaxInt
    BY <2>2, MaxIntAssumption
  <2>4. Uint16(b) = z
    BY <2>1, <2>2 DEF Uint16
  <2> QED BY <2>2, <2>3, <2>4
<1> QED BY <1>3, <1>4

-----------------------------------------------------------------------------
(* A 64-bit integer.                                                       *)
Num(v) == v \in Seq(Byte) /\ Len(v) = 8

(* The bytes of a number in k bytes that is extended with c.               *)
Extended(v, s, k, c) ==
  Num(v) /\ \A i \in 1..8 : v[i] = IF i <= 8 - k THEN c ELSE s[i - (8 - k)]

(* A number fits k bytes as a signed one if those above copy its sign, and *)
(* as an unsigned one if they are zero.                                    *)
Sign(c) == IF c >= 128 THEN 255 ELSE 0

(* A number that reader m delivers, reader n delivers.                     *)
Agree(b, m, n) == Ok(Call(m, b)) => Ok(Call(n, b)) /\ Call(n, b).v = Call(m, b).v

(* All pairs of readers that have to agree.                                *)
NumbersIn(b) == /\ \A m, n \in DOMAIN Signed : Signed[m] <= Signed[n] => Agree(b, m, n)
                /\ \A m, n \in DOMAIN Unsigned : Unsigned[m] <= Unsigned[n] => Agree(b, m, n)
                /\ Agree(b, "Uint64", "Int64")

(* What the integer readers promise: a number is the same through each,    *)
(* the type announces the reader, and a verdict is steady.                 *)
LEMMA IntegerReaders ==
  /\ \A b \in Seq(Byte) : NumbersIn(b) /\ Num(ReadUint64Bytes(b).v)
  /\ \A b \in Seq(Byte), c \in Byte : Len(b) >= 1 /\ c = b[1] =>
       /\ sizes(c).typ = "int" => Call("Int64", b).err \in Wants
       /\ sizes(c).typ = "uint" => Call("Uint64", b).err \in Wants
  /\ \A b \in Seq(Byte), d \in Seq(Byte) : Longer(b, d) =>
       /\ \A m \in DOMAIN Signed \cup DOMAIN Unsigned : Steady(b, d, Call(m, b), Call(m, d))
       /\ Steady(b, d, ReadUintBytes(b, 1), ReadUintBytes(d, 1))
<1>SignExtendFacts. \A s \in Seq(Byte), k \in 1..8 :
                      Len(s) = k =>
                        /\ Num(SignExtend(s)) /\ Num(ZeroExtend(s))
                        /\ \A i \in 1..8 : SignExtend(s)[i] = IF i <= 8 - k THEN (IF s[1] >= 128 THEN 255 ELSE 0)
                                                                            ELSE s[i - (8 - k)]
                        /\ \A i \in 1..8 : ZeroExtend(s)[i] = IF i <= 8 - k THEN 0 ELSE s[i - (8 - k)]
                        /\ s[1] < 128 => SignExtend(s) = ZeroExtend(s)
  <2>ExtendFacts. ASSUME NEW s \in Seq(Byte), NEW k \in 1..8, Len(s) = k, NEW c \in Byte
                  PROVE  Extended(Filled(c, 8 - k) \o s, s, k, c)
    <3> USE <2>ExtendFacts
    <3>1. PICK n \in Nat : n = 8 - k /\ n <= 7
      OBVIOUS
    <3>2. Filled(c, n) \in Seq(Byte) /\ Len(Filled(c, n)) = n /\ \A i \in 1..n : Filled(c, n)[i] = c
      BY DEF Filled
    <3> DEFINE f == Filled(c, n)
    <3> HIDE DEF f
    <3>3. /\ f \o s \in Seq(Byte) /\ Len(f \o s) = 8
          /\ \A i \in 1..8 : (f \o s)[i] = IF i <= n THEN f[i] ELSE s[i - n]
      BY <3>1, <3>2, SMTT(30) DEF f
    <3>4. ASSUME NEW i \in 1..8 PROVE (f \o s)[i] = IF i <= n THEN c ELSE s[i - n]
      <4>1. CASE i <= n
        BY <3>1, <3>2, <3>3, <4>1 DEF f
      <4>2. CASE ~(i <= n)
        BY <3>3, <4>2, Zenon
      <4> QED BY <4>1, <4>2, Zenon
    <3>5. Filled(c, 8 - k) = f
      BY <3>1 DEF f
    <3> QED BY <3>1, <3>3, <3>4, <3>5, Zenon DEF Num, Extended
  <2> SUFFICES ASSUME NEW s \in Seq(Byte), NEW k \in 1..8, Len(s) = k
               PROVE  /\ Num(SignExtend(s)) /\ Num(ZeroExtend(s))
                      /\ \A i \in 1..8 : SignExtend(s)[i] = IF i <= 8 - k THEN (IF s[1] >= 128 THEN 255 ELSE 0)
                                                                          ELSE s[i - (8 - k)]
                      /\ \A i \in 1..8 : ZeroExtend(s)[i] = IF i <= 8 - k THEN 0 ELSE s[i - (8 - k)]
                      /\ s[1] < 128 => SignExtend(s) = ZeroExtend(s)
    BY Zenon
  <2>1. 0 \in Byte /\ 255 \in Byte /\ (IF s[1] >= 128 THEN 255 ELSE 0) \in Byte
    BY DEF Byte
  <2>2. s[1] \in Nat
    BY Elements, 1 \in 1..Len(s)
  <2>3. s[1] < 128 => ~(s[1] >= 128)
    BY <2>2
  <2>4. Extended(SignExtend(s), s, k, IF s[1] >= 128 THEN 255 ELSE 0)
    <3>1. PICK c \in Byte : c = IF s[1] >= 128 THEN 255 ELSE 0
      BY <2>1
    <3>2. SignExtend(s) = Filled(c, 8 - k) \o s
      BY <3>1, Zenon DEF SignExtend
    <3>3. Extended(SignExtend(s), s, k, c)
      BY <3>2, <2>ExtendFacts, Zenon
    <3> QED BY <3>1, <3>3
  <2>5. Extended(ZeroExtend(s), s, k, 0)
    BY <2>1, <2>ExtendFacts, Zenon DEF ZeroExtend
  <2>6. s[1] < 128 => SignExtend(s) = ZeroExtend(s)
    BY <2>3, Zenon DEF SignExtend, ZeroExtend
  <2> QED BY <2>4, <2>5, <2>6, Zenon DEF Extended
<1>FitsIs. \A v : \A k \in 1..8 :
             Num(v) =>
               /\ FitsSigned(v, k) <=> \A i \in 1..8 - k : v[i] = Sign(v[9 - k])
               /\ FitsUnsigned(v, k) <=> \A i \in 1..8 - k : v[i] = 0
  (* The low bytes of a number.                                              *)
  <2>LowFacts. ASSUME NEW v, Num(v), NEW k \in 1..8
               PROVE  Low(v, k) \in Seq(Byte) /\ Len(Low(v, k)) = k /\ \A i \in 1..k : Low(v, k)[i] = v[i + (8 - k)]
    <3> USE <2>LowFacts
    <3>0. 9 - k \in 1..8
      OBVIOUS
    <3>1. \A i \in 1..8 : v[i] \in Byte
      BY Elements, Zenon DEF Num
    <3>2. /\ Low(v, k) \in Seq(Byte) /\ Len(Low(v, k)) = 8 - (9 - k) + 1
          /\ \A i \in 1..(8 - (9 - k) + 1) : Low(v, k)[i] = v[(9 - k) + i - 1]
      <4>1. v \in Seq(Byte) /\ 9 - k \in Int /\ 8 \in Int /\ 9 - k <= 8 /\ \A i \in (9 - k)..8 : v[i] \in Byte
        BY <3>0, <3>1 DEF Num
      <4> QED BY <4>1, SliceOf DEF Low
    <3>3. 8 - (9 - k) + 1 = k /\ \A i \in 1..k : (9 - k) + i - 1 = i + (8 - k)
      OBVIOUS
    <3> QED BY <3>2, <3>3
  <2> SUFFICES ASSUME NEW v, Num(v), NEW k \in 1..8
               PROVE  /\ FitsSigned(v, k) <=> \A i \in 1..8 - k : v[i] = Sign(v[9 - k])
                      /\ FitsUnsigned(v, k) <=> \A i \in 1..8 - k : v[i] = 0
    OBVIOUS
  <2> DEFINE s == Low(v, k)
  <2>1. s \in Seq(Byte) /\ Len(s) = k /\ \A i \in 1..k : s[i] = v[i + (8 - k)]
    BY <2>LowFacts, Zenon
  <2>2. s[1] = v[9 - k]
    <3>1. 1 \in 1..k /\ 1 + (8 - k) = 9 - k
      OBVIOUS
    <3> QED BY <2>1, <3>1
  <2>3. \A i \in 1..8 : ~(i <= 8 - k) => s[i - (8 - k)] = v[i]
    <3> SUFFICES ASSUME NEW i \in 1..8, ~(i <= 8 - k) PROVE s[i - (8 - k)] = v[i]
      OBVIOUS
    <3>1. i - (8 - k) \in 1..k /\ (i - (8 - k)) + (8 - k) = i
      OBVIOUS
    <3> QED BY <2>1, <3>1
  <2> HIDE DEF s
  <2>4. \A w : Num(w) => (w = v <=> \A i \in 1..8 : w[i] = v[i])
    BY SameSlice, SMTT(30) DEF Num
  <2>5. /\ Num(SignExtend(s)) /\ Num(ZeroExtend(s))
        /\ \A i \in 1..8 : SignExtend(s)[i] = IF i <= 8 - k THEN Sign(v[9 - k]) ELSE s[i - (8 - k)]
        /\ \A i \in 1..8 : ZeroExtend(s)[i] = IF i <= 8 - k THEN 0 ELSE s[i - (8 - k)]
    BY <2>1, <2>2, <1>SignExtendFacts, ZenonT(60) DEF Sign
  <2>6. \A i \in 1..8 - k : i \in 1..8 /\ i <= 8 - k
    OBVIOUS
  <2>7. FitsSigned(v, k) <=> \A i \in 1..8 - k : v[i] = Sign(v[9 - k])
    <3>1. FitsSigned(v, k) <=> \A i \in 1..8 : SignExtend(s)[i] = v[i]
      BY <2>4, <2>5 DEF FitsSigned, s
    <3> QED BY <2>3, <2>5, <2>6, <3>1
  <2>8. FitsUnsigned(v, k) <=> \A i \in 1..8 - k : v[i] = 0
    <3>1. FitsUnsigned(v, k) <=> \A i \in 1..8 : ZeroExtend(s)[i] = v[i]
      BY <2>4, <2>5 DEF FitsUnsigned, s
    <3> QED BY <2>3, <2>5, <2>6, <3>1
  <2> QED BY <2>7, <2>8
(* An integer is followed by as many bytes as the table says.              *)
<1>IntSizes. ASSUME NEW c \in muint8..mint64
             PROVE  /\ intBytes(c) \in 1..8
                    /\ sizes(c).size = intBytes(c) + 1 /\ sizes(c).extra = constsize
  <2>1. c \in {204, 208} => intBytes(c) = 1
    <3>1. c \in {204, 208} => c % 4 = 0
      OBVIOUS
    <3>2. 2^0 = 1
      OBVIOUS
    <3> QED BY <3>1, <3>2, Zenon DEF intBytes
  <2>2. c \in {205, 209} => intBytes(c) = 2
    <3>1. c \in {205, 209} => c % 4 = 1
      OBVIOUS
    <3>2. 2^1 = 2
      OBVIOUS
    <3> QED BY <3>1, <3>2, Zenon DEF intBytes
  <2>3. c \in {206, 210} => intBytes(c) = 4
    <3>1. c \in {206, 210} => c % 4 = 2
      OBVIOUS
    <3>2. 2^2 = 4
      OBVIOUS
    <3> QED BY <3>1, <3>2, Zenon DEF intBytes
  <2>4. c \in {207, 211} => intBytes(c) = 8
    <3>1. c \in {207, 211} => c % 4 = 3
      OBVIOUS
    <3>2. 2^3 = 8
      OBVIOUS
    <3> QED BY <3>1, <3>2, Zenon DEF intBytes
  <2>5. c \in {204, 208} \cup {205, 209} \cup {206, 210} \cup {207, 211}
    BY DEF muint8, mint64
  <2>6. /\ c \in {204, 208} => sizes(c).size = 2
        /\ c \in {205, 209} => sizes(c).size = 3
        /\ c \in {206, 210} => sizes(c).size = 5
        /\ c \in {207, 211} => sizes(c).size = 9
        /\ sizes(c).extra = constsize
    <3>1. \A k, x, t : bytespec(k, x, t).size = k /\ bytespec(k, x, t).extra = x
      BY DEF bytespec
    <3>2. CASE c \in {204, 208}
      BY <3>1, <3>2, IntegerSizes DEF muint8, mint8
    <3>3. CASE c \in {205, 209}
      BY <3>1, <3>3, IntegerSizes DEF muint16, mint16
    <3>4. CASE c \in {206, 210}
      BY <3>1, <3>4, IntegerSizes DEF muint32, mint32
    <3>5. CASE c \in {207, 211}
      BY <3>1, <3>5, IntegerSizes DEF muint64, mint64
    <3> QED BY <2>5, <3>2, <3>3, <3>4, <3>5
  <2> QED BY <2>1, <2>2, <2>3, <2>4, <2>5, <2>6
(* The bytes behind the lead.                                              *)
<1>FieldFacts. ASSUME NEW b \in Seq(Byte), NEW n \in 1..8, ~(Len(b) < n + 1)
               PROVE  Field(b, n) \in Seq(Byte) /\ Len(Field(b, n)) = n /\ \A i \in 1..n : Field(b, n)[i] = b[i + 1]
  <2> USE <1>FieldFacts
  <2>1. \A i \in 2..(n + 1) : b[i] \in Byte
    BY Elements
  <2>2. 2 <= n + 1 /\ n + 1 \in Int
    OBVIOUS
  <2>3. /\ Field(b, n) \in Seq(Byte) /\ Len(Field(b, n)) = n + 1 - 2 + 1
        /\ \A i \in 1..(n + 1 - 2 + 1) : Field(b, n)[i] = b[2 + i - 1]
    BY <2>1, <2>2, SliceOf DEF Field
  <2>4. n + 1 - 2 + 1 = n /\ \A i \in 1..n : 2 + i - 1 = i + 1
    OBVIOUS
  <2> QED BY <2>3, <2>4
(* What ReadInt64Bytes returns is a number.                                *)
<1>Int64Num. ASSUME NEW b \in Seq(Byte)
             PROVE  Num(ReadInt64Bytes(b).v) /\ Num(ReadUint64Bytes(b).v)
  <2>1. Num(Zero(8))
    BY DEF Num, Zero, Filled, Byte
  <2>2. CASE Len(b) < 1
    BY <2>1, <2>2 DEF ReadInt64Bytes, ReadUint64Bytes, Result
  <2>3. CASE ~(Len(b) < 1)
    <3>1. PICK c \in Byte : c = b[1]
      BY <2>3, Elements
    <3>2. <<c>> \in Seq(Byte) /\ Len(<<c>>) = 1 /\ 1 \in 1..8
      OBVIOUS
    <3>3. Num(ZeroExtend(<<c>>)) /\ Num(SignExtend(<<c>>))
      BY <3>2, <1>SignExtendFacts, Zenon
    <3>4. CASE c \in intLeads \cup uintLeads /\ ~(Len(b) < intBytes(c) + 1)
      <4>1. intBytes(c) \in 1..8
        BY <3>4, <1>IntSizes, SMTT(30) DEF intLeads, uintLeads, muint8, muint64, mint8, mint64
      <4>2. Num(ZeroExtend(Field(b, intBytes(c)))) /\ Num(SignExtend(Field(b, intBytes(c))))
        BY <3>4, <4>1, <1>FieldFacts, <1>SignExtendFacts, Zenon
      <4>3. ~isfixint(c) /\ ~isnfixint(c) /\ c # mnil
        BY <3>4 DEF isfixint, isnfixint, intLeads, uintLeads, mnfixint, mnil, muint8, muint64, mint8, mint64
      <4>4. ReadInt64Bytes(b).v \in {SignExtend(Field(b, intBytes(c))), ZeroExtend(Field(b, intBytes(c)))}
        BY <2>3, <3>1, <3>4, <4>3 DEF ReadInt64Bytes, Result
      <4>5. ReadUint64Bytes(b).v \in {Zero(8), ZeroExtend(Field(b, intBytes(c)))}
        BY <2>3, <3>1, <3>4, <4>3 DEF ReadUint64Bytes, Result
      <4> QED BY <2>1, <4>2, <4>4, <4>5
    <3>5. CASE c \in intLeads \cup uintLeads /\ Len(b) < intBytes(c) + 1
      BY <2>1, <2>3, <3>1, <3>3, <3>5 DEF ReadInt64Bytes, ReadUint64Bytes, Result
    <3>6. CASE c \notin intLeads \cup uintLeads
      BY <2>1, <2>3, <3>1, <3>3, <3>6 DEF ReadInt64Bytes, ReadUint64Bytes, Result
    <3> QED BY <3>4, <3>5, <3>6
  <2> QED BY <2>2, <2>3
(* Every reader by its name.                                               *)
<1>CallSigned. ASSUME NEW b
               PROVE  /\ Call("Int64", b) = ReadInt64Bytes(b)
                      /\ Call("Int32", b) = ReadIntBytes(b, 4)
                      /\ Call("Int16", b) = ReadIntBytes(b, 2)
                      /\ Call("Int8", b) = ReadIntBytes(b, 1)
  BY DEF Call, Signed
<1>CallUnsigned. ASSUME NEW b
                 PROVE  /\ Call("Uint64", b) = ReadUint64Bytes(b)
                        /\ Call("Uint32", b) = ReadUintBytes(b, 4)
                        /\ Call("Uint16", b) = ReadUintBytes(b, 2)
                        /\ Call("Uint8", b) = ReadUintBytes(b, 1)
  BY DEF Call, Unsigned
<1>Names. /\ DOMAIN Signed = {"Int64", "Int32", "Int16", "Int8"}
          /\ DOMAIN Unsigned = {"Uint64", "Uint32", "Uint16", "Uint8"}
          /\ Signed["Int64"] = 8 /\ Signed["Int32"] = 4 /\ Signed["Int16"] = 2 /\ Signed["Int8"] = 1
          /\ Unsigned["Uint64"] = 8 /\ Unsigned["Uint32"] = 4 /\ Unsigned["Uint16"] = 2 /\ Unsigned["Uint8"] = 1
  BY DEF Signed, Unsigned
<1>NumbersMatch. \A b \in Seq(Byte) :
                   NumbersIn(b)
  (* What fits k bytes fits more.                                            *)
  <2>FitsMore. ASSUME NEW v, Num(v), NEW k \in 1..8, NEW n \in k..8
               PROVE  /\ FitsSigned(v, k) => FitsSigned(v, n)
                      /\ FitsUnsigned(v, k) => FitsUnsigned(v, n)
    <3> USE <2>FitsMore
    <3>0. n \in 1..8 /\ \A i \in 1..8 - n : i \in 1..8 - k
      OBVIOUS
    <3>1. ASSUME FitsSigned(v, k) PROVE FitsSigned(v, n)
      <4>1. \A i \in 1..8 - k : v[i] = Sign(v[9 - k])
        BY <3>1, <1>FitsIs
      <4>2. n = k \/ 9 - n \in 1..8 - k
        OBVIOUS
      <4>3. CASE 9 - n \in 1..8 - k
        <5>1. v[9 - n] = Sign(v[9 - k])
          BY <4>1, <4>3
        <5>2. Sign(Sign(v[9 - k])) = Sign(v[9 - k])
          BY DEF Sign
        <5>3. \A i \in 1..8 - n : v[i] = Sign(v[9 - n])
          BY <3>0, <4>1, <5>1, <5>2
        <5> QED BY <3>0, <5>3, <1>FitsIs
      <4> QED BY <3>1, <4>2, <4>3
    <3>2. ASSUME FitsUnsigned(v, k) PROVE FitsUnsigned(v, n)
      BY <3>0, <3>2, <1>FitsIs
    <3> QED BY <3>1, <3>2
  (* A narrower reader delivers what the wide one does, if that fits.        *)
  <2>NarrowInts. ASSUME NEW b \in Seq(Byte), NEW k \in 1..8
                 PROVE  /\ Ok(ReadIntBytes(b, k)) =>
                             /\ Ok(ReadInt64Bytes(b)) /\ FitsSigned(ReadInt64Bytes(b).v, k)
                             /\ ReadIntBytes(b, k) = ReadInt64Bytes(b)
                        /\ FitsSigned(ReadInt64Bytes(b).v, k) => ReadIntBytes(b, k) = ReadInt64Bytes(b)
                        /\ Ok(ReadUintBytes(b, k)) =>
                             /\ Ok(ReadUint64Bytes(b)) /\ FitsUnsigned(ReadUint64Bytes(b).v, k)
                             /\ ReadUintBytes(b, k) = ReadUint64Bytes(b)
                        /\ FitsUnsigned(ReadUint64Bytes(b).v, k) => ReadUintBytes(b, k) = ReadUint64Bytes(b)
    <3>1. Err("intoverflow", "-") # NoError /\ Err("uintoverflow", "-") # NoError
      BY DEF Err, NoError
    <3> QED BY <3>1 DEF ReadIntBytes, ReadUintBytes, Ok, Result
  (* The signed reader of m's width delivers what the reader of 64 bits does *)
  (* if it fits; all of 64 bits do.                                          *)
  <2>SignedIs. ASSUME NEW b \in Seq(Byte), NEW m \in DOMAIN Signed
               PROVE  /\ Signed[m] \in 1..8
                      /\ Ok(Call(m, b)) => Ok(ReadInt64Bytes(b)) /\ FitsSigned(ReadInt64Bytes(b).v, Signed[m])
                                          /\ Call(m, b) = ReadInt64Bytes(b)
                      /\ FitsSigned(ReadInt64Bytes(b).v, Signed[m]) => Call(m, b) = ReadInt64Bytes(b)
    <3>1. CASE m = "Int64"
      <4>0. 8 \in 1..8 /\ 1..8 - 8 = {}
        OBVIOUS
      <4>1. FitsSigned(ReadInt64Bytes(b).v, 8)
        BY <4>0, <1>FitsIs, <1>Int64Num
      <4>2. Signed[m] = 8 /\ Call(m, b) = ReadInt64Bytes(b)
        BY <3>1, <1>Names, <1>CallSigned, Zenon
      <4> QED BY <4>0, <4>1, <4>2, Zenon
    <3>2. CASE m \in {"Int32", "Int16", "Int8"}
      <4>1. Signed[m] \in {1, 2, 4} /\ Call(m, b) = ReadIntBytes(b, Signed[m])
        BY <3>2, <1>Names, <1>CallSigned
      <4>2. Signed[m] \in 1..8
        BY <4>1
      <4> QED BY <4>1, <4>2, <2>NarrowInts, Zenon
    <3> QED BY <3>1, <3>2, <1>Names
  <2>UnsignedIs. ASSUME NEW b \in Seq(Byte), NEW m \in DOMAIN Unsigned
                 PROVE  /\ Unsigned[m] \in 1..8
                        /\ Ok(Call(m, b)) => Ok(ReadUint64Bytes(b)) /\ FitsUnsigned(ReadUint64Bytes(b).v, Unsigned[m])
                                            /\ Call(m, b) = ReadUint64Bytes(b)
                        /\ FitsUnsigned(ReadUint64Bytes(b).v, Unsigned[m]) => Call(m, b) = ReadUint64Bytes(b)
    <3>1. CASE m = "Uint64"
      <4>0. 8 \in 1..8 /\ 1..8 - 8 = {}
        OBVIOUS
      <4>1. FitsUnsigned(ReadUint64Bytes(b).v, 8)
        BY <4>0, <1>FitsIs, <1>Int64Num
      <4>2. Unsigned[m] = 8 /\ Call(m, b) = ReadUint64Bytes(b)
        BY <3>1, <1>Names, <1>CallUnsigned, Zenon
      <4> QED BY <4>0, <4>1, <4>2, Zenon
    <3>2. CASE m \in {"Uint32", "Uint16", "Uint8"}
      <4>1. Unsigned[m] \in {1, 2, 4} /\ Call(m, b) = ReadUintBytes(b, Unsigned[m])
        BY <3>2, <1>Names, <1>CallUnsigned
      <4>2. Unsigned[m] \in 1..8
        BY <4>1
      <4> QED BY <4>1, <4>2, <2>NarrowInts, Zenon
    <3> QED BY <3>1, <3>2, <1>Names
  (* An unsigned number that is no error is read alike as a signed one.      *)
  <2>UnsignedIsSigned. ASSUME NEW b \in Seq(Byte), Ok(ReadUint64Bytes(b))
                       PROVE  Ok(ReadInt64Bytes(b)) /\ ReadInt64Bytes(b).v = ReadUint64Bytes(b).v
    <3> USE <2>UnsignedIsSigned
    <3>0. \A x, v, o : Ok(Result(v, o, x)) <=> x = NoError
      BY DEF Ok, Result
    <3>1. Err("belowzero", "-") # NoError /\ ErrShort # NoError
      BY DEF Err, NoError, ErrShort
    <3>2. ~(Len(b) < 1)
      BY <3>0, <3>1 DEF ReadUint64Bytes
    <3>3. PICK c \in Byte : c = b[1]
      BY <3>2, Elements
    <3>4. CASE isfixint(c) \/ c = mnil
      <4>1. ~isnfixint(c) /\ c \notin intLeads \cup uintLeads /\ (isfixint(c) => c # mnil)
        BY <3>4 DEF isfixint, isnfixint, intLeads, uintLeads, Byte, mnfixint, mnil, muint8, muint64, mint8, mint64
      <4>2. CASE isfixint(c)
        <5>1. ReadUint64Bytes(b) = Result(ZeroExtend(<<c>>), From(b, 1), NoError)
          BY <3>2, <3>3, <4>1, <4>2 DEF ReadUint64Bytes
        <5>2. ReadInt64Bytes(b) = Result(ZeroExtend(<<c>>), From(b, 1), NoError)
          BY <3>2, <3>3, <4>1, <4>2 DEF ReadInt64Bytes
        <5> QED BY <5>1, <5>2
      <4>3. CASE ~isfixint(c) /\ c = mnil
        <5>1. ReadUint64Bytes(b) = Result(Zero(8), From(b, 1), NoError)
          BY <3>2, <3>3, <4>1, <4>3 DEF ReadUint64Bytes
        <5>2. ReadInt64Bytes(b) = Result(Zero(8), From(b, 1), NoError)
          BY <3>2, <3>3, <4>1, <4>3 DEF ReadInt64Bytes
        <5> QED BY <5>1, <5>2
      <4> QED BY <3>4, <4>2, <4>3
    <3>5. CASE c \in intLeads \cup uintLeads
      <4>1. ~isfixint(c) /\ ~isnfixint(c) /\ c # mnil /\ intBytes(c) \in 1..8
        BY <3>5, <1>IntSizes, SMTT(30) DEF isfixint, isnfixint, intLeads, uintLeads, mnfixint, mnil, muint8, muint64, mint8, mint64
      <4>2. ~(Len(b) < intBytes(c) + 1)
        BY <3>0, <3>1, <3>2, <3>3, <3>5, <4>1 DEF ReadUint64Bytes
      <4>3. ~(c \in intLeads /\ b[2] >= 128)
        BY <3>0, <3>1, <3>2, <3>3, <3>5, <4>1, <4>2 DEF ReadUint64Bytes
      <4> DEFINE f == Field(b, intBytes(c))
      <4>4. f \in Seq(Byte) /\ Len(f) = intBytes(c) /\ f[1] = b[2] /\ b[2] \in Nat
        <5>1. PICK n \in 1..8 : n = intBytes(c)
          BY <4>1
        <5>2. 1 \in 1..n /\ 2 \in 1..Len(b)
          BY <4>2, <5>1
        <5>3. f \in Seq(Byte) /\ Len(f) = n /\ \A i \in 1..n : f[i] = b[i + 1]
          BY <4>2, <5>1, <1>FieldFacts, Zenon
        <5>4. b[2] \in Nat
          BY <5>2, Elements
        <5>5. f[1] = b[2]
          <6> HIDE DEF f
          <6>1. f[1] = b[1 + 1]
            BY <5>2, <5>3, Zenon
          <6> QED BY <6>1
        <5> QED BY <5>1, <5>3, <5>4, <5>5
      <4> HIDE DEF f
      <4>5. c \in intLeads => SignExtend(f) = ZeroExtend(f)
        <5>1. c \in intLeads => f[1] < 128
          BY <4>3, <4>4
        <5> QED BY <4>1, <4>4, <5>1, <1>SignExtendFacts, Zenon
      <4>6. ReadUint64Bytes(b) = Result(ZeroExtend(f), From(b, intBytes(c) + 1), NoError)
        BY <3>2, <3>3, <3>5, <4>1, <4>2, <4>3 DEF ReadUint64Bytes, f
      <4>7. ReadInt64Bytes(b) = Result(IF c \in intLeads THEN SignExtend(f) ELSE ZeroExtend(f),
                                       From(b, intBytes(c) + 1), NoError)
        BY <3>2, <3>3, <3>5, <4>1, <4>2 DEF ReadInt64Bytes, f
      <4> QED BY <4>5, <4>6, <4>7 DEF Ok, Result
    <3>6. CASE ~isfixint(c) /\ c # mnil /\ c \notin intLeads \cup uintLeads
      <4>1. badPrefix(c) # NoError
        BY DEF badPrefix, Err, NoError, TypeError
      <4>2. ReadUint64Bytes(b).err \in {Err("belowzero", "-"), badPrefix(c)}
        BY <3>2, <3>3, <3>6 DEF ReadUint64Bytes, Result
      <4> QED BY <3>1, <4>1, <4>2 DEF Ok
    <3> QED BY <3>4, <3>5, <3>6
  <2> SUFFICES ASSUME NEW b \in Seq(Byte)
               PROVE  NumbersIn(b)
    OBVIOUS
  <2>1. ASSUME NEW m \in DOMAIN Signed, NEW n \in DOMAIN Signed, Signed[m] <= Signed[n]
        PROVE  Agree(b, m, n)
    <3>1. Signed[m] \in 1..8 /\ Signed[n] \in Signed[m]..8
      BY <2>1, <2>SignedIs
    <3>2. FitsSigned(ReadInt64Bytes(b).v, Signed[m]) => FitsSigned(ReadInt64Bytes(b).v, Signed[n])
      BY <3>1, <2>FitsMore, <1>Int64Num
    <3> QED BY <3>2, <2>SignedIs DEF Agree
  <2>2. ASSUME NEW m \in DOMAIN Unsigned, NEW n \in DOMAIN Unsigned, Unsigned[m] <= Unsigned[n]
        PROVE  Agree(b, m, n)
    <3>1. Unsigned[m] \in 1..8 /\ Unsigned[n] \in Unsigned[m]..8
      BY <2>2, <2>UnsignedIs
    <3>2. FitsUnsigned(ReadUint64Bytes(b).v, Unsigned[m]) => FitsUnsigned(ReadUint64Bytes(b).v, Unsigned[n])
      BY <3>1, <2>FitsMore, <1>Int64Num
    <3> QED BY <3>2, <2>UnsignedIs DEF Agree
  <2>3. Agree(b, "Uint64", "Int64")
    BY <2>UnsignedIsSigned, <1>CallSigned, <1>CallUnsigned, Zenon DEF Agree
  <2> QED BY <2>1, <2>2, <2>3 DEF NumbersIn
<1>FixSize. ASSUME NEW b \in Seq(Byte), Len(b) >= 1, isfixint(b[1]) \/ isnfixint(b[1])
            PROVE  getSize(b) = Sized(1, 0) /\ 1 \in 1..Len(b)
  <2> USE <1>FixSize
  <2>1. sizes(b[1]) = bytespec(1, constsize, "int")
    BY Zenon DEF sizes
  <2>2. 1 \in Nat \ {0} /\ 1 \in 1..Len(b)
    OBVIOUS
  <2> QED BY <2>1, <2>2, ConstSize
<1>IntSize. ASSUME NEW b \in Seq(Byte), Len(b) >= 1, b[1] \in intLeads \cup uintLeads
            PROVE  intBytes(b[1]) \in 1..8 /\ getSize(b) = Sized(intBytes(b[1]) + 1, 0)
  <2> USE <1>IntSize
  <2>1. PICK c \in muint8..mint64 : c = b[1]
    BY DEF intLeads, uintLeads, muint8, muint64, mint8, mint64
  <2>2. intBytes(c) \in 1..8 /\ sizes(c).size = intBytes(c) + 1 /\ sizes(c).extra = 0
    BY <1>IntSizes DEF constsize
  <2>3. intBytes(c) + 1 \in Nat \ {0} /\ 0 \in Nat
    BY <2>2
  <2>4. getSize(b) = Sized(intBytes(c) + 1, 0)
    BY <2>1, <2>2, <2>3, PlainSize
  <2> QED BY <2>1, <2>2, <2>4
<1>Int64Cases. ASSUME NEW b \in Seq(Byte), NEW c, c = b[1], NEW n, n = intBytes(c)
               PROVE  /\ Len(b) < 1 => ReadInt64Bytes(b) = Result(Zero(8), <<>>, ErrShort)
                      /\ Len(b) >= 1 /\ isfixint(c) => ReadInt64Bytes(b) = Result(ZeroExtend(<<c>>), From(b, 1), NoError)
                      /\ Len(b) >= 1 /\ isnfixint(c) => ReadInt64Bytes(b) = Result(SignExtend(<<c>>), From(b, 1), NoError)
                      /\ Len(b) >= 1 /\ c = mnil => ReadInt64Bytes(b) = Result(Zero(8), From(b, 1), NoError)
                      /\ Len(b) >= 1 /\ c \in intLeads \cup uintLeads /\ Len(b) < n + 1 =>
                           ReadInt64Bytes(b) = Result(Zero(8), <<>>, ErrShort)
                      /\ Len(b) >= 1 /\ c \in intLeads /\ ~(Len(b) < n + 1) =>
                           ReadInt64Bytes(b) = Result(SignExtend(Field(b, n)), From(b, n + 1), NoError)
                      /\ Len(b) >= 1 /\ c \in uintLeads /\ ~(Len(b) < n + 1) =>
                           ReadInt64Bytes(b) = Result(ZeroExtend(Field(b, n)), From(b, n + 1), NoError)
                      /\ Len(b) >= 1 /\ ~isfixint(c) /\ ~isnfixint(c) /\ c # mnil /\ c \notin intLeads \cup uintLeads =>
                           ReadInt64Bytes(b) = Result(Zero(8), <<>>, badPrefix(c))
  <2> USE <1>Int64Cases
  <2>1. CASE Len(b) < 1
    BY <2>1 DEF ReadInt64Bytes
  <2>2. CASE Len(b) >= 1
    <3>1. c \in Byte
      BY <2>2, Elements
    <3>2. /\ ~(Len(b) < 1)
          /\ isfixint(c) => ~isnfixint(c) /\ c # mnil /\ c \notin intLeads /\ c \notin uintLeads
          /\ isnfixint(c) => c # mnil /\ c \notin intLeads /\ c \notin uintLeads
          /\ c = mnil => c \notin intLeads /\ c \notin uintLeads
          /\ c \in intLeads => c \notin uintLeads
      BY <2>2, <3>1 DEF isfixint, isnfixint, intLeads, uintLeads, Byte, mnfixint, mnil, muint8, muint64, mint8, mint64
    <3>3. CASE isfixint(c)
      BY <3>2, <3>3, Zenon DEF ReadInt64Bytes
    <3>4. CASE isnfixint(c)
      BY <3>2, <3>4, Zenon DEF ReadInt64Bytes
    <3>5. CASE c = mnil
      BY <3>2, <3>5 DEF ReadInt64Bytes
    <3>6. CASE c \in intLeads
      BY <3>2, <3>6 DEF ReadInt64Bytes
    <3>7. CASE c \in uintLeads
      BY <3>2, <3>7 DEF ReadInt64Bytes
    <3>8. CASE ~isfixint(c) /\ ~isnfixint(c) /\ c # mnil /\ c \notin intLeads \cup uintLeads
      BY <3>2, <3>8 DEF ReadInt64Bytes
    <3>9. \/ isfixint(c) \/ isnfixint(c) \/ c = mnil \/ c \in intLeads \/ c \in uintLeads
          \/ ~isfixint(c) /\ ~isnfixint(c) /\ c # mnil /\ c \notin intLeads \cup uintLeads
      OBVIOUS
    <3> QED BY <3>3, <3>4, <3>5, <3>6, <3>7, <3>8, <3>9, Zenon
  <2> QED BY <2>1, <2>2
<1>Uint64Cases. ASSUME NEW b \in Seq(Byte), NEW c, c = b[1], NEW n, n = intBytes(c)
                PROVE  /\ Len(b) < 1 => ReadUint64Bytes(b) = Result(Zero(8), <<>>, ErrShort)
                       /\ Len(b) >= 1 /\ isfixint(c) => ReadUint64Bytes(b) = Result(ZeroExtend(<<c>>), From(b, 1), NoError)
                       /\ Len(b) >= 1 /\ isnfixint(c) => ReadUint64Bytes(b) = Result(Zero(8), <<>>, Err("belowzero", "-"))
                       /\ Len(b) >= 1 /\ c = mnil => ReadUint64Bytes(b) = Result(Zero(8), From(b, 1), NoError)
                       /\ Len(b) >= 1 /\ c \in intLeads \cup uintLeads /\ Len(b) < n + 1 =>
                            ReadUint64Bytes(b) = Result(Zero(8), <<>>, ErrShort)
                       /\ Len(b) >= 1 /\ c \in intLeads /\ b[2] >= 128 /\ ~(Len(b) < n + 1) =>
                            ReadUint64Bytes(b) = Result(Zero(8), <<>>, Err("belowzero", "-"))
                       /\ Len(b) >= 1 /\ c \in intLeads \cup uintLeads /\ ~(c \in intLeads /\ b[2] >= 128) /\ ~(Len(b) < n + 1) =>
                            ReadUint64Bytes(b) = Result(ZeroExtend(Field(b, n)), From(b, n + 1), NoError)
                       /\ Len(b) >= 1 /\ ~isfixint(c) /\ ~isnfixint(c) /\ c # mnil /\ c \notin intLeads \cup uintLeads =>
                            ReadUint64Bytes(b) = Result(Zero(8), <<>>, badPrefix(c))
  <2> USE <1>Uint64Cases
  <2>1. CASE Len(b) < 1
    BY <2>1 DEF ReadUint64Bytes
  <2>2. CASE Len(b) >= 1
    <3>1. c \in Byte
      BY <2>2, Elements
    <3>2. /\ ~(Len(b) < 1)
          /\ isfixint(c) => ~isnfixint(c) /\ c # mnil /\ c \notin intLeads /\ c \notin uintLeads
          /\ isnfixint(c) => c # mnil /\ c \notin intLeads /\ c \notin uintLeads
          /\ c = mnil => c \notin intLeads /\ c \notin uintLeads
          /\ c \in intLeads => c \notin uintLeads
      BY <2>2, <3>1 DEF isfixint, isnfixint, intLeads, uintLeads, Byte, mnfixint, mnil, muint8, muint64, mint8, mint64
    <3>3. CASE isfixint(c)
      BY <3>2, <3>3, Zenon DEF ReadUint64Bytes
    <3>4. CASE isnfixint(c)
      BY <3>2, <3>4, Zenon DEF ReadUint64Bytes
    <3>5. CASE c = mnil
      BY <3>2, <3>5 DEF ReadUint64Bytes
    <3>6. CASE c \in intLeads
      BY <3>2, <3>6 DEF ReadUint64Bytes
    <3>7. CASE c \in uintLeads
      BY <3>2, <3>7 DEF ReadUint64Bytes
    <3>8. CASE ~isfixint(c) /\ ~isnfixint(c) /\ c # mnil /\ c \notin intLeads \cup uintLeads
      BY <3>2, <3>8 DEF ReadUint64Bytes
    <3>9. \/ isfixint(c) \/ isnfixint(c) \/ c = mnil \/ c \in intLeads \/ c \in uintLeads
          \/ ~isfixint(c) /\ ~isnfixint(c) /\ c # mnil /\ c \notin intLeads \cup uintLeads
      OBVIOUS
    <3> QED BY <3>3, <3>4, <3>5, <3>6, <3>7, <3>8, <3>9, Zenon
  <2> QED BY <2>1, <2>2
<1>Int64Steady. ASSUME NEW b \in Seq(Byte), NEW d \in Seq(Byte), Longer(b, d)
                PROVE  Steady(b, d, ReadInt64Bytes(b), ReadInt64Bytes(d))
  <2> USE <1>Int64Steady
  <2>0. Len(b) \in Nat /\ Len(d) \in Nat /\ Len(b) <= Len(d) /\ (Len(b) >= 1 => Len(d) >= 1 /\ d[1] = b[1])
    BY SameFields
  <2>1. CASE Len(b) < 1
    BY <2>1, <1>Int64Cases, SteadyWaits, Zenon
  <2>2. CASE Len(b) >= 1
    <3>0. PICK c, n : c = b[1] /\ c = d[1] /\ n = intBytes(c)
      BY <2>0, <2>2
    <3>1. CASE isfixint(c) \/ isnfixint(c) \/ c = mnil
      <4>1. PICK v : ReadInt64Bytes(b) = Result(v, From(b, 1), NoError) /\ ReadInt64Bytes(d) = Result(v, From(d, 1), NoError)
        BY <2>0, <2>2, <3>0, <3>1, <1>Int64Cases, Zenon
      <4>2. getSize(b) = Sized(1, 0) /\ 1 \in 1..Len(b)
        BY <2>2, <3>0, <3>1, <1>FixSize, NilSize, Zenon
      <4> QED BY <4>1, <4>2, SteadyTakes
    <3>2. CASE c \in intLeads \cup uintLeads
      <4>1. n \in 1..8 /\ getSize(b) = Sized(n + 1, 0)
        BY <2>2, <3>0, <3>2, <1>IntSize, Zenon
      <4>2. CASE Len(b) < n + 1
        <5>1. ReadInt64Bytes(b) = Result(Zero(8), <<>>, ErrShort)
          BY <2>2, <3>0, <3>2, <4>2, <1>Int64Cases, Zenon
        <5> QED BY <5>1, SteadyWaits
      <4>3. CASE ~(Len(b) < n + 1)
        <5>1. ~(Len(d) < n + 1) /\ n \in Nat /\ n + 1 <= Len(b) /\ n + 1 \in 1..Len(b)
          BY <2>0, <4>1, <4>3
        <5>2. Field(d, n) = Field(b, n)
          BY <5>1, SameField
        <5>3. PICK v : ReadInt64Bytes(b) = Result(v, From(b, n + 1), NoError) /\ ReadInt64Bytes(d) = Result(v, From(d, n + 1), NoError)
          <6>1. CASE c \in intLeads
            BY <2>0, <2>2, <3>0, <4>3, <5>1, <5>2, <6>1, <1>Int64Cases, ZenonT(60)
          <6>2. CASE c \in uintLeads
            BY <2>0, <2>2, <3>0, <4>3, <5>1, <5>2, <6>2, <1>Int64Cases, Zenon
          <6> QED BY <3>2, <6>1, <6>2
        <5> QED BY <4>1, <5>1, <5>3, SteadyTakes
      <4> QED BY <4>2, <4>3
    <3>3. CASE ~isfixint(c) /\ ~isnfixint(c) /\ c # mnil /\ c \notin intLeads \cup uintLeads
      <4>1. /\ ReadInt64Bytes(b) = Result(Zero(8), <<>>, badPrefix(c))
            /\ ReadInt64Bytes(d) = Result(Zero(8), <<>>, badPrefix(c))
        BY <2>0, <2>2, <3>0, <3>3, <1>Int64Cases, Zenon
      <4> QED BY <4>1, SteadyRefuses, ErrorsDiffer
    <3> QED BY <3>1, <3>2, <3>3
  <2> QED BY <2>0, <2>1, <2>2
<1>Uint64Steady. ASSUME NEW b \in Seq(Byte), NEW d \in Seq(Byte), Longer(b, d)
                 PROVE  Steady(b, d, ReadUint64Bytes(b), ReadUint64Bytes(d))
  <2> USE <1>Uint64Steady
  <2>0. Len(b) \in Nat /\ Len(d) \in Nat /\ Len(b) <= Len(d) /\ (Len(b) >= 1 => Len(d) >= 1 /\ d[1] = b[1])
    BY SameFields
  <2>1. CASE Len(b) < 1
    BY <2>1, <1>Uint64Cases, SteadyWaits, Zenon
  <2>2. CASE Len(b) >= 1
    <3>0. PICK c, n : c = b[1] /\ c = d[1] /\ n = intBytes(c)
      BY <2>0, <2>2
    <3>e. Err("belowzero", "-") # NoError
      BY DEF Err, NoError
    <3>1. CASE isfixint(c) \/ c = mnil
      <4>1. PICK v : ReadUint64Bytes(b) = Result(v, From(b, 1), NoError) /\ ReadUint64Bytes(d) = Result(v, From(d, 1), NoError)
        BY <2>0, <2>2, <3>0, <3>1, <1>Uint64Cases, Zenon
      <4>2. getSize(b) = Sized(1, 0) /\ 1 \in 1..Len(b)
        BY <2>2, <3>0, <3>1, <1>FixSize, NilSize, Zenon
      <4> QED BY <4>1, <4>2, SteadyTakes
    <3>2. CASE c \in intLeads \cup uintLeads
      <4>1. n \in 1..8 /\ getSize(b) = Sized(n + 1, 0)
        BY <2>2, <3>0, <3>2, <1>IntSize, Zenon
      <4>2. CASE Len(b) < n + 1
        <5>1. ReadUint64Bytes(b) = Result(Zero(8), <<>>, ErrShort)
          BY <2>2, <3>0, <3>2, <4>2, <1>Uint64Cases, Zenon
        <5> QED BY <5>1, SteadyWaits
      <4>3. CASE ~(Len(b) < n + 1)
        <5>1. ~(Len(d) < n + 1) /\ n \in Nat /\ n + 1 <= Len(b) /\ n + 1 \in 1..Len(b) /\ Len(b) >= 2
          BY <2>0, <4>1, <4>3
        <5>2. Field(d, n) = Field(b, n) /\ d[2] = b[2]
          BY <5>1, SameField, SameFields
        <5>3. CASE c \in intLeads /\ b[2] >= 128
          <6>1. /\ ReadUint64Bytes(b) = Result(Zero(8), <<>>, Err("belowzero", "-"))
                /\ ReadUint64Bytes(d) = Result(Zero(8), <<>>, Err("belowzero", "-"))
            BY <2>0, <2>2, <3>0, <4>3, <5>1, <5>2, <5>3, <1>Uint64Cases, Zenon
          <6> QED BY <3>e, <6>1, SteadyRefuses
        <5>4. CASE ~(c \in intLeads /\ b[2] >= 128)
          <6>1. /\ ReadUint64Bytes(b) = Result(ZeroExtend(Field(b, n)), From(b, n + 1), NoError)
                /\ ReadUint64Bytes(d) = Result(ZeroExtend(Field(b, n)), From(d, n + 1), NoError)
            BY <2>0, <2>2, <3>0, <3>2, <4>3, <5>1, <5>2, <5>4, <1>Uint64Cases, ZenonT(60)
          <6> QED BY <4>1, <5>1, <6>1, SteadyTakes
        <5> QED BY <5>3, <5>4
      <4> QED BY <4>2, <4>3
    <3>3. CASE isnfixint(c)
      <4>1. /\ ReadUint64Bytes(b) = Result(Zero(8), <<>>, Err("belowzero", "-"))
            /\ ReadUint64Bytes(d) = Result(Zero(8), <<>>, Err("belowzero", "-"))
        BY <2>0, <2>2, <3>0, <3>3, <1>Uint64Cases, Zenon
      <4> QED BY <3>e, <4>1, SteadyRefuses
    <3>4. CASE ~isfixint(c) /\ ~isnfixint(c) /\ c # mnil /\ c \notin intLeads \cup uintLeads
      <4>1. /\ ReadUint64Bytes(b) = Result(Zero(8), <<>>, badPrefix(c))
            /\ ReadUint64Bytes(d) = Result(Zero(8), <<>>, badPrefix(c))
        BY <2>0, <2>2, <3>0, <3>4, <1>Uint64Cases, Zenon
      <4> QED BY <4>1, SteadyRefuses, ErrorsDiffer
    <3> QED BY <3>1, <3>2, <3>3, <3>4
  <2> QED BY <2>0, <2>1, <2>2
(* The verdict of a narrow reader depends on the value, once there is one. *)
<1>NarrowSteady. \A b \in Seq(Byte), d \in Seq(Byte), k \in 1..8 :
                   Longer(b, d) =>
                     /\ Steady(b, d, ReadIntBytes(b, k), ReadIntBytes(d, k))
                     /\ Steady(b, d, ReadUintBytes(b, k), ReadUintBytes(d, k))
  (* An error comes with zero, which fits every width.                       *)
  <2>ZeroFits. ASSUME NEW k \in 1..8
               PROVE  FitsSigned(Zero(8), k) /\ FitsUnsigned(Zero(8), k)
    <3>1. Num(Zero(8)) /\ \A i \in 1..8 : Zero(8)[i] = 0
      BY DEF Num, Zero, Filled, Byte
    <3>2. 9 - k \in 1..8 /\ \A i \in 1..8 - k : i \in 1..8
      OBVIOUS
    <3>3. Sign(0) = 0
      BY DEF Sign
    <3>4. Sign(Zero(8)[9 - k]) = 0
      BY <3>1, <3>2, <3>3
    <3>5. \A i \in 1..8 - k : Zero(8)[i] = 0
      BY <3>1, <3>2
    <3> QED BY <3>1, <3>4, <3>5, <1>FitsIs
  <2>IntFails. ASSUME NEW b \in Seq(Byte)
               PROVE  /\ Ok(ReadInt64Bytes(b)) \/ ReadInt64Bytes(b).v = Zero(8)
                      /\ Ok(ReadUint64Bytes(b)) \/ ReadUint64Bytes(b).v = Zero(8)
    <3>0. Len(b) < 1 \/ Len(b) >= 1
      OBVIOUS
    <3>1. PICK c, n : c = b[1] /\ n = intBytes(c)
      OBVIOUS
    <3>2. \/ \E v, o : ReadInt64Bytes(b) = Result(v, o, NoError)
          \/ \E o, x : ReadInt64Bytes(b) = Result(Zero(8), o, x)
      BY <3>0, <3>1, <1>Int64Cases, ZenonT(60)
    <3>3. \/ \E v, o : ReadUint64Bytes(b) = Result(v, o, NoError)
          \/ \E o, x : ReadUint64Bytes(b) = Result(Zero(8), o, x)
      BY <3>0, <3>1, <1>Uint64Cases, ZenonT(60)
    <3> QED BY <3>2, <3>3, OkResult
  <2> SUFFICES ASSUME NEW b \in Seq(Byte), NEW d \in Seq(Byte), Longer(b, d), NEW k \in 1..8
               PROVE  /\ Steady(b, d, ReadIntBytes(b, k), ReadIntBytes(d, k))
                      /\ Steady(b, d, ReadUintBytes(b, k), ReadUintBytes(d, k))
    OBVIOUS
  <2>0. Err("intoverflow", "-") # NoError /\ Err("uintoverflow", "-") # NoError
    BY DEF Err, NoError
  <2>w. \A r : Waits(r) => ~Ok(r)
    BY ErrorsDiffer DEF Waits, Ok
  <2>1. ASSUME NEW R, NEW S, NEW r, NEW s, NEW e, e # NoError, NEW p, NEW q,
               Steady(b, d, R, S),
               Ok(R) \/ r = R, Ok(S) \/ s = S,
               r = R \/ r = Result(Zero(8), p, e), s = S \/ s = Result(Zero(8), q, e),
               R.v = S.v => (r = R /\ s = S) \/ (r = Result(Zero(8), p, e) /\ s = Result(Zero(8), q, e))
        PROVE  Steady(b, d, r, s)
    <3>1. CASE Waits(R)
      BY <2>1, <2>w, <3>1 DEF Steady
    <3>2. CASE ~Ok(R) /\ ~Ok(S)
      BY <2>1, <3>2 DEF Steady
    <3>3. CASE \E j \in 1..Len(b) : \E v : Takes(b, d, j, 0, v, R, S)
      <4>1. R.v = S.v
        BY <3>3, OkResult DEF Takes
      <4>2. CASE r = R /\ s = S
        BY <2>1, <4>2
      <4>3. CASE r = Result(Zero(8), p, e) /\ s = Result(Zero(8), q, e)
        BY <2>1, <4>3, SteadyRefuses
      <4> QED BY <2>1, <4>1, <4>2, <4>3
    <3> QED BY <2>1, <3>1, <3>2, <3>3 DEF Steady
  <2>2. /\ FitsSigned(ReadInt64Bytes(b).v, k) => ReadIntBytes(b, k) = ReadInt64Bytes(b)
        /\ ~FitsSigned(ReadInt64Bytes(b).v, k) => ReadIntBytes(b, k) = Result(Zero(8), ReadInt64Bytes(b).o, Err("intoverflow", "-"))
        /\ FitsSigned(ReadInt64Bytes(d).v, k) => ReadIntBytes(d, k) = ReadInt64Bytes(d)
        /\ ~FitsSigned(ReadInt64Bytes(d).v, k) => ReadIntBytes(d, k) = Result(Zero(8), ReadInt64Bytes(d).o, Err("intoverflow", "-"))
    BY Zenon DEF ReadIntBytes
  <2>3. /\ FitsUnsigned(ReadUint64Bytes(b).v, k) => ReadUintBytes(b, k) = ReadUint64Bytes(b)
        /\ ~FitsUnsigned(ReadUint64Bytes(b).v, k) => ReadUintBytes(b, k) = Result(Zero(8), <<>>, Err("uintoverflow", "-"))
        /\ FitsUnsigned(ReadUint64Bytes(d).v, k) => ReadUintBytes(d, k) = ReadUint64Bytes(d)
        /\ ~FitsUnsigned(ReadUint64Bytes(d).v, k) => ReadUintBytes(d, k) = Result(Zero(8), <<>>, Err("uintoverflow", "-"))
    BY Zenon DEF ReadUintBytes
  <2>4. /\ Ok(ReadInt64Bytes(b)) \/ ReadInt64Bytes(b).v = Zero(8)
        /\ Ok(ReadUint64Bytes(b)) \/ ReadUint64Bytes(b).v = Zero(8)
        /\ Ok(ReadInt64Bytes(d)) \/ ReadInt64Bytes(d).v = Zero(8)
        /\ Ok(ReadUint64Bytes(d)) \/ ReadUint64Bytes(d).v = Zero(8)
    BY <2>IntFails, Zenon
  <2>5. Steady(b, d, ReadIntBytes(b, k), ReadIntBytes(d, k))
    <3>1. Ok(ReadInt64Bytes(b)) \/ ReadIntBytes(b, k) = ReadInt64Bytes(b)
      BY <2>2, <2>4, <2>ZeroFits
    <3>2. Ok(ReadInt64Bytes(d)) \/ ReadIntBytes(d, k) = ReadInt64Bytes(d)
      BY <2>2, <2>4, <2>ZeroFits
    <3>3. Steady(b, d, ReadInt64Bytes(b), ReadInt64Bytes(d))
      BY <1>Int64Steady
    <3>4. LET e == Err("intoverflow", "-")
              yes == ReadIntBytes(b, k) = ReadInt64Bytes(b) /\ ReadIntBytes(d, k) = ReadInt64Bytes(d)
              no == ReadIntBytes(b, k) = Result(Zero(8), ReadInt64Bytes(b).o, e) /\ ReadIntBytes(d, k) = Result(Zero(8), ReadInt64Bytes(d).o, e)
          IN /\ ReadIntBytes(b, k) = ReadInt64Bytes(b) \/ ReadIntBytes(b, k) = Result(Zero(8), ReadInt64Bytes(b).o, e)
             /\ ReadIntBytes(d, k) = ReadInt64Bytes(d) \/ ReadIntBytes(d, k) = Result(Zero(8), ReadInt64Bytes(d).o, e)
             /\ ReadInt64Bytes(b).v = ReadInt64Bytes(d).v => yes \/ no
      BY <2>2, Zenon
    <3> QED BY <2>0, <2>1, <3>1, <3>2, <3>3, <3>4, ZenonT(60)
  <2>6. Steady(b, d, ReadUintBytes(b, k), ReadUintBytes(d, k))
    <3>1. Ok(ReadUint64Bytes(b)) \/ ReadUintBytes(b, k) = ReadUint64Bytes(b)
      BY <2>3, <2>4, <2>ZeroFits
    <3>2. Ok(ReadUint64Bytes(d)) \/ ReadUintBytes(d, k) = ReadUint64Bytes(d)
      BY <2>3, <2>4, <2>ZeroFits
    <3>3. Steady(b, d, ReadUint64Bytes(b), ReadUint64Bytes(d))
      BY <1>Uint64Steady
    <3>4. LET e == Err("uintoverflow", "-")
              yes == ReadUintBytes(b, k) = ReadUint64Bytes(b) /\ ReadUintBytes(d, k) = ReadUint64Bytes(d)
              no == ReadUintBytes(b, k) = Result(Zero(8), <<>>, e) /\ ReadUintBytes(d, k) = Result(Zero(8), <<>>, e)
          IN /\ ReadUintBytes(b, k) = ReadUint64Bytes(b) \/ ReadUintBytes(b, k) = Result(Zero(8), <<>>, e)
             /\ ReadUintBytes(d, k) = ReadUint64Bytes(d) \/ ReadUintBytes(d, k) = Result(Zero(8), <<>>, e)
             /\ ReadUint64Bytes(b).v = ReadUint64Bytes(d).v => yes \/ no
      BY <2>3, Zenon
    <3> QED BY <2>0, <2>1, <3>1, <3>2, <3>3, <3>4, ZenonT(60)
  <2> QED BY <2>5, <2>6
<1>IntsSteady. ASSUME NEW b \in Seq(Byte), NEW d \in Seq(Byte), Longer(b, d), NEW m \in DOMAIN Signed \cup DOMAIN Unsigned
               PROVE  Steady(b, d, Call(m, b), Call(m, d))
  <2> USE <1>IntsSteady
  <2>0. 1 \in 1..8 /\ 2 \in 1..8 /\ 4 \in 1..8
    OBVIOUS
  <2>1. m \in {"Int64", "Int32", "Int16", "Int8", "Uint64", "Uint32", "Uint16", "Uint8"}
    BY <1>Names
  <2>2. CASE m = "Int64"
    BY <2>2, <1>CallSigned, <1>Int64Steady
  <2>3. CASE m = "Uint64"
    BY <2>3, <1>CallUnsigned, <1>Uint64Steady
  <2>4. CASE m \in {"Int32", "Int16", "Int8"}
    <3>1. PICK k \in 1..8 : Call(m, b) = ReadIntBytes(b, k) /\ Call(m, d) = ReadIntBytes(d, k)
      BY <2>0, <2>4, <1>CallSigned
    <3> QED BY <3>1, <1>NarrowSteady
  <2>5. CASE m \in {"Uint32", "Uint16", "Uint8"}
    <3>1. PICK k \in 1..8 : Call(m, b) = ReadUintBytes(b, k) /\ Call(m, d) = ReadUintBytes(d, k)
      BY <2>0, <2>5, <1>CallUnsigned
    <3> QED BY <3>1, <1>NarrowSteady
  <2> QED BY <2>1, <2>2, <2>3, <2>4, <2>5
<1>IntsReadable. ASSUME NEW b \in Seq(Byte), Len(b) >= 1, NEW c \in Byte, c = b[1]
                 PROVE  /\ sizes(c).typ = "int" => Call("Int64", b).err \in Wants
                        /\ sizes(c).typ = "uint" => Call("Uint64", b).err \in Wants
  <2> USE <1>IntsReadable
  <2>0. PICK n : n = intBytes(c)
    BY Zenon
  <2>1. ASSUME sizes(c).typ = "int" PROVE Call("Int64", b).err \in Wants
    <3>0. isfixint(c) \/ isnfixint(c) \/ c \in intLeads
      BY <2>1, TypeLeads, Zenon
    <3>1. isfixint(c) \/ isnfixint(c) \/ (c \in intLeads /\ c \in intLeads \cup uintLeads)
      BY <3>0, Zenon
    <3>2. PICK v, o : ReadInt64Bytes(b) = Result(v, o, NoError) \/ ReadInt64Bytes(b) = Result(v, o, ErrShort)
      BY <2>0, <3>1, <1>Int64Cases, ZenonT(60)
    <3> QED BY <3>2, ResultWants, <1>CallSigned
  <2>2. ASSUME sizes(c).typ = "uint" PROVE Call("Uint64", b).err \in Wants
    <3>1. c \in intLeads \cup uintLeads /\ c \notin intLeads
      <4>1. c \in uintLeads
        BY <2>2, TypeLeads, Zenon
      <4> QED BY <4>1 DEF intLeads, uintLeads, muint8, muint64, mint8, mint64
    <3>2. PICK v, o : ReadUint64Bytes(b) = Result(v, o, NoError) \/ ReadUint64Bytes(b) = Result(v, o, ErrShort)
      BY <2>0, <3>1, <1>Uint64Cases, Zenon
    <3> QED BY <3>2, ResultWants, <1>CallUnsigned
  <2> QED BY <2>1, <2>2
<1>1. \A b \in Seq(Byte) : NumbersIn(b) /\ Num(ReadUint64Bytes(b).v)
  BY <1>NumbersMatch, <1>Int64Num
<1>2. ASSUME NEW b \in Seq(Byte), NEW d \in Seq(Byte), Longer(b, d)
      PROVE  Steady(b, d, ReadUintBytes(b, 1), ReadUintBytes(d, 1))
  BY <1>2, <1>NarrowSteady
<1> QED BY <1>1, <1>2, <1>IntsReadable, <1>IntsSteady

=============================================================================

----------------------------- MODULE MCArrival ------------------------------
EXTENDS Arrival

MCArray == <<9, 9>>

Singles(S) == {<<c>> : c \in S}
Blocks(n)  == {Filled(c, n) : c \in {1, 255}}

(* The first n bytes after the lead byte are from S.                       *)
Begins(b, S, n) == \A i \in 2..n + 1 : i <= Len(b) => b[i] \in S

leads32 == {mbin32, mext32, mstr32, marray32, mmap32}
LongLeads == (mnil..mmap32) \ leads32

(* Short objects, one byte at a time to 4 bytes: counts and lengths 0..2,  *)
(* an element of each small kind, a header, the largest byte.              *)
ShortBytes == {0, 1, 2, 129, 146, 192, 204, 255}
ShortObjects(b) ==
  IF Len(b) < 4 /\ Begins(b, ShortBytes, 3) THEN Singles(ShortBytes) ELSE {}

(* Long fixed encodings, to 19 bytes: the extension numbers, a negative    *)
(* and a positive number, and the ends of float64 (9), complex64 (10),     *)
(* time (15) and complex128 (18).                                          *)
LongBytes == {0, 3, 4, 5, 7, 12, 128, 255}
LongObjects(b) ==
  IF b[1] \notin LongLeads \/ ~Begins(b, LongBytes \cup {1}, 2) THEN {}
  ELSE (IF Len(b) < 3 THEN Singles(LongBytes) ELSE {}) \cup
       (IF Len(b) + 4 <= 19 THEN Blocks(4) ELSE {}) \cup (IF Len(b) + 8 <= 19 THEN Blocks(8) ELSE {})

(* 32-bit counts and lengths: small ones, and the largest the scaled int   *)
(* holds (0x3ffff), one more, and the largest of the scaled uintptr.       *)
Fields32(b) ==
  LET n == Len(b) IN
  CASE n = 1 -> {<<0, 0, 0, c>> : c \in 0..3} \cup
                {<<0, 3, 255, 255>>, <<0, 4, 0, 0>>, <<0, 4, 0, 1>>, <<0, 7, 255, 251>>, <<0, 7, 255, 255>>}
    [] n \in 5..8 -> Singles({0, 1, 7, 161, 192})
    [] OTHER -> {}

EveryObject(b) ==
  ShortObjects(b) \cup (IF b[1] \in leads32 THEN Fields32(b) ELSE LongObjects(b))
=============================================================================

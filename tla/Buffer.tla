------------------------------- MODULE Buffer -------------------------------
(***************************************************************************)
(* The output slice: ensure (write_bytes.go), through which every append   *)
(* of more than one byte makes room, Require (write.go), which MarshalMsg  *)
(* calls once with Msgsize(), and Go's own append.  What the bytes say is  *)
(* the subject of module Encode; here a byte is a token.  ints have the    *)
(* width of the platform and wrap; an allocation the runtime refuses and a *)
(* slice or index expression out of range panic.                           *)
(*                                                                         *)
(* The client appends to the slice the last call returned, as generated    *)
(* code does, and may keep one older slice, which shares the array as long *)
(* as no call has grown it.                                                *)
(***************************************************************************)
EXTENDS Integers, Sequences

CONSTANTS MaxInt,     \* the largest int
          MaxAlloc,   \* the largest length make accepts
          MaxPrefix,  \* the most bytes an append writes besides its payload
          Token       \* values of a byte

ASSUME IntAssumption == 
  MaxInt \in Nat \ {0} /\ MaxAlloc \in 0..MaxInt /\ MaxPrefix \in 1..MaxInt
ASSUME TokenAssumption == 0 \in Token

VARIABLES heap,       \* the arrays: heap[a] has as many bytes as its capacity
          arr,        \* the array of the slice
          len,        \* its length (its capacity is that of the array)
          log,        \* history: the bytes appended, first to last
          held,       \* an older slice the client kept
          reserved,   \* history: the part of what Require promised not yet used
          panicked

vars == <<heap, arr, len, log, held, reserved, panicked>>

cap == Len(heap[arr])

MinInt  == -MaxInt - 1
Ints    == MinInt..MaxInt
Wrap(x) == IF x > MaxInt THEN x - MaxInt - MaxInt - 2
           ELSE IF x < MinInt THEN x + MaxInt + MaxInt + 2 ELSE x
Least(x, y)    == IF x < y THEN x ELSE y
Greatest(x, y) == IF x < y THEN y ELSE x

-----------------------------------------------------------------------------
(* ensure(b, sz) for a slice of length l and capacity c: the capacity and   *)
(* the length of the slice it returns, and the offset n.  It moves to a new *)
(* array when the old one has no room.                                     *)
grows_Exact(l, c, sz) == c - l <= sz   \* mutant: also when there is just room

grows(l, c, sz) == c - l < sz

ensure(l, c, sz) ==
  LET size == Wrap(Wrap(c + c) + sz)
      n    == Least(size, l)
  IN IF grows(l, c, sz) THEN [cap |-> size, n |-> n, len |-> Wrap(n + sz)]
                        ELSE [cap |-> c,    n |-> l, len |-> Wrap(l + sz)]

(* make and the slice expression panic on other values.                    *)
ensureOk(e) == e.cap \in 0..MaxAlloc /\ e.len \in 0..e.cap

(* An append with a prefix of p bytes and a payload of k: how long the     *)
(* slice it returns is.                                                    *)
AppendOk(e, p)     == ensureOk(e) /\ e.n + p <= e.len
AppendLen(e, p, k) == e.n + p + Least(e.len - e.n - p, k)

(* Require: whether it moves, and to which capacity.                       *)
required_NoLen(l, extra) == extra       \* mutants: the bytes already there
requireCap_NoLen(l, c, extra) == extra  \* are forgotten

required(l, extra)     == Wrap(l + extra)
requireCap(l, c, extra) ==
  IF l = 0 THEN extra ELSE Greatest(Wrap(c + c), required(l, extra))

(* The array with its bytes after the first n replaced by token t up to m, *)
(* and a new array that starts with the first n bytes of this one.         *)
Moved_NoCopy(s, n, c) == [i \in 1..c |-> 0]   \* mutant: make without copy
Fill(s, n, m, t)    == [i \in 1..Len(s) |-> IF i \in n + 1..m THEN t ELSE s[i]]
Moved(s, n, c)      == [i \in 1..c |-> IF i <= n THEN s[i] ELSE 0]
Tokens(t, k)        == [i \in 1..k |-> t]

-----------------------------------------------------------------------------
(* The client starts with a slice of any length and capacity.              *)
Init == /\ \E c \in 0..MaxAlloc : \E l \in 0..c :
             heap = <<Tokens(0, c)>> /\ len = l /\ log = Tokens(0, l)
        /\ arr = 1
        /\ held = [arr |-> 1, log |-> <<>>]
        /\ reserved = 0
        /\ panicked = FALSE

Panic == /\ panicked' = TRUE
         /\ UNCHANGED <<heap, arr, len, log, held, reserved>>

(* Mutant: the old array is given back when the slice moves.               *)
Write_Realloc(moved, c, n, s, t) ==
  /\ heap' = IF moved THEN Append([heap EXCEPT ![arr] = Moved(<<>>, 0, cap)],
                                  Fill(Moved(heap[arr], n, c), n, s, t))
                      ELSE [heap EXCEPT ![arr] = Fill(heap[arr], n, s, t)]
  /\ arr' = IF moved THEN Len(heap) + 1 ELSE arr
  /\ len' = s

(* The slice now is s bytes long, with token t behind the first n.         *)
Write(moved, c, n, s, t) ==
  /\ heap' = IF moved THEN Append(heap, Fill(Moved(heap[arr], n, c), n, s, t))
                      ELSE [heap EXCEPT ![arr] = Fill(heap[arr], n, s, t)]
  /\ arr' = IF moved THEN Len(heap) + 1 ELSE arr
  /\ len' = s

(* AppendBytes, AppendString, AppendExtension, AppendTime and the others.  *)
AppendData(p, k, t) ==
  LET sz == Wrap(p + k)
      e  == ensure(len, cap, sz)
  IN /\ ~panicked
     /\ \/ ~AppendOk(e, p) /\ Panic
        \/ /\ AppendOk(e, p)
           /\ Write(grows(len, cap, sz), e.cap, e.n, AppendLen(e, p, k), t)
           /\ log' = log \o Tokens(t, p + k)
           /\ reserved' = Greatest(reserved - (p + k), 0)
           /\ UNCHANGED <<held, panicked>>

(* append(b, c) of Go: nil, bool, short headers and fixints.               *)
AppendByte(t) ==
  /\ ~panicked
  /\ \/ cap = len /\ len = MaxAlloc /\ Panic
     \/ /\ \/ len < cap /\ Write(FALSE, cap, len, len + 1, t)
           \/ cap = len /\ \E c \in len + 1..MaxAlloc : Write(TRUE, c, len, len + 1, t)
        /\ log' = Append(log, t)
        /\ reserved' = Greatest(reserved - 1, 0)
        /\ UNCHANGED <<held, panicked>>

(* Require; the promise is void when len(old)+extra overflows.             *)
Require(extra) ==
  LET r == required(len, extra)
      c == requireCap(len, cap, extra)
  IN /\ ~panicked
     /\ \/ cap < r /\ c > MaxAlloc /\ Panic
        \/ /\ \/ cap >= r /\ UNCHANGED <<heap, arr, len>>
              \/ cap < r /\ c <= MaxAlloc /\ Write(TRUE, c, len, len, 0)
           /\ reserved' = IF len + extra > MaxInt THEN reserved ELSE Greatest(reserved, extra)
           /\ UNCHANGED <<log, held, panicked>>

(* The client keeps the slice it has.                                      *)
Hold == /\ ~panicked
        /\ held' = [arr |-> arr, log |-> log]
        /\ UNCHANGED <<heap, arr, len, log, reserved, panicked>>

Next == \/ \E p \in 1..MaxPrefix, k \in 0..MaxAlloc, t \in Token : AppendData(p, k, t)
        \/ \E t \in Token : AppendByte(t)
        \/ \E extra \in Ints : Require(extra)
        \/ Hold

Spec == Init /\ [][Next]_vars

-----------------------------------------------------------------------------
TypeOK == /\ heap \in Seq(Seq(Token))
          /\ arr \in 1..Len(heap)
          /\ len \in 0..cap /\ cap <= MaxAlloc
          /\ log \in Seq(Token)
          /\ held \in [arr : 1..Len(heap), log : Seq(Token)]
          /\ reserved \in Nat
          /\ panicked \in BOOLEAN

(* The slice holds the first bytes s of array a.                           *)
Holds(a, s) == Len(s) <= Len(heap[a]) /\ \A i \in 1..Len(s) : heap[a][i] = s[i]

(***************************************************************************)
(* No append loses, truncates or overwrites a byte: the slice is what was  *)
(* appended.  When the growth length wraps, ensure panics: the comment on  *)
(* ensure says so without an argument.                                     *)
(***************************************************************************)
SliceIsLog == len = Len(log) /\ Holds(arr, log)

(* A slice the client kept still reads as it did, whichever array the later *)
(* appends wrote to.                                                       *)
HeldIntact == Holds(held.arr, held.log)

(* "Require ensures that cap(old)-len(old) >= extra", and what is appended  *)
(* since then is all that is missing from it.                              *)
RequireKept == reserved <= cap - len

(* Appends that fit what Require promised neither move the array nor panic: *)
(* MarshalMsg allocates once, if Msgsize is an upper bound.                *)
NoSurprise ==
  \A p \in 1..MaxPrefix, k \in 0..MaxAlloc :
    p + k <= reserved => LET e == ensure(len, cap, p + k)
                         IN AppendOk(e, p) /\ ~grows(len, cap, p + k) /\ AppendLen(e, p, k) = len + p + k
=============================================================================

---------------------------- MODULE BufferProofs ----------------------------
(***************************************************************************)
(* The output slice is what was appended to it, for every width of int,    *)
(* every memory limit and every sequence of calls.                         *)
(***************************************************************************)
EXTENDS Buffer, SequenceTheorems, TLAPS

(* Go's int arithmetic: a sum that is no int loses or gains 2^w.           *)
LEMMA WrapFacts ==
  ASSUME NEW x \in Int
  PROVE  /\ Wrap(x) \in Int
         /\ x > MaxInt => Wrap(x) = x - MaxInt - MaxInt - 2
         /\ x < -MaxInt - 1 => Wrap(x) = x + MaxInt + MaxInt + 2
         /\ x <= MaxInt /\ x >= -MaxInt - 1 => Wrap(x) = x
  BY IntAssumption DEF Wrap, MinInt

(* What ensure and the append around it do, when they return: room for all *)
(* the bytes behind the old ones, although 2*c+sz, l+sz and p+k may wrap.  *)
LEMMA EnsureFacts ==
  ASSUME NEW l \in Nat, NEW c \in Nat, l <= c, c <= MaxAlloc,
         NEW p \in 1..MaxPrefix, NEW k \in 0..MaxAlloc,
         NEW sz, sz = Wrap(p + k), AppendOk(ensure(l, c, sz), p)
  PROVE  LET e == ensure(l, c, sz)
         IN /\ e.cap \in Nat /\ e.cap <= MaxAlloc /\ c <= e.cap
            /\ ~grows(l, c, sz) => e.cap = c
            /\ e.n = l
            /\ AppendLen(e, p, k) = l + p + k
            /\ l + p + k <= e.cap
<1> DEFINE e == ensure(l, c, sz)
<1> USE IntAssumption
<1>1. /\ sz \in Int
      /\ p + k <= MaxInt => sz = p + k
      /\ p + k > MaxInt => sz = p + k - MaxInt - MaxInt - 2
  BY WrapFacts
<1>2. PICK double \in Int : /\ double = Wrap(c + c)
                            /\ c + c <= MaxInt => double = c + c
                            /\ c + c > MaxInt => double = c + c - MaxInt - MaxInt - 2
  BY WrapFacts
<1>3. PICK size \in Int : /\ size = Wrap(double + sz)
                          /\ double + sz > MaxInt => size = double + sz - MaxInt - MaxInt - 2
                          /\ double + sz < -MaxInt - 1 => size = double + sz + MaxInt + MaxInt + 2
                          /\ double + sz <= MaxInt /\ double + sz >= -MaxInt - 1 => size = double + sz
  BY <1>1, WrapFacts
<1>4. CASE grows(l, c, sz)
  <2>1. PICK n \in Int : n = Least(size, l) /\ (size < l => n = size) /\ (size >= l => n = l)
    BY DEF Least
  <2>2. PICK hi \in Int : /\ hi = Wrap(n + sz)
                          /\ n + sz > MaxInt => hi = n + sz - MaxInt - MaxInt - 2
                          /\ n + sz <= MaxInt /\ n + sz >= -MaxInt - 1 => hi = n + sz
    BY <1>1, WrapFacts
  <2>3. e = [cap |-> size, n |-> n, len |-> hi]
    BY <1>2, <1>3, <1>4, <2>1, <2>2 DEF ensure
  <2>4. size \in 0..MaxAlloc /\ hi \in 0..size /\ n + p <= hi
    BY <2>3 DEF AppendOk, ensureOk
  <2>5. sz = p + k
    BY <1>1, <1>4 DEF grows
  <2>6. n = l /\ hi = l + p + k
    BY <1>2, <1>3, <1>4, <2>1, <2>2, <2>4, <2>5 DEF grows
  <2>7. AppendLen(e, p, k) = l + p + k
    BY <2>3, <2>6 DEF AppendLen, Least
  <2>8. c <= size
    BY <1>4, <2>4, <2>5, <2>6 DEF grows
  <2> QED
    BY <1>4, <2>3, <2>4, <2>6, <2>7, <2>8
<1>5. CASE ~grows(l, c, sz)
  <2>1. PICK hi \in Int : /\ hi = Wrap(l + sz)
                          /\ l + sz <= MaxInt /\ l + sz >= -MaxInt - 1 => hi = l + sz
    BY <1>1, WrapFacts
  <2>2. e = [cap |-> c, n |-> l, len |-> hi]
    BY <1>5, <2>1 DEF ensure
  <2>3. hi \in 0..c /\ l + p <= hi
    BY <2>2 DEF AppendOk, ensureOk
  <2>4. sz = p + k /\ hi = l + p + k
    BY <1>1, <1>5, <2>1, <2>3 DEF grows
  <2>5. AppendLen(e, p, k) = l + p + k
    BY <2>2, <2>4 DEF AppendLen, Least
  <2> QED
    BY <1>5, <2>2, <2>3, <2>4, <2>5
<1> QED
  BY <1>4, <1>5

-----------------------------------------------------------------------------
(* A sequence as a function, and back.                                     *)
LEMMA SeqAsFunction ==
  ASSUME NEW c \in Nat, NEW s
  PROVE  s \in [1..c -> Token] <=> s \in Seq(Token) /\ Len(s) = c
OBVIOUS

(* The array a growing slice moves to.                                     *)
LEMMA MovedFacts ==
  ASSUME NEW s \in Seq(Token), NEW n \in 0..Len(s), NEW c \in Nat
  PROVE  /\ Moved(s, n, c) \in Seq(Token)
         /\ Len(Moved(s, n, c)) = c
         /\ \A i \in 1..c : i <= n => Moved(s, n, c)[i] = s[i]
<1>1. \A i \in 1..c : (IF i <= n THEN s[i] ELSE 0) \in Token
  BY TokenAssumption
<1> QED
  BY <1>1 DEF Moved

(***************************************************************************)
(* The inductive invariant: a kept slice that shares the array is not      *)
(* longer than the slice at hand, so the bytes behind len are nobody's.    *)
(***************************************************************************)
HeldShorter == held.arr = arr => Len(held.log) <= len

IInv == TypeOK /\ SliceIsLog /\ HeldIntact /\ RequireKept /\ HeldShorter

(* What a write does to the arrays: the slice keeps its bytes and gets the *)
(* new ones, and no other byte changes.                                    *)
Written(c, s, t) ==
  /\ heap' \in Seq(Seq(Token)) /\ Len(heap') >= Len(heap)
  /\ arr' \in 1..Len(heap') /\ len' = s /\ Len(heap'[arr']) = c
  /\ arr' # arr => arr' = Len(heap) + 1
  /\ \A i \in 1..len : heap'[arr'][i] = heap[arr][i]
  /\ \A i \in len + 1..s : heap'[arr'][i] = t
  /\ \A a \in 1..Len(heap) :
       /\ Len(heap'[a]) = Len(heap[a])
       /\ \A i \in 1..Len(heap[a]) : a # arr' \/ i <= len => heap'[a][i] = heap[a][i]

(* Write, in the slice's array or in a new one, does that.                 *)
LEMMA WriteFacts ==
  ASSUME TypeOK, NEW moved \in BOOLEAN, NEW c \in Nat, NEW s \in Nat, NEW t \in Token,
         len <= s, s <= c, ~moved => c = cap,
         Write(moved, c, len, s, t)
  PROVE  Written(c, s, t)
<1>1. /\ heap \in Seq(Seq(Token)) /\ arr \in 1..Len(heap) /\ heap[arr] \in Seq(Token)
      /\ len \in Nat /\ len <= Len(heap[arr])
  BY DEF TypeOK, cap
<1>2. CASE moved
  <2> DEFINE old == Moved(heap[arr], len, c)
             new == Fill(old, len, s, t)
  <2>1. old \in Seq(Token) /\ Len(old) = c /\ \A i \in 1..c : i <= len => old[i] = heap[arr][i]
    <3>1. len \in 0..Len(heap[arr])
      BY <1>1
    <3> QED
      BY <1>1, <3>1, MovedFacts, Zenon
  <2> HIDE DEF old
  <2>2. /\ new \in Seq(Token) /\ Len(new) = c
        /\ \A i \in 1..c : i <= len => new[i] = old[i]
        /\ \A i \in 1..c : i > len /\ i <= s => new[i] = t
    <3>1. old \in [1..c -> Token]
      BY <2>1, SeqAsFunction
    <3>2. /\ new \in [1..c -> Token]
          /\ \A i \in 1..c : i <= len => new[i] = old[i]
          /\ \A i \in 1..c : i > len /\ i <= s => new[i] = t
      <4>1. Len(old) = c
        BY <3>1, SeqAsFunction
      <4>2. \A i \in 1..c : (IF i \in len + 1..s THEN t ELSE old[i]) \in Token
        BY <1>1, <3>1
      <4> QED
        BY <1>1, <3>1, <4>1, <4>2 DEF Fill
    <3> QED
      BY <3>2, SeqAsFunction
  <2>3. heap' = Append(heap, new) /\ arr' = Len(heap) + 1 /\ len' = s
    BY <1>2 DEF Write, old
  <2> HIDE DEF new
  <2>4. /\ heap' \in Seq(Seq(Token)) /\ Len(heap') = Len(heap) + 1 /\ heap'[arr'] = new
        /\ \A a \in 1..Len(heap) : heap'[a] = heap[a]
    BY <1>1, <2>2, <2>3
  <2>5. \A i \in 1..len : new[i] = heap[arr][i]
    BY <1>1, <2>1, <2>2
  <2>6. \A i \in len + 1..s : new[i] = t
    BY <1>1, <2>2
  <2>7. arr' \in 1..Len(heap') /\ Len(heap') >= Len(heap)
    BY <1>1, <2>3, <2>4
  <2> QED
    BY <2>2, <2>3, <2>4, <2>5, <2>6, <2>7, Zenon DEF Written
<1>3. CASE ~moved
  <2> DEFINE new == Fill(heap[arr], len, s, t)
  <2>0. c = Len(heap[arr])
    BY <1>3 DEF cap
  <2>1. /\ new \in Seq(Token) /\ Len(new) = c
        /\ \A i \in 1..c : i <= len => new[i] = heap[arr][i]
        /\ \A i \in 1..c : i > len /\ i <= s => new[i] = t
    <3>1. heap[arr] \in [1..c -> Token]
      BY <1>1, <2>0, SeqAsFunction
    <3>2. /\ new \in [1..c -> Token]
          /\ \A i \in 1..c : i <= len => new[i] = heap[arr][i]
          /\ \A i \in 1..c : i > len /\ i <= s => new[i] = t
      <4>1. Len(heap[arr]) = c
        BY <3>1, SeqAsFunction
      <4>2. \A i \in 1..c : (IF i \in len + 1..s THEN t ELSE heap[arr][i]) \in Token
        BY <1>1, <3>1
      <4> QED
        BY <1>1, <3>1, <4>1, <4>2 DEF Fill
    <3> QED
      BY <3>2, SeqAsFunction
  <2>2. heap' = [heap EXCEPT ![arr] = new] /\ arr' = arr /\ len' = s
    BY <1>3 DEF Write
  <2> HIDE DEF new
  <2>3. /\ heap' \in Seq(Seq(Token)) /\ Len(heap') = Len(heap) /\ heap'[arr] = new
        /\ \A a \in 1..Len(heap) : a # arr => heap'[a] = heap[a]
    BY <1>1, <2>1, <2>2
  <2> QED
    BY <1>1, <2>0, <2>1, <2>2, <2>3 DEF Written
<1> QED
  BY <1>2, <1>3

(* The sequence of d tokens t.                                              *)
LEMMA TokensAre ==
  ASSUME NEW t \in Token, NEW d \in Nat
  PROVE  \E s \in Seq(Token) : s = Tokens(t, d) /\ Len(s) = d /\ \A i \in 1..d : s[i] = t
<1>1. Tokens(t, d) \in [1..d -> Token] /\ \A i \in 1..d : Tokens(t, d)[i] = t
  BY DEF Tokens
<1>2. Tokens(t, d) \in Seq(Token) /\ Len(Tokens(t, d)) = d
  BY <1>1, SeqAsFunction, Zenon
<1> QED
  BY <1>1, <1>2

(* d tokens t behind the bytes of s.                                       *)
Longer(u, s, d, t) ==
  /\ u \in Seq(Token) /\ Len(u) = Len(s) + d
  /\ \A i \in 1..Len(s) : u[i] = s[i]
  /\ \A i \in Len(s) + 1..Len(s) + d : u[i] = t

(* What d appended tokens are in the log.                                  *)
LEMMA TokensFacts ==
  ASSUME NEW s \in Seq(Token), NEW t \in Token, NEW d \in Nat,
         NEW u, u = s \o Tokens(t, d)
  PROVE  Longer(u, s, d, t)
<1>1. PICK tail \in Seq(Token) : /\ tail = Tokens(t, d) /\ Len(tail) = d
                                /\ \A i \in 1..d : tail[i] = t
  BY TokensAre
<1>2. u = s \o tail
  BY <1>1
<1>3. u \in Seq(Token) /\ Len(u) = Len(s) + d
  BY <1>1, <1>2
<1>4. ASSUME NEW i \in 1..Len(s) PROVE u[i] = s[i]
  BY <1>1, <1>2
<1>5. ASSUME NEW i \in Len(s) + 1..Len(s) + d PROVE u[i] = t
  <2>1. u[i] = tail[i - Len(s)] /\ i - Len(s) \in 1..d
    BY <1>1, <1>2, LenProperties
  <2> QED
    BY <1>1, <2>1
<1> QED
  BY <1>3, <1>4, <1>5 DEF Longer

(* A write of d bytes that has the room keeps the invariant.               *)
LEMMA AppendKeeps ==
  ASSUME IInv, NEW moved \in BOOLEAN, NEW c \in Nat, c <= MaxAlloc, cap <= c, ~moved => c = cap,
         NEW d \in Nat, len + d <= c, NEW t \in Token,
         Write(moved, c, len, len + d, t),
         Longer(log', log, d, t),
         reserved' \in Nat, reserved' <= c - (len + d),
         UNCHANGED <<held, panicked>>
  PROVE  IInv'
<1>1. /\ heap \in Seq(Seq(Token)) /\ arr \in 1..Len(heap)
      /\ held.arr \in 1..Len(heap) /\ held.log \in Seq(Token)
      /\ held \in [arr : 1..Len(heap), log : Seq(Token)]
  BY DEF IInv, TypeOK
<1>2. len \in Nat /\ len + d \in Nat /\ len <= len + d /\ len <= cap /\ cap \in Nat /\ reserved \in Nat
  BY SMTT(30) DEF IInv, TypeOK, cap
<1>3. Len(log) = len /\ (\A i \in 1..len : heap[arr][i] = log[i])
  BY DEF IInv, SliceIsLog, Holds
<1>4. /\ Len(held.log) <= Len(heap[held.arr])
      /\ \A i \in 1..Len(held.log) : heap[held.arr][i] = held.log[i]
      /\ held.arr = arr => Len(held.log) <= len
  BY DEF IInv, HeldIntact, HeldShorter, Holds
<1> DEFINE W1 == heap' \in Seq(Seq(Token)) /\ Len(heap') >= Len(heap) /\ arr' \in 1..Len(heap')
           W2 == len' = len + d /\ Len(heap'[arr']) = c
           W3 == arr' # arr => arr' = Len(heap) + 1
           W4 == \A i \in 1..len : heap'[arr'][i] = heap[arr][i]
           W5 == \A i \in len + 1..len + d : heap'[arr'][i] = t
           W6 == \A a \in 1..Len(heap) :
                   /\ Len(heap'[a]) = Len(heap[a])
                   /\ \A i \in 1..Len(heap[a]) : a # arr' \/ i <= len => heap'[a][i] = heap[a][i]
<1>5. W1 /\ W2 /\ W3 /\ W4 /\ W5 /\ W6
  <2>1. TypeOK
    BY DEF IInv
  <2>2. Written(c, len + d, t)
    BY <1>2, <2>1, WriteFacts
  <2> QED
    BY <2>2, Zenon DEF Written
<1> HIDE DEF W1, W2, W3, W4, W5, W6
<1>6. reserved' \in Nat /\ reserved' <= c - len'
  BY <1>5 DEF W2
<1>7. TypeOK'
  <2>1. held' \in [arr : 1..Len(heap'), log : Seq(Token)]
    BY <1>1, <1>5 DEF W1
  <2>2. panicked' \in BOOLEAN
    BY Zenon DEF IInv, TypeOK
  <2>3. log' \in Seq(Token)
    BY DEF Longer
  <2>4. len' \in 0..cap' /\ cap' <= MaxAlloc
    BY <1>2, <1>5 DEF W2, cap
  <2>5. heap' \in Seq(Seq(Token)) /\ arr' \in 1..Len(heap')
    BY <1>5 DEF W1
  <2> QED
    BY <1>6, <2>1, <2>2, <2>3, <2>4, <2>5, Zenon DEF TypeOK
<1>8. SliceIsLog'
  <2>1. Len(log') = len + d /\ len' = Len(log') /\ Len(log') <= Len(heap'[arr'])
    BY <1>2, <1>3, <1>5 DEF Longer, W2
  <2>2. ASSUME NEW i \in 1..Len(log') PROVE heap'[arr'][i] = log'[i]
    <3>1. CASE i \in 1..len
      BY <1>2, <1>3, <1>5, <3>1, Zenon DEF Longer, W4
    <3>2. CASE i \in len + 1..len + d
      BY <1>2, <1>3, <1>5, <3>2 DEF Longer, W5
    <3> QED
      BY <1>2, <2>1, <3>1, <3>2
  <2> QED
    BY <2>1, <2>2 DEF SliceIsLog, Holds
<1>9. HeldIntact' /\ HeldShorter'
  <2>2. held.arr = arr' => held.arr = arr
    BY <1>1, <1>5 DEF W3
  <2>3. ASSUME NEW i \in 1..Len(held.log) PROVE heap'[held.arr][i] = held.log[i]
    <3>1. Len(held.log) \in Nat /\ Len(heap[held.arr]) \in Nat
      BY <1>1
    <3>2. i \in 1..Len(heap[held.arr]) /\ (held.arr # arr' \/ i <= len)
      BY <1>2, <1>4, <2>2, <3>1
    <3>3. heap'[held.arr][i] = heap[held.arr][i]
      BY <1>1, <1>5, <3>2, Zenon DEF W6
    <3> QED
      BY <1>4, <3>3
  <2>4. Len(held.log) <= Len(heap'[held.arr])
    BY <1>1, <1>4, <1>5 DEF W6
  <2>5. HeldIntact'
    BY <2>3, <2>4 DEF HeldIntact, Holds
  <2>6. HeldShorter'
    <3>1. Len(held.log) \in Nat /\ len' = len + d
      BY <1>1, <1>5 DEF W2
    <3> QED
      BY <1>2, <1>4, <2>2, <3>1 DEF HeldShorter
  <2> QED
    BY <2>5, <2>6
<1>10. RequireKept'
  BY <1>5, <1>6 DEF RequireKept, cap, W2
<1> QED
  BY <1>7, <1>8, <1>9, <1>10 DEF IInv

-----------------------------------------------------------------------------
(* Any slice the client may start with.                                     *)
LEMMA InitIInv ==
  ASSUME Init PROVE IInv
<1>1. PICK c \in 0..MaxAlloc : \E l \in 0..c :
        heap = <<Tokens(0, c)>> /\ len = l /\ log = Tokens(0, l)
  BY DEF Init
<1>0. PICK l \in 0..c : heap = <<Tokens(0, c)>> /\ len = l /\ log = Tokens(0, l)
  BY <1>1
<1>2. /\ arr = 1 /\ held = [arr |-> 1, log |-> <<>>] /\ reserved = 0
  BY DEF Init
<1>3. panicked \in BOOLEAN
  BY Zenon DEF Init
<1>4. c \in Nat /\ l \in Nat /\ l <= c /\ c <= MaxAlloc
  BY IntAssumption
<1>5. PICK a \in Seq(Token) : a = Tokens(0, c) /\ Len(a) = c /\ \A i \in 1..c : a[i] = 0
  BY <1>4, TokensAre, TokenAssumption
<1>6. PICK b \in Seq(Token) : b = Tokens(0, l) /\ Len(b) = l /\ \A i \in 1..l : b[i] = 0
  BY <1>4, TokensAre, TokenAssumption
<1>7. heap = <<a>> /\ len = l /\ log = b
  BY <1>0, <1>5, <1>6
<1>8. heap \in Seq(Seq(Token)) /\ Len(heap) = 1 /\ heap[1] = a
  BY <1>7
<1>9. held \in [arr : 1..Len(heap), log : Seq(Token)] /\ held.arr = 1 /\ Len(held.log) = 0
  BY <1>2, <1>8
<1>10. TypeOK
  <2>1. cap = c
    BY <1>2, <1>5, <1>8 DEF cap
  <2>2. arr \in 1..Len(heap) /\ len \in 0..cap /\ cap <= MaxAlloc /\ reserved \in Nat /\ log \in Seq(Token)
    BY <1>2, <1>4, <1>6, <1>7, <1>8, <2>1
  <2> QED
    BY <1>3, <1>8, <1>9, <2>2, Zenon DEF TypeOK
<1>11. SliceIsLog /\ RequireKept
  BY <1>2, <1>4, <1>5, <1>6, <1>7, <1>8 DEF SliceIsLog, RequireKept, Holds, cap
<1>12. HeldIntact /\ HeldShorter
  BY <1>2, <1>4, <1>5, <1>7, <1>8, <1>9 DEF HeldIntact, HeldShorter, Holds
<1> QED
  BY <1>10, <1>11, <1>12 DEF IInv

(* The facts of the state every step starts from.                          *)
LEMMA StateFacts ==
  ASSUME IInv
  PROVE  /\ len \in Nat /\ cap \in Nat /\ len <= cap /\ cap <= MaxAlloc
         /\ reserved \in Nat /\ reserved <= cap - len /\ log \in Seq(Token)
BY DEF IInv, TypeOK, RequireKept, cap

(* An append of a prefix and a payload that returns.                        *)
LEMMA AppendDataIInv ==
  ASSUME IInv, NEW p \in 1..MaxPrefix, NEW k \in 0..MaxAlloc, NEW t \in Token, AppendData(p, k, t),
         ~Panic
  PROVE  IInv'
<1> DEFINE sz == Wrap(p + k)
           e  == ensure(len, cap, sz)
<1>1. /\ AppendOk(e, p)
      /\ Write(grows(len, cap, sz), e.cap, e.n, AppendLen(e, p, k), t)
      /\ log' = log \o Tokens(t, p + k)
      /\ reserved' = Greatest(reserved - (p + k), 0)
      /\ UNCHANGED <<held, panicked>>
  BY Zenon DEF AppendData
<1>2. /\ e.cap \in Nat /\ e.cap <= MaxAlloc /\ cap <= e.cap
      /\ ~grows(len, cap, sz) => e.cap = cap
      /\ e.n = len /\ AppendLen(e, p, k) = len + p + k /\ len + p + k <= e.cap
  <2> HIDE DEF sz
  <2> QED
    BY <1>1, StateFacts, EnsureFacts, SMTT(30) DEF sz
<1>3. PICK d \in Nat : d = p + k /\ len + p + k = len + d
  BY IntAssumption, StateFacts
<1>4. grows(len, cap, sz) \in BOOLEAN
  BY DEF grows
<1>5. PICK c \in Nat : c = e.cap
  BY <1>2
<1>6. PICK moved \in BOOLEAN : moved = grows(len, cap, sz)
  BY <1>4, Zenon
<1> HIDE DEF sz, e
<1>7. Write(moved, c, len, len + d, t)
  BY <1>1, <1>2, <1>3, <1>5, <1>6, Zenon
<1>8. c <= MaxAlloc /\ cap <= c /\ (~moved => c = cap) /\ len + d <= c
  BY <1>2, <1>3, <1>5, <1>6
<1>9. Longer(log', log, d, t)
  BY <1>1, <1>3, StateFacts, TokensFacts, Zenon
<1>10. reserved' \in Nat /\ reserved' <= c - (len + d)
  BY <1>1, <1>3, <1>8, StateFacts, SMTT(30) DEF Greatest
<1> QED
  BY <1>1, <1>7, <1>8, <1>9, <1>10, AppendKeeps

(* An append of one byte that returns.                                      *)
LEMMA AppendByteIInv ==
  ASSUME IInv, NEW t \in Token, AppendByte(t), ~Panic
  PROVE  IInv'
<1>1. /\ \/ len < cap /\ Write(FALSE, cap, len, len + 1, t)
         \/ cap = len /\ \E c \in len + 1..MaxAlloc : Write(TRUE, c, len, len + 1, t)
      /\ log' = Append(log, t)
      /\ reserved' = Greatest(reserved - 1, 0)
      /\ UNCHANGED <<held, panicked>>
  BY Zenon DEF AppendByte
<1>2. Longer(log', log, 1, t)
  BY <1>1, StateFacts DEF Longer
<1>3. CASE len < cap /\ Write(FALSE, cap, len, len + 1, t)
  <2>1. reserved' \in Nat /\ reserved' <= cap - (len + 1) /\ len + 1 <= cap
    BY <1>1, <1>3, StateFacts DEF Greatest
  <2>2. cap \in Nat /\ cap <= MaxAlloc /\ cap <= cap /\ 1 \in Nat /\ FALSE \in BOOLEAN
    BY StateFacts
  <2> QED
    BY <1>1, <1>2, <1>3, <2>1, <2>2, AppendKeeps, Zenon
<1>4. CASE cap = len /\ \E c \in len + 1..MaxAlloc : Write(TRUE, c, len, len + 1, t)
  <2>1. PICK c \in len + 1..MaxAlloc : Write(TRUE, c, len, len + 1, t)
    BY <1>4, Zenon
  <2>2. c \in Nat /\ c <= MaxAlloc /\ cap <= c /\ len + 1 <= c
    BY <1>4, IntAssumption, StateFacts
  <2>3. reserved' \in Nat /\ reserved' <= c - (len + 1)
    BY <1>1, <1>4, <2>2, StateFacts DEF Greatest
  <2> QED
    BY <1>1, <1>2, <2>1, <2>2, <2>3, AppendKeeps, Zenon
<1> QED
  BY <1>1, <1>3, <1>4, Zenon

(* Require, whether it moves the slice or not.                              *)
LEMMA RequireIInv ==
  ASSUME IInv, NEW extra \in Ints, Require(extra), ~Panic
  PROVE  IInv'
<1>s. /\ len \in Nat /\ cap \in Nat /\ len <= cap /\ cap <= MaxAlloc
      /\ reserved \in Nat /\ reserved <= cap - len
      /\ MaxInt \in Nat /\ MaxAlloc \in Nat /\ MaxAlloc <= MaxInt
  BY StateFacts, IntAssumption
<1>0. extra \in Int /\ extra <= MaxInt /\ extra >= -MaxInt - 1 /\ len + extra \in Int /\ cap + cap \in Int
  BY <1>s DEF Ints, MinInt
<1>1. PICK r \in Int : /\ r = required(len, extra)
                       /\ len + extra > MaxInt => r = len + extra - MaxInt - MaxInt - 2
                       /\ len + extra <= MaxInt => r = len + extra
  <2>1. PICK sum \in Int : sum = len + extra /\ sum >= -MaxInt - 1
    BY <1>0, <1>s
  <2>2. PICK r \in Int : /\ r = Wrap(sum)
                         /\ sum > MaxInt => r = sum - MaxInt - MaxInt - 2
                         /\ sum <= MaxInt => r = sum
    BY <2>1, WrapFacts
  <2>3. r = required(len, extra)
    BY <2>1, <2>2, Zenon DEF required
  <2>4. /\ len + extra > MaxInt => r = len + extra - MaxInt - MaxInt - 2
        /\ len + extra <= MaxInt => r = len + extra
    BY <1>0, <1>s, <2>1, <2>2
  <2> QED
    BY <2>2, <2>3, <2>4, Zenon
<1>2. PICK c \in Int : c = requireCap(len, cap, extra) /\ (cap < r => c >= r)
  <2>1. PICK double \in Int : double = Wrap(cap + cap)
    BY <1>0, WrapFacts
  <2>2. len = 0 => r = extra
    BY <1>0, <1>1
  <2>3. PICK c \in Int : c = IF len = 0 THEN extra ELSE IF double < r THEN r ELSE double
    BY <1>0
  <2>4. c = requireCap(len, cap, extra)
    BY <1>1, <2>1, <2>3, Zenon DEF requireCap, Greatest
  <2> QED
    BY <1>0, <2>2, <2>3, <2>4, <1>s
<1>3. /\ \/ cap >= r /\ UNCHANGED <<heap, arr, len>>
         \/ cap < r /\ c <= MaxAlloc /\ Write(TRUE, c, len, len, 0)
      /\ reserved' = IF len + extra > MaxInt THEN reserved ELSE Greatest(reserved, extra)
      /\ UNCHANGED <<log, held, panicked>>
  BY <1>1, <1>2, Zenon DEF Require
<1>5. CASE cap >= r /\ UNCHANGED <<heap, arr, len>>
  <2>1. reserved' \in Nat /\ reserved' <= cap - len
    BY <1>1, <1>3, <1>0, <1>5, <1>s DEF Greatest
  <2> QED
    BY <1>3, <1>5, <2>1 DEF IInv, TypeOK, SliceIsLog, HeldIntact, Holds, RequireKept, HeldShorter, cap
<1>6. CASE cap < r /\ c <= MaxAlloc /\ Write(TRUE, c, len, len, 0)
  <2>1. len + extra <= MaxInt /\ r = len + extra /\ c \in Nat /\ cap <= c
    <3>1. len + extra > MaxInt => r <= -2
      BY <1>0, <1>1, <1>s
    <3>2. len + extra <= MaxInt
      BY <1>0, <1>6, <3>1, <1>s
    <3> QED
      BY <1>1, <1>2, <1>6, <3>2, <1>s
  <2>2. reserved' \in Nat /\ reserved' <= c - (len + 0) /\ len + 0 = len /\ len + 0 <= c
    <3>0. ~(len + extra > MaxInt)
      BY <1>0, <1>s, <2>1
    <3>1. reserved' = IF reserved < extra THEN extra ELSE reserved
      BY <1>3, <3>0, Zenon DEF Greatest
    <3>2. extra <= c - len /\ len <= c /\ len + 0 = len
      BY <1>0, <1>2, <1>6, <2>1, <1>s
    <3>3. reserved <= c - len /\ reserved \in Nat /\ len \in Nat
      BY <2>1, <1>s
    <3> QED
      BY <1>0, <2>1, <3>1, <3>2, <3>3
  <2>3. Longer(log', log, 0, 0)
    BY <1>3, StateFacts, TokenAssumption DEF Longer
  <2>4. Write(TRUE, c, len, len + 0, 0)
    BY <1>6, <2>2, Zenon
  <2> QED
    BY <1>3, <1>6, <2>1, <2>2, <2>3, <2>4, TokenAssumption, AppendKeeps, Zenon
<1> QED
  BY <1>3, <1>5, <1>6, Zenon

(* Every call keeps the invariant, a panic included.                        *)
LEMMA StepIInv ==
  ASSUME IInv, [Next]_vars PROVE IInv'
<1> USE DEF IInv
<1>1. ASSUME Panic PROVE IInv'
  <2>1. panicked' \in BOOLEAN
    BY <1>1, Zenon DEF Panic
  <2>2. UNCHANGED <<heap, arr, len, log, held, reserved>>
    BY <1>1 DEF Panic
  <2> QED
    BY <2>1, <2>2, Zenon DEF TypeOK, SliceIsLog, HeldIntact, Holds, RequireKept, HeldShorter, cap
<1>2. ASSUME NEW p \in 1..MaxPrefix, NEW k \in 0..MaxAlloc, NEW t \in Token, AppendData(p, k, t)
      PROVE  IInv'
  BY <1>1, <1>2, AppendDataIInv
<1>3. ASSUME NEW t \in Token, AppendByte(t) PROVE IInv'
  BY <1>1, <1>3, AppendByteIInv
<1>4. ASSUME NEW extra \in Ints, Require(extra) PROVE IInv'
  BY <1>1, <1>4, RequireIInv
<1>5. ASSUME Hold PROVE IInv'
  <2>1. held' = [arr |-> arr, log |-> log] /\ UNCHANGED <<heap, arr, len, log, reserved, panicked>>
    BY <1>5 DEF Hold
  <2>2. TypeOK /\ held' \in [arr : 1..Len(heap), log : Seq(Token)]
    BY <2>1 DEF TypeOK
  <2>3. held'.arr = arr /\ held'.log = log
    BY <2>1
  <2>4. TypeOK'
    BY <2>1, <2>2 DEF TypeOK, cap
  <2>5. SliceIsLog' /\ RequireKept'
    BY <2>1 DEF SliceIsLog, Holds, RequireKept, cap
  <2>6. HeldIntact'
    BY <2>1, <2>3, Zenon DEF SliceIsLog, HeldIntact, Holds
  <2>7. HeldShorter'
    <3>1. len' = len /\ len = Len(log) /\ len \in Nat
      BY <2>1 DEF SliceIsLog, TypeOK
    <3> QED
      BY <2>3, <3>1 DEF HeldShorter
  <2> QED
    BY <2>4, <2>5, <2>6, <2>7
<1>6. ASSUME UNCHANGED vars PROVE IInv'
  BY <1>6 DEF vars, TypeOK, SliceIsLog, HeldIntact, Holds, RequireKept, HeldShorter, cap
<1> QED
  BY <1>2, <1>3, <1>4, <1>5, <1>6 DEF Next

(***************************************************************************)
(* However the client mixes the Append functions, Require and the slices   *)
(* it keeps, and whatever int overflows in ensure and Require: the output  *)
(* slice is what was appended, the kept slices still read as they did, and *)
(* the room Require promised is there until it is written to.              *)
(***************************************************************************)
THEOREM BufferSafe ==
  Spec => [](TypeOK /\ SliceIsLog /\ HeldIntact /\ RequireKept)
<1>1. Init => IInv
  BY InitIInv
<1>2. IInv /\ [Next]_vars => IInv'
  BY StepIInv
<1>3. IInv => TypeOK /\ SliceIsLog /\ HeldIntact /\ RequireKept
  BY DEF IInv
<1> QED
  BY <1>1, <1>2, <1>3, PTL DEF Spec

(***************************************************************************)
(* Within the room that Require promised, an append neither moves the      *)
(* slice nor panics.                                                       *)
(***************************************************************************)
THEOREM NoSurprises ==
  Spec => []NoSurprise
<1>1. TypeOK /\ RequireKept => NoSurprise
  <2> SUFFICES ASSUME TypeOK, RequireKept,
                      NEW p \in 1..MaxPrefix, NEW k \in 0..MaxAlloc, p + k <= reserved
               PROVE  LET e == ensure(len, cap, p + k)
                      IN /\ AppendOk(e, p) /\ ~grows(len, cap, p + k)
                         /\ AppendLen(e, p, k) = len + p + k
    BY DEF NoSurprise
  <2>1. /\ len \in Nat /\ cap \in Nat /\ cap <= MaxAlloc /\ reserved \in Nat /\ reserved <= cap - len
        /\ p \in Nat /\ k \in Nat /\ MaxInt \in Nat /\ MaxAlloc <= MaxInt
    BY IntAssumption DEF TypeOK, RequireKept, cap
  <2>2. ~grows(len, cap, p + k)
    BY <2>1 DEF grows
  <2>3. PICK sum \in Int : /\ sum = len + (p + k) /\ sum <= cap
                           /\ sum <= MaxInt /\ sum >= -MaxInt - 1
    BY <2>1, IntAssumption
  <2>4. Wrap(sum) = sum
    BY <2>3, WrapFacts
  <2>5. ensure(len, cap, p + k) = [cap |-> cap, n |-> len, len |-> sum]
    BY <2>2, <2>3, <2>4, Zenon DEF ensure
  <2> QED
    BY <2>1, <2>2, <2>3, <2>5 DEF AppendOk, ensureOk, AppendLen, Least
<1> QED
  BY <1>1, BufferSafe, PTL
=============================================================================

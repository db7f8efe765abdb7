----------------------------- MODULE SkipProofs -----------------------------
(***************************************************************************)
(* Skip stays inside its argument, its recursion and the number of its     *)
(* calls are bounded by the bytes it has passed, and it computes the       *)
(* recursive function of module Decode, for every message and every width  *)
(* of int.                                                                 *)
(***************************************************************************)
EXTENDS SkipSteps, DecodeProofs

(* asz-- never wraps: a call that waits for an element still counts it.    *)
CountsElement == \A i \in 1..Depth - 1 : todo[i] > 0

(* The invariants are inductive together: the position is inside the       *)
(* message because a prefix is measured before it is passed; DepthBounded  *)
(* needs its second conjunct, that a call with elements to go is no deeper *)
(* than the bytes passed, to survive the next call.  The type of todo      *)
(* needs CountsElement: an asz that could go below zero is no uintptr.     *)
IInv == TypeOK /\ InBounds /\ DepthBounded /\ CallsBounded /\ CountsElement

(* The invariant holds when Skip is called. *)
LEMMA InitIInv == Init => IInv
  BY MessagesAssumption DEF Init, IInv, TypeOK, InBounds, DepthBounded, CallsBounded, CountsElement, Depth, Top

(* Every call, failure and return of Skip keeps the invariant. *)
LEMMA StepIInv == IInv /\ [Next]_vars => IInv'
<1> SUFFICES ASSUME IInv, [Next]_vars PROVE IInv'
  OBVIOUS
<1> USE DEF IInv
<1> DEFINE g == getSize(From(msg, pos))
<1>1. From(msg, pos) \in Seq(Byte)
  BY DEF TypeOK, InBounds, From
<1>2. GoodSize(g)
  BY <1>1, GetSizeFacts
<1> HIDE DEF g
<1>3. CASE Enter
  <2>1. /\ g.err = "none" /\ g.sz <= Len(msg) - pos /\ Top > 0 /\ err = "none"
        /\ pos' = pos + g.sz /\ todo' = Append(todo, g.asz) /\ msg' = msg /\ err' = err
    BY <1>3 DEF Enter, g
  <2>0. calls' \in Nat /\ calls' <= calls + 1
    <3>1. calls' = OneMore
      BY <1>3 DEF Enter
    <3> QED BY <3>1 DEF TypeOK, OneMore, MaxCalls
  <2>2. PICK sz, asz \in Nat : sz = g.sz /\ asz = g.asz /\ (asz > 0 => sz >= 1)
    BY <1>2, <2>1 DEF GoodSize
  <2>a. todo \in Seq(Nat) /\ Len(todo) \in Nat /\ pos \in Nat
    BY DEF TypeOK
  <2>b. pos' = pos + sz /\ pos' \in Nat /\ todo' = Append(todo, asz)
    BY <2>1, <2>2, <2>a
  <2>5. todo' \in Seq(Nat) /\ Len(todo') = Len(todo) + 1 /\ todo'[Len(todo')] = asz
    BY <2>2, <2>a, <2>b
  <2>3. TypeOK'
    <3>1. todo' # <<>>
      BY <2>a, <2>5
    <3> QED
      BY <2>0, <2>1, <2>b, <2>5, <3>1 DEF TypeOK
  <2>4. InBounds'
    BY <2>1, <2>2 DEF TypeOK, InBounds
  <2>6. DepthBounded'
    <3>1. Len(todo) <= pos + 1
      BY <2>1 DEF DepthBounded, Depth, Top
    <3>2. Len(todo') <= pos' + 2 /\ (asz > 0 => Len(todo') <= pos' + 1)
      <4>1. pos' = pos + sz /\ Len(todo') = Len(todo) + 1
        BY <2>b, <2>5
      <4> HIDE DEF IInv
      <4> QED BY <2>2, <2>a, <3>1, <4>1, SMTT(30)
    <3> QED
      BY <2>5, <3>2 DEF DepthBounded, Depth, Top
  <2>8. CallsBounded'
    <3> SUFFICES ASSUME Moves(msg) PROVE calls' <= pos'
      BY <2>1 DEF CallsBounded
    <3>1. sz > 0
      <4>1. pos \in 0..Len(msg)
        BY DEF TypeOK, InBounds
      <4> QED BY <2>1, <2>2, <4>1 DEF Moves, g
    <3>2. calls <= pos /\ calls \in Nat
      BY <2>1 DEF CallsBounded, TypeOK
    <3> HIDE DEF IInv
    <3> QED BY <2>0, <2>2, <2>a, <2>b, <3>1, <3>2
  <2>7. CountsElement'
    BY <2>1, <2>2, <2>5 DEF TypeOK, CountsElement, Depth, Top
  <2> QED
    BY <2>3, <2>4, <2>6, <2>7, <2>8
<1>4. CASE Fail
  <2>1. /\ msg' = msg /\ pos' = pos /\ todo' = todo /\ err = "none"
        /\ err' = (IF g.err # "none" THEN g.err ELSE "short") /\ calls' = OneMore
    BY <1>4 DEF Fail, g
  <2>2. calls' \in Nat /\ calls' <= calls + 1
    BY <2>1 DEF TypeOK, OneMore, MaxCalls
  <2>3. err' \in {"short", "prefix"}
    BY <1>2, <2>1 DEF GoodSize
  <2>4. TypeOK' /\ InBounds' /\ DepthBounded' /\ CountsElement'
    BY <2>1, <2>2, <2>3 DEF TypeOK, InBounds, DepthBounded, CountsElement, Depth, Top
  <2>5. CallsBounded'
    BY <2>1, <2>2, <2>3 DEF TypeOK, CallsBounded
  <2> QED BY <2>4, <2>5
<1>5. CASE Return
  <2> DEFINE n == Len(todo) - 1
  <2>1. n \in Nat /\ n >= 1 /\ msg' = msg /\ pos' = pos /\ err' = err /\ calls' = calls
    BY <1>5 DEF Return, Depth, TypeOK
  <2>2. todo' = [i \in 1..n |-> IF i = n THEN todo[i] - 1 ELSE todo[i]]
    BY <1>5 DEF Return, Depth
  <2>3. \A i \in 1..n : todo[i] \in Nat /\ todo[i] > 0
    BY <2>1 DEF TypeOK, CountsElement, Depth
  <2>4. \A i \in 1..n : (IF i = n THEN todo[i] - 1 ELSE todo[i]) \in Nat
    BY <2>3
  <2>5. todo' \in Seq(Nat) /\ Len(todo') = n
    BY <2>1, <2>2, <2>4
  <2>6. \A i \in 1..n - 1 : todo'[i] = todo[i]
    BY <2>1, <2>2
  <2>7. TypeOK'
    BY <2>1, <2>5 DEF TypeOK
  <2>8. InBounds' /\ DepthBounded' /\ CallsBounded'
    BY <2>1, <2>5 DEF TypeOK, InBounds, DepthBounded, CallsBounded, Depth, Top
  <2>9. CountsElement'
    BY <2>1, <2>3, <2>5, <2>6 DEF CountsElement, Depth
  <2> QED
    BY <2>7, <2>8, <2>9
<1>6. CASE UNCHANGED vars
  BY <1>6 DEF vars, TypeOK, InBounds, DepthBounded, CallsBounded, CountsElement, Depth, Top
<1> QED
  BY <1>3, <1>4, <1>5, <1>6 DEF Next

(* Skip, on every slice of bytes and for every width of int, stays inside  *)
(* the slice, recurses no deeper than the bytes it has passed, and, unless *)
(* a length wraps to 0, calls itself no more often than there are bytes.   *)
THEOREM SkipSafe == Spec => [](TypeOK /\ InBounds /\ DepthBounded /\ CallsBounded)
<1>1. Init => IInv
  BY InitIInv
<1>2. IInv /\ [Next]_vars => IInv'
  BY StepIInv
<1>3. IInv => TypeOK /\ InBounds /\ DepthBounded /\ CallsBounded
  BY DEF IInv
<1> QED
  BY <1>1, <1>2, <1>3, PTL DEF Spec

-----------------------------------------------------------------------------
(***************************************************************************)
(* What the calls in progress will return: w[i] is where the loop of call  *)
(* i will stop.  The innermost stops where the function SkipAt says for    *)
(* the place at hand; a caller stops where that call failed, or goes on    *)
(* behind it with one element less; the outermost is the call of Skip.     *)
(***************************************************************************)
Chain(b, p, t, w) ==
  /\ w[Len(t)] = SkipAt(b, p, t[Len(t)])
  /\ \A i \in 1..Len(t) - 1 :
       w[i] = IF w[i + 1].err # NoError THEN w[i + 1] ELSE SkipAt(b, w[i + 1].at, t[i] - 1)
  /\ w[1] = SkipAt(b, 0, 1)

Chained(b, p, t) == \E w : Chain(b, p, t, w)

(* What Skip will return is settled from the start.                        *)
Settled == IF err = "none" THEN Chained(msg, pos, todo)
                           ELSE SkipAt(msg, 0, 1) = stopAt(pos, Err(err, "-"))

(* The chain of the first call.                                            *)
LEMMA FirstChain ==
  ASSUME NEW b
  PROVE  Chained(b, 0, <<1>>)
<1>1. Chain(b, 0, <<1>>, [i \in 1..1 |-> SkipAt(b, 0, 1)])
  BY DEF Chain
<1> QED BY <1>1 DEF Chained

(* A call adds a link to the chain.                                        *)
LEMMA EnterChain ==
  ASSUME NEW b \in Seq(Byte), NEW p \in 0..Len(b), NEW t \in Seq(Nat), t # <<>>,
         t[Len(t)] > 0, Passes(b, p), Chained(b, p, t)
  PROVE  Chained(b, p + SizeAt(b, p).sz, Append(t, SizeAt(b, p).asz))
<1>1. PICK w : Chain(b, p, t, w)
  BY DEF Chained
<1>2. PICK D \in Nat : D = Len(t) /\ D >= 1
  OBVIOUS
<1> DEFINE g == SizeAt(b, p)
           q == p + g.sz
           u == Append(t, g.asz)
           r == SkipAt(b, q, g.asz)
           v == [i \in 1..(D + 1) |-> IF i = D + 1 THEN r ELSE w[i]]
<1>3. Len(u) = D + 1 /\ u[D + 1] = g.asz /\ \A i \in 1..D : u[i] = t[i]
  BY <1>2
<1>4. v[D + 1] = r /\ \A i \in 1..D : v[i] = w[i]
  <2> HIDE DEF r
  <2> QED OBVIOUS
<1>5. t[D] \in Nat /\ t[D] # 0
  BY <1>2
<1>6. w[D] = IF r.err # NoError THEN r ELSE SkipAt(b, r.at, t[D] - 1)
  <2>1. w[D] = SkipAt(b, p, t[D])
    BY <1>1, <1>2 DEF Chain
  <2> QED BY <1>5, <2>1, SkipCases, Zenon
<1> HIDE DEF u, v, r, q
<1>7. v[Len(u)] = SkipAt(b, q, u[Len(u)])
  BY <1>3, <1>4 DEF r
<1>8. v[1] = SkipAt(b, 0, 1)
  BY <1>1, <1>2, <1>4 DEF Chain
<1>9. ASSUME NEW i \in 1..D
      PROVE  v[i] = IF v[i + 1].err # NoError THEN v[i + 1] ELSE SkipAt(b, v[i + 1].at, u[i] - 1)
  <2>0. v[i] = w[i] /\ u[i] = t[i]
    BY <1>3, <1>4
  <2>1. CASE i = D
    <3>1. v[i + 1] = r
      BY <1>4, <2>1
    <3> QED BY <1>6, <2>0, <2>1, <3>1
  <2>2. CASE i # D
    <3>1. i \in 1..Len(t) - 1 /\ i + 1 \in 1..D
      BY <1>2, <2>2
    <3>2. v[i + 1] = w[i + 1]
      BY <1>4, <3>1
    <3>3. w[i] = IF w[i + 1].err # NoError THEN w[i + 1] ELSE SkipAt(b, w[i + 1].at, t[i] - 1)
      BY <1>1, <3>1 DEF Chain
    <3> QED BY <2>0, <3>2, <3>3
  <2> QED BY <2>1, <2>2
<1>10. 1..Len(u) - 1 = 1..D
  BY <1>3
<1>11. Chain(b, q, u, v)
  BY <1>7, <1>8, <1>9, <1>10, Zenon DEF Chain
<1> QED BY <1>11 DEF Chained, q, u

(* A return takes the last link off.                                       *)
Returned(t, u) == /\ Len(t) > 1 /\ t[Len(t)] = 0
                  /\ Len(u) = Len(t) - 1 /\ u[Len(u)] = t[Len(u)] - 1
                  /\ \A i \in 1..Len(u) - 1 : u[i] = t[i]

(* The returns of Skip keep the chain of the calls in progress.            *)
LEMMA ReturnChain ==
  ASSUME NEW b \in Seq(Byte), NEW p \in 0..Len(b), NEW t \in Seq(Nat), NEW u \in Seq(Nat),
         Returned(t, u), Chained(b, p, t)
  PROVE  Chained(b, p, u)
<1> USE DEF Returned
<1>1. PICK w : Chain(b, p, t, w)
  BY DEF Chained
<1>2. PICK D \in Nat : D = Len(u) /\ D >= 1 /\ Len(t) = D + 1
  OBVIOUS
<1>3. w[D + 1] = stopAt(p, NoError)
  <2>1. w[D + 1] = SkipAt(b, p, 0)
    BY <1>1, <1>2 DEF Chain
  <2> QED BY <2>1, SkipCases
<1>4. \A i \in 1..D : w[i] = IF w[i + 1].err # NoError THEN w[i + 1] ELSE SkipAt(b, w[i + 1].at, t[i] - 1)
  BY <1>1, <1>2 DEF Chain
<1>5. w[D] = SkipAt(b, p, u[D])
  <2>1. stopAt(p, NoError).err = NoError /\ stopAt(p, NoError).at = p
    BY DEF stopAt
  <2>2. D \in 1..D /\ u[D] = t[D] - 1
    BY <1>2
  <2>3. w[D] = SkipAt(b, p, t[D] - 1)
    BY <1>3, <1>4, <2>1, <2>2, Zenon
  <2> QED BY <2>2, <2>3
<1>6. \A i \in 1..D - 1 : w[i] = IF w[i + 1].err # NoError THEN w[i + 1] ELSE SkipAt(b, w[i + 1].at, u[i] - 1)
  <2> SUFFICES ASSUME NEW i \in 1..D - 1
               PROVE  w[i] = IF w[i + 1].err # NoError THEN w[i + 1] ELSE SkipAt(b, w[i + 1].at, u[i] - 1)
    OBVIOUS
  <2>0. i \in 1..D /\ i \in 1..Len(u) - 1
    BY <1>2
  <2>1. i \in 1..D /\ u[i] = t[i]
    BY <2>0
  <2> QED BY <1>4, <2>1, Zenon
<1>7. Chain(b, p, u, w)
  BY <1>1, <1>2, <1>5, <1>6, Zenon DEF Chain
<1> QED BY <1>7 DEF Chained

(* An error is returned by every call in progress.                         *)
LEMMA FailChain ==
  ASSUME NEW b \in Seq(Byte), NEW p \in 0..Len(b), NEW t \in Seq(Nat), t # <<>>,
         t[Len(t)] > 0, ~Passes(b, p), Chained(b, p, t)
  PROVE  SkipAt(b, 0, 1) = stopAt(p, Refusal(b, p))
<1>1. PICK w : Chain(b, p, t, w)
  BY DEF Chained
<1>2. PICK D \in Nat : D = Len(t) /\ D >= 1
  OBVIOUS
<1> DEFINE x == stopAt(p, Refusal(b, p))
<1>3. w[D] = x
  <2>1. t[D] \in Nat /\ t[D] # 0 /\ w[D] = SkipAt(b, p, t[D])
    BY <1>1, <1>2 DEF Chain
  <2> QED BY <2>1, SkipCases, Zenon
<1>4. x.err # NoError
  BY RefusalIs DEF stopAt, NoError, ErrShort, Err
<1>5. \A i \in 1..D - 1 : w[i] = IF w[i + 1].err # NoError THEN w[i + 1] ELSE SkipAt(b, w[i + 1].at, t[i] - 1)
  BY <1>1, <1>2, Zenon DEF Chain
<1> HIDE DEF x
<1> DEFINE S == {k \in Nat : w[D - k] = x}
<1>6. 0 \in S
  BY <1>3
<1>7. ASSUME NEW k \in 1..(D - 1), k - 1 \in S PROVE k \in S
  <2>1. PICK i \in 1..(D - 1) : i = D - k /\ i + 1 = D - (k - 1)
    BY <1>2
  <2>2. w[i + 1] = x
    BY <1>7, <2>1
  <2>3. w[i] = x
    BY <1>4, <1>5, <2>2, Zenon
  <2> QED BY <2>1, <2>3
<1>8. PICK n \in Nat : n = D - 1 /\ D - n = 1
  BY <1>2
<1>9. n \in S
  <2> HIDE DEF S
  <2>1. n \in 0..n
    OBVIOUS
  <2> QED BY <1>6, <1>7, <1>8, <2>1, InductTo, Zenon
<1>10. w[1] = x
  BY <1>8, <1>9
<1> QED BY <1>1, <1>10 DEF Chain, x

(* Every call, failure and return keeps what Skip will return.             *)
LEMMA StepSettled == IInv /\ Settled /\ [Next]_vars => Settled'
<1> SUFFICES ASSUME IInv, Settled, [Next]_vars PROVE Settled'
  OBVIOUS
<1>1. /\ msg \in Seq(Byte) /\ pos \in 0..Len(msg) /\ todo \in Seq(Nat) /\ todo # <<>>
      /\ CountsElement
  BY DEF IInv, TypeOK, InBounds
<1>2. CASE Enter
  <2>1. /\ Top > 0 /\ Passes(msg, pos) /\ err = "none" /\ err' = "none" /\ msg' = msg
        /\ pos' = pos + SizeAt(msg, pos).sz /\ todo' = Append(todo, SizeAt(msg, pos).asz)
    BY <1>2 DEF Enter, Passes, SizeAt
  <2>2. Chained(msg, pos, todo)
    BY <2>1 DEF Settled
  <2>3. Chained(msg, pos + SizeAt(msg, pos).sz, Append(todo, SizeAt(msg, pos).asz))
    BY <1>1, <2>1, <2>2, EnterChain DEF Top
  <2> QED BY <2>1, <2>3 DEF Settled
<1>3. CASE Fail
  <2>1. /\ Top > 0 /\ err = "none" /\ msg' = msg /\ pos' = pos
        /\ err' = (IF SizeAt(msg, pos).err # "none" THEN SizeAt(msg, pos).err ELSE "short")
        /\ SizeAt(msg, pos).err # "none" \/ SizeAt(msg, pos).sz > Len(msg) - pos
    BY <1>3 DEF Fail, SizeAt
  <2>2. GoodSize(SizeAt(msg, pos))
    BY <1>1, SizeAtFacts
  <2>3. ~Passes(msg, pos)
    <3>1. SizeAt(msg, pos).sz \in Nat /\ Len(msg) - pos \in Int
      BY <1>1, <2>2 DEF GoodSize
    <3> QED BY <2>1, <3>1 DEF Passes
  <2>4. Chained(msg, pos, todo)
    BY <2>1 DEF Settled
  <2>5. SkipAt(msg, 0, 1) = stopAt(pos, Refusal(msg, pos))
    BY <1>1, <2>1, <2>3, <2>4, FailChain DEF Top
  <2>6. err' # "none" /\ Err(err', "-") = Refusal(msg, pos)
    BY <2>1 DEF Refusal, ErrShort
  <2> QED BY <2>1, <2>5, <2>6 DEF Settled
<1>4. CASE Return
  <2>1. /\ err = "none" /\ err' = "none" /\ msg' = msg /\ pos' = pos
        /\ Len(todo) > 1 /\ todo[Len(todo)] = 0
        /\ todo' = [i \in 1..Len(todo) - 1 |-> IF i = Len(todo) - 1 THEN todo[i] - 1 ELSE todo[i]]
    BY <1>4 DEF Return, Depth, Top
  <2>2. PICK D \in Nat : Len(todo) = D + 1 /\ D >= 1
    BY <1>1, <2>1
  <2>3. todo' = [i \in 1..D |-> IF i = D THEN todo[i] - 1 ELSE todo[i]]
    BY <2>1, <2>2
  <2>4. todo' \in Seq(Nat) /\ Len(todo') = D
    <3>1. todo' \in Seq(Nat)
      BY StepIInv DEF IInv, TypeOK
    <3> QED BY <2>2, <2>3, <3>1
  <2>5. todo'[D] = todo[D] - 1 /\ \A i \in 1..D - 1 : todo'[i] = todo[i]
    BY <2>2, <2>3
  <2>6. Chained(msg, pos, todo)
    BY <2>1 DEF Settled
  <2>7. Returned(todo, todo')
    BY <2>1, <2>2, <2>4, <2>5 DEF Returned
  <2>8. Chained(msg, pos, todo')
    BY <1>1, <2>4, <2>6, <2>7, ReturnChain
  <2> QED BY <2>1, <2>8 DEF Settled
<1>5. CASE UNCHANGED vars
  BY <1>5 DEF vars, Settled
<1> QED BY <1>2, <1>3, <1>4, <1>5 DEF Next

(* What the chain says when Skip is done.                                  *)
LEMMA SettledComputes == IInv /\ Settled => ComputesSkip
<1> SUFFICES ASSUME IInv, Settled, Done
             PROVE  Skip(msg).err.kind = err /\ Skip(msg).o = From(msg, pos)
  BY DEF ComputesSkip
<1>1. /\ msg \in Seq(Byte) /\ pos \in 0..Len(msg) /\ todo \in Seq(Nat) /\ todo # <<>>
  BY DEF IInv, TypeOK, InBounds
<1>2. SkipAt(msg, 0, 1) = stopAt(pos, Err(err, "-"))
  <2>1. CASE err # "none"
    BY <2>1 DEF Settled
  <2>2. CASE err = "none"
    <3>1. Len(todo) = 1 /\ todo[1] = 0
      BY <2>2, Zenon DEF Done, Depth, Top
    <3>2. PICK w : Chain(msg, pos, todo, w)
      BY <2>2 DEF Settled, Chained
    <3>3. w[1] = SkipAt(msg, pos, 0) /\ w[1] = SkipAt(msg, 0, 1)
      BY <3>1, <3>2 DEF Chain
    <3>4. SkipAt(msg, pos, 0) = stopAt(pos, NoError)
      BY <1>1, SkipCases
    <3> QED BY <2>2, <3>3, <3>4 DEF NoError
  <2> QED BY <2>1, <2>2
<1>3. Skip(msg) = Result("-", From(msg, SkipAt(msg, 0, 1).at), SkipAt(msg, 0, 1).err)
  BY DEF Skip, SkipObjects, SkipAt
<1> QED BY <1>2, <1>3 DEF Result, stopAt, Err

(* Skip, call by call, returns what the recursive function returns, on     *)
(* every slice of bytes: its loop and recursion, and the error that all    *)
(* the calls in progress hand on, compute Skip of module Decode.           *)
THEOREM SkipComputes == Spec => []ComputesSkip
<1>1. Init => IInv /\ Settled
  <2>1. Init => Settled
    BY FirstChain DEF Init, Settled
  <2> QED BY <2>1, InitIInv
<1>2. IInv /\ Settled /\ [Next]_vars => (IInv /\ Settled)'
  BY StepIInv, StepSettled
<1>3. IInv /\ Settled => ComputesSkip
  BY SettledComputes
<1> QED BY <1>1, <1>2, <1>3, PTL DEF Spec
=============================================================================

---------------------------- MODULE ErrorsProofs ----------------------------
(***************************************************************************)
(* What an error says survives any number of decoders (errors.go).  The    *)
(* invariant Inv: an error is layers of errWrapped around what the reader  *)
(* made, ErrShortBytes and the errors with a context never have a layer    *)
(* around them.  PathInv adds what the layers say of the decoders passed.  *)
(* Cause and Resumable go through the layers in a loop, and the path is a  *)
(* FlattenSeq: their values come by induction on the number of layers.     *)
(***************************************************************************)
EXTENDS Errors, WellFoundedInduction, SequenceTheorems, TLAPS

(* A set of natural numbers has a least member.                            *)
LEMMA LeastMember ==
  ASSUME NEW T \in SUBSET Nat, T # {}
  PROVE  \E x \in T : \A y \in T : x <= y
<1> DEFINE R == OpToRel(<, Nat)
<1>1. \A y, z \in Nat : y < z => <<y, z>> \in R
  <2> SUFFICES ASSUME NEW y \in Nat, NEW z \in Nat, y < z PROVE <<y, z>> \in R
    OBVIOUS
  <2>1. <<y, z>> \in Nat \X Nat /\ <<y, z>>[1] = y /\ <<y, z>>[2] = z
    OBVIOUS
  <2> QED BY <2>1, Zenon DEF OpToRel
<1>2. IsWellFoundedOn(R, Nat)
  BY NatLessThanWellFounded
<1> HIDE DEF R
<1>3. PICK x \in T : \A y \in T : ~(<<y, x>> \in R)
  BY <1>2, WFMin, Zenon
<1>4. ASSUME NEW y \in T, ~(x <= y) PROVE FALSE
  <2>1. y \in Nat /\ x \in Nat /\ y < x
    BY <1>4
  <2> QED BY <1>1, <1>3, <2>1, Zenon
<1> QED BY <1>3, <1>4

(* Induction: a set that has 0, and the successor of what it has.          *)
LEMMA Induct ==
  ASSUME NEW S, 0 \in S, \A n \in Nat : n \in S => n + 1 \in S
  PROVE  \A n \in Nat : n \in S
<1> DEFINE T == Nat \ S
<1> SUFFICES ASSUME T # {} PROVE FALSE
  OBVIOUS
<1>1. PICK x \in T : \A y \in T : x <= y
  BY LeastMember, Zenon
<1>2. x # 0 /\ x - 1 \in Nat
  BY <1>1
<1>3. x - 1 \in S
  BY <1>1, <1>2
<1> QED BY <1>1, <1>2, <1>3

(* Induction as far as n.                                                  *)
LEMMA InductTo ==
  ASSUME NEW n \in Nat, NEW S, 0 \in S, \A i \in 1..n : i - 1 \in S => i \in S
  PROVE  \A i \in 0..n : i \in S
<1> DEFINE T == {i \in Nat : i <= n => i \in S}
<1>1. 0 \in T
  OBVIOUS
<1>2. ASSUME NEW i \in Nat, i \in T PROVE i + 1 \in T
  <2>1. CASE i + 1 <= n
    <3>1. i + 1 \in 1..n /\ (i + 1) - 1 = i /\ i \in S
      BY <1>2, <2>1
    <3>2. i + 1 \in S
      BY <3>1
    <3> QED BY <3>2
  <2>2. CASE ~(i + 1 <= n)
    BY <2>2
  <2> QED BY <2>1, <2>2
<1>3. \A i \in Nat : i \in T
  <2> HIDE DEF T
  <2> QED BY <1>1, <1>2, Induct
<1> QED BY <1>3

(* f[i] is the value after i rounds of a loop of count rounds, which       *)
(* starts with v0 and goes in round i from v to step[i][v].                *)
Rounds(V, v0, step, count, f) ==
  /\ f \in [0..count -> V]
  /\ f[0] = v0
  /\ \A i \in 1..count : f[i] = step[i][f[i - 1]]

(* A loop has a value after each round.                                    *)
LEMMA Iterate ==
  ASSUME NEW V, NEW v0 \in V, NEW step, NEW count \in Nat,
         \A i \in Nat : \A v \in V : step[i][v] \in V
  PROVE  \E f : Rounds(V, v0, step, count, f)
<1> DEFINE S == {n \in Nat : \E f : Rounds(V, v0, step, n, f)}
<1>1. 0 \in S
  <2>1. Rounds(V, v0, step, 0, [i \in 0..0 |-> v0])
    BY DEF Rounds
  <2> QED BY <2>1
<1>2. ASSUME NEW n \in Nat, n \in S PROVE n + 1 \in S
  <2>1. PICK f : Rounds(V, v0, step, n, f)
    BY <1>2
  <2> DEFINE new == step[n + 1][f[n]]
             g == [i \in 0..(n + 1) |-> IF i <= n THEN f[i] ELSE new]
  <2>2. new \in V
    BY <2>1 DEF Rounds
  <2>3. (\A i \in 0..n : g[i] = f[i]) /\ g[n + 1] = new
    OBVIOUS
  <2>4. g \in [0..(n + 1) -> V] /\ g[0] = v0
    <3> HIDE DEF new
    <3> QED BY <2>1, <2>2 DEF Rounds
  <2> HIDE DEF g
  <2>5. ASSUME NEW i \in 1..(n + 1) PROVE g[i] = step[i][g[i - 1]]
    <3>1. g[i - 1] = f[i - 1]
      BY <2>3
    <3>2. CASE i <= n
      BY <2>1, <2>3, <3>1, <3>2 DEF Rounds
    <3>3. CASE i = n + 1
      <4>1. g[i] = step[i][f[n]] /\ i - 1 = n
        BY <2>3, <3>3
      <4> QED BY <3>1, <4>1
    <3> QED BY <3>2, <3>3
  <2>6. Rounds(V, v0, step, n + 1, g)
    BY <2>4, <2>5, Zenon DEF Rounds
  <2> QED BY <2>6
<1>3. \A n \in Nat : n \in S
  <2> HIDE DEF S
  <2> QED BY <1>1, <1>2, Induct
<1> QED BY <1>3

(* Two functions that start alike and go on alike are alike.               *)
LEMMA SameRounds ==
  ASSUME NEW n \in Nat, NEW f, NEW g, f[0] = g[0],
         \A i \in 1..n : f[i - 1] = g[i - 1] => f[i] = g[i]
  PROVE  \A i \in 0..n : f[i] = g[i]
<1> DEFINE S == {i \in Nat : f[i] = g[i]}
<1>1. 0 \in S /\ \A i \in 1..n : i - 1 \in S => i \in S
  OBVIOUS
<1> HIDE DEF S
<1>2. \A i \in 0..n : i \in S
  BY <1>1, InductTo
<1> QED BY <1>2 DEF S

Ctx   == Seq(Names \cup {""})
Layer == [kind : Kinds \cup {"errWrapped"}, ctx : Ctx]

Inv == err # <<>> =>
         /\ err \in Seq(Layer)
         /\ Last(err).kind \in Kinds
         /\ \A i \in 1..(Len(err) - 1) : err[i].kind = "errWrapped"
         /\ Last(err).kind = "errShort" => err = ErrShortBytes
         /\ Last(err).kind \in contextError => Len(err) = 1

(* errWrapped is none of the kinds of error a reader makes.                *)
LEMMA WrappedIsNew == "errWrapped" \notin Kinds /\ "errShort" \in Kinds /\ "errShort" \notin contextError
  BY DEF Kinds, contextError, plainError, otherError

(* The names a decoder passes to WrapError are a context.                  *)
LEMMA PathIsCtx == ASSUME NEW ctx \in SeqOf(Names, MaxPath) PROVE ctx \in Ctx /\ ctxString(ctx) \in Ctx
<1>1. PICK m \in 0..MaxPath : ctx \in [1..m -> Names]
  BY DEF SeqOf
<1>2. m \in Nat
  BY PathAssumption
<1>3. ctx \in [1..m -> Names \cup {""}]
  BY <1>1
<1>4. ctx \in Ctx
  BY <1>2, <1>3, SeqDef, Zenon DEF Ctx
<1>5. <<>> \in Ctx
  BY EmptySeq DEF Ctx
<1> QED BY <1>4, <1>5, Zenon DEF ctxString

(* addCtx puts two contexts together.                                      *)
LEMMA AddIsCtx == ASSUME NEW a \in Ctx, NEW b \in Ctx PROVE addCtx(a, b) \in Ctx
<1> DEFINE N == Names \cup {""}
<1>1. <<"">> \in Seq(N)
  OBVIOUS
<1>2. <<"">> \o a \in Seq(N) /\ b \o a \in Seq(N)
  BY <1>1, ConcatProperties DEF Ctx
<1> QED BY <1>2, Zenon DEF addCtx, Ctx

(* A reader makes an error of one layer.                                   *)
LEMMA FailInv == ASSUME NEW kind \in Kinds, Fail(kind) PROVE Inv'
<1> DEFINE new == [kind |-> kind, ctx |-> <<>>]
<1>1. new \in Layer /\ err' = <<new>>
  BY DEF Fail, New, Layer, Ctx
<1>2. Last(err') = new /\ Len(err') = 1
  BY <1>1 DEF Last
<1>3. kind = "errShort" => err' = ErrShortBytes
  BY <1>1 DEF ErrShortBytes, New
<1> QED BY <1>1, <1>2, <1>3 DEF Inv

(* WrapError changes the only layer of an error with a context of its own, *)
(* puts a layer around any other, and leaves ErrShortBytes alone.          *)
LEMMA WrapInv == ASSUME Inv, NEW ctx \in SeqOf(Names, MaxPath), Wrap(ctx) PROVE Inv'
<1> DEFINE c == ctxString(ctx)
<1>1. err \in Seq(Layer) /\ err # <<>> /\ Len(err) > 0 /\ Head(err) = err[1] /\ c \in Ctx /\ err[1] \in Layer
  BY PathIsCtx DEF Inv, Wrap
<1>2. Last(err) = err[Len(err)]
  BY DEF Last
<1>3. CASE err[1].kind = "errShort"
  BY <1>1, <1>3, WrappedIsNew DEF Inv, Wrap, WrapError
<1>4. CASE err[1].kind \in contextError
  <2> DEFINE d == IF err[1].kind = "UintBelowZero" THEN c ELSE addCtx(err[1].ctx, c)
             x == [err[1] EXCEPT !.ctx = d]
  <2>1. Len(err) = 1
    <3>1. err[1].kind # "errWrapped"
      BY <1>4 DEF contextError
    <3>2. Len(err) \in Nat /\ Len(err) > 0
      BY <1>1, LenProperties
    <3>3. ~(1 <= Len(err) - 1)
      BY <1>1, <3>1, <3>2 DEF Inv
    <3>4. \A n \in Nat : n > 0 /\ ~(1 <= n - 1) => n = 1
      OBVIOUS
    <3> QED BY <3>2, <3>3, <3>4, Zenon
  <2>2. err[1].ctx \in Ctx /\ err[1].kind \in Kinds \cup {"errWrapped"}
    BY <1>1 DEF Layer
  <2>3. d \in Ctx
    BY <1>1, <2>2, AddIsCtx
  <2>4. x \in Layer /\ x.kind = err[1].kind
    BY <1>1, <2>2, <2>3 DEF Layer
  <2>5. err' = <<x>>
    BY <1>1, <1>4, WrappedIsNew, Zenon DEF Wrap, WrapError, withContext
  <2>6. Last(err') = x /\ Len(err') = 1 /\ err' \in Seq(Layer)
    BY <2>4, <2>5 DEF Last
  <2>7. x.kind \in Kinds /\ x.kind # "errShort"
    BY <1>2, <1>4, <2>1, <2>4, WrappedIsNew DEF Kinds
  <2> QED BY <2>6, <2>7 DEF Inv
<1>5. CASE err[1].kind # "errShort" /\ err[1].kind \notin contextError
  <2> DEFINE w == [kind |-> "errWrapped", ctx |-> c]
  <2>1. w \in Layer
    BY <1>1 DEF Layer
  <2>2. err' = <<w>> \o err
    BY <1>1, <1>5 DEF Wrap, WrapError
  <2>3. /\ err' \in Seq(Layer) /\ err' # <<>> /\ Len(err') = Len(err) + 1
        /\ err'[1] = w /\ \A i \in 1..Len(err) : err'[i + 1] = err[i]
    BY <1>1, <2>1, <2>2
  <2>4. Last(err') = Last(err)
    BY <1>1, <1>2, <2>3 DEF Last
  <2>5. \A i \in 1..(Len(err') - 1) : err'[i].kind = "errWrapped"
    <3> SUFFICES ASSUME NEW i \in 1..Len(err) PROVE err'[i].kind = "errWrapped"
      BY <1>1, <2>3
    <3>1. CASE i = 1
      BY <2>3, <3>1
    <3>2. CASE i # 1
      <4>1. i - 1 \in 1..(Len(err) - 1) /\ err'[i] = err[i - 1]
        BY <1>1, <2>3, <3>2
      <4> QED BY <1>1, <4>1 DEF Inv
    <3> QED BY <3>1, <3>2
  <2>6. Last(err).kind # "errShort"
    BY <1>1, <1>5 DEF Inv, ErrShortBytes, New
  <2>7. Last(err).kind \notin contextError
    <3>1. Len(err) = 1 => Last(err) = err[1]
      BY <1>2
    <3> QED BY <1>1, <1>5, <3>1 DEF Inv
  <2> QED BY <1>1, <2>3, <2>4, <2>5, <2>6, <2>7 DEF Inv
<1> QED BY <1>3, <1>4, <1>5

(* The invariant is inductive.                                             *)
LEMMA StepInv == Inv /\ [Next]_vars => Inv'
<1> SUFFICES ASSUME Inv, [Next]_vars PROVE Inv'
  OBVIOUS
<1>1. ASSUME NEW kind \in Kinds, Fail(kind) PROVE Inv'
  BY <1>1, FailInv
<1>2. ASSUME NEW ctx \in SeqOf(Names, MaxPath), Wrap(ctx) PROVE Inv'
  BY <1>2, WrapInv
<1>3. CASE UNCHANGED vars
  BY <1>3 DEF vars, Inv
<1> QED BY <1>1, <1>2, <1>3 DEF Next

(* However many decoders an error passes, with whatever names, it equals   *)
(* ErrShortBytes exactly if it was that when the reader made it.           *)
THEOREM ShortSurvives == Spec => []ShortIsShort
<1>1. Init => Inv
  BY DEF Init, Inv
<1>2. Inv => ShortIsShort
  BY DEF Inv, ShortIsShort, Root, ErrShortBytes, New, Last
<1> QED BY <1>1, <1>2, StepInv, PTL DEF Spec

-----------------------------------------------------------------------------
(* The loop of FlattenSeq, as a relation: f[i] is ss[1] to ss[i] in one.   *)
Flattens(V, n, ss, f) ==
  /\ f \in [1..n -> V]
  /\ f[1] = ss[1]
  /\ \A i \in 2..n : f[i] = f[i - 1] \o ss[i]

(* What the proofs use of the sequences in V.                              *)
Closed(V) == /\ \A a, b \in V : a \o b \in V
             /\ \A a, b, c \in V : (a \o b) \o c = a \o (b \o c)

(* Sequences are closed under concatenation, which is associative.         *)
LEMMA SeqClosed == ASSUME NEW S PROVE Closed(Seq(S))
<1>1. ASSUME NEW a \in Seq(S), NEW b \in Seq(S) PROVE a \o b \in Seq(S)
  BY ConcatProperties
<1>2. ASSUME NEW a \in Seq(S), NEW b \in Seq(S), NEW c \in Seq(S) PROVE (a \o b) \o c = a \o (b \o c)
  BY ConcatAssociative
<1> QED BY <1>1, <1>2, Zenon DEF Closed

(* There is one.                                                           *)
LEMMA FlattensExists ==
  ASSUME NEW V, Closed(V),
         NEW n \in Nat \ {0}, NEW ss \in [1..n -> V]
  PROVE  \E f : Flattens(V, n, ss, f)
<1> DEFINE step == [i \in Nat |-> [v \in V |-> IF i + 1 \in 1..n THEN v \o ss[i + 1] ELSE v]]
<1>1. PICK m \in Nat : n = m + 1
  BY n - 1 \in Nat, n = (n - 1) + 1
<1>2. \A i \in Nat : \A v \in V : step[i][v] \in V
  BY DEF Closed
<1>3. ASSUME NEW i \in 1..m, NEW v \in V PROVE step[i][v] = v \o ss[i + 1]
  <2>1. i + 1 \in 1..n /\ i \in Nat
    BY <1>1
  <2> QED BY <2>1, Zenon
<1> HIDE DEF step
<1>4. PICK g : Rounds(V, ss[1], step, m, g)
  <2>1. ss[1] \in V
    BY <1>1
  <2> QED BY <1>2, <2>1, Iterate, Zenon
<1> DEFINE f == [i \in 1..n |-> g[i - 1]]
<1>5. f \in [1..n -> V] /\ f[1] = ss[1]
  BY <1>1, <1>4 DEF Rounds
<1>7. ASSUME NEW i \in 2..n PROVE f[i] = f[i - 1] \o ss[i]
  <2>1. i - 1 \in 1..m /\ g[i - 2] \in V /\ (i - 1) - 1 = i - 2 /\ (i - 1) + 1 = i
    BY <1>1, <1>4 DEF Rounds
  <2>2. g[i - 1] = g[i - 2] \o ss[i]
    BY <1>3, <1>4, <2>1, Zenon DEF Rounds
  <2>3. f[i] = g[i - 1] /\ f[i - 1] = g[i - 2]
    BY <1>1, <2>1
  <2> QED BY <2>2, <2>3, Zenon
<1> HIDE DEF f
<1> QED BY <1>5, <1>7, Zenon DEF Flattens

(* It is what FlattenSeq computes.                                         *)
LEMMA FlattenIs ==
  ASSUME NEW V, NEW n \in Nat \ {0}, NEW ss, n = Len(ss), NEW f, Flattens(V, n, ss, f)
  PROVE  FlattenSeq(ss) = f[n]
<1> DEFINE Body(h, i) == IF i = 1 THEN ss[i] ELSE h[i - 1] \o ss[i]
           c == CHOOSE h : h = [i \in 1..n |-> Body(h, i)]
<1>2. f = [i \in 1..n |-> Body(f, i)]
  <2>1. f = [i \in 1..n |-> f[i]]
    BY DEF Flattens
  <2>2. ASSUME NEW i \in 1..n PROVE f[i] = Body(f, i)
    <3>1. CASE i = 1
      BY <3>1 DEF Flattens
    <3>2. CASE i \in 2..n
      BY <3>2, Zenon DEF Flattens
    <3> QED BY <3>1, <3>2
  <2> HIDE DEF Body
  <2> QED BY <2>1, <2>2
<1>3. c = [i \in 1..n |-> Body(c, i)]
  BY <1>2, Zenon
<1>4. FlattenSeq(ss) = c[n]
  BY Zenon DEF FlattenSeq
<1>5. \A i \in 1..n : c[i] = Body(c, i)
  <2> HIDE DEF c, Body
  <2> QED BY <1>3
<1> HIDE DEF c
<1> DEFINE T == {i \in Nat : i + 1 <= n => c[i + 1] = f[i + 1]}
<1>6. 0 \in T
  <2>1. c[1] = f[1]
    BY <1>5 DEF Flattens
  <2> QED BY <2>1
<1>7. ASSUME NEW i \in Nat, i \in T PROVE i + 1 \in T
  <2> SUFFICES ASSUME (i + 1) + 1 <= n PROVE c[(i + 1) + 1] = f[(i + 1) + 1]
    OBVIOUS
  <2>1. PICK j \in 2..n : j = (i + 1) + 1 /\ j - 1 = i + 1 /\ j \in 1..n /\ j # 1
    OBVIOUS
  <2>2. c[j - 1] = f[j - 1]
    BY <1>7, <2>1
  <2>3. c[j] = c[j - 1] \o ss[j] /\ f[j] = f[j - 1] \o ss[j]
    BY <1>5, <2>1, Zenon DEF Flattens
  <2> QED BY <2>1, <2>2, <2>3
<1>8. \A i \in Nat : i \in T
  <2> HIDE DEF T
  <2> QED BY <1>6, <1>7, Induct
<1>9. c[n] = f[n]
  <2>1. n - 1 \in Nat /\ (n - 1) + 1 = n
    OBVIOUS
  <2>2. (n - 1) + 1 <= n => c[(n - 1) + 1] = f[(n - 1) + 1]
    BY <1>8, <2>1, Zenon
  <2> QED BY <2>1, <2>2
<1> QED BY <1>4, <1>9

(* u is s and then t.                                                      *)
Joined(V, n, m, s, t, u) ==
  /\ \A i \in 1..m : t[i] \in V
  /\ \A i \in 1..(n + m) : u[i] = IF i <= n THEN s[i] ELSE t[i - n]

(* The loop ends with r.                                                   *)
FlattensTo(V, n, ss, r) == \E f : Flattens(V, n, ss, f) /\ r = f[n]

(* The loop, on two sequences together.                                    *)
LEMMA FlattensConcat ==
  ASSUME NEW V, Closed(V),
         NEW n \in Nat \ {0}, NEW m \in Nat \ {0}, NEW s, NEW t, NEW u, NEW f, NEW g,
         Joined(V, n, m, s, t, u),
         Flattens(V, n, s, f), Flattens(V, m, t, g)
  PROVE  FlattensTo(V, n + m, u, f[n] \o g[m])
<1> DEFINE h == [i \in 1..(n + m) |-> IF i <= n THEN f[i] ELSE f[n] \o g[i - n]]
<1>1. (\A i \in 1..n : f[i] \in V) /\ (\A i \in 1..m : g[i] \in V)
  BY DEF Flattens
<1>2. \A i \in 1..(n + m) : h[i] = IF i <= n THEN f[i] ELSE f[n] \o g[i - n]
  OBVIOUS
<1>3. h \in [1..(n + m) -> V]
  <2>1. ASSUME NEW i \in 1..(n + m) PROVE h[i] \in V
    <3>1. CASE i <= n
      BY <1>1, <1>2, <3>1
    <3>2. CASE i > n
      <4>1. i - n \in 1..m /\ n \in 1..n /\ ~(i <= n)
        BY <3>2
      <4>2. f[n] \o g[i - n] \in V
        BY <1>1, <4>1 DEF Closed
      <4> QED BY <1>2, <4>1, <4>2
    <3> QED BY <3>1, <3>2
  <2>2. h = [i \in 1..(n + m) |-> h[i]]
    OBVIOUS
  <2> HIDE DEF h
  <2> QED BY <2>1, <2>2
<1> HIDE DEF h
<1>4. h[1] = u[1]
  <2>1. 1 \in 1..(n + m) /\ 1 <= n
    OBVIOUS
  <2> QED BY <1>2, <2>1 DEF Flattens, Joined
<1>5. ASSUME NEW i \in 2..(n + m) PROVE h[i] = h[i - 1] \o u[i]
  <2>0. i \in 1..(n + m) /\ i - 1 \in 1..(n + m)
    OBVIOUS
  <2>1. CASE i <= n
    <3>1. h[i] = f[i] /\ h[i - 1] = f[i - 1] /\ u[i] = s[i]
      BY <1>2, <2>0, <2>1 DEF Joined
    <3>2. f[i] = f[i - 1] \o s[i]
      <4>1. i \in 2..n
        BY <2>1
      <4> QED BY <4>1, Zenon DEF Flattens
    <3> QED BY <3>1, <3>2, Zenon
  <2>2. CASE i = n + 1
    <3>0. ~(i <= n) /\ i - 1 <= n /\ i - n = 1 /\ i - 1 = n
      BY <2>2
    <3>1. h[i] = f[n] \o g[1] /\ h[i - 1] = f[n] /\ u[i] = t[1]
      BY <1>2, <2>0, <3>0, ZenonT(60) DEF Joined
    <3> QED BY <3>1 DEF Flattens
  <2>3. CASE i > n + 1
    <3>0. PICK j \in 2..m : i = n + j
      BY <2>3, i - n \in 2..m, i = n + (i - n)
    <3>1. h[i] = f[n] \o g[j] /\ h[i - 1] = f[n] \o g[j - 1] /\ u[i] = t[j]
      <4>1. ~(i <= n) /\ ~(i - 1 <= n) /\ i - n = j /\ (i - 1) - n = j - 1
        BY <3>0
      <4> QED BY <1>2, <2>0, <4>1, Zenon DEF Joined
    <3>2. g[j] = g[j - 1] \o t[j]
      BY <3>0, Zenon DEF Flattens
    <3>3. f[n] \in V /\ g[j - 1] \in V /\ t[j] \in V
      BY <1>1, <3>0 DEF Joined
    <3>4. (f[n] \o g[j - 1]) \o t[j] = f[n] \o (g[j - 1] \o t[j])
      BY <3>3, ZenonT(60) DEF Closed
    <3> QED BY <3>1, <3>2, <3>4, Zenon
  <2>4. i <= n \/ i = n + 1 \/ i > n + 1
    OBVIOUS
  <2> QED BY <2>1, <2>2, <2>3, <2>4, Zenon
<1>6. h[n + m] = f[n] \o g[m]
  <2>1. n + m \in 1..(n + m) /\ ~(n + m <= n) /\ (n + m) - n = m
    OBVIOUS
  <2> QED BY <1>2, <2>1, Zenon
<1>7. Flattens(V, n + m, u, h)
  BY <1>3, <1>4, <1>5, Zenon DEF Flattens
<1> QED BY <1>6, <1>7, Zenon DEF FlattensTo

(* FlattenSeq of a sequence of sequences.                                  *)
LEMMA FlattenLoop ==
  ASSUME NEW S, NEW u \in Seq(Seq(S)), u # <<>>
  PROVE  /\ \E f : Flattens(Seq(S), Len(u), u, f) /\ FlattenSeq(u) = f[Len(u)]
         /\ FlattenSeq(u) \in Seq(S)
<1> DEFINE V == Seq(S)
<1>a. Closed(V)
  BY SeqClosed
<1>0. PICK n \in Nat \ {0} : n = Len(u) /\ u \in [1..n -> V]
  BY EmptySeq, LenProperties
<1> HIDE DEF V
<1>1. PICK f : Flattens(V, n, u, f)
  BY <1>a, <1>0, FlattensExists, Zenon
<1>2. FlattenSeq(u) = f[n]
  BY <1>0, <1>1, FlattenIs, Zenon
<1>3. f[n] \in V
  <2>1. n \in 1..n
    OBVIOUS
  <2> QED BY <1>1, <2>1, Zenon DEF Flattens
<1> QED BY <1>0, <1>1, <1>2, <1>3, Zenon DEF V

(* FlattenSeq gives a sequence, also of none.                              *)
LEMMA FlattenType ==
  ASSUME NEW S, NEW u \in Seq(Seq(S))
  PROVE  FlattenSeq(u) \in Seq(S)
<1>1. CASE u = <<>>
  BY <1>1 DEF FlattenSeq
<1>2. CASE u # <<>>
  BY <1>2, FlattenLoop, Zenon
<1> QED BY <1>1, <1>2

(* FlattenSeq of two sequences together.                                   *)
LEMMA FlattenConcat ==
  ASSUME NEW S, NEW s \in Seq(Seq(S)), NEW t \in Seq(Seq(S))
  PROVE  FlattenSeq(s \o t) = FlattenSeq(s) \o FlattenSeq(t)
<1>d. FlattenSeq(<<>>) = <<>>
  BY DEF FlattenSeq
<1>e. FlattenSeq(s) \in Seq(S) /\ FlattenSeq(t) \in Seq(S)
  BY FlattenType, Zenon
<1>3. CASE s = <<>>
  <2>1. s \o t = t /\ <<>> \o FlattenSeq(t) = FlattenSeq(t)
    BY <1>3, <1>e, ConcatEmptySeq, Zenon
  <2> QED BY <1>3, <1>d, <2>1, Zenon
<1>4. CASE t = <<>>
  <2>1. s \o t = s /\ FlattenSeq(s) \o <<>> = FlattenSeq(s)
    BY <1>4, <1>e, ConcatEmptySeq, Zenon
  <2> QED BY <1>4, <1>d, <2>1, Zenon
<1>5. CASE s # <<>> /\ t # <<>>
  <2> DEFINE V == Seq(S)
             u == s \o t
  <2>a. Closed(V)
    BY SeqClosed, Zenon
  <2>1. PICK n \in Nat \ {0} : n = Len(s)
    BY <1>5, EmptySeq, Zenon
  <2>m. PICK m \in Nat \ {0} : m = Len(t) /\ t \in [1..m -> V]
    BY <1>5, EmptySeq, LenProperties, Zenon
  <2>2. PICK f : Flattens(V, n, s, f) /\ FlattenSeq(s) = f[n]
    BY <1>5, <2>1, FlattenLoop, Zenon
  <2>3. PICK g : Flattens(V, m, t, g) /\ FlattenSeq(t) = g[m]
    BY <1>5, <2>m, FlattenLoop, Zenon
  <2>4. Len(u) = n + m /\ Joined(V, n, m, s, t, u)
    <3>1. \A i \in 1..m : t[i] \in V
      BY <2>m
    <3> QED BY <2>1, <2>m, <3>1, ConcatProperties, ZenonT(60) DEF Joined
  <2> HIDE DEF u, V
  <2>5. FlattensTo(V, n + m, u, f[n] \o g[m])
    <3>1. Closed(V) /\ Joined(V, n, m, s, t, u) /\ Flattens(V, n, s, f) /\ Flattens(V, m, t, g)
      BY <2>a, <2>2, <2>3, <2>4, Zenon
    <3> QED BY <3>1, FlattensConcat, Zenon
  <2>6. FlattenSeq(u) = f[n] \o g[m]
    <3>1. n + m \in Nat \ {0}
      OBVIOUS
    <3> QED BY <2>4, <2>5, <3>1, FlattenIs, Zenon DEF FlattensTo
  <2> QED BY <2>2, <2>3, <2>6, Zenon DEF u
<1> QED BY <1>3, <1>4, <1>5, Zenon
-----------------------------------------------------------------------------
(* What the contexts of an error say, when a layer is put around it.       *)

(* One sequence in a sequence.                                             *)
LEMMA FlattenOne == ASSUME NEW S, NEW c \in Seq(S) PROVE FlattenSeq(<<c>>) = c
<1> DEFINE f == [i \in 1..1 |-> c]
<1>1. Flattens(Seq(S), 1, <<c>>, f)
  <2>1. <<c>>[1] = c /\ f[1] = c /\ f \in [1..1 -> Seq(S)] /\ 2..1 = {}
    OBVIOUS
  <2> HIDE DEF f
  <2> QED BY <2>1, Zenon DEF Flattens
<1>2. Len(<<c>>) = 1 /\ f[1] = c /\ 1 \in Nat \ {0}
  OBVIOUS
<1> HIDE DEF f
<1> QED BY <1>1, <1>2, FlattenIs, Zenon

(* A function of 1..n is a sequence of length n.                           *)
LEMMA FunctionIsSeq == ASSUME NEW V, NEW n \in Nat, NEW f, f \in [1..n -> V] PROVE f \in Seq(V) /\ Len(f) = n
  OBVIOUS

Name == Names \cup {""}
keep(ctx) == [i \in 1..Len(ctx) |-> IF ctx[i] = "" THEN <<>> ELSE <<ctx[i]>>]

(* What Named flattens.                                                    *)
LEMMA KeepType == ASSUME NEW a \in Ctx PROVE keep(a) \in Seq(Seq(Name)) /\ Len(keep(a)) = Len(a)
<1>1. PICK n \in Nat : n = Len(a)
  BY LenProperties DEF Ctx
<1>2. ASSUME NEW i \in 1..n PROVE (IF a[i] = "" THEN <<>> ELSE <<a[i]>>) \in Seq(Name)
  <2>1. a[i] \in Name
    BY <1>1, ElementOfSeq, Zenon DEF Ctx, Name
  <2>2. <<>> \in Seq(Name) /\ \A x \in Name : <<x>> \in Seq(Name)
    OBVIOUS
  <2> QED BY <2>1, <2>2, Zenon
<1> DEFINE e(i) == IF a[i] = "" THEN <<>> ELSE <<a[i]>>
<1>3. [i \in 1..n |-> e(i)] \in [1..n -> Seq(Name)]
  BY <1>2, Zenon
<1>4. keep(a) = [i \in 1..n |-> e(i)]
  BY <1>1, Zenon DEF keep
<1>5. keep(a) \in [1..n -> Seq(Name)]
  BY <1>3, <1>4, Zenon
<1> QED BY <1>1, <1>5, FunctionIsSeq, Zenon

(* Leaving out the empty names of two contexts.                            *)
LEMMA NamedConcat ==
  ASSUME NEW a \in Ctx, NEW b \in Ctx
  PROVE  /\ Named(a \o b) = Named(a) \o Named(b)
         /\ Named(a) \in Seq(Name)
<1>1. keep(a) \in Seq(Seq(Name)) /\ keep(b) \in Seq(Seq(Name)) /\ Len(keep(a)) = Len(a) /\ Len(keep(b)) = Len(b)
  BY KeepType, Zenon
<1>2. /\ a \o b \in Ctx /\ Len(a \o b) = Len(a) + Len(b)
      /\ \A i \in 1..Len(a) + Len(b) : (a \o b)[i] = IF i <= Len(a) THEN a[i] ELSE b[i - Len(a)]
  BY ConcatProperties, Zenon DEF Ctx
<1>3. /\ keep(a) \o keep(b) \in Seq(Seq(Name)) /\ Len(keep(a) \o keep(b)) = Len(a) + Len(b)
      /\ \A i \in 1..Len(a) + Len(b) :
            (keep(a) \o keep(b))[i] = IF i <= Len(a) THEN keep(a)[i] ELSE keep(b)[i - Len(a)]
  <2>1. PICK x, y \in Seq(Seq(Name)) : x = keep(a) /\ y = keep(b)
    BY <1>1, Zenon
  <2>2. /\ x \o y \in Seq(Seq(Name)) /\ Len(x \o y) = Len(x) + Len(y)
        /\ \A i \in 1..Len(x) + Len(y) : (x \o y)[i] = IF i <= Len(x) THEN x[i] ELSE y[i - Len(x)]
    BY ConcatProperties, Zenon
  <2>3. Len(x) = Len(a) /\ Len(y) = Len(b)
    BY <1>1, <2>1, Zenon
  <2> QED BY <2>1, <2>2, <2>3, Zenon
<1>4. keep(a \o b) \in Seq(Seq(Name)) /\ Len(keep(a \o b)) = Len(a) + Len(b)
  BY <1>2, KeepType, Zenon
<1>5. ASSUME NEW i \in 1..Len(a) + Len(b) PROVE keep(a \o b)[i] = (keep(a) \o keep(b))[i]
  <2>1. keep(a \o b)[i] = IF (a \o b)[i] = "" THEN <<>> ELSE <<(a \o b)[i]>>
    BY <1>2, Zenon DEF keep
  <2>2. Len(a) \in Nat /\ Len(b) \in Nat
    BY LenProperties DEF Ctx
  <2>3. CASE i <= Len(a)
    <3>1. i \in 1..Len(a)
      BY <2>2, <2>3
    <3>2. keep(a)[i] = IF a[i] = "" THEN <<>> ELSE <<a[i]>>
      BY <3>1, Zenon DEF keep
    <3> QED BY <1>2, <1>3, <2>1, <2>3, <3>2, Zenon
  <2>4. CASE ~(i <= Len(a))
    <3>1. i - Len(a) \in 1..Len(b)
      BY <2>2, <2>4
    <3>2. keep(b)[i - Len(a)] = IF b[i - Len(a)] = "" THEN <<>> ELSE <<b[i - Len(a)]>>
      BY <3>1, Zenon DEF keep
    <3> QED BY <1>2, <1>3, <2>1, <2>4, <3>2, Zenon
  <2> QED BY <2>3, <2>4, Zenon
<1>6. keep(a \o b) = keep(a) \o keep(b)
  BY <1>3, <1>4, <1>5, SeqEqual, Zenon
<1>7. Named(a) = FlattenSeq(keep(a)) /\ Named(b) = FlattenSeq(keep(b)) /\ Named(a \o b) = FlattenSeq(keep(a \o b))
  BY Zenon DEF Named, keep
<1>8. FlattenSeq(keep(a) \o keep(b)) = FlattenSeq(keep(a)) \o FlattenSeq(keep(b))
  BY <1>1, FlattenConcat, Zenon
<1>9. FlattenSeq(keep(a)) \in Seq(Name)
  BY <1>1, FlattenType, Zenon
<1> QED BY <1>6, <1>7, <1>8, <1>9, Zenon

(* No name, or an empty one, leaves no trace.                              *)
LEMMA NamedEmpty == Named(<<>>) = <<>> /\ Named(<<"">>) = <<>> /\ <<"">> \in Ctx
<1>1. [i \in 1..Len(<<>>) |-> IF <<>>[i] = "" THEN <<>> ELSE <<(<<>>)[i]>>] = <<>>
  OBVIOUS
<1>2. Named(<<>>) = FlattenSeq(<<>>)
  BY <1>1, Zenon DEF Named
<1>3. FlattenSeq(<<>>) = <<>>
  BY DEF FlattenSeq
<1>4. keep(<<"">>) = <<(<<>>)>>
  <2>1. <<"">> \in Ctx /\ Len(<<"">>) = 1 /\ <<"">>[1] = "" /\ 1 \in 1..1
    BY DEF Ctx
  <2>2. keep(<<"">>) \in Seq(Seq(Name)) /\ Len(keep(<<"">>)) = 1
    BY <2>1, KeepType, Zenon
  <2>3. keep(<<"">>)[1] = <<>>
    BY <2>1, Zenon DEF keep
  <2>4. PICK x : x = keep(<<"">>)
    OBVIOUS
  <2>5. x \in Seq(Seq(Name)) /\ Len(x) = 1 /\ x[1] = <<>> => x = <<(<<>>)>>
    OBVIOUS
  <2> QED BY <2>2, <2>3, <2>4, <2>5, Zenon
<1>5. Named(<<"">>) = FlattenSeq(<<(<<>>)>>)
  BY <1>4, Zenon DEF Named, keep
<1>6. <<>> \in Seq(Name)
  OBVIOUS
<1>7. <<"">> \in Ctx
  BY DEF Ctx
<1> QED BY <1>2, <1>3, <1>5, <1>6, <1>7, FlattenOne, Zenon

(* One empty name is written like none.                                    *)
LEMMA NamedString == ASSUME NEW ctx \in Ctx PROVE Named(ctxString(ctx)) = Named(ctx)
  BY NamedEmpty, Zenon DEF ctxString

(* addCtx puts the new names before the old ones.                          *)
LEMMA NamedAdd ==
  ASSUME NEW a \in Ctx, NEW b \in Ctx
  PROVE  Named(addCtx(a, b)) = Named(b) \o Named(a)
<1>1. /\ Named(a) \in Seq(Name) /\ Named(b) \in Seq(Name)
      /\ Named(b \o a) = Named(b) \o Named(a)
  BY NamedConcat, Zenon
<1>2. <<"">> \in Ctx
  BY NamedEmpty, Zenon
<1>3. Named(<<"">> \o a) = Named(<<"">>) \o Named(a)
  BY <1>2, NamedConcat, Zenon
<1>4. <<>> \o Named(a) = Named(a) /\ Named(b) \o <<>> = Named(b)
  BY <1>1, ConcatEmptySeq, Zenon
<1> QED BY <1>1, <1>3, <1>4, NamedEmpty, Zenon DEF addCtx

(* The contexts of the layers.                                             *)
Ctxs(e) == [i \in 1..Len(e) |-> e[i].ctx]

(* They are contexts, and are one together.                                *)
LEMMA CtxsType ==
  ASSUME NEW e \in Seq(Layer)
  PROVE  Ctxs(e) \in Seq(Ctx) /\ Len(Ctxs(e)) = Len(e) /\ FlattenSeq(Ctxs(e)) \in Ctx
<1>1. PICK n \in Nat : n = Len(e)
  BY LenProperties
<1>2. ASSUME NEW i \in 1..n PROVE e[i].ctx \in Ctx
  <2>1. e[i] \in Layer
    BY <1>1, ElementOfSeq, Zenon
  <2> QED BY <2>1 DEF Layer
<1>3. Ctxs(e) \in [1..n -> Ctx]
  BY <1>1, <1>2, Zenon DEF Ctxs
<1>4. Ctxs(e) \in Seq(Ctx) /\ Len(Ctxs(e)) = n
  BY <1>3, FunctionIsSeq, Zenon
<1>5. FlattenSeq(Ctxs(e)) \in Ctx
  BY <1>4, FlattenType, Zenon DEF Ctx
<1> QED BY <1>1, <1>4, <1>5

(* The context of an error of one layer.                                   *)
LEMMA ContextOne == ASSUME NEW w \in Layer PROVE Context(<<w>>) = Named(w.ctx)
<1>1. Ctxs(<<w>>) \in Seq(Ctx) /\ Len(Ctxs(<<w>>)) = 1 /\ w.ctx \in Ctx
  <2>1. <<w>> \in Seq(Layer) /\ Len(<<w>>) = 1 /\ w.ctx \in Ctx
    BY DEF Layer
  <2> QED BY <2>1, CtxsType, Zenon
<1>2. Ctxs(<<w>>)[1] = w.ctx
  <2>1. <<w>>[1] = w /\ 1 \in 1..Len(<<w>>)
    OBVIOUS
  <2> QED BY <2>1, Zenon DEF Ctxs
<1>3. \A x, c : x \in Seq(Ctx) /\ Len(x) = 1 /\ x[1] = c => x = <<c>>
  OBVIOUS
<1>4. Ctxs(<<w>>) = <<w.ctx>>
  BY <1>1, <1>2, <1>3, Zenon
<1>5. FlattenSeq(<<w.ctx>>) = w.ctx
  BY <1>1, FlattenOne, Zenon DEF Ctx
<1> QED BY <1>4, <1>5, Zenon DEF Context, Ctxs

(* The context of an error with a layer around it.                         *)
LEMMA ContextWrap ==
  ASSUME NEW w \in Layer, NEW e \in Seq(Layer)
  PROVE  Context(<<w>> \o e) = Named(w.ctx) \o Context(e)
<1> DEFINE x == <<w>> \o e
<1>0. <<w>> \in Seq(Layer) /\ w.ctx \in Ctx
  BY DEF Layer
<1>1. /\ x \in Seq(Layer) /\ Len(x) = 1 + Len(e) /\ Len(e) \in Nat
      /\ \A i \in 1..1 + Len(e) : x[i] = IF i <= 1 THEN w ELSE e[i - 1]
  <2>1. Len(<<w>>) = 1 /\ <<w>>[1] = w
    OBVIOUS
  <2> QED BY <1>0, <2>1, ConcatProperties, LenProperties
<1> HIDE DEF x
<1>2. Ctxs(x) \in Seq(Ctx) /\ Len(Ctxs(x)) = 1 + Len(e)
  BY <1>1, CtxsType, Zenon
<1>3. Ctxs(e) \in Seq(Ctx) /\ Len(Ctxs(e)) = Len(e) /\ FlattenSeq(Ctxs(e)) \in Ctx
  BY CtxsType, Zenon
<1>4. PICK c : c = w.ctx
  OBVIOUS
<1>5. <<c>> \in Seq(Ctx) /\ Len(<<c>>) = 1 /\ <<c>>[1] = c
  BY <1>0, <1>4
<1>6. PICK y \in Seq(Ctx) : y = Ctxs(e) /\ Len(y) = Len(e)
  BY <1>3, Zenon
<1>7. /\ <<c>> \o y \in Seq(Ctx) /\ Len(<<c>> \o y) = 1 + Len(e)
      /\ \A i \in 1..1 + Len(e) : (<<c>> \o y)[i] = IF i <= 1 THEN <<c>>[i] ELSE y[i - 1]
  <2>1. PICK z \in Seq(Ctx) : z = <<c>> /\ Len(z) = 1
    BY <1>5, Zenon
  <2>2. /\ z \o y \in Seq(Ctx) /\ Len(z \o y) = Len(z) + Len(y)
        /\ \A i \in 1..Len(z) + Len(y) : (z \o y)[i] = IF i <= Len(z) THEN z[i] ELSE y[i - Len(z)]
    BY ConcatProperties, Zenon
  <2> QED BY <1>6, <2>1, <2>2, Zenon
<1>8. ASSUME NEW i \in 1..1 + Len(e) PROVE Ctxs(x)[i] = (<<c>> \o y)[i]
  <2>0. Ctxs(x)[i] = x[i].ctx
    BY <1>1, Zenon DEF Ctxs
  <2>1. CASE i <= 1
    <3>1. i = 1
      BY <1>1, <2>1
    <3> QED BY <1>1, <1>4, <1>5, <1>7, <2>0, <2>1, <3>1, Zenon
  <2>2. CASE ~(i <= 1)
    <3>1. i - 1 \in 1..Len(e)
      BY <1>1, <2>2
    <3>2. y[i - 1] = e[i - 1].ctx
      BY <1>6, <3>1, Zenon DEF Ctxs
    <3> QED BY <1>1, <1>7, <2>0, <2>2, <3>2, Zenon
  <2> QED BY <2>1, <2>2, Zenon
<1>9. Ctxs(x) = <<c>> \o y
  BY <1>2, <1>7, <1>8, SeqEqual, Zenon
<1>10. FlattenSeq(<<c>> \o y) = c \o FlattenSeq(y)
  <2>1. FlattenSeq(<<c>>) = c
    BY <1>0, <1>4, FlattenOne, Zenon DEF Ctx
  <2>2. FlattenSeq(<<c>> \o y) = FlattenSeq(<<c>>) \o FlattenSeq(y)
    BY <1>5, FlattenConcat, Zenon DEF Ctx
  <2> QED BY <2>1, <2>2, Zenon
<1>11. Named(c \o FlattenSeq(y)) = Named(c) \o Named(FlattenSeq(y))
  BY <1>0, <1>3, <1>4, <1>6, NamedConcat, Zenon
<1>12. Context(x) = Named(FlattenSeq(Ctxs(x))) /\ Context(e) = Named(FlattenSeq(Ctxs(e)))
  BY Zenon DEF Context, Ctxs
<1> QED BY <1>4, <1>6, <1>9, <1>10, <1>11, <1>12, ZenonT(60) DEF x

-----------------------------------------------------------------------------
(***************************************************************************)
(* Each decoder adds one layer at most, and its names come first.  The     *)
(* exception, UintBelowZero, has no other layer around it (Inv), so it is  *)
(* always withContext that replaces what it said.                          *)
(***************************************************************************)
PathInv ==
  /\ trail \in Seq(Ctx)
  /\ err = <<>> => trail = <<>>
  /\ err # <<>> => Len(err) <= Len(trail) + 1
  /\ err # <<>> /\ Root(err) \notin {"errShort", "UintBelowZero"} => Context(err) = Named(FlattenSeq(trail))
  /\ err # <<>> /\ Root(err) = "UintBelowZero" /\ trail # <<>> => Context(err) = Named(Head(trail))

(* WrapError, by the kind of the error it is given.                        *)
Wrapped(e, ctx, new) ==
  \/ Root(e) = "errShort" /\ new = e /\ Len(e) = 1
  \/ /\ Root(e) \in contextError /\ Root(e) # "errShort"
     /\ \E x, y \in Layer :
          /\ e = <<x>> /\ new = <<y>> /\ y.kind = x.kind /\ x.kind = Root(e)
          /\ y.ctx = IF x.kind = "UintBelowZero" THEN ctxString(ctx) ELSE addCtx(x.ctx, ctxString(ctx))
  \/ /\ Root(e) \notin contextError \cup {"errShort"}
     /\ \E w \in Layer : new = <<w>> \o e /\ w.ctx = ctxString(ctx) /\ w.kind = "errWrapped"

(* It leaves ErrShortBytes alone, changes the only layer of an error with  *)
(* a context, and puts a layer around any other.                           *)
LEMMA WrapShape ==
  ASSUME Inv, NEW ctx \in Ctx, ctxString(ctx) \in Ctx, err # <<>>
  PROVE  Wrapped(err, ctx, WrapError(err, ctx))
<1> DEFINE new == WrapError(err, ctx)
<1> DEFINE c == ctxString(ctx)
<1>1. err \in Seq(Layer) /\ Len(err) \in Nat \ {0} /\ Head(err) = err[1] /\ err[1] \in Layer /\ Root(err) = err[Len(err)].kind
  BY DEF Inv, Root, Last
<1>0. err[1].kind # "errWrapped" => Len(err) = 1
  <2>1. 1 \in 1..(Len(err) - 1) => err[1].kind = "errWrapped"
    BY Zenon DEF Inv
  <2>2. \A n \in Nat \ {0} : 1 \notin 1..(n - 1) => n = 1
    OBVIOUS
  <2> QED BY <1>1, <2>1, <2>2, Zenon
<1>2. CASE err[1].kind = "errShort"
  <2>1. Len(err) = 1
    BY <1>0, <1>2
  <2> QED BY <1>1, <1>2, <2>1 DEF WrapError, Wrapped
<1>3. CASE err[1].kind \in contextError
  <2>1. err[1].kind # "errWrapped" /\ err[1].kind # "errShort"
    BY <1>3 DEF contextError
  <2>2. Len(err) = 1
    BY <1>0, <2>1
  <2>3. PICK x \in Layer : x = err[1] /\ err = <<x>>
    BY <1>1, <2>2
  <2> DEFINE d == IF x.kind = "UintBelowZero" THEN c ELSE addCtx(x.ctx, c)
             y == [x EXCEPT !.ctx = d]
  <2>4. d \in Ctx
    BY <2>3, AddIsCtx DEF Layer
  <2>5. y \in Layer /\ y.kind = x.kind /\ y.ctx = d
    <3> HIDE DEF d
    <3> QED BY <2>3, <2>4 DEF Layer
  <2>6. new = <<y>>
    BY <1>1, <1>3, <2>1, <2>3, Zenon DEF WrapError, withContext
  <2>7. Root(err) = x.kind
    BY <1>1, <2>2, <2>3
  <2> HIDE DEF y
  <2> QED BY <1>3, <2>1, <2>3, <2>5, <2>6, <2>7, ZenonT(60) DEF Wrapped
<1>4. CASE err[1].kind # "errShort" /\ err[1].kind \notin contextError
  <2> DEFINE w == [kind |-> "errWrapped", ctx |-> c]
  <2>1. w \in Layer /\ w.ctx = c /\ w.kind = "errWrapped"
    BY DEF Layer
  <2>2. new = <<w>> \o err
    BY <1>1, <1>4, Zenon DEF WrapError
  <2>3. Root(err) \notin contextError
    BY <1>1, <1>4 DEF Inv, Root, Last
  <2>4. Root(err) # "errShort"
    BY <1>1, <1>4 DEF Inv, ErrShortBytes, New, Root
  <2> HIDE DEF w
  <2> QED BY <2>1, <2>2, <2>3, <2>4, Zenon DEF Wrapped
<1> QED BY <1>2, <1>3, <1>4

(* A reader's error has no context.                                        *)
LEMMA FailPath == ASSUME PathInv, NEW kind \in Kinds, Fail(kind) PROVE PathInv'
<1> DEFINE new == [kind |-> kind, ctx |-> <<>>]
<1>1. new \in Layer /\ new.ctx = <<>> /\ err' = <<new>> /\ trail' = trail /\ trail = <<>>
  BY DEF Fail, New, Layer, Ctx, PathInv
<1>2. Len(err') = 1 /\ err' # <<>> /\ Len(<<>>) = 0
  BY <1>1
<1> HIDE DEF new
<1>3. Context(err') = <<>>
  BY <1>1, ContextOne, NamedEmpty, Zenon
<1>4. Named(FlattenSeq(<<>>)) = <<>>
  <2>1. FlattenSeq(<<>>) = <<>>
    BY DEF FlattenSeq
  <2> QED BY <2>1, NamedEmpty, Zenon
<1>5. trail' \in Seq(Ctx) /\ Len(err') <= Len(trail') + 1
  BY <1>1, <1>2
<1> QED BY <1>1, <1>2, <1>3, <1>4, <1>5, Zenon DEF PathInv

(* WrapError puts the names of its caller before the names there are.      *)
LEMMA WrapPath == ASSUME Inv, PathInv, NEW ctx \in SeqOf(Names, MaxPath), Wrap(ctx) PROVE PathInv'
<1>0. ctx \in Ctx /\ ctxString(ctx) \in Ctx
  BY PathIsCtx, Zenon
<1>1. err # <<>> /\ err' = WrapError(err, ctx) /\ trail' = <<ctx>> \o trail /\ trail \in Seq(Ctx) /\ err \in Seq(Layer)
  BY DEF Wrap, PathInv, Inv
<1>2. /\ trail' \in Seq(Ctx) /\ Len(trail') = Len(trail) + 1 /\ Head(trail') = ctx /\ trail' # <<>>
      /\ Len(trail) \in Nat /\ Len(err) \in Nat
  BY <1>0, <1>1
<1>3. FlattenSeq(trail) \in Ctx /\ FlattenSeq(trail') = ctx \o FlattenSeq(trail)
  <2>1. FlattenSeq(<<ctx>>) = ctx
    BY <1>0, FlattenOne, Zenon DEF Ctx
  <2>2. <<ctx>> \in Seq(Ctx)
    BY <1>0
  <2>3. FlattenSeq(<<ctx>> \o trail) = FlattenSeq(<<ctx>>) \o FlattenSeq(trail)
    BY <1>1, <2>2, FlattenConcat, Zenon DEF Ctx
  <2>4. FlattenSeq(trail) \in Ctx
    BY <1>1, FlattenType, Zenon DEF Ctx
  <2> QED BY <1>1, <2>1, <2>3, <2>4, Zenon
<1>4. Named(FlattenSeq(trail')) = Named(ctx) \o Named(FlattenSeq(trail))
  BY <1>0, <1>3, NamedConcat, Zenon
<1>5. Named(ctxString(ctx)) = Named(ctx)
  BY <1>0, NamedString, Zenon
<1>6. CASE Root(err) = "errShort" /\ err' = err /\ Len(err) = 1
  <2>1. Root(err') = "errShort" /\ "errShort" # "UintBelowZero"
    BY <1>6, Zenon
  <2>2. Len(err') <= Len(trail') + 1
    BY <1>2, <1>6
  <2> QED BY <1>1, <1>2, <2>1, <2>2, <1>6, Zenon DEF PathInv
<1>7. ASSUME Root(err) \in contextError, Root(err) # "errShort",
             NEW x \in Layer, NEW y \in Layer, err = <<x>>, err' = <<y>>, y.kind = x.kind, x.kind = Root(err),
             y.ctx = IF x.kind = "UintBelowZero" THEN ctxString(ctx) ELSE addCtx(x.ctx, ctxString(ctx))
      PROVE  PathInv'
  <2>1. Root(err') = Root(err) /\ Len(err') = 1 /\ err' # <<>>
    <3>1. Last(<<y>>) = y /\ Len(<<y>>) = 1 /\ <<y>> # <<>>
      BY DEF Last
    <3> QED BY <1>7, <3>1, Zenon DEF Root
  <2>2. Context(err) = Named(x.ctx) /\ Context(err') = Named(y.ctx) /\ x.ctx \in Ctx
    <3>1. x.ctx \in Ctx
      BY DEF Layer
    <3> QED BY <1>7, <3>1, ContextOne, Zenon
  <2>3. Len(err') <= Len(trail') + 1
    BY <1>2, <2>1
  <2>4. CASE x.kind = "UintBelowZero"
    <3>1. Context(err') = Named(Head(trail'))
      BY <1>2, <1>5, <1>7, <2>2, <2>4, Zenon
    <3> QED BY <1>2, <1>7, <2>1, <2>3, <2>4, <3>1, Zenon DEF PathInv
  <2>5. CASE x.kind # "UintBelowZero"
    <3>1. Named(y.ctx) = Named(ctx) \o Named(x.ctx)
      BY <1>0, <1>5, <1>7, <2>2, <2>5, NamedAdd, Zenon
    <3>2. Context(err) = Named(FlattenSeq(trail))
      BY <1>1, <1>7, <2>5, Zenon DEF PathInv
    <3> QED BY <1>2, <1>4, <1>7, <2>1, <2>2, <2>3, <2>5, <3>1, <3>2, Zenon DEF PathInv
  <2> QED BY <2>4, <2>5
<1>8. ASSUME Root(err) \notin contextError \cup {"errShort"},
             NEW w \in Layer, err' = <<w>> \o err, w.ctx = ctxString(ctx)
      PROVE  PathInv'
  <2>1. Len(err') = Len(err) + 1 /\ err' # <<>> /\ Last(err') = Last(err)
    BY <1>1, <1>8 DEF Last
  <2>2. Root(err') = Root(err) /\ Root(err) \notin {"errShort", "UintBelowZero"}
    BY <1>8, <2>1 DEF Root, contextError
  <2>3. Context(err') = Named(ctx) \o Context(err)
    BY <1>1, <1>5, <1>8, ContextWrap, Zenon
  <2>4. Context(err) = Named(FlattenSeq(trail)) /\ Len(err) <= Len(trail) + 1
    BY <1>1, <2>2, Zenon DEF PathInv
  <2>5. Len(err') <= Len(trail') + 1
    BY <1>2, <2>1, <2>4
  <2> QED BY <1>2, <1>4, <2>1, <2>2, <2>3, <2>4, <2>5, Zenon DEF PathInv
<1>9. Wrapped(err, ctx, err')
  BY <1>0, <1>1, WrapShape, Zenon
<1> QED BY <1>6, <1>7, <1>8, <1>9, Zenon DEF Wrapped

(* Both invariants together are inductive.                                 *)
LEMMA StepPath == Inv /\ PathInv /\ [Next]_vars => PathInv'
<1> SUFFICES ASSUME Inv, PathInv, [Next]_vars PROVE PathInv'
  OBVIOUS
<1>1. ASSUME NEW kind \in Kinds, Fail(kind) PROVE PathInv'
  BY <1>1, FailPath
<1>2. ASSUME NEW ctx \in SeqOf(Names, MaxPath), Wrap(ctx) PROVE PathInv'
  BY <1>2, WrapPath
<1>3. CASE UNCHANGED vars
  BY <1>3 DEF vars, PathInv, Root, Context
<1> QED BY <1>1, <1>2, <1>3 DEF Next

(* It holds before there is an error.                                      *)
LEMMA InitPath == Init => PathInv
  BY DEF Init, PathInv

(* Through any number of decoders, with any names, the path an error       *)
(* reports is the path it came.                                            *)
THEOREM ContextSurvives == Spec => []ContextKept
<1>1. Init => Inv
  BY DEF Init, Inv
<1>2. PathInv => ContextKept
  BY Zenon DEF PathInv, ContextKept
<1> QED BY <1>1, <1>2, InitPath, StepInv, StepPath, PTL DEF Spec

-----------------------------------------------------------------------------
(* What a client that asks n times for the Cause has: the layers from the  *)
(* n-th on, but always the last.                                           *)
From(e, n) == SubSeq(e, IF n < Len(e) THEN n + 1 ELSE Len(e), Len(e))

(* One more call of Cause takes one more layer off.                        *)
LEMMA CauseStep ==
  ASSUME Inv, err # <<>>, NEW n \in Nat, n > 0
  PROVE  Cause(From(err, n - 1)) = From(err, n)
<1>1. err \in Seq(Layer) /\ Len(err) \in Nat /\ Len(err) > 0
  BY DEF Inv
<1>2. CASE n < Len(err)
  <2>1. n \in 1..Len(err) /\ Len(err) \in n..Len(err) /\ n \in 1..(Len(err) - 1) /\ (n - 1) + 1 = n /\ n - 1 < Len(err)
    BY <1>1, <1>2
  <2>2. From(err, n - 1) = SubSeq(err, n, Len(err)) /\ From(err, n) = SubSeq(err, n + 1, Len(err))
    BY <1>2, <2>1 DEF From
  <2>3. Head(SubSeq(err, n, Len(err))) = err[n] /\ Tail(SubSeq(err, n, Len(err))) = SubSeq(err, n + 1, Len(err))
    BY <1>1, <2>1, HeadTailOfSubSeq, Zenon
  <2>4. err[n].kind = "errWrapped"
    BY <2>1 DEF Inv
  <2> QED BY <2>2, <2>3, <2>4, Zenon DEF Cause
<1>3. CASE ~(n < Len(err))
  <2> DEFINE l == Len(err)
  <2>1. l \in 1..l /\ l \in l..l
    BY <1>1
  <2>2. From(err, n) = SubSeq(err, l, l) /\ From(err, n - 1) = SubSeq(err, l, l)
    <3>1. CASE n - 1 < l
      <4>1. (n - 1) + 1 = l
        BY <1>1, <1>3, <3>1
      <4> QED BY <1>3, <3>1, <4>1 DEF From
    <3>2. CASE ~(n - 1 < l)
      BY <1>3, <3>2 DEF From
    <3> QED BY <3>1, <3>2
  <2>3. Head(SubSeq(err, l, l)) = err[l]
    BY <1>1, <2>1, HeadTailOfSubSeq, Zenon
  <2>4. err[l].kind # "errWrapped"
    BY <1>1, WrappedIsNew DEF Inv, Last
  <2> QED BY <2>2, <2>3, <2>4, Zenon DEF Cause
<1> QED BY <1>2, <1>3

(* A client that asks for the Cause as often as there were decoders has    *)
(* what the reader made, for any number of decoders.                       *)
THEOREM CauseSurvives == Spec => []CauseReaches
<1>1. Init => Inv
  BY DEF Init, Inv
<1>2. Inv /\ PathInv => CauseReaches
  <2> SUFFICES ASSUME Inv, PathInv, err # <<>>
               PROVE  LET asked[n \in 0..Len(trail)] == IF n = 0 THEN err ELSE Cause(asked[n - 1])
                      IN  asked[Len(trail)] = <<Last(err)>>
    BY Zenon DEF CauseReaches
  <2>1. PICK m \in Nat : m = Len(trail)
    BY DEF PathInv
  <2> DEFINE asked == CHOOSE f : f = [n \in 0..m |-> IF n = 0 THEN err ELSE Cause(f[n - 1])]
             g == [n \in 0..m |-> From(err, n)]
  <2>2. err \in Seq(Layer) /\ Len(err) \in Nat /\ Len(err) > 0
    BY DEF Inv
  <2>3. From(err, 0) = err
    <3>1. SubSeq(err, 1, Len(err)) = err
      BY <2>2, SubSeqFull, Zenon
    <3> QED BY <2>2, <3>1 DEF From
  <2>4. ASSUME NEW n \in 0..m PROVE g[n] = IF n = 0 THEN err ELSE Cause(g[n - 1])
    <3>1. CASE n = 0
      BY <2>3, <3>1, Zenon
    <3>2. CASE n # 0
      <4>1. n \in Nat /\ n > 0 /\ n - 1 \in 0..m
        BY <3>2
      <4> QED BY <3>2, <4>1, CauseStep, Zenon
    <3> QED BY <3>1, <3>2, Zenon
  <2>5. g = [n \in 0..m |-> g[n]]
    BY Zenon
  <2>6. g = [n \in 0..m |-> IF n = 0 THEN err ELSE Cause(g[n - 1])]
    <3> HIDE DEF g
    <3> QED BY <2>4, <2>5, Zenon
  <2>7. asked = [n \in 0..m |-> IF n = 0 THEN err ELSE Cause(asked[n - 1])]
    <3> HIDE DEF g
    <3> QED BY <2>6, Zenon
  <2> HIDE DEF asked
  <2>8. asked[0] = g[0]
    BY <2>3, <2>7
  <2>9. ASSUME NEW n \in 1..m, asked[n - 1] = g[n - 1] PROVE asked[n] = g[n]
    <3>1. n \in 0..m /\ n # 0
      OBVIOUS
    <3>2. asked[n] = Cause(asked[n - 1])
      BY <2>7, <3>1, Zenon
    <3> HIDE DEF g
    <3> QED BY <2>4, <2>9, <3>1, <3>2, Zenon
  <2>10. \A n \in 0..m : asked[n] = g[n]
    <3> HIDE DEF g
    <3> QED BY <2>8, <2>9, SameRounds, ZenonT(60)
  <2>11. g[m] = <<Last(err)>>
    <3>1. g[m] = From(err, m)
      OBVIOUS
    <3>2. From(err, m) = SubSeq(err, Len(err), Len(err))
      <4>1. Len(err) <= m + 1
        BY <2>1, <2>2 DEF PathInv
      <4>2. CASE m < Len(err)
        <5>1. m + 1 = Len(err)
          BY <2>2, <4>1, <4>2
        <5> QED BY <4>2, <5>1 DEF From
      <4>3. CASE ~(m < Len(err))
        BY <4>3 DEF From
      <4> QED BY <4>2, <4>3
    <3>3. SubSeq(err, Len(err), Len(err)) = <<err[Len(err)]>>
      <4>1. PICK l : l = Len(err) /\ l \in 1..Len(err) /\ l \in l..Len(err) /\ l \in Int /\ l + 1 \in Int /\ l < l + 1
        BY <2>2
      <4>2. SubSeq(err, l, l) = <<err[l]>> \o SubSeq(err, l + 1, l)
        BY <2>2, <4>1, SubSeqRecursiveFirst, Zenon
      <4>3. SubSeq(err, l + 1, l) = <<>>
        BY <4>1, SubSeqEmpty, Zenon
      <4>4. err[l] \in Layer
        BY <2>2, <4>1, ElementOfSeq, Zenon
      <4>5. \A x \in Layer : <<x>> \o <<>> = <<x>>
        OBVIOUS
      <4> QED BY <4>1, <4>2, <4>3, <4>4, <4>5, Zenon
    <3> QED BY <3>1, <3>2, <3>3 DEF Last
  <2>12. asked[m] = <<Last(err)>>
    <3>1. m \in 0..m
      OBVIOUS
    <3> QED BY <2>10, <2>11, <3>1, Zenon
  <2> QED BY <2>1, <2>12, Zenon DEF asked
<1> QED BY <1>1, <1>2, InitPath, StepInv, StepPath, PTL DEF Spec

-----------------------------------------------------------------------------
(* What an error of this kind answers itself.                              *)
answer(kind) == IF kind \in otherError THEN resumableDefault ELSE kind \in resumableKinds

(* Layers of errWrapped around an error.                                   *)
Layers(e) == /\ e \in Seq(Layer) /\ Len(e) \in Nat \ {0}
             /\ Root(e) = e[Len(e)].kind /\ Root(e) \in Kinds
             /\ \A i \in 1..(Len(e) - 1) : e[i].kind = "errWrapped"

(* Resumable asks the innermost error.                                     *)
LEMMA ResumableIsRoots == ASSUME NEW e, Layers(e) PROVE Resumable(e) = answer(Root(e))
<1> DEFINE Ask(f, i) == IF e[i].kind = "errWrapped" THEN wrappedResumable(e[i+1], f[i+1])
                        ELSE IF e[i].kind \in otherError THEN resumableDefault
                        ELSE e[i].kind \in resumableKinds
           root == answer(Root(e))
<1>1. PICK n \in Nat \ {0} : n = Len(e)
  BY DEF Layers
<1>2. Root(e) = e[n].kind /\ Root(e) \in Kinds /\ Root(e) # "errWrapped"
  BY <1>1, WrappedIsNew DEF Layers
<1>3. ASSUME NEW i \in 1..n, NEW f, i < n => f[i + 1] = root PROVE Ask(f, i) = root
  <2>1. CASE i = n
    BY <1>2, <2>1, Zenon DEF answer
  <2>2. CASE i # n
    <3>1. i \in 1..(n - 1) /\ i < n /\ i + 1 \in 1..n
      BY <2>2
    <3>2. e[i].kind = "errWrapped"
      BY <1>1, <3>1 DEF Layers
    <3>3. CASE i + 1 = n
      BY <1>2, <1>3, <3>1, <3>2, <3>3, Zenon DEF wrappedResumable, answer
    <3>4. CASE i + 1 # n
      <4>1. i + 1 \in 1..(n - 1)
        BY <3>1, <3>4
      <4>2. e[i + 1].kind = "errWrapped"
        BY <1>1, <4>1 DEF Layers
      <4>3. e[i + 1].kind \notin otherError
        BY <4>2 DEF otherError
      <4> QED BY <1>3, <3>1, <3>2, <4>3, Zenon DEF wrappedResumable
    <3> QED BY <3>3, <3>4, Zenon
  <2> QED BY <2>1, <2>2, Zenon
<1> DEFINE ask == CHOOSE f : f = [i \in 1..n |-> Ask(f, i)]
           g == [i \in 1..n |-> root]
<1>4. g = [i \in 1..n |-> Ask(g, i)]
  <2>1. ASSUME NEW i \in 1..n PROVE Ask(g, i) = root
    <3>1. i < n => i + 1 \in 1..n
      OBVIOUS
    <3>2. i < n => g[i + 1] = root
      <4> HIDE DEF root
      <4> QED BY <3>1, Zenon
    <3> HIDE DEF Ask, g, root
    <3> QED BY <1>3, <3>2, Zenon
  <2> HIDE DEF Ask
  <2> QED BY <2>1, Zenon
<1>5. ask = [i \in 1..n |-> Ask(ask, i)]
  <2> HIDE DEF g
  <2> QED BY <1>4, Zenon
<1>6. Resumable(e) = ask[1]
  BY <1>1, Zenon DEF Resumable
<1> HIDE DEF ask, Ask, root, g
<1> DEFINE S == {j \in Nat : j < n => ask[n - j] = root}
<1>7. 0 \in S
  <2>1. n \in 1..n /\ ~(n < n) /\ n - 0 = n
    OBVIOUS
  <2>2. ask[n] = root
    BY <1>3, <1>5, <2>1, Zenon
  <2> QED BY <2>1, <2>2
<1>8. ASSUME NEW j \in Nat, j \in S PROVE j + 1 \in S
  <2> SUFFICES ASSUME j + 1 < n PROVE ask[n - (j + 1)] = root
    OBVIOUS
  <2>1. PICK i \in 1..n : i = n - (j + 1) /\ i + 1 = n - j /\ j < n
    OBVIOUS
  <2>2. ask[i + 1] = root
    BY <1>8, <2>1
  <2> QED BY <1>3, <1>5, <2>1, <2>2, Zenon
<1>9. \A j \in Nat : j \in S
  <2> HIDE DEF S
  <2> QED BY <1>7, <1>8, Induct
<1>10. ask[1] = root
  <2>1. n - 1 \in Nat /\ n - 1 < n /\ n - (n - 1) = 1
    OBVIOUS
  <2> QED BY <1>9, <2>1
<1> QED BY <1>6, <1>10, Zenon DEF root

(* Whatever WrapError does to an error, and however often, a client that   *)
(* asks whether decoding can go on is told what the reader's error says.   *)
THEOREM ResumableSurvives == Spec => ResumableKept
<1>1. Init => Inv
  BY DEF Init, Inv
<1>2. ASSUME Inv, err # <<>> PROVE Layers(err)
  BY <1>2 DEF Inv, Layers, Root, Last
<1>3. ASSUME Inv', err' # <<>> PROVE Layers(err')
  BY <1>3 DEF Inv, Layers, Root, Last
<1>4. Inv /\ [Next]_vars => [err # <<>> => Resumable(err') = Resumable(err)]_vars
  <2> SUFFICES ASSUME Inv, [Next]_vars, vars' # vars, err # <<>> PROVE Resumable(err') = Resumable(err)
    OBVIOUS
  <2>1. PICK ctx \in SeqOf(Names, MaxPath) : Wrap(ctx)
    BY DEF Next, Fail
  <2>2. Wrapped(err, ctx, err')
    <3>1. ctx \in Ctx /\ ctxString(ctx) \in Ctx
      BY PathIsCtx, Zenon
    <3>2. err' = WrapError(err, ctx)
      BY <2>1 DEF Wrap
    <3> QED BY <3>1, <3>2, WrapShape, Zenon
  <2>3. err' # <<>> /\ Root(err') = Root(err)
    <3>1. err \in Seq(Layer)
      BY DEF Inv
    <3>2. CASE err' = err
      BY <3>2
    <3>3. ASSUME NEW x \in Layer, NEW y \in Layer, err = <<x>>, err' = <<y>>, y.kind = x.kind
          PROVE  err' # <<>> /\ Root(err') = Root(err)
      BY <3>3 DEF Root, Last
    <3>4. ASSUME NEW w \in Layer, err' = <<w>> \o err PROVE err' # <<>> /\ Root(err') = Root(err)
      BY <3>1, <3>4 DEF Root, Last
    <3> QED BY <2>2, <3>2, <3>3, <3>4, Zenon DEF Wrapped
  <2>4. Layers(err) /\ Layers(err')
    BY <1>2, <1>3, <2>3, StepInv
  <2> QED BY <2>3, <2>4, ResumableIsRoots, Zenon
<1> QED BY <1>1, <1>4, StepInv, PTL DEF Spec, ResumableKept
=============================================================================

----------------------------- MODULE Generated ------------------------------
(***************************************************************************)
(* A client of the generated methods.  It keeps one variable of a declared *)
(* type and receives messages for it: the encodings MarshalMsg makes of    *)
(* some value, and the encodings other programs make (go-codec).  A        *)
(* message comes in pieces.  The client decodes what it has; if bytes are  *)
(* missing it tries again, with more of them, into the same variable, and  *)
(* a message that was decoded may be delivered once more.                  *)
(***************************************************************************)
EXTENDS Elem

CONSTANTS Roots,        \* the declared types a client may choose
          Values(_),    \* values of a type that are marshalled
          Later(_),     \* values marshalled for the messages after the first
          Foreign(_),   \* messages for a type from elsewhere: [b, once]
          Used(_),      \* what its variable may hold at first
          MaxMessages   \* bound: messages received

Enc == INSTANCE Marshal
Dec == INSTANCE Unmarshal
Siz == INSTANCE Sizes

VARIABLES root,    \* the type of the client's variable
          z,       \* the variable
          msg,     \* the message that is coming in
          got,     \* how many bytes of it the client last decoded
          err,     \* the result of that call
          start,   \* the value of z when the message began to come in
          count    \* messages so far
vars == <<root, z, msg, got, err, start, count>>

(* kind: an "own" message is MarshalMsg's encoding of v; "ordered" and     *)
(* "disordered" ones are encodings of v with keys in another order, which  *)
(* validate cannot see, and can.  In a message with once no key occurs     *)
(* twice in a map.                                                         *)
Message(kind, v, b, once) == [kind |-> kind, v |-> v, b |-> b, once |-> once]
own(name, v) == Message("own", v, Enc!MarshalMsg(name, v), TRUE)

Init == /\ root \in Roots
        /\ z \in Used(root) /\ start = z
        /\ msg = Message("none", z, <<>>, TRUE) /\ got = 0 /\ err = NoError /\ count = 0

(***************************************************************************)
(* The encodings of v with the keys of maps and structs in any order, and  *)
(* whether they are in MarshalMsg's order wherever the code of the message *)
(* itself looks: behind the methods of another type they need not be.      *)
(***************************************************************************)
RECURSIVE Reordered(_, _)
Reordered(e, v) ==
  LET piece(o, sorted) == [b |-> o, sorted |-> sorted]
      then(x, y) == piece(x.b \o y.b, x.sorted /\ y.sorted)
      joined(first, parts) == \* one choice of each set, one after the other
        LET upto[i \in 0..Len(parts)] ==
              IF i = 0 THEN {first} ELSE {then(x, y) : x \in upto[i - 1], y \in parts[i]}
        IN upto[Len(parts)]
      keyed(ks, vs) == \* ks in any order, each with an encoding from vs
        UNION {joined(piece(AppendMapHeader(<<>>, Len(ks)), \A i \in DOMAIN ks : p[i] = i),
                      [i \in DOMAIN ks |-> {piece(AppendString(<<>>, ks[p[i]]) \o x.b, x.sorted) : x \in vs[p[i]]}])
                 : p \in {q \in [DOMAIN ks -> DOMAIN ks] : IsInjective(q)}}
      listed(es, vs) ==
        joined(piece(AppendArrayHeader(<<>>, Len(vs)), TRUE), [i \in DOMAIN vs |-> Reordered(es[i], vs[i])])
      live == SelectSeq(sortedFields(e), LAMBDA i : ~AnyHasTagPart(e, "omitempty") \/ i \notin Enc!emptyMask(e, v))
      keys == Enc!sortedKeys(v)
  IN CASE e.k = "struct" /\ e.tuple -> listed([i \in DOMAIN v |-> e.fields[i].e], v)
       [] e.k = "struct" /\ ~e.tuple ->
            keyed([n \in DOMAIN live |-> e.fields[live[n]].tag],
                  [n \in DOMAIN live |-> Reordered(e.fields[live[n]].e, v[live[n]])])
       [] e.k = "map" /\ ~v.isnil -> keyed(keys, [n \in DOMAIN keys |-> Reordered(e.value, v.m[keys[n]])])
       [] e.k = "slice" /\ ~v.isnil -> listed([i \in DOMAIN v.s |-> e.els], v.s)
       [] e.k = "ptr" /\ v # <<>> -> Reordered(e.value, v[1])
       [] e.k = "ident" -> {piece(x.b, TRUE) : x \in Reordered(Types[e.name], v)}
       [] OTHER -> {piece(Enc!marshal(e, v, <<>>).o, TRUE)}

Messages(name) ==
  {own(name, v) : v \in Values(name)} \cup
  UNION {{Message(IF x.sorted THEN "ordered" ELSE "disordered", v, x.b, TRUE)
            : x \in Reordered(Types[name], v)} : v \in Values(name)} \cup
  {Message("foreign", ZeroOf(Types[name]), f.b, f.once) : f \in Foreign(name)}

(* The client turns to the next message: z keeps what the last one left,   *)
(* also if it was refused.                                                 *)
Receive == /\ count < MaxMessages
           /\ got = Len(msg.b) \/ err \notin {NoError, ErrShort}
           /\ \E m \in IF count = 0 THEN Messages(root) ELSE {own(root, v) : v \in Later(root)} : msg' = m
           /\ start' = z /\ got' = 0 /\ err' = NoError /\ count' = count + 1
           /\ UNCHANGED <<root, z>>

(* A call of UnmarshalMsg, or UnmarshalValidateMsg, on what has come in.   *)
Returned(r) == z' = r.v /\ err' = r.err

Decode(validate) ==
  /\ err \in {NoError, ErrShort} /\ count > 0
  /\ \E n \in (got + 1..Len(msg.b)) \cup {Len(msg.b)} :
       /\ got' = n
       /\ Returned(Dec!unmarshalMsg(root, z, SubSeq(msg.b, 1, n), validate))
  /\ UNCHANGED <<root, msg, start, count>>

Next == Receive \/ \E validate \in BOOLEAN : Decode(validate)

Spec == Init /\ [][Next]_vars

-----------------------------------------------------------------------------
(* What depends on the message alone is looked at before the first call,   *)
(* when got = 0.  The results of UnmarshalMsg, at FALSE, and of            *)
(* UnmarshalValidateMsg, at TRUE, on the whole message:                    *)
Whole(v) == [validate \in BOOLEAN |-> Dec!unmarshalMsg(root, v, msg.b, validate)]
Plain(v) == Dec!UnmarshalMsg(root, v, msg.b)
Fresh == ZeroOf(Types[root])

(* v is a value of type e within its allocation bounds.                    *)
RECURSIVE IsValue(_, _)
IsValue(e, v) ==
  CASE e.k = "int"    -> v \in [1..8 -> Byte]
    [] e.k = "byte"   -> v \in Byte
    [] e.k = "shim"   -> TRUE
    [] e.k = "string" -> Range(v) \subseteq Byte /\ (e.bound # <<>> => Len(v) <= e.bound[1])
    [] e.k = "bytes"  -> Range(v.s) \subseteq Byte /\ (e.bound # <<>> => Len(v.s) <= e.bound[1])
    [] e.k = "ident"  -> IsValue(Types[e.name], v)
    [] e.k = "array"  -> Len(v) = e.size /\ \A x \in Range(v) : IsValue(e.els, x)
    [] e.k = "slice"  -> /\ Len(v.s) <= e.bound[1] /\ (v.isnil => v.s = <<>>)
                         /\ \A x \in Range(v.s \o v.spare) : IsValue(Dec!childElement(e), x)
    [] e.k = "map"    -> /\ v.isnil => DOMAIN v.m = {}
                         /\ \A x \in DOMAIN v.m : IsValue(e.key, x) /\ IsValue(e.value, v.m[x])
    [] e.k = "ptr"    -> Len(v) <= 1 /\ \A x \in Range(v) : IsValue(e.value, x)
    [] e.k = "struct" -> DOMAIN v = DOMAIN e.fields /\ \A i \in DOMAIN v : IsValue(e.fields[i].e, v[i])

(***************************************************************************)
(* The variable is well-formed whatever has been decoded into it, however  *)
(* the decoding ended: strings and slices are within their allocation      *)
(* bounds.  (Maps are not: one that exists is added to, so only what one   *)
(* map header adds is bounded.)                                            *)
(***************************************************************************)
WithinBounds == IsValue(Types[root], z) /\ got \in 0..Len(msg.b) /\ count \in 0..MaxMessages

(***************************************************************************)
(* Every component of v that is reached through the methods of its type    *)
(* passes the checks of that type, or is a zero value, or is the same as   *)
(* in old.                                                                 *)
(***************************************************************************)
RECURSIVE Checked(_, _, _)
Checked(e, v, old) ==
  LET at(i, olds) == IF i \in DOMAIN olds THEN olds[i] ELSE ZeroOf(e.els)
      under(x) == IF x \in DOMAIN old.m THEN old.m[x] ELSE ZeroOf(e.value)
  IN CASE e.k = "ident"  -> /\ v \in {ZeroOf(e), old} \/ Passes(e.name, v)
                            /\ Checked(Types[e.name], v, old)
       [] e.k = "array"  -> \A i \in DOMAIN v : Checked(e.els, v[i], old[i])
       [] e.k = "slice"  -> \A i \in DOMAIN v.s : Checked(e.els, v.s[i], at(i, old.s \o old.spare))
       [] e.k = "map"    -> \A x \in DOMAIN v.m : Checked(e.key, x, x) /\ Checked(e.value, v.m[x], under(x))
       [] e.k = "ptr"    -> \A i \in DOMAIN v : Checked(e.value, v[i], IF old = <<>> THEN ZeroOf(e.value) ELSE old[i])
       [] e.k = "struct" -> \A i \in DOMAIN v : Checked(e.fields[i].e, v[i], old[i])
       [] OTHER          -> TRUE

(***************************************************************************)
(* A call that succeeds leaves nothing unchecked that this message wrote,  *)
(* in however many calls, of which some failed: the callbacks of the       *)
(* directive postunmarshalcheck accept the variable, and every component   *)
(* with methods of its own that is not what it was before the message.     *)
(* What an earlier message left in a component, after a check that refused *)
(* it, stays there unchecked if this one leaves the component out.  (A     *)
(* component whose type was inlined is not checked: the callbacks stay     *)
(* with the type.)                                                         *)
(***************************************************************************)
ChecksRun == err = NoError /\ got > 0 => Passes(root, z) /\ Checked(Types[root], z, start)

(***************************************************************************)
(* What a message of v leaves of old, the value of the variable it is      *)
(* decoded into.  Fields that are left out stay: unexported ones, and      *)
(* those omitempty calls empty, where nil and empty are one.  Elements of  *)
(* a slice are decoded into those of the array it has, shown or not, if    *)
(* that is long enough; entries are added to a map, and made anew.         *)
(***************************************************************************)
RECURSIVE Merged(_, _, _)
Merged(e, old, v) ==
  LET array == old.s \o old.spare
      element(i) == IF Len(array) >= Len(v.s) THEN array[i] ELSE ZeroOf(e.els)
      written(i) == e.tuple \/ (i \in Exported(e) /\ (AnyHasTagPart(e, "omitempty") => i \notin Enc!emptyMask(e, v)))
  IN CASE e.k = "ident"  -> Merged(Types[e.name], old, v)
       [] e.k = "array"  -> [i \in DOMAIN v |-> Merged(e.els, old[i], v[i])]
       [] e.k = "slice"  -> [v EXCEPT !.s = [i \in DOMAIN v.s |-> Merged(e.els, element(i), v.s[i])]]
       [] e.k = "map"    -> IF v.isnil THEN v
                            ELSE GoMap([x \in DOMAIN v.m |-> Merged(e.value, ZeroOf(e.value), v.m[x])] @@ old.m)
       [] e.k = "ptr"    -> [i \in DOMAIN v |-> Merged(e.value, IF old = <<>> THEN ZeroOf(e.value) ELSE old[i], v[i])]
       [] e.k = "struct" -> [i \in DOMAIN v |-> IF written(i) THEN Merged(e.fields[i].e, old[i], v[i]) ELSE old[i]]
       [] OTHER -> v

(***************************************************************************)
(* What MarshalMsg writes, UnmarshalMsg and UnmarshalValidateMsg read      *)
(* back, to the last byte, and it is one object to Skip.  A new variable   *)
(* then holds the value marshalled, but for the fields left out; a used    *)
(* one, whatever messages that were accepted, cut off or refused have left *)
(* in it, holds that value merged into what it held.  The result has to    *)
(* pass the checks its types ask for.                                      *)
(***************************************************************************)
RoundTrip ==
  LET type == Types[root]
      accepted(v) == Passes(root, v) /\ Checked(type, v, Fresh)
      readBack(r, v) == r.err = NoError /\ r.o = <<>> /\ Visible(type, r.v) = Visible(type, v)
  IN msg.kind = "own" /\ got = 0 =>
       /\ Skip(msg.b) = Result("-", <<>>, NoError)
       /\ \A old \in {Fresh, start} : LET v == Merged(type, old, msg.v)
                                    IN accepted(v) => \A r \in Range(Whole(old)) : readBack(r, v)

(***************************************************************************)
(* Decoding in pieces, or twice, is decoding once: when a call succeeds,   *)
(* the variable holds what one call on the whole message would have left   *)
(* in it, whatever the failed calls before it wrote.  (For messages in     *)
(* which a key occurs twice this does not hold: a slice that the second    *)
(* occurrence lengthens loses what the first wrote, unless an earlier call *)
(* has left an array that is long enough.)                                 *)
(***************************************************************************)
Retry ==
  err = NoError /\ got = Len(msg.b) /\ got > 0 /\ msg.once =>
    Visible(Types[root], z) = Visible(Types[root], Plain(start).v)

(***************************************************************************)
(* A message that lacks bytes is not taken for a whole one, nor refused    *)
(* for another reason if UnmarshalMsg would accept the whole: the client   *)
(* waits.  Only UnmarshalValidateMsg may refuse it, for an order of keys   *)
(* for which it would refuse the whole.  (Byte arrays and strings sent as  *)
(* arrays of numbers are not among the messages: their readers report      *)
(* every error in one as a type error.)                                    *)
(***************************************************************************)
TruncationIsShort ==
  LET waits(r) == r[FALSE].err = NoError =>
                    err = ErrShort \/ (err = Dec!NonCanonical /\ r[TRUE].err = Dec!NonCanonical)
  IN got > 0 /\ got < Len(msg.b) => waits(Whole(start))

(***************************************************************************)
(* UnmarshalValidateMsg differs from UnmarshalMsg only by refusing what is *)
(* not canonical.  Of the messages that are canonical but for the order of *)
(* keys it refuses those, and only those, with keys out of MarshalMsg's    *)
(* order in a map or struct the type's own code reads: what a component    *)
(* reads by a method of its own type may have any order.                   *)
(***************************************************************************)
ValidateOrder ==
  LET agree(r) == /\ r[TRUE] = r[FALSE] \/ r[TRUE].err = Dec!NonCanonical
                  /\ msg.kind \in {"own", "ordered"} => r[TRUE].err = r[FALSE].err
                  /\ msg.kind = "disordered" /\ r[FALSE].err = NoError => r[TRUE].err = Dec!NonCanonical
  IN got = 0 => agree(Whole(Fresh))

-----------------------------------------------------------------------------
(***************************************************************************)
(* Msgsize is the number of bytes for which MarshalMsg makes room before   *)
(* it appends.  It bounds the message but for three things it leaves out,  *)
(* and for no more than them append has to grow:                           *)
(*   - the headers of arrays that are part of an element of fixed size;    *)
(*   - the length of the string of a shim with the mode convert;           *)
(*   - the unexported fields of tuples, which are written: by as much as   *)
(*     Msgsize counts for exported ones.                                   *)
(***************************************************************************)
RECURSIVE Headers(_)
Headers(e) ==
  CASE e.k = "array"  -> Siz!ArrayHeaderSize + e.size * Headers(e.els)
    [] e.k = "struct" -> MapThenSumSet(LAMBDA i : Headers(e.fields[i].e), DOMAIN e.fields)
    [] OTHER          -> 0

FixedEls(e) == e.k \in {"array", "slice"} /\ Siz!fixedsizeExpr(e.els) # <<>>

(* The elements that are sized one by one, with their values.              *)
SizedParts(e, v) ==
  LET part(el, x) == [e |-> el, v |-> x]
      each(el, vs) == [i \in DOMAIN vs |-> part(el, vs[i])]
  IN CASE FixedEls(e)    -> <<>>
       [] e.k = "ident"  -> <<part(Types[e.name], v)>>
       [] e.k = "array" /\ ~FixedEls(e) -> each(e.els, v)
       [] e.k = "slice" /\ ~FixedEls(e) -> each(e.els, v.s)
       [] e.k = "map"    -> [x \in (DOMAIN v.m) \X {"key", "value"} |->
                               IF x[2] = "key" THEN part(e.key, x[1]) ELSE part(e.value, v.m[x[1]])]
       [] e.k = "ptr"    -> each(e.value, v)
       [] e.k = "struct" -> [i \in (IF e.tuple THEN DOMAIN v ELSE Exported(e)) |-> part(e.fields[i].e, v[i])]
       [] OTHER          -> <<>>

(* What is left out of v itself, and of all that it is made of.            *)
LeftOutAt(e, v) ==
  CASE e.k = "shim" /\ e.convert -> Len(ToBase(v))
    [] FixedEls(e)               -> Len(IF e.k = "slice" THEN v.s ELSE v) * Headers(e.els)
    [] e.k = "struct" /\ e.tuple -> MapThenSumSet(LAMBDA i : Siz!msgsize(e.fields[i].e, v[i]), DOMAIN v \ Exported(e))
    [] OTHER                     -> 0

RECURSIVE LeftOut(_, _)
LeftOut(e, v) ==
  LET sum(parts) == MapThenSumSet(LAMBDA i : LeftOut(parts[i].e, parts[i].v), DOMAIN parts)
  IN LeftOutAt(e, v) + sum(SizedParts(e, v))

WithinMsgsize ==
  msg.kind = "own" /\ got = 0 => Len(msg.b) <= Siz!Msgsize(root, msg.v) + LeftOut(Types[root], msg.v)

(***************************************************************************)
(* A receiver that reads no more than MaxSize bytes loses no message: what *)
(* a decoder accepts into a new variable, MarshalMsg writes in MaxSize     *)
(* bytes.  This is for types with a MaxSize, in which moreover             *)
(*   - the keys and values of maps are numbers, declared types or strings  *)
(*     with bounds of their own: of a struct only the header is multiplied *)
(*     by the number of entries, of what has a header nothing is, and the  *)
(*     decoders do not know the bounds of keys and values in the map's list;*)
(*   - no arrays or slices are in arrays or slices: their headers are left *)
(*     out;                                                                *)
(*   - the fields of tuples are exported.                                  *)
(***************************************************************************)
RECURSIVE Accounted(_)
Accounted(e) ==
  CASE e.k = "ident"  -> Accounted(Types[e.name])
    [] e.k \in {"array", "slice"} -> e.els.k \notin {"array", "slice"} /\ Accounted(e.els)
    [] e.k = "map"    -> /\ Len(e.bound) = 1
                         /\ \A x \in {e.key, e.value} : x.k \in {"int", "ident", "string"} /\ Accounted(x)
    [] e.k = "ptr"    -> Accounted(e.value)
    [] e.k = "struct" -> /\ e.tuple => Exported(e) = DOMAIN e.fields
                         /\ \A i \in Exported(e) : Accounted(e.fields[i].e)
    [] OTHER          -> TRUE

WithinMaxSize ==
  err = NoError /\ got > 0 /\ start = Fresh /\ Siz!HasMaxSize(Types[root]) /\ Accounted(Types[root]) =>
    Len(Enc!MarshalMsg(root, z)) <= Siz!MaxSize(root)

-----------------------------------------------------------------------------
(* What the comments and templates of the repository say, where the        *)
(* generated code disagrees.                                               *)

(* "left, err := v.UnmarshalMsg(bts)", "if err != nil { t.Fatal(err) }":   *)
(* the test generated for every type, on its zero value.                   *)
GeneratedTestPasses ==
  LET passes(r) == r.err = NoError /\ r.o = <<>>
  IN msg = own(root, Fresh) => passes(Plain(Fresh))
=============================================================================

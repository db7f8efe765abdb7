----------------------------- MODULE Unmarshal ------------------------------
(***************************************************************************)
(* The methods unmarshalMsg(bts, validate) gen/unmarshal.go prints, run on *)
(* a variable that holds the value z: unmarshal(e, z, b, validate) is the  *)
(* value v the variable has afterwards, the bytes o left and the error.    *)
(* The variable is written as the code goes, so v differs from z also when *)
(* there is an error.  WrapError (module Errors) leaves the kind alone.    *)
(***************************************************************************)
EXTENDS Elem

NonCanonical  == Err("noncanonical", "-")
NoField       == Err("nofield", "-")
TooManyFields == Err("toomanyfields", "-")
ArrayError    == Err("array", "-")
ShimFailed    == Err("shim", "-")
CheckFailed   == Err("check", "-")

(* Mutant: an off-by-one.                                                  *)
exceeds_ByOne(n, bound) == bound # <<>> /\ n > bound[1] + 1

(* msgp.ErrOverflow if there is a bound and n exceeds it.                  *)
exceeds(n, bound) == bound # <<>> /\ n > bound[1]

(* Mutant: the new elements are added to the old ones.                     *)
resizeSlice_Append(e, z, h) == Slice(z.s \o [i \in 1..h.sz |-> ZeroOf(e.els)])

(* The slice the elements are read into: elements of an array that is      *)
(* large enough are kept.                                                  *)
resizeSlice(e, z, h) ==
  LET array == z.s \o z.spare
  IN CASE h.isnil -> NilSlice
       [] ~h.isnil /\ ~z.isnil /\ Len(array) >= h.sz ->
            [isnil |-> FALSE, s |-> SubSeq(array, 1, h.sz), spare |-> From(array, h.sz)]
       [] OTHER -> Slice([i \in 1..h.sz |-> ZeroOf(e.els)])

(* The map the entries are added to: one that exists is kept.              *)
resizeMap(z, h) == IF h.isnil THEN NilMap ELSE IF z.isnil THEN GoMap(<<>>) ELSE z

(* The bound of the elements of a slice, if they have none of their own.   *)
childElement(e) ==
  IF e.els.k \in {"string", "bytes", "slice", "map"} /\ e.els.bound = <<>> /\ Len(e.bound) > 1
    THEN [e.els EXCEPT !.bound = Tail(e.bound)] ELSE e.els

RECURSIVE unmarshal(_, _, _, _)

(* Into component i of v.                                                  *)
intoField(e, v, i, b, validate) ==
  LET stored(r) == Result([v EXCEPT ![i] = r.v], r.o, r.err)
  IN stored(unmarshal(e, v[i], b, validate))

(* Into the components is[1], is[2], ... of v, which are es[1], es[2], ... *)
intoFields(es, is, v, b, validate) ==
  LET another(prev, n) == IF prev.err # NoError THEN prev
                          ELSE intoField(es[n], prev.v, is[n], prev.o, validate)
      after[n \in 0..Len(is)] == IF n = 0 THEN Result(v, b, NoError) ELSE another(after[n - 1], n)
  IN after[Len(is)]

Positions(n) == [i \in 1..n |-> i]

(* Mutant: the callbacks are printed before the fields are read.           *)
callbacks_First(name, z, r) ==
  IF r.err = NoError /\ ~Passes(name, z) THEN [r EXCEPT !.err = CheckFailed] ELSE r

(* The callbacks of the directive postunmarshalcheck, run last.  z is what *)
(* the variable held before.                                               *)
callbacks(name, z, r) ==
  IF r.err = NoError /\ ~Passes(name, r.v) THEN [r EXCEPT !.err = CheckFailed] ELSE r

unmarshalMsg(name, z, b, validate) == callbacks(name, z, unmarshal(Types[name], z, b, validate))
UnmarshalMsg(name, z, b) == unmarshalMsg(name, z, b, FALSE)
UnmarshalValidateMsg(name, z, b) == unmarshalMsg(name, z, b, TRUE)

-----------------------------------------------------------------------------
tuple(s, z, b, validate) ==
  LET n == Len(s.fields)
      elements(h) ==
        CASE h.err # NoError -> Result(z, h.o, h.err)
          [] h.err = NoError /\ h.sz # n -> Result(z, h.o, ArrayError)
          [] OTHER -> intoFields([i \in 1..n |-> s.fields[i].e], Positions(n), z, h.o, validate)
  IN elements(ReadArrayHeaderBytes(b))

(* go-codec compatibility: the fields in the order of the declaration.     *)
structFromArray(s, z, h, validate) ==
  LET is == SelectSeq(Positions(Len(s.fields)), LAMBDA i : i \in Exported(s))
      n  == Min({h.sz, Len(is)})
      checked(r) == IF r.err = NoError /\ h.sz > n THEN Result(r.v, r.o, TooManyFields) ELSE r
  IN checked(intoFields([i \in 1..n |-> s.fields[is[i]].e], SubSeq(is, 1, n), z, h.o, validate))

(* Mutant: no order is asked for.                                          *)
misplaced_Never(key, last) == FALSE

(* lastIsSet && key < last; last is <<>> until it is set.                  *)
misplaced(key, last) == last # <<>> /\ Less(key, last[1])

(* The loop over the entries of a map.                                     *)
structFromMap(s, z, h, validate) ==
  LET is(tag) == {i \in Exported(s) : s.fields[i].tag = tag}
      stop(prev, err) == [prev EXCEPT !.r.err = err]
      field(v, i, key) == [r |-> intoField(s.fields[i].e, v, i, key.o, validate), last |-> <<key.v>>]
      entry(prev, key) ==
        IF key.err # NoError THEN stop(prev, key.err)
        ELSE IF is(key.v) = {} THEN stop(prev, NoField)
        ELSE IF validate /\ misplaced(key.v, prev.last) THEN stop(prev, NonCanonical)
        ELSE field(prev.r.v, CHOOSE i \in is(key.v) : TRUE, key)
      another(prev) == IF prev.r.err # NoError THEN prev ELSE entry(prev, ReadMapKeyZC(prev.r.o))
      after[n \in 0..h.sz] == IF n = 0 THEN [r |-> Result(z, h.o, NoError), last |-> <<>>]
                              ELSE another(after[n - 1])
  IN after[h.sz].r

mapstruct(s, z, b, validate) ==
  LET fromArray(h) == CASE h.err # NoError -> Result(z, h.o, h.err)
                        [] h.err = NoError /\ validate -> Result(z, h.o, NonCanonical)
                        [] OTHER -> structFromArray(s, z, h, validate)
      fromMap(h) == CASE h.err.kind = "type" -> fromArray(ReadArrayHeaderBytes(h.o))
                      [] h.err = NoError -> structFromMap(s, IF h.isnil THEN ZeroOf(s) ELSE z, h, validate)
                      [] OTHER -> Result(z, h.o, h.err)
  IN fromMap(ReadMapHeaderBytes(b))

gArray(e, z, b, validate) ==
  LET elements(h) ==
        CASE h.err # NoError -> Result(z, h.o, h.err)
          [] h.err = NoError /\ h.sz > e.size -> Result(z, h.o, ArrayError)
          [] OTHER -> intoFields([i \in 1..h.sz |-> e.els], Positions(h.sz), z, h.o, validate)
  IN IF e.els.k = "byte" THEN ReadExactBytes(b, z) ELSE elements(ReadArrayHeaderBytes(b))

gSlice(e, z, b, validate) ==
  LET stored(slice, r) == Result([slice EXCEPT !.s = r.v], r.o, r.err)
      fill(slice, h) ==
        stored(slice, intoFields([i \in 1..h.sz |-> childElement(e)], Positions(h.sz), slice.s, h.o, validate))
      elements(h) ==
        CASE h.err # NoError -> Result(z, h.o, h.err)
          [] h.err = NoError /\ exceeds(h.sz, e.bound) -> Result(z, h.o, ErrOverflow)
          [] OTHER -> fill(resizeSlice(e, z, h), h)
  IN elements(ReadArrayHeaderBytes(b))

(* Key and value are read into new variables; the entry is made last.      *)
gMap(e, z, b, validate) ==
  LET stop(prev, err) == [prev EXCEPT !.r.err = err]
      stored(prev, key, val) ==
        IF val.err # NoError THEN stop(prev, val.err)
        ELSE [r |-> Result([prev.r.v EXCEPT !.m = (key.v :> val.v) @@ @], val.o, NoError), last |-> <<key.v>>]
      entry(prev, key) ==
        IF key.err # NoError THEN stop(prev, key.err)
        ELSE IF validate /\ misplaced(key.v, prev.last) THEN stop(prev, NonCanonical)
        ELSE stored(prev, key, unmarshal(e.value, ZeroOf(e.value), key.o, validate))
      another(prev) == IF prev.r.err # NoError THEN prev
                       ELSE entry(prev, unmarshal(e.key, ZeroOf(e.key), prev.r.o, validate))
      entries(h) ==
        LET after[n \in 0..h.sz] ==
              IF n = 0 THEN [r |-> Result(resizeMap(z, h), h.o, NoError), last |-> <<>>]
              ELSE another(after[n - 1])
        IN CASE h.err # NoError -> Result(z, h.o, h.err)
             [] h.err = NoError /\ exceeds(h.sz, e.bound) -> Result(z, h.o, ErrOverflow)
             [] OTHER -> after[h.sz].r
  IN entries(ReadMapHeaderBytes(b))

gPtr(e, z, b, validate) ==
  LET to == IF z = <<>> THEN ZeroOf(e.value) ELSE z[1]
      pointed(r) == [r EXCEPT !.v = <<@>>]
  IN IF IsNil(b) THEN Result(<<>>, ReadNilBytes(b).o, NoError)
     ELSE pointed(unmarshal(e.value, to, b, validate))

(* A string or []byte within its bound: r, else the error of the header or *)
(* of the bound.                                                           *)
bounded(e, z, b, r) ==
  LET within(h) == CASE h.err # NoError -> Result(z, b, h.err)
                     [] h.err = NoError /\ exceeds(h.sz, e.bound) -> Result(z, b, ErrOverflow)
                     [] OTHER -> r
  IN IF e.bound = <<>> THEN r ELSE within(ReadBytesBytesHeader(b))

(* The base of a shim is read into a temporary variable.                   *)
gShim(e, z, b) ==
  LET converted(r) ==
        CASE r.err # NoError -> Result(z, r.o, r.err)
          [] r.err = NoError /\ e.convert /\ ~Converts(r.v) -> Result(FromBase(r.v), r.o, ShimFailed)
          [] OTHER -> Result(FromBase(r.v), r.o, NoError)
  IN converted(bounded(e.base, ZeroOf(e.base), b, ReadStringZC(b)))

(* A declared type is read by its UnmarshalMsg, also when validating.      *)
gBase(e, z, b) ==
  CASE e.k = "int"    -> ReadInt64Bytes(b)
    [] e.k = "string" -> bounded(e, z, b, ReadStringZC(b))
    [] e.k = "bytes"  -> bounded(e, z, b, ReadBytesBytes(b))
    [] e.k = "shim"   -> gShim(e, z, b)
    [] e.k = "ident"  -> UnmarshalMsg(e.name, z, b)

(* next: dispatch on the kind of element.                                  *)
unmarshal(e, z, b, validate) ==
  CASE e.k = "struct" -> IF e.tuple THEN tuple(e, z, b, validate) ELSE mapstruct(e, z, b, validate)
    [] e.k = "map"    -> gMap(e, z, b, validate)
    [] e.k = "slice"  -> gSlice(e, z, b, validate)
    [] e.k = "array"  -> gArray(e, z, b, validate)
    [] e.k = "ptr"    -> gPtr(e, z, b, validate)
    [] OTHER          -> gBase(e, z, b)
=============================================================================

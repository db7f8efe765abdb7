------------------------------ MODULE Marshal -------------------------------
(***************************************************************************)
(* The MarshalMsg methods gen/marshal.go prints.  Two times meet here: the *)
(* generator collects constant bytes in m.fuse while it prints, and        *)
(* fuseHook prints them where they will be appended; the printed method    *)
(* runs later, on a value.  marshal(e, v, fuse) is what the code printed   *)
(* for e appends when it runs on v, with the bytes pending in m.fuse       *)
(* before it was printed, and after it.  The latter do not depend on v.    *)
(***************************************************************************)
EXTENDS Elem

Printed(o, fuse) == [o |-> o, fuse |-> fuse]

(* bmask: the fields whose bits the printed tests set.                     *)
emptyMask(s, v) ==
  {i \in Exported(s) : LET f == s.fields[i]
                       IN isFieldOmitEmpty(f, s) /\ HasZeroExpr(f.e) /\ IfZeroExpr(f.e, v[i])}

varAppendMapHeader(size, maxSize) ==
  IF maxSize <= 15 THEN <<wfixmap(size)>> ELSE AppendMapHeader(<<>>, size)

(* The keys of a map in the order of sort.Sort.                            *)
sortedKeys(v) == SetToSortSeq(DOMAIN v.m, Less)

(* Mutant: the map header is counted before the empty fields are.          *)
fieldN_All(s, v) == Cardinality(Exported(s))

(* The variable fieldNVar of the printed code.                             *)
fieldN(s, v) == Cardinality(Exported(s) \ emptyMask(s, v))

RECURSIVE marshal(_, _, _)

(* The code printed for the elements es[i], one after the other, on vs[i]. *)
marshalAll(es, vs, fuse) ==
  LET after[i \in 0..Len(es)] ==
        IF i = 0 THEN Printed(<<>>, fuse)
        ELSE LET r == marshal(es[i], vs[i], after[i - 1].fuse)
             IN Printed(after[i - 1].o \o r.o, r.fuse)
  IN after[Len(es)]

(* for ... range: the body is printed once, and run for each of vs.        *)
rangeBlock(e, vs) ==
  Printed(FlattenSeq([i \in DOMAIN vs |-> marshal(e, vs[i], <<>>).o]),
          marshal(e, ZeroOf(e), <<>>).fuse)

tuple(s, v, fuse) ==
  LET header == AppendArrayHeader(fuse, Len(s.fields))
      es == [i \in DOMAIN s.fields |-> s.fields[i].e]
  IN IF es = <<>> THEN Printed(header, <<>>) ELSE marshalAll(es, v, header)

(***************************************************************************)
(* With omitempty the header is printed at once, and not fused.  A field   *)
(* prints its tag with what is pending, under the test of its mask bit.    *)
(* The test that skips all fields of a top-level value when fieldN is 0    *)
(* changes nothing: each of their own tests fails then.                    *)
(***************************************************************************)
mapstruct(s, v, fuse) ==
  LET order == sortedFields(s)
      omitempty == AnyHasTagPart(s, "omitempty")
      open == IF omitempty THEN Printed(varAppendMapHeader(fieldN(s, v), Len(order)), fuse)
              ELSE LET header == AppendMapHeader(fuse, Len(order))
                   IN IF order = <<>> THEN Printed(header, <<>>) ELSE Printed(<<>>, header)
      after[n \in 0..Len(order)] ==
        IF n = 0 THEN open
        ELSE LET i == order[n]
                 f == s.fields[i]
                 r == marshal(f.e, v[i], <<>>)
                 o == AppendString(after[n - 1].fuse, f.tag) \o r.o
             IN Printed(after[n - 1].o \o (IF omitempty /\ i \in emptyMask(s, v) THEN <<>> ELSE o), r.fuse)
  IN after[Len(order)]

gMap(e, v, fuse) ==
  LET header == IF v.isnil THEN AppendNil(fuse) ELSE AppendMapHeader(fuse, Cardinality(DOMAIN v.m))
      entry(x, val) == marshalAll(<<e.key, e.value>>, <<x, val>>, <<>>)
      keys == sortedKeys(v)
  IN Printed(header \o FlattenSeq([n \in DOMAIN keys |-> entry(keys[n], v.m[keys[n]]).o]),
             entry(ZeroOf(e.key), ZeroOf(e.value)).fuse)

gSlice(e, v, fuse) ==
  LET header == IF v.isnil THEN AppendNil(fuse) ELSE AppendArrayHeader(fuse, Len(v.s))
      body == rangeBlock(e.els, v.s)
  IN Printed(header \o body.o, body.fuse)

gArray(e, v, fuse) ==
  LET body == rangeBlock(e.els, v)
  IN IF e.els.k = "byte" THEN Printed(AppendBytes(fuse, Bytes(v)), <<>>)
     ELSE Printed(AppendArrayHeader(fuse, e.size) \o body.o, body.fuse)

gPtr(e, v, fuse) ==
  IF v = <<>> THEN Printed(AppendNil(fuse), marshal(e.value, ZeroOf(e.value), <<>>).fuse)
  ELSE LET r == marshal(e.value, v[1], <<>>) IN Printed(fuse \o r.o, r.fuse)

(* MarshalMsg of a declared type, on an empty slice.                       *)
MarshalMsg(name, v) == marshal(Types[name], v, <<>>).o

gBase(e, v, fuse) ==
  Printed(CASE e.k = "int"    -> AppendInt64(fuse, v)
            [] e.k = "string" -> AppendString(fuse, v)
            [] e.k = "bytes"  -> AppendBytes(fuse, v)
            [] e.k = "shim"   -> AppendString(fuse, ToBase(v))
            [] e.k = "ident"  -> fuse \o MarshalMsg(e.name, v), <<>>)

(* next: dispatch on the kind of element.                                  *)
marshal(e, v, fuse) ==
  CASE e.k = "struct" -> IF e.tuple THEN tuple(e, v, fuse) ELSE mapstruct(e, v, fuse)
    [] e.k = "map"    -> gMap(e, v, fuse)
    [] e.k = "slice"  -> gSlice(e, v, fuse)
    [] e.k = "array"  -> gArray(e, v, fuse)
    [] e.k = "ptr"    -> gPtr(e, v, fuse)
    [] OTHER          -> gBase(e, v, fuse)
=============================================================================

------------------------------- MODULE Elem ---------------------------------
(***************************************************************************)
(* The types the generator works on (gen/elem.go) and the Go values of     *)
(* those types.  An element is a record whose field k is its kind:         *)
(*   int, byte         a number (every integer primitive reads and writes  *)
(*                     its own range, see Decode; one stands for them)     *)
(*   string, bytes     bound: AllocBound, <<>> if there is none            *)
(*   ident             name: a declared type, reached through its methods  *)
(*   array             size, els                                           *)
(*   slice             bound, els                                          *)
(*   map               bound, key, value                                   *)
(*   ptr               value                                               *)
(*   shim              base: the string it is written as; convert: the     *)
(*                     mode, in which the conversion back may fail         *)
(*   struct            tuple: AsTuple; parts: the tag options of _struct;  *)
(*                     fields: tag, exported, parts, e                     *)
(* Fields are those besides _struct.  Only what the generator accepts is   *)
(* meant: slices and maps have a bound (a sequence, the outermost first;   *)
(* "-" is a bound larger than any count), every struct that is no tuple    *)
(* has a tagged _struct field, structs are named, and the option           *)
(* omitemptyarray comes with omitempty (without it the generated code uses *)
(* a mask it does not declare).  Not here: extensions, interface{}, shims  *)
(* of other bases, maxtotalbytes.                                          *)
(***************************************************************************)
EXTENDS Encode, Decode, SequencesExt

CONSTANTS Types,           \* the declared types: name -> element
          ToBase(_),       \* the functions a shim directive names (external):
          FromBase(_),     \*   to its string, back,
          Converts(_),     \*   and whether the latter returns no error
          ShimZero,        \* the zero value of a shimmed type
          Passes(_, _)     \* the callbacks of type name return no error on v (external)

(***************************************************************************)
(* Values.  A struct is the sequence of its fields, an array of its        *)
(* elements, a pointer <<>> or <<what it points to>>.  A slice has the     *)
(* elements s and, up to its capacity, spare; a map is the function m.     *)
(***************************************************************************)
NilSlice  == [isnil |-> TRUE, s |-> <<>>, spare |-> <<>>]
Slice(s)  == [isnil |-> FALSE, s |-> s, spare |-> <<>>]
NilMap    == [isnil |-> TRUE, m |-> <<>>]
GoMap(m)  == [isnil |-> FALSE, m |-> m]

(* The zero value of a type: what var declares and T{} constructs.         *)
RECURSIVE ZeroOf(_)
ZeroOf(e) ==
  CASE e.k = "int"    -> Zero(8)
    [] e.k = "byte"   -> 0
    [] e.k = "string" -> <<>>
    [] e.k = "bytes"  -> NilBytes
    [] e.k = "shim"   -> ShimZero
    [] e.k = "ident"  -> ZeroOf(Types[e.name])
    [] e.k = "array"  -> [i \in 1..e.size |-> ZeroOf(e.els)]
    [] e.k = "slice"  -> NilSlice
    [] e.k = "map"    -> NilMap
    [] e.k = "ptr"    -> <<>>
    [] e.k = "struct" -> [i \in DOMAIN e.fields |-> ZeroOf(e.fields[i].e)]

(* What the program sees of a value: not the spare capacity of its slices. *)
RECURSIVE Visible(_, _)
Visible(e, v) ==
  CASE e.k \in {"int", "byte", "string", "bytes", "shim"} -> v
    [] e.k = "ident"  -> Visible(Types[e.name], v)
    [] e.k = "array"  -> [i \in DOMAIN v |-> Visible(e.els, v[i])]
    [] e.k = "slice"  -> [v EXCEPT !.s = [i \in DOMAIN v.s |-> Visible(e.els, v.s[i])], !.spare = <<>>]
    [] e.k = "map"    -> [v EXCEPT !.m = [x \in DOMAIN v.m |-> Visible(e.value, v.m[x])]]
    [] e.k = "ptr"    -> [i \in DOMAIN v |-> Visible(e.value, v[i])]
    [] e.k = "struct" -> [i \in DOMAIN v |-> Visible(e.fields[i].e, v[i])]

-----------------------------------------------------------------------------
(* a < b of strings in Go, and of the sort and less functions the          *)
(* directive msgp:sort names for string keys.                              *)
Less(a, b) ==
  \E n \in 0..Len(a) : /\ n < Len(b) /\ SubSeq(a, 1, n) = SubSeq(b, 1, n)
                       /\ n < Len(a) => a[n + 1] < b[n + 1]

Exported(s) == {i \in DOMAIN s.fields : s.fields[i].exported}

(* byFieldTag: the positions of the exported fields, sorted by tag.        *)
sortedFields(s) == SetToSortSeq(Exported(s), LAMBDA i, j : Less(s.fields[i].tag, s.fields[j].tag))

AnyHasTagPart(s, part) == part \in s.parts \/ \E i \in DOMAIN s.fields : part \in s.fields[i].parts

isFieldOmitEmpty(f, s) ==
  (IF f.e.k = "array" THEN "omitemptyarray" ELSE "omitempty") \in f.parts \cup s.parts

RECURSIVE Comparable(_)
Comparable(e) ==
  \/ e.k \in {"int", "byte", "string", "shim"}
  \/ e.k = "array" /\ Comparable(e.els)
  \/ e.k = "struct" /\ \A i \in DOMAIN e.fields : Comparable(e.fields[i].e)

(* IfZeroExpr() # "".                                                      *)
RECURSIVE HasZeroExpr(_)
HasZeroExpr(e) ==
  CASE e.k = "struct" -> \E i \in Exported(e) : HasZeroExpr(e.fields[i].e)
    [] e.k = "array"  -> Comparable(e.els) \/ e.size > 0
    [] OTHER          -> TRUE

RECURSIVE IfZeroExpr(_, _)

arrayIfZeroExpr(e, v) ==
  IF Comparable(e.els) THEN v = ZeroOf(e) ELSE \A i \in DOMAIN v : IfZeroExpr(e.els, v[i])

structIfZeroExpr(e, v) ==
  \A i \in Exported(e) : HasZeroExpr(e.fields[i].e) => IfZeroExpr(e.fields[i].e, v[i])

(* A declared type has a method MsgIsZero.                                 *)
baseIfZeroExpr(e, v) ==
  CASE e.k = "bytes" -> v.s = <<>>
    [] e.k = "ident" -> IfZeroExpr(Types[e.name], v)
    [] OTHER         -> v = ZeroOf(e)

(* The condition IfZeroExpr() prints.                                      *)
IfZeroExpr(e, v) ==
  CASE e.k = "slice"  -> v.s = <<>>
    [] e.k = "map"    -> DOMAIN v.m = {}
    [] e.k = "ptr"    -> v = <<>>
    [] e.k = "array"  -> arrayIfZeroExpr(e, v)
    [] e.k = "struct" -> structIfZeroExpr(e, v)
    [] OTHER          -> baseIfZeroExpr(e, v)
=============================================================================

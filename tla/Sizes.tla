------------------------------- MODULE Sizes --------------------------------
(***************************************************************************)
(* The methods Msgsize and MaxSize that gen/size.go and gen/maxsize.go     *)
(* print.  Msgsize is what MarshalMsg asks Require for before it appends;  *)
(* MaxSize is the most bytes a receiver has to read for one message.  Both *)
(* are sums of constants, lengths and the results of other types' methods; *)
(* the sums are what is modelled, not the text of the expressions.         *)
(***************************************************************************)
EXTENDS Elem

(* msgp/size.go; int stands for the integers of 64 bits.                   *)
Int64Size        == 9
ByteSize         == 2
NilSize          == 1
MapHeaderSize    == 5
ArrayHeaderSize  == 5
BytesPrefixSize  == 5
StringPrefixSize == 5

(* A struct's header, and the tags of its exported fields unless a tuple.  *)
headerSize(s) ==
  LET n == Cardinality(Exported(s))
  IN Len(IF s.tuple THEN AppendArrayHeader(<<>>, n) ELSE AppendMapHeader(<<>>, n))
tagSize(s, i) == IF s.tuple THEN 0 ELSE Len(AppendString(<<>>, s.fields[i].tag))

-----------------------------------------------------------------------------
(***************************************************************************)
(* fixedsizeExpr: <<n>> if every value of e is taken to have size n, <<>>  *)
(* otherwise.  An array is its elements, without a header.  A struct is    *)
(* always counted as a map, with its unexported fields and with _struct, a *)
(* field of the empty struct type.                                         *)
(***************************************************************************)
underscoreSize == Len(AppendString(<<>>, [i \in 1..7 |-> 95])) + 1

RECURSIVE fixedsizeExpr(_)
fixedsizeExpr(e) ==
  LET times(n, s) == IF s = <<>> THEN s ELSE <<n * s[1]>>
      each == [i \in DOMAIN e.fields |-> fixedsizeExpr(e.fields[i].e)]
      fieldSize(i) == Len(AppendString(<<>>, e.fields[i].tag)) + each[i][1]
      named == IF e.tuple THEN 0 ELSE 1
      header == Len(AppendMapHeader(<<>>, Len(e.fields) + named)) + named * underscoreSize
  IN CASE e.k = "int"    -> <<Int64Size>>
       [] e.k = "byte"   -> <<ByteSize>>
       [] e.k = "shim"   -> fixedsizeExpr(e.base)
       [] e.k = "array"  -> times(e.size, fixedsizeExpr(e.els))
       [] e.k = "struct" -> IF <<>> \in Range(each) THEN <<>>
                            ELSE <<header + MapThenSumSet(fieldSize, DOMAIN each)>>
       [] OTHER          -> <<>>

RECURSIVE msgsize(_, _)

(* Msgsize of a declared type.                                             *)
Msgsize(name, v) == msgsize(Types[name], v)

basesizeExpr(e, v) ==
  CASE e.k = "int"    -> Int64Size
    [] e.k = "byte"   -> ByteSize
    [] e.k = "string" -> StringPrefixSize + Len(v)
    [] e.k = "bytes"  -> BytesPrefixSize + Len(v.s)
    [] e.k = "ident"  -> Msgsize(e.name, v)

(* A shim of mode convert measures a variable it does not assign.          *)
gBase(e, v) ==
  IF e.k # "shim" THEN basesizeExpr(e, v)
  ELSE basesizeExpr(e.base, IF e.convert THEN ZeroOf(e.base) ELSE ToBase(v))

gStruct(s, v) ==
  headerSize(s) + MapThenSumSet(LAMBDA i : tagSize(s, i) + msgsize(s.fields[i].e, v[i]), Exported(s))

(* The body of the loop over vs, the elements of an array or slice.        *)
rangeBlock(e, vs) == MapThenSumSet(LAMBDA i : msgsize(e, vs[i]), DOMAIN vs)

gSlice(e, v) ==
  LET fixed == fixedsizeExpr(e.els)
  IN ArrayHeaderSize + (IF fixed # <<>> THEN Len(v.s) * fixed[1] ELSE rangeBlock(e.els, v.s))

gArray(e, v) ==
  LET fixed == fixedsizeExpr(e)
  IN ArrayHeaderSize + (IF fixed # <<>> THEN fixed[1] ELSE rangeBlock(e.els, v))

(* Mutant: the keys are left out.                                          *)
gMap_NoKeys(e, v) == MapHeaderSize + MapThenSumSet(LAMBDA x : msgsize(e.value, v.m[x]), DOMAIN v.m)

gMap(e, v) ==
  MapHeaderSize + MapThenSumSet(LAMBDA x : msgsize(e.key, x) + msgsize(e.value, v.m[x]), DOMAIN v.m)

msgsize(e, v) ==
  CASE e.k = "struct" -> gStruct(e, v)
    [] e.k = "map"    -> gMap(e, v)
    [] e.k = "slice"  -> gSlice(e, v)
    [] e.k = "array"  -> gArray(e, v)
    [] e.k = "ptr"    -> IF v = <<>> THEN NilSize ELSE msgsize(e.value, v[1])
    [] OTHER          -> gBase(e, v)

-----------------------------------------------------------------------------
(***************************************************************************)
(* MaxSize.  While it prints the key or the value of a map the generator   *)
(* is in state multM: "s += bound" is printed, and the first constant that *)
(* follows is put behind it as a factor; later constants are terms again.  *)
(* mult is the bound in that state and 0 in the others, so that the term   *)
(* for an element that starts a line of its own is mult + ...              *)
(***************************************************************************)
(* Mutant: the factor is forgotten.                                        *)
term_Once(mult, n) == n

term(mult, n) == IF mult = 0 THEN n ELSE mult * n

(* The bound of the elements of a slice, if they have none of their own.   *)
childElement(e) ==
  IF e.els.k \in {"string", "bytes", "slice", "map"} /\ e.els.bound = <<>> /\ Len(e.bound) > 1
    THEN [e.els EXCEPT !.bound = Tail(e.bound)] ELSE e.els

(* The second and third bound of a map are those of its keys and values.   *)
within(e, bounds, n) ==
  IF Len(bounds) >= n /\ e.k \in {"string", "bytes", "slice", "map"} THEN [e EXCEPT !.bound = <<bounds[n]>>] ELSE e
mapKey(e) == within(e.key, e.bound, 2)
mapValue(e) == within(e.value, e.bound, 3)

RECURSIVE maxSize(_, _)
MaxSize(name) == maxSize(Types[name], 0)

(* The size of an element of a slice or array: no headers are counted.     *)
RECURSIVE maxSizeExpr(_)
maxSizeExpr(e) ==
  CASE e.k = "array"  -> e.size * maxSizeExpr(e.els)
    [] e.k = "slice"  -> e.bound[1] * maxSizeExpr(e.els)
    [] OTHER          -> maxSize(e, 0)

baseMaxSizeExpr(e) ==
  CASE e.k = "int"    -> Int64Size
    [] e.k = "byte"   -> ByteSize
    [] e.k = "string" -> StringPrefixSize + e.bound[1]
    [] e.k = "bytes"  -> BytesPrefixSize + e.bound[1]
    [] e.k = "ident"  -> MaxSize(e.name)

maxSize(e, mult) ==
  CASE e.k = "struct" -> term(mult, headerSize(e)) +
                         MapThenSumSet(LAMBDA i : tagSize(e, i) + maxSize(e.fields[i].e, 0), Exported(e))
    [] e.k = "map"    -> mult + MapHeaderSize + maxSize(mapKey(e), e.bound[1]) + maxSize(mapValue(e), e.bound[1])
    [] e.k = "slice"  -> mult + ArrayHeaderSize + e.bound[1] * maxSizeExpr(childElement(e))
    [] e.k = "array"  -> mult + ArrayHeaderSize + e.size * maxSizeExpr(e.els)
    [] e.k = "ptr"    -> mult + maxSize(e.value, 0)
    [] e.k = "shim"   -> IF e.convert THEN mult + baseMaxSizeExpr(e.base) ELSE term(mult, baseMaxSizeExpr(e.base))
    [] OTHER          -> term(mult, baseMaxSizeExpr(e))

(***************************************************************************)
(* MaxSize returns: it does not panic for want of a bound, and it compiles *)
(* (maxSizeExpr has no expression for pointers and maps, and prints a list *)
(* of bounds as it is).                                                    *)
(***************************************************************************)
RECURSIVE HasMaxSize(_)
RECURSIVE HasExpr(_)
HasExpr(e) ==
  CASE e.k = "array" -> HasExpr(e.els)
    [] e.k = "slice" -> Len(e.bound) = 1 /\ HasExpr(e.els)
    [] OTHER         -> e.k \notin {"ptr", "map"} /\ HasMaxSize(e)
HasMaxSize(e) ==
  CASE e.k \in {"int", "byte"}     -> TRUE
    [] e.k \in {"string", "bytes"} -> e.bound # <<>>
    [] e.k = "shim"   -> HasMaxSize(e.base)
    [] e.k = "ident"  -> HasMaxSize(Types[e.name])
    [] e.k = "array"  -> HasExpr(e.els)
    [] e.k = "slice"  -> e.bound # <<>> /\ HasExpr(childElement(e))
    [] e.k = "map"    -> e.bound # <<>> /\ HasMaxSize(mapKey(e)) /\ HasMaxSize(mapValue(e))
    [] e.k = "ptr"    -> HasMaxSize(e.value)
    [] e.k = "struct" -> \A i \in Exported(e) : HasMaxSize(e.fields[i].e)
=============================================================================

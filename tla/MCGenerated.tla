---------------------------- MODULE MCGenerated -----------------------------
(* Types, values and messages for the runs of Generated.                   *)
EXTENDS Generated

a == <<97>>
b == <<98>>
c == <<99>>

Number       == [k |-> "int"]
String(n)    == [k |-> "string", bound |-> n]
Blob(n)      == [k |-> "bytes", bound |-> n]
Ident(name)  == [k |-> "ident", name |-> name]
Array(n, e)  == [k |-> "array", size |-> n, els |-> e]
List(n, e)   == [k |-> "slice", bound |-> n, els |-> e]
Shim(n, convert) == [k |-> "shim", base |-> String(n), convert |-> convert]
Dict(n, e)   == [k |-> "map", bound |-> n, key |-> String(<<>>), value |-> e]
Ptr(e)       == [k |-> "ptr", value |-> e]
Struct(parts, fields) == [k |-> "struct", tuple |-> FALSE, parts |-> parts, fields |-> fields]
Tuple(fields) == [k |-> "struct", tuple |-> TRUE, parts |-> {}, fields |-> fields]
Fld(tag, e) == [tag |-> tag, exported |-> TRUE, parts |-> {}, e |-> e]
Hidden(tag, e) == [Fld(tag, e) EXCEPT !.exported = FALSE]

omit == {"omitempty"}

(* Simple enough to be inlined (and an ident where it is declared in       *)
(* another package).  Tags are not in the order of the declaration.        *)
Small == Struct(omit, <<Fld(b, Number), Fld(a, String(<<2>>))>>)
Empty == Struct({}, <<>>)

MCTypes ==
  [Small  |-> Small,
   Lists  |-> Struct(omit, <<Fld(b, List(<<2>>, Small)), Fld(a, Ident("Small"))>>),
   Plain  |-> Struct({}, <<Fld(b, Dict(<<2>>, Number)), Fld(a, Ptr(Number)),
                           [Fld(c, Ptr(Ident("Small"))) EXCEPT !.parts = {"omitempty"}]>>),
   Pair   |-> Tuple(<<Fld(a, Ident("Small")), Fld(b, Array(2, Number))>>),
   Nested |-> List(<<2, 1>>, List(<<>>, String(<<>>))),
   Dicts  |-> Dict(<<2>>, Small),
   Fixed  |-> Struct(omit \cup {"omitemptyarray"},
                     <<Fld(b, Array(2, [k |-> "byte"])), Hidden(c, Number), Fld(a, Blob(<<2>>))>>),
   Deep   |-> Struct({}, <<Fld(a, Empty), Fld(b, Tuple(<<Fld(a, Empty), Fld(b, Number)>>))>>),
   Key    |-> String(<<2>>),
   Counts |-> [Dict(<<2>>, Number) EXCEPT !.key = Ident("Key")],
   Points |-> List(<<2>>, Struct({}, <<Fld(a, Number)>>)),
   Shims  |-> Struct({}, <<Fld(a, Shim(<<2>>, TRUE)), Fld(b, List(<<2>>, Shim(<<2>>, FALSE)))>>),
   Grid   |-> List(<<5>>, Array(1, Number)),
   Sealed |-> Tuple(<<Fld(a, Number), Hidden(b, Array(1, Number))>>),
   Headed |-> Tuple(<<Fld(a, Small), Fld(b, Number)>>)]

(* All but Headed, whose header MarshalMsg misplaces, and Key, which is a  *)
(* part of Counts.                                                         *)
MCRoots == DOMAIN MCTypes \ {"Headed", "Key"}
Tuples == {"Pair", "Headed"}

-----------------------------------------------------------------------------
One == Zero(7) \o <<1>>
Big == <<1>> \o Zero(7)

(* An enumeration with a value for each of two strings and an invalid one, *)
(* which is also what the functions make of other strings.                 *)
Enum == 0 :> <<>> @@ 1 :> a @@ 2 :> b
MCShimZero == 0
MCToBase(v) == Enum[v]
MCConverts(s) == s \in Range(Enum)
MCFromBase(s) == IF MCConverts(s) THEN CHOOSE v \in DOMAIN Enum : Enum[v] = s ELSE MCShimZero

(* A check that relates two fields, either of which may come first.        *)
MCPasses(name, v) == name = "Small" => ~(v[1] = One /\ v[2] = <<>>)

(* A value of type e with nothing empty.                                   *)
RECURSIVE Full(_)
Full(e) ==
  CASE e.k = "int"    -> One
    [] e.k = "byte"   -> 1
    [] e.k = "string" -> a
    [] e.k = "bytes"  -> Bytes(<<7>>)
    [] e.k = "shim"   -> 1
    [] e.k = "ident"  -> Full(Types[e.name])
    [] e.k = "array"  -> [i \in 1..e.size |-> Full(e.els)]
    [] e.k = "slice"  -> Slice(<<Full(e.els)>>)
    [] e.k = "map"    -> GoMap(b :> Full(e.value))
    [] e.k = "ptr"    -> <<Full(e.value)>>
    [] e.k = "struct" -> [i \in DOMAIN e.fields |-> Full(e.fields[i].e)]

(* One member of each of a sequence of sets.                               *)
Product(sets) ==
  LET upto[i \in 0..Len(sets)] == IF i = 0 THEN {<<>>} ELSE {Append(x, y) : x \in upto[i - 1], y \in sets[i]}
  IN upto[Len(sets)]

Few(e) == {ZeroOf(e), Full(e)}

RECURSIVE Some(_)
Some(e) ==
  CASE e.k = "bytes"  -> {NilBytes, Bytes(<<>>), Bytes(<<7>>)}
    [] e.k = "slice"  -> {NilSlice, Slice(<<>>)} \cup {Slice(<<x>>) : x \in Few(e.els)} \cup
                         {Slice(<<ZeroOf(e.els), Full(e.els)>>)}
    [] e.k = "map"    -> {NilMap, GoMap(<<>>), GoMap(a :> Full(e.value) @@ (b \o a) :> ZeroOf(e.value))}
    [] e.k = "ptr"    -> {<<>>} \cup {<<x>> : x \in Few(e.value)}
    [] e.k = "struct" -> Product([i \in DOMAIN e.fields |-> Some(e.fields[i].e)])
    [] OTHER          -> Few(e)

(* In some types, keys and values of the largest sizes: in Grid and Sealed *)
(* messages are then longer than Msgsize.                                  *)
MCValues(name) ==
  CASE name = "Counts" -> {NilMap, GoMap((a \o a) :> Big @@ (b \o a) :> Big)}
    [] name = "Grid"   -> {NilSlice, Slice(Filled(<<Big>>, 5))}
    [] name = "Sealed" -> {<<Zero(8), <<Big>>>>, <<Big, <<Big>>>>}
    [] OTHER           -> Some(Types[name])

(* The messages that come last: nothing, and everything.                   *)
MCLater(name) == Few(Types[name])

-----------------------------------------------------------------------------
(* Messages as other encoders make them.                                   *)
Item(o) == [b |-> o, once |-> TRUE]
Join(header, items) == [b |-> header \o FlattenSeq([i \in DOMAIN items |-> items[i].b]),
                        once |-> \A i \in DOMAIN items : items[i].once]
Entry(key, item) == [item EXCEPT !.b = AppendString(<<>>, key) \o @]
Keys(ks, r) == [r EXCEPT !.once = @ /\ IsInjective(ks)]
Nil == Item(<<mnil>>)

Pairs(S) == {<<x, y>> : x, y \in S}

(* Few encodings, for components; many, for the message itself: other      *)
(* widths and kinds, nil, lengths beyond the bound, fields in any order,   *)
(* repeated or unknown, maps as arrays.                                    *)
RECURSIVE Encodings(_, _)
Encodings(e, many) ==
  LET some(few, more) == IF many THEN few \cup more ELSE few
      keyed(E) == {Keys(<<1>>, Join(AppendMapHeader(<<>>, 1), <<Entry(x[1], x[2])>>)) : x \in E}
      keyed2(E) == {Keys(<<p[1][1], p[2][1]>>,
                         Join(AppendMapHeader(<<>>, 2), <<Entry(p[1][1], p[1][2]), Entry(p[2][1], p[2][2])>>))
                      : p \in Pairs(E)}
      listed(items) == Join(AppendArrayHeader(<<>>, Len(items)), items)
      fields == UNION {{<<e.fields[i].tag, x>> : x \in Encodings(e.fields[i].e, FALSE)} : i \in Exported(e)}
      prefix(n) == Product([i \in 1..n |-> Encodings(e.fields[i].e, FALSE)])
      els == Encodings(e.els, FALSE)
      vals == Encodings(e.value, FALSE)
  IN CASE e.k = "int"    -> some({Item(<<1>>), Nil}, {Item(<<muint8, 1>>), Item(<<mtrue>>)})
       [] e.k = "string" -> some({Item(AppendString(<<>>, a)), Nil}, {Item(AppendString(<<>>, a \o b \o c))})
       [] e.k = "bytes"  -> {Item(AppendBytes(<<>>, Bytes(a))), Item(AppendString(<<>>, a \o b \o c)), Nil}
       [] e.k = "shim"   -> Encodings(e.base, many) \cup {Item(AppendString(<<>>, c))}
       [] e.k = "ident"  -> Encodings(Types[e.name], many)
       [] e.k = "ptr"    -> {Nil} \cup Encodings(e.value, many)
       [] e.k = "array" /\ e.els.k = "byte" ->
            {Nil} \cup {Item(AppendBytes(<<>>, Bytes(Filled(7, n)))) : n \in 0..3}
       [] e.k = "slice" \/ (e.k = "array" /\ e.els.k # "byte") ->
            {Nil} \cup {listed(<<x>>) : x \in els} \cup
            some({}, {listed(x) : x \in Pairs(els)} \cup {listed(<<x, x, x>>) : x \in els})
       [] e.k = "map" ->
            {Nil} \cup keyed({b} \X vals) \cup
            some({}, keyed2({a, b} \X vals) \cup {Join(AppendMapHeader(<<>>, 3), Filled(Entry(a, x), 3)) : x \in vals})
       [] e.k = "struct" /\ e.tuple -> {Nil} \cup {listed(x) : x \in prefix(Len(e.fields))}
       [] e.k = "struct" /\ ~e.tuple ->
            {Join(AppendMapHeader(<<>>, 0), <<>>), Nil} \cup
            some(keyed(fields), keyed(fields \cup {<<c, Nil>>}) \cup keyed2(fields) \cup
                   UNION {{listed(x) : x \in prefix(n)} : n \in 1..Min({2, Len(e.fields)})})

MCForeign(name) == Encodings(Types[name], TRUE)

-----------------------------------------------------------------------------
(* Variables that were used before: with longer slices than they show.     *)
RECURSIVE Stale(_)
Stale(e) ==
  CASE e.k = "ident"  -> Stale(Types[e.name])
    [] e.k = "slice"  -> [Slice(<<Stale(e.els)>>) EXCEPT !.spare = <<Stale(e.els)>>]
    [] e.k = "map"    -> GoMap(b :> Stale(e.value) @@ c :> Stale(e.value))
    [] e.k = "array"  -> [i \in 1..e.size |-> Stale(e.els)]
    [] e.k = "ptr"    -> <<Stale(e.value)>>
    [] e.k = "struct" -> [i \in DOMAIN e.fields |-> Stale(e.fields[i].e)]
    [] OTHER          -> Full(e)

MCUsed(name) == {ZeroOf(Types[name]), Stale(Types[name])}
=============================================================================

------------------------------ MODULE MCFileSet -----------------------------
(***************************************************************************)
(* A small package: chains of links, one of them out of the package; a     *)
(* shimmed type below pointers and slices; types that are inlined into     *)
(* types that are inlined; a recursive type simple enough to be inlined; a *)
(* struct that is too complex, has the fields of an embedded struct of     *)
(* another package and is a tuple in some lists of directives, and lacks   *)
(* its annotation in the others; and a struct that no tag marks.           *)
(***************************************************************************)
EXTENDS FileSet

id(i)       == [x |-> "ident", id |-> i]
sel(i)      == [x |-> "sel", pkg |-> "ext", id |-> i]
slice(e)    == [x |-> "slice", elt |-> e]
array(e)    == [x |-> "array", elt |-> e]
star(e)     == [x |-> "star", elt |-> e]
maps(k, e)  == [x |-> "map", key |-> k, elt |-> e]
struct(l)   == [x |-> "struct", list |-> l]
other       == [x |-> "other"]

codec(name, bounds) == <<[name |-> name, bounds |-> bounds, extension |-> FALSE]>>
field(n, e)         == [names |-> <<n>>, type |-> e, tag |-> codec("", <<>>)]
bounded(n, e, bs)   == [names |-> <<n>>, type |-> e, tag |-> codec(n, bs)]
embeds(e)           == [names |-> <<>>, type |-> e, tag |-> <<>>]
omits               == field("_struct", struct(<<>>))

Small ==
  ("Count" :> id("uint64")) @@ ("Total" :> id("Count")) @@ ("Sum" :> id("Total")) @@
  ("Clock" :> sel("Time")) @@ ("Watch" :> id("Clock")) @@
  ("Enum"  :> id("byte")) @@
  ("List"  :> slice(id("Sum"))) @@
  ("Ring"  :> struct(<<omits, field("Next", star(id("Ring")))>>)) @@
  ("Pair"  :> struct(<<omits, field("E", id("Enum")), field("L", id("List"))>>)) @@
  ("Bad"   :> slice(other)) @@
  ("Big"   :> struct(<<bounded("M", maps(id("Enum"), star(id("Enum"))), <<"8">>),
                       bounded("P", slice(slice(id("Pair"))), <<"4", "2">>),
                       bounded("Q", slice(id("Plain")), <<"1">>), embeds(sel("Base")), embeds(id("Stamp")),
                       [names |-> <<"A", "B">>, type |-> star(id("Ring")), tag |-> <<>>],
                       [names |-> <<"X">>, type |-> star(sel("Ext")),
                        tag |-> <<[name |-> "x", bounds |-> <<>>, extension |-> TRUE]>>],
                       [names |-> <<"Gone">>, type |-> id("Count"), tag |-> codec("-", <<>>)]>>)) @@
  ("Pairs" :> slice(id("Pair"))) @@
  ("User"  :> struct(<<embeds(id("Pair")), field("B", star(id("Big")))>>)) @@
  ("Plain" :> struct(<<[names |-> <<"N">>, type |-> array(array(star(id("Ring")))), tag |-> <<>>]>>))

MCFiles ==
  ("" :> [specs |-> Small, aliases |-> "Stamp" :> sel("Time")]) @@
  ("ext" :> [specs |-> ("Base" :> struct(<<field("I", id("Inner")), field("S", id("string"))>>)) @@
                       ("Inner" :> id("int")),
             aliases |-> <<>>])

(* Expressions are nested four deep at most.                               *)
parts(e) == {e} \cup CASE e.x \in {"slice", "array", "star"} -> {e.elt}
                       [] e.x = "map"    -> {e.key, e.elt}
                       [] e.x = "struct" -> {e.list[i].type : i \in DOMAIN e.list}
                       [] OTHER          -> {}
Parts(S) == UNION {parts(e) : e \in S}
MCExprs == Parts(Parts(Parts(Parts(UNION {{Files[p].specs[i] : i \in DOMAIN Files[p].specs} : p \in DOMAIN Files}))))

MCPrimitives == {Local(i) : i \in {"uint64", "byte", "string", "int"}}
declaredNames  == {Local(i) : i \in DOMAIN Files[""].specs}
decls   == [n \in declaredNames |-> Declared(Files[""].specs[n[2]])]
MCSpecs == declaredNames
MCDecl  == decls

MCNameOrder == [i \in 1..15 |-> Local(<<"A", "B", "Bad", "Big", "Clock", "Count", "D", "Enum", "List",
                                       "Pair", "Pairs", "Plain", "Ring", "Sum", "Total">>[i])]
               \o <<Local("User"), Local("Watch"), <<"ext", "Time">>>>

shim(n, as)   == [d |-> "shim", id |-> n, as |-> Local(as), valid |-> TRUE]
types(d, ids) == [d |-> d, types |-> {Local(i) : i \in ids}]
bound(i, b)   == [d |-> "allocbound", types |-> {Local(i)}, bound |-> <<b>>]
sort(i, less) == [d |-> "sort", type |-> Local(i), intf |-> "S", less |-> less]
checks(i)     == [d |-> "postunmarshalcheck", types |-> {Local(i)}, fns |-> <<"Check">>]
skips(m, ids) == [d |-> "pass", pass |-> m, what |-> "ignore", types |-> {Local(i) : i \in ids}]

MCLists ==
  {<<shim(Local("Enum"), "string"), bound("List", "9"), types("tuple", {"List", "Big"}),
     bound("Pairs", "3"),
     checks("Pair"), skips("unmarshal", {"User"}), sort("string", <<>>)>>,
   <<bound("List", "9"), shim(<<"ext", "Time">>, "int"), types("ignore", {"Ring"}), bound("Pairs", "3"), types("tuple", {"Big"}),
     shim(Local("Enum"), "Count"), skips("iszero", {"Big"})>>,
   <<shim(Local("Enum"), "string"), [shim(Local("Count"), "string") EXCEPT !.valid = FALSE],
     shim(Local("Enum"), "int"), types("ignore", {"Pair"}), bound("List", "9")>>,
   <<bound("List", "9"), sort("Enum", <<>>), types("ignore", {"List"})>>}

(***************************************************************************)
(* Two types simple enough that refer to each other, and a third that is   *)
(* simpler than both.                                                      *)
(***************************************************************************)
Mutual ==
  ("" :> [specs |-> ("A" :> struct(<<omits, field("X", star(id("B")))>>)) @@
                    ("B" :> struct(<<omits, field("Y", star(id("A")))>>)) @@
                    ("D" :> slice(id("A"))),
          aliases |-> <<>>])

MCNoDirectives == {<<>>}
=============================================================================

------------------------------- MODULE Parse --------------------------------
(***************************************************************************)
(* From declarations to elements (parse/getast.go, parseExpr and getField).*)
(* A name is <<package, identifier>>, the package "" for the FileSet's     *)
(* own.  An expression is a record whose field x is its kind:              *)
(*   ident id; sel pkg, id; slice, array, star elt; map key, elt;          *)
(*   struct list; iface methods; other                                     *)
(* and a field of a struct has names, type and tag, which is <<>> or one   *)
(* record: name (before the first comma), bounds (allocbound=), extension. *)
(*                                                                         *)
(* An element is a node: kind k, type name, kids.  The kids are what the   *)
(* parser's own walks visit; the key of a map is not among them.  fields   *)
(* are the fields of a struct, as many as it has kids, and base is what a  *)
(* primitive or an identifier was before it got the name of a type.        *)
(* Constants of array sizes, field paths and maxtotalbytes are left out.   *)
(***************************************************************************)
EXTENDS Naturals, Sequences, SequencesExt

CONSTANTS Primitives,   \* the names of primitive types
          Files,        \* package -> [specs, aliases], each identifier -> expression
          Exprs         \* the expressions in them, and their parts

Anonymous == <<"", "">>
Local(id) == <<"", id>>
Qualified(name) == name[1] # ""

Node(k, name, kids) ==
  [k |-> k, name |-> name, base |-> name, kids |-> kids, key |-> <<>>, fields |-> <<>>,
   bound |-> <<>>, checks |-> <<>>, tuple |-> FALSE, conv |-> FALSE]

(* A primitive type has no package.                                        *)
Ident(importPrefix, id) ==
  IF id \in Primitives THEN Node("prim", id, <<>>)
  ELSE Node("ident", IF Qualified(id) THEN id ELSE <<importPrefix, id[2]>>, <<>>)

(* Alias, on the whole of an element: it is of the type typ.               *)
Alias(t, typ) == [t EXCEPT !.name = typ, !.conv = @ \/ t.k = "prim"]

(* A slice, array or pointer of e, which is nil if e is.                   *)
around(k, e) == IF e = <<>> THEN <<>> ELSE <<Node(k, Anonymous, e)>>

structOf(fds) ==
  [Node("struct", Anonymous, [i \in DOMAIN fds |-> fds[i].e]) EXCEPT
     !.fields = [i \in DOMAIN fds |-> [tag |-> fds[i].tag, name |-> fds[i].name, codec |-> fds[i].codec]]]

(* embedded: the name of a field without one.                              *)
embedded(e) == IF e.x = "star" THEN e.elt.id ELSE e.id

(* The struct whose fields an embedded field stands for: <<>> or one, as   *)
(* its package and its expression.                                         *)
getFieldsFromEmbeddedStruct(pkg, e) ==
  LET in == IF e.x = "sel" THEN e.pkg ELSE pkg
      f  == Files[in]
      struct(s) == IF s.x = "struct" /\ s.list # <<>> THEN <<<<in, s>>>> ELSE <<>>
  IN CASE e.x \notin {"ident", "sel"} -> <<>>
       [] e.x \in {"ident", "sel"} /\ in \notin DOMAIN Files -> <<>>
       [] e.x \in {"ident", "sel"} /\ in \in DOMAIN Files ->
            CASE e.id \in DOMAIN f.specs                               -> struct(f.specs[e.id])
              [] e.id \in DOMAIN f.aliases /\ e.id \notin DOMAIN f.specs -> struct(f.aliases[e.id])
              [] OTHER                                                 -> <<>>

(* The names of local aliases (type Foo = Bar) are replaced by what they   *)
(* stand for, one step.                                                    *)
resolveAlias(pkg, t) ==
  LET aliases == Files[pkg].aliases
      a == aliases[t.name[2]]
  IN IF Qualified(t.name) \/ t.name[2] \notin DOMAIN aliases THEN t
     ELSE CASE a.x = "sel"   -> Alias(t, <<a.pkg, a.id>>)
            [] a.x = "ident" -> Alias(t, Local(a.id))
            [] OTHER         -> t

(* In a field: its type, the element of a slice, key and value of a map.   *)
resolveAliases(pkg, t) ==
  LET inside == IF t.k \in {"slice", "map"}
                  THEN [t EXCEPT !.kids = <<resolveAlias(pkg, @[1])>>,
                                 !.key = [i \in DOMAIN @ |-> resolveAlias(pkg, @[i])]]
                  ELSE t
  IN resolveAlias(pkg, inside)

(* The tag option extension.                                               *)
extensionOf(t) ==
  CASE t.k \in {"ident", "prim"} -> <<[t EXCEPT !.k = "prim"]>>
    [] t.k = "ptr" /\ t.kids[1].k \in {"ident", "prim"} -> <<[t EXCEPT !.kids[1].k = "prim"]>>
    [] OTHER -> <<>>

fieldOf(name, tag, codec, e) == [name |-> name, tag |-> tag, codec |-> codec, e |-> e]

(* The fields of a struct element.                                         *)
fieldsOf(t) == [i \in DOMAIN t.kids |-> fieldOf(t.fields[i].name, t.fields[i].tag, t.fields[i].codec, t.kids[i])]

(* The fields one line of a struct declares, ex the element of its type    *)
(* and parent the element of the struct it embeds, if it does.             *)
getField(pkg, f, ex, parent) ==
  LET tagged == f.tag # <<>>
      name == IF f.names = <<>> THEN embedded(f.type) ELSE f.names[1]
      tag == IF tagged /\ f.tag[1].name # "" THEN f.tag[1].name ELSE name
      bounded(t) == [t EXCEPT !.bound = IF tagged THEN f.tag[1].bounds ELSE <<>>]
      one(t) == LET e == IF tagged /\ f.tag[1].extension THEN extensionOf(t) ELSE <<t>>
                IN [i \in DOMAIN e |-> fieldOf(name, tag, tagged, e[i])]
  IN IF ex = <<>> \/ (tagged /\ f.tag[1].name = "-") THEN <<>>
     ELSE CASE parent # <<>>      -> fieldsOf(parent[1])
            [] Len(f.names) > 1   -> [i \in DOMAIN f.names |-> fieldOf(f.names[i], f.names[i], FALSE, ex[1])]
            [] OTHER              -> one(bounded(resolveAliases(pkg, ex[1])))

(* parseExpr: the element of an expression of a package; <<>> is nil, the  *)
(* type is not supported.                                                  *)
parseExpr[pe \in (DOMAIN Files) \X Exprs] ==
  LET pkg == pe[1]
      e   == pe[2]
      of(x) == parseExpr[<<pkg, x>>]
      mapped(key, value) == IF key = <<>> \/ value = <<>> THEN <<>>
                            ELSE <<[Node("map", Anonymous, value) EXCEPT !.key = key]>>
      parent(f) == LET s == IF f.names = <<>> THEN getFieldsFromEmbeddedStruct(pkg, f.type) ELSE <<>>
                   IN IF s = <<>> THEN <<>> ELSE parseExpr[s[1]]
      parseFieldList(list) ==
        FlattenSeq([i \in DOMAIN list |-> getField(pkg, list[i], of(list[i].type), parent(list[i]))])
  IN CASE e.x = "ident"  -> <<Ident(pkg, Local(e.id))>>
       [] e.x = "sel"    -> <<Ident("", <<e.pkg, e.id>>)>>
       [] e.x = "slice"  -> IF e.elt = [x |-> "ident", id |-> "byte"] THEN <<Node("prim", Local("[]byte"), <<>>)>>
                            ELSE around("slice", of(e.elt))
       [] e.x = "array"  -> around("array", of(e.elt))
       [] e.x = "star"   -> around("ptr", of(e.elt))
       [] e.x = "map"    -> mapped(of(e.key), of(e.elt))
       [] e.x = "struct" -> <<structOf(parseFieldList(e.list))>>
       [] e.x = "iface"  -> IF e.methods = {} THEN <<Node("prim", Local("interface{}"), <<>>)>> ELSE <<>>
       [] OTHER          -> <<>>

(* What process makes of a declaration, for Links.                         *)
Declared(def) ==
  LET of(el) == CASE el = <<>>            -> [kind |-> "bad"]
                  [] el # <<>> /\ el[1].k = "ident" -> [kind |-> "link", to |-> el[1].name, tree |-> el[1]]
                  [] OTHER                -> [kind |-> "type", tree |-> el[1]]
  IN of(parseExpr[<<"", def>>])
=============================================================================

------------------------------ MODULE FileSet -------------------------------
(***************************************************************************)
(* From the declarations of a package to what is printed (parse.File and   *)
(* FileSet.PrintTo): process and resolve (Links), the directives in the    *)
(* order of the source, propInline, and printing in the order of names.    *)
(* An imported package's FileSet goes the same way and is only read for    *)
(* its declarations (Parse), which do not change.                          *)
(*                                                                         *)
(* nextInline recurses; one step is one call, and calls holds those begun  *)
(* and not made yet, each with the names it would find as root, innermost  *)
(* last, up the Go stack.                                                  *)
(***************************************************************************)
EXTENDS Links, Parse, FiniteSets

CONSTANTS DirectiveLists,  \* the directives a source may have: a set of sequences
          NameOrder,       \* the names in the order of strings
          Unexported,      \* the names of fields that are not exported
          Sorted,          \* the types with a default less function
          Modes            \* the generators asked for

VARIABLES dirs,      \* the directives of the source
          line,      \* the next one to apply
          kept,      \* f.Directives: the ones left for the printer
          sorts,     \* sort interfaces and less functions, by type name
          elems,     \* f.Identities from here on: name -> element
          declared,  \* (history) f.Identities before propInline
          all,       \* the types propInline has yet to begin with
          cur,       \* the one it is in
          calls,     \* calls of nextInline: [path, roots]
          names,     \* the types PrintTo has yet to print
          ignored,   \* passes: <<generator, type name>>
          printed,   \* <<generator, type name>>
          msgs       \* the types with messages

dirVars    == <<dirs, line, kept, sorts>>
inlineVars == <<declared, all, cur, calls>>
printVars  == <<names, ignored, printed, msgs>>
fileVars   == <<linkVars, dirVars, elems, inlineVars, printVars>>

Init == /\ InitLinks
        /\ dirs = <<>> /\ line = 1 /\ kept = <<>> /\ sorts = <<>>
        /\ elems = <<>> /\ declared = <<>> /\ all = <<>> /\ cur = Anonymous /\ calls = <<>>
        /\ names = <<>> /\ ignored = {} /\ printed = {} /\ msgs = {}

Link == NextLinks /\ UNCHANGED <<dirVars, elems, inlineVars, printVars>>

(* process has returned: f.Identities.  The directives are read before it, *)
(* but only used from here on.                                             *)
Named == /\ phase = "resolved"
         /\ dirs' \in DirectiveLists
         /\ phase' = "directives"
         /\ elems' = [n \in DOMAIN identities |-> Alias(identities[n].tree, n)]
         /\ UNCHANGED <<todo, identities, ls, pass, progress, line, kept, sorts, inlineVars, printVars>>

-----------------------------------------------------------------------------
(* Mutant: only what is directly in a declared type is replaced.           *)
nextShim_Shallow(t, id, be) == IF t.name = id THEN be ELSE t

(* findShim and nextShim: what has the name id becomes be, below the top.  *)
RECURSIVE nextShim(_, _, _)
nextShim(t, id, be) ==
  IF t.name = id THEN be
  ELSE [t EXCEPT !.kids = [i \in DOMAIN @ |-> nextShim(@[i], id, be)]]

findShim(id, be) ==
  Put([n \in DOMAIN elems |-> [elems[n] EXCEPT !.kids = [i \in DOMAIN @ |-> nextShim(@[i], id, be)]]], id, be)

applyShim(d) == IF d.valid THEN findShim(d.id, Alias(Ident("", d.as), d.id)) ELSE elems


ignore(d) == [n \in DOMAIN elems \ d.types |-> elems[n]]

(* The types a directive names that the FileSet does not have are passed   *)
(* over.                                                                   *)
astuple(d) ==
  [n \in DOMAIN elems |-> [elems[n] EXCEPT !.tuple = @ \/ (n \in d.types /\ elems[n].k = "struct")]]

allocbound(d) ==
  [n \in DOMAIN elems |-> [elems[n] EXCEPT !.bound = IF n \in d.types THEN d.bound ELSE @]]

postunmarshalcheck(d) ==
  [n \in DOMAIN elems |-> [elems[n] EXCEPT !.checks = IF n \in d.types THEN @ \o d.fns ELSE @]]

(* SetSortInterface, then SetLessFunction, unless there is none: a panic.  *)
noLess(d) == d.less = <<>> /\ d.type \notin Sorted

sortintf(d) == Put(sorts, d.type, [intf |-> d.intf, less |-> ~noLess(d)])

effect(d) == CASE d.d = "shim"       -> applyShim(d)
               [] d.d = "ignore"     -> ignore(d)
               [] d.d = "tuple"      -> astuple(d)
               [] d.d = "allocbound" -> allocbound(d)
               [] d.d = "postunmarshalcheck" -> postunmarshalcheck(d)
               [] OTHER              -> elems

(* One round of applyDirectives.                                           *)
ApplyDirective ==
  /\ phase = "directives" /\ line <= Len(dirs)
  /\ LET d == dirs[line]
     IN /\ elems' = effect(d)
        /\ sorts' = IF d.d = "sort" THEN sortintf(d) ELSE sorts
        /\ kept' = IF d.d = "pass" THEN Append(kept, d) ELSE kept
        /\ phase' = IF d.d = "sort" /\ noLess(d) THEN "panic" ELSE phase
  /\ line' = line + 1
  /\ UNCHANGED <<dirs, todo, identities, ls, pass, progress, inlineVars, printVars>>

-----------------------------------------------------------------------------
(* It had the name of another package's type at some time, time.Time and   *)
(* the other primitives apart.                                             *)
Dangling(t) == \/ Qualified(t.name) /\ (t.name # t.base \/ t.name \notin Primitives)
               \/ Qualified(t.base) /\ t.base \notin Primitives

RECURSIVE Complexity(_)
Complexity(t) ==
  LET rest == FoldSeq(LAMBDA kid, sum : sum + Complexity(kid), 0, t.kids)
  IN CASE t.k \in {"prim", "ident"} -> IF t.conv /\ ~Dangling(t) THEN 2 ELSE 1
       [] t.k = "map"               -> 2 + rest
       [] OTHER                     -> 1 + rest

maxComplex == 5

Before(m, n) == \E i, j \in DOMAIN NameOrder : i < j /\ NameOrder[i] = m /\ NameOrder[j] = n

(* The least complex first, names break ties.                              *)
PropInline ==
  /\ phase = "directives" /\ line > Len(dirs)
  /\ phase' = "inline"
  /\ declared' = elems
  /\ LET c == [n \in DOMAIN elems |-> Complexity(elems[n])]
     IN all' = SortSeq(SelectSeq(NameOrder, LAMBDA n : n \in DOMAIN elems), LAMBDA m, n : c[m] < c[n] \/ (c[m] = c[n] /\ Before(m, n)))
  /\ UNCHANGED <<todo, identities, ls, pass, progress, dirVars, elems, cur, calls, printVars>>

below(t, path, roots) == [i \in DOMAIN t.kids |-> [path |-> Append(path, i), roots |-> roots]]

BeginType ==
  /\ phase = "inline" /\ calls = <<>> /\ all # <<>>
  /\ cur' = Head(all) /\ all' = Tail(all)
  /\ calls' = below(elems[cur'], <<>>, <<cur'>>)
  /\ UNCHANGED <<linkVars, dirVars, elems, declared, printVars>>

RECURSIVE at(_, _)
at(t, path) == IF path = <<>> THEN t ELSE at(t.kids[Head(path)], Tail(path))

RECURSIVE with(_, _, _)
with(t, path, x) == IF path = <<>> THEN x
                    ELSE [t EXCEPT !.kids[Head(path)] = with(@, Tail(path), x)]

(* t is replaced by what it names.                                         *)
inlined(t, root) ==
  t.k = "ident" /\ t.name # root /\ t.name \in DOMAIN elems /\ Complexity(elems[t.name]) < maxComplex

(* Mutant: the bound stays the one of the reference.                       *)
copied_Bound(t) == [elems[t.name] EXCEPT !.bound = t.bound]

(* node.Copy()                                                             *)
copied(t) == elems[t.name]

(* Mutant: what was inlined is not searched in its turn.                   *)
search_Once(t, call) == IF inlined(t, Last(call.roots)) THEN <<>> ELSE below(t, call.path, call.roots)

(* The calls a call makes: on what it has inlined, or on what is below.    *)
search(t, call) ==
  IF inlined(t, Last(call.roots)) THEN <<[call EXCEPT !.roots = Append(@, t.name)]>>
  ELSE below(t, call.path, call.roots)

NextInline ==
  /\ phase = "inline" /\ calls # <<>>
  /\ LET call == Head(calls)
         t == at(elems[cur], call.path)
     IN /\ elems' = IF inlined(t, Last(call.roots))
                      THEN [elems EXCEPT ![cur] = with(@, call.path, copied(t))] ELSE elems
        /\ calls' = search(t, call) \o Tail(calls)
  /\ UNCHANGED <<linkVars, dirVars, declared, all, cur, printVars>>

-----------------------------------------------------------------------------
(* Method().isset: the passes a generator belongs to.                      *)
isset(gen, m) == m = gen \/ (gen = "test" /\ m \in {"marshal", "unmarshal"})

strToMethod == {"test", "size", "marshal", "unmarshal", "maxsize"}

(* applyDirs: "msgp:{pass} ignore {types}"; any other is only warned of.   *)
applyDirs == {gt \in Modes \X DOMAIN elems :
                \E i \in DOMAIN kept : /\ kept[i].pass \in strToMethod /\ kept[i].what = "ignore"
                                       /\ gt[2] \in kept[i].types /\ isset(gt[1], kept[i].pass)}

PrintTo ==
  /\ phase = "inline" /\ calls = <<>> /\ all = <<>>
  /\ phase' = "print"
  /\ ignored' = applyDirs
  /\ names' = SelectSeq(NameOrder, LAMBDA n : n \in DOMAIN elems)
  /\ UNCHANGED <<todo, identities, ls, pass, progress, dirVars, elems, inlineVars, printed, msgs>>

HasAnyStructTag(t) == \E i \in DOMAIN t.fields : t.fields[i].codec
HasUnderscoreStructTag(t) == \E i \in DOMAIN t.fields : t.fields[i].name = "_struct" /\ t.fields[i].codec

(* The kids for which code is printed.                                     *)
visited(t) == {i \in DOMAIN t.kids :
                 t.k = "struct" /\ ~t.tuple => t.fields[i].name \notin Unexported}

(* resizeSlice and resizeMap: "Missing allocbound".  The element of a      *)
(* slice with several bounds has the others.                               *)
RECURSIVE missingBound(_)
missingBound(t) ==
  LET kid(i) == IF t.k = "slice" /\ Len(t.bound) > 1 /\ t.kids[i].bound = <<>>
                  THEN [t.kids[i] EXCEPT !.bound = Tail(t.bound)] ELSE t.kids[i]
  IN \/ t.k \in {"slice", "map"} /\ t.bound = <<>>
     \/ \E i \in visited(t) : missingBound(kid(i))
     \/ \E i \in DOMAIN t.key : missingBound(t.key[i])

(* mapstruct: "Missing _struct annotation".                                *)
RECURSIVE missingStruct(_)
missingStruct(t) ==
  \/ t.k = "struct" /\ ~t.tuple /\ ~HasUnderscoreStructTag(t)
  \/ \E i \in visited(t) : missingStruct(t.kids[i])
  \/ \E i \in DOMAIN t.key : missingStruct(t.key[i])

(* Execute of each generator; tests are for composite types only.          *)
prints(gen, n) == /\ <<gen, n>> \notin ignored
                  /\ gen = "test" => elems[n].k \in {"struct", "array", "slice", "map"}

(* A struct without any codec tag is not meant to be encoded.              *)
skipped(t) == t.k = "struct" /\ ~HasAnyStructTag(t)

PrintElem ==
  /\ phase = "print" /\ names # <<>>
  /\ LET n == Head(names)
         t == elems[n]
         gens == IF skipped(t) THEN {} ELSE {g \in Modes : prints(g, n)}
     IN /\ printed' = printed \cup {<<g, n>> : g \in gens}
        /\ msgs' = IF \/ "unmarshal" \in gens /\ missingBound(t)
                      \/ "marshal" \in gens /\ missingStruct(t) THEN msgs \cup {n} ELSE msgs
  /\ names' = Tail(names)
  /\ UNCHANGED <<linkVars, dirVars, elems, inlineVars, ignored>>

Printed == /\ phase = "print" /\ names = <<>>
           /\ phase' = IF msgs = {} THEN "ok" ELSE "error"
           /\ UNCHANGED <<todo, identities, ls, pass, progress, dirVars, elems, inlineVars, printVars>>

Steps == \/ Link \/ Named \/ ApplyDirective
         \/ PropInline \/ BeginType \/ NextInline
         \/ PrintTo \/ PrintElem \/ Printed

Ended == phase \in {"ok", "error", "panic"}

Next == Steps \/ (Ended /\ UNCHANGED fileVars)

(* One goroutine, which runs as long as it has something to do.            *)
Spec == Init /\ [][Next]_fileVars /\ WF_fileVars(Steps)

-----------------------------------------------------------------------------
(* t expands d: the same element with its attributes (bound, checks, tuple,*)
(* fields, key), but that identifiers may have become the declared type.   *)
RECURSIVE Expands(_, _)
Expands(t, d) ==
  LET own == [t EXCEPT !.kids = <<>>]
      x == IF d.k = "ident" /\ d # t /\ d.name \in DOMAIN declared THEN declared[d.name] ELSE d
  IN /\ own = [x EXCEPT !.kids = <<>>]
     /\ DOMAIN t.kids = DOMAIN x.kids
     /\ \A i \in DOMAIN t.kids : Expands(t.kids[i], x.kids[i])

(***************************************************************************)
(* However the calls of nextInline go, on types that are themselves being  *)
(* inlined: every type stays what was declared, with the attributes the    *)
(* directives gave it, wherever it is put.                                 *)
(***************************************************************************)
InlinePreserves == declared # <<>> => \A n \in DOMAIN elems : Expands(elems[n], declared[n])

(* The elements below t, each with the names above it.                     *)
RECURSIVE Uses(_, _)
Uses(t, above) ==
  UNION {{[t |-> t.kids[i], above |-> above]} \cup Uses(t.kids[i], above \cup {t.kids[i].name}) :
           i \in DOMAIN t.kids}

(***************************************************************************)
(* When propInline returns nothing is left to inline: an identifier of the *)
(* FileSet names a type too complex, one that it is within, or one that is *)
(* itself only a name (of another package's type).  Types are inlined in   *)
(* one pass, into trees that grow meanwhile.                               *)
(***************************************************************************)
FullyInlined ==
  phase \in {"print", "ok", "error"} =>
    \A n \in DOMAIN elems : \A u \in Uses(elems[n], {n}) :
      u.t.k = "ident" /\ u.t.name \in DOMAIN elems =>
        \/ u.t.name \in u.above
        \/ elems[u.t.name].k = "ident" \/ Complexity(elems[u.t.name]) >= maxComplex

(***************************************************************************)
(* Once a shim directive has been applied, and through all directives and  *)
(* inlining that follow, no use of the type is left as it was: each, map   *)
(* keys apart, is the base type of the last shim of that name.             *)
(***************************************************************************)
ShimsApplied ==
  \A i \in 1..(line - 1) :
    LET d == dirs[i]
        last == \A j \in (i + 1)..(line - 1) : ~(dirs[j].d = "shim" /\ dirs[j].valid /\ dirs[j].id = d.id)
    IN d.d = "shim" /\ d.valid /\ last =>
         \A n \in DOMAIN elems : \A u \in Uses(elems[n], {}) : u.t.name = d.id => u.t.base = d.as


(* Resolving, the directives, inlining and printing come to an end.        *)
Terminates == <>Ended

(***************************************************************************)
(* "ensure that we're not inlining / a type into itself": no call of       *)
(* nextInline is within another for the same type.                         *)
(***************************************************************************)
NotIntoItself == \A i \in DOMAIN calls : IsInjective(calls[i].roots)
=============================================================================

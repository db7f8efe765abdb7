------------------------------- MODULE Links --------------------------------
(***************************************************************************)
(* How a FileSet gets its Identities (parse/getast.go, process and         *)
(* resolve).  A declaration is the record of what parseExpr makes of it:   *)
(*   kind "bad"    nothing, the type is not supported                      *)
(*   kind "type"   an element, tree                                        *)
(*   kind "link"   only another name, to (type Foo Bar); tree is the       *)
(*                 identifier itself                                       *)
(* Specs and the linkset are Go maps: each range visits them in any order, *)
(* and a pass over the linkset sees the Identities it makes on its way.    *)
(***************************************************************************)
EXTENDS Naturals

CONSTANTS Specs,   \* the names that are declared
          Decl     \* their declarations

ASSUME DeclAssumption == \A n \in Specs : Decl[n].kind \in {"bad", "type", "link"}

VARIABLES phase,       \* "parse", "resolve", "leftover", "resolved", and what follows
          todo,        \* the declarations not yet parsed
          identities,  \* f.Identities: name -> [alias, tree]
          ls,          \* the linkset
          pass,        \* what the current pass over it has yet to visit
          progress

linkVars == <<phase, todo, identities, ls, pass, progress>>

Put(f, n, x) == [m \in DOMAIN f \cup {n} |-> IF m = n THEN x ELSE f[m]]

(* Copy and Alias.                                                         *)
Aliased(name, tree) == [alias |-> name, tree |-> tree]

InitLinks == /\ phase = "parse" /\ todo = Specs
             /\ identities = [n \in {} |-> 0]
             /\ ls = {} /\ pass = {} /\ progress = TRUE

(* One round of the loop of process.                                       *)
Process(name) ==
  /\ phase = "parse" /\ name \in todo
  /\ todo' = todo \ {name}
  /\ ls' = IF Decl[name].kind = "link" THEN ls \cup {name} ELSE ls
  /\ identities' = IF Decl[name].kind = "type"
                     THEN Put(identities, name, Aliased(name, Decl[name].tree)) ELSE identities
  /\ UNCHANGED <<phase, pass, progress>>

Processed ==
  /\ phase = "parse" /\ todo = {}
  /\ phase' = IF ls = {} THEN "resolved" ELSE "resolve"
  /\ UNCHANGED <<todo, identities, ls, pass, progress>>

(* for progress && len(ls) > 0                                             *)
another == progress /\ ls # {}

BeginPass ==
  /\ phase = "resolve" /\ pass = {} /\ another
  /\ pass' = ls /\ progress' = FALSE
  /\ UNCHANGED <<phase, todo, identities, ls>>

found(name) == Decl[name].to \in DOMAIN identities

(* Mutant: progress is not noted.                                          *)
Visit_NoProgress(name) ==
  /\ phase = "resolve" /\ name \in pass
  /\ pass' = pass \ {name}
  /\ identities' = IF found(name) THEN Put(identities, name, Aliased(name, identities[Decl[name].to].tree))
                   ELSE identities
  /\ ls' = IF found(name) THEN ls \ {name} ELSE ls
  /\ UNCHANGED <<phase, todo, progress>>

(* Mutant: the link stays in the linkset.                                  *)
Visit_Keep(name) ==
  /\ phase = "resolve" /\ name \in pass
  /\ pass' = pass \ {name}
  /\ identities' = IF found(name) THEN Put(identities, name, Aliased(name, identities[Decl[name].to].tree))
                   ELSE identities
  /\ progress' = (progress \/ found(name))
  /\ UNCHANGED <<phase, todo, ls>>

Visit(name) ==
  /\ phase = "resolve" /\ name \in pass
  /\ pass' = pass \ {name}
  /\ identities' = IF found(name) THEN Put(identities, name, Aliased(name, identities[Decl[name].to].tree))
                   ELSE identities
  /\ ls' = IF found(name) THEN ls \ {name} ELSE ls
  /\ progress' = (progress \/ found(name))
  /\ UNCHANGED <<phase, todo>>

EndPasses ==
  /\ phase = "resolve" /\ pass = {} /\ ~another
  /\ phase' = "leftover"
  /\ UNCHANGED <<todo, identities, ls, pass, progress>>

(* "what's left can't be resolved": the range over it (ls is what it has   *)
(* yet to visit).                                                          *)
Leftover(name) ==
  /\ phase = "leftover" /\ name \in ls
  /\ identities' = Put(identities, name, Aliased(name, Decl[name].tree))
  /\ ls' = ls \ {name}
  /\ UNCHANGED <<phase, todo, pass, progress>>

Resolved ==
  /\ phase = "leftover" /\ ls = {}
  /\ phase' = "resolved"
  /\ UNCHANGED <<todo, identities, ls, pass, progress>>

NextLinks ==
  \/ \E name \in Specs : Process(name) \/ Visit(name) \/ Leftover(name)
  \/ Processed \/ BeginPass \/ EndPasses \/ Resolved

SpecLinks == InitLinks /\ [][NextLinks]_linkVars

-----------------------------------------------------------------------------
(***************************************************************************)
(* What the declarations mean, without an order: the names declared like   *)
(* tree are the least set with the types declared so and the links to its  *)
(* members.                                                                *)
(***************************************************************************)
Types    == {n \in Specs : Decl[n].kind = "type"}
LinkDecls == {n \in Specs : Decl[n].kind = "link"}

Closed(S, tree) == /\ \A n \in Types : Decl[n].tree = tree => n \in S
                   /\ \A n \in LinkDecls : Decl[n].to \in S => n \in S

Like(tree) == {n \in Specs : \A S \in SUBSET Specs : Closed(S, tree) => n \in S}

(***************************************************************************)
(* Whatever the order of the two maps, resolve ends with the same          *)
(* Identities: every chain of links that ends in a type of the FileSet is  *)
(* that type under another name, and every other link is the identifier it *)
(* was declared as.                                                        *)
(***************************************************************************)
Confluent ==
  phase = "resolved" =>
    /\ DOMAIN identities = Types \cup LinkDecls
    /\ \A n \in Types \cup LinkDecls :
         /\ identities[n].alias = n
         /\ \/ n \in Like(identities[n].tree)
            \/ /\ n \in LinkDecls /\ identities[n].tree = Decl[n].tree
               /\ \A m \in Types : n \notin Like(Decl[m].tree)
=============================================================================

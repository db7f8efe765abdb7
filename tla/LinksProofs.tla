---------------------------- MODULE LinksProofs -----------------------------
(***************************************************************************)
(* process and resolve give the same Identities in every order, for any    *)
(* set of declarations.                                                    *)
(***************************************************************************)
EXTENDS Links, TLAPS

(* No chain of links from n ends in a type of the FileSet.                 *)
Unlike(n) == \A m \in Types : n \notin Like(Decl[m].tree)

(* An entry is what its chain of links leads to, or what was left.         *)
Entry(n, id) == id.alias = n /\ n \in Like(id.tree)
Left(n, id) == id.alias = n /\ n \in LinkDecls /\ id.tree = Decl[n].tree /\ Unlike(n)

Phases == {"parse", "resolve", "leftover", "resolved"}

(* Which names are entries, which wait in the linkset.                     *)
Names ==
  /\ phase \in Phases
  /\ todo \subseteq Specs
  /\ phase = "parse" => DOMAIN identities = Types \ todo /\ ls = LinkDecls \ todo /\ pass = {} /\ progress
  /\ phase # "parse" => /\ DOMAIN identities \cup ls = Types \cup LinkDecls
                        /\ Types \subseteq DOMAIN identities /\ ls \subseteq LinkDecls
                        /\ DOMAIN identities \cap ls = {}
  /\ pass \subseteq ls \/ phase \in {"leftover", "resolved"}
  /\ phase = "resolved" => ls = {}

Entries ==
  \A n \in DOMAIN identities :
     \/ Entry(n, identities[n])
     \/ phase \in {"leftover", "resolved"} /\ Left(n, identities[n])

(* A pass that has made no progress has met only links to names that are   *)
(* no entries; when the last pass is over, no entry is missing.            *)
Waiting ==
  /\ phase = "resolve" /\ ~progress => \A n \in ls \ pass : Decl[n].to \notin DOMAIN identities
  /\ phase = "leftover" => \A n \in ls : Unlike(n)

(* The inductive invariant.                                                *)
Inv == Names /\ Entries /\ Waiting

(* The names declared like tree are closed under links, as process and     *)
(* resolve need them to be: the intersection of closed sets is closed.     *)
LEMMA LikeClosed == ASSUME NEW tree PROVE Closed(Like(tree), tree)
<1>1. ASSUME NEW n \in Types, Decl[n].tree = tree PROVE n \in Like(tree)
  BY <1>1 DEF Types, Like, Closed
<1>2. ASSUME NEW n \in LinkDecls, Decl[n].to \in Like(tree) PROVE n \in Like(tree)
  <2>1. n \in Specs BY DEF LinkDecls
  <2>2. ASSUME NEW S \in SUBSET Specs, Closed(S, tree) PROVE n \in S
    <3>1. Decl[n].to \in S BY <1>2, <2>2 DEF Like
    <3> QED BY <2>2, <3>1 DEF Closed
  <2> QED BY <2>1, <2>2 DEF Like
<1> QED BY <1>1, <1>2 DEF Closed

(* A set that is closed under links holds every name declared like a tree  *)
(* if it holds the types declared so.                                      *)
LEMMA LikeLeast == ASSUME NEW tree, NEW S \in SUBSET Specs, Closed(S, tree)
                   PROVE Like(tree) \subseteq S
  BY DEF Like

(* No name has two meanings: whichever order resolve takes, the tree of a  *)
(* name that can be resolved is the same.                                  *)
THEOREM OneMeaning ==
  ASSUME NEW t, NEW u, NEW n \in Like(t), n \in Like(u) PROVE t = u
<1> SUFFICES ASSUME t # u PROVE FALSE OBVIOUS
<1> DEFINE S == Specs \ Like(u)
<1>1. ASSUME NEW m \in Specs, m \in Like(u),
             m \in Types => Decl[m].tree # u,
             m \in LinkDecls => Decl[m].to \notin Like(u)
      PROVE FALSE
  <2> DEFINE L == Like(u) \ {m}
  <2>1. L \in SUBSET Specs BY DEF Like
  <2>2. ASSUME NEW x \in Types, Decl[x].tree = u PROVE x \in L
    BY <1>1, <2>2, LikeClosed DEF Closed
  <2>3. ASSUME NEW x \in LinkDecls, Decl[x].to \in L PROVE x \in L
    BY <1>1, <2>3, LikeClosed DEF Closed
  <2>4. Closed(L, u) BY <2>2, <2>3 DEF Closed
  <2> QED BY <1>1, <2>1, <2>4, LikeLeast
<1>2. ASSUME NEW m \in Types, Decl[m].tree = t PROVE m \in S
  <2>1. m \in Specs /\ m \notin LinkDecls BY DEF Types, LinkDecls
  <2> QED BY <1>1, <1>2, <2>1
<1>3. ASSUME NEW m \in LinkDecls, Decl[m].to \in S PROVE m \in S
  <2>1. m \in Specs /\ m \notin Types BY DEF Types, LinkDecls
  <2> QED BY <1>1, <1>3, <2>1
<1>4. Closed(S, t) BY <1>2, <1>3 DEF Closed
<1>5. Like(t) \subseteq S BY <1>4, LikeLeast
<1> QED BY <1>5

(* process begins with no entries and an empty linkset: Inv holds.         *)
LEMMA InitInv == InitLinks => Inv
<1> SUFFICES ASSUME InitLinks PROVE Inv OBVIOUS
<1>1. DOMAIN identities = {} BY DEF InitLinks
<1>2. Names BY <1>1 DEF InitLinks, Names, Phases, Types, LinkDecls
<1> QED BY <1>1, <1>2 DEF InitLinks, Entries, Waiting, Inv

(* A declaration is a type or a link, and not both (the two branches of    *)
(* process for an element).                                                *)
LEMMA Kinds == /\ Types \cap LinkDecls = {}
               /\ Types \subseteq Specs /\ LinkDecls \subseteq Specs
  BY DEF Types, LinkDecls

(* One round of process adds an entry for a type or a link to the linkset, *)
(* and so keeps Inv.                                                       *)
LEMMA ProcessInv == ASSUME Inv, NEW name \in Specs, Process(name) PROVE Inv'
<1> USE DEF Inv
<1>0. /\ phase = "parse" /\ phase' = "parse" /\ name \in todo /\ todo' = todo \ {name}
      /\ DOMAIN identities = Types \ todo /\ ls = LinkDecls \ todo /\ pass = {} /\ pass' = {}
      /\ progress /\ progress' = progress
  BY DEF Process, Names
<1>1. CASE Decl[name].kind = "type"
  <2>1. name \in Types /\ name \notin LinkDecls BY <1>1 DEF Types, LinkDecls
  <2>2. identities' = Put(identities, name, Aliased(name, Decl[name].tree)) /\ ls' = ls
    BY <1>1 DEF Process
  <2>3. /\ DOMAIN identities' = DOMAIN identities \cup {name}
        /\ identities'[name] = Aliased(name, Decl[name].tree)
        /\ \A m \in DOMAIN identities : m # name => identities'[m] = identities[m]
    BY <2>2 DEF Put
  <2>4. Names' BY <1>0, <2>1, <2>2, <2>3 DEF Names, Phases
  <2>5. Entry(name, Aliased(name, Decl[name].tree))
    BY <2>1, LikeClosed DEF Entry, Aliased, Closed
  <2>6. Entries' BY <1>0, <2>3, <2>5 DEF Entries
  <2> QED BY <1>0, <2>4, <2>6 DEF Waiting
<1>2. CASE Decl[name].kind # "type"
  <2>1. identities' = identities /\ name \notin Types BY <1>2 DEF Process, Types
  <2>2. ls' = LinkDecls \ todo' BY <1>0 DEF Process, LinkDecls
  <2>3. Names' BY <1>0, <2>1, <2>2 DEF Names, Phases
  <2>4. Entries' BY <1>0, <2>1 DEF Entries
  <2> QED BY <1>0, <2>3, <2>4 DEF Waiting
<1> QED BY <1>1, <1>2

(* resolve copies the entry a link leads to: the new entry is declared like *)
(* the tree it holds.                                                      *)
LEMMA VisitInv == ASSUME Inv, NEW name \in Specs, Visit(name) PROVE Inv'
<1> USE DEF Inv
<1>0. /\ phase = "resolve" /\ phase' = "resolve" /\ todo' = todo /\ name \in pass
      /\ pass' = pass \ {name} /\ pass \subseteq ls /\ name \in LinkDecls
  BY DEF Visit, Names
<1>1. CASE found(name)
  <2> DEFINE tree == identities[Decl[name].to].tree
  <2>1. identities' = Put(identities, name, Aliased(name, tree)) /\ ls' = ls \ {name} /\ progress'
    BY <1>1, Zenon DEF Visit
  <2>2. /\ DOMAIN identities' = DOMAIN identities \cup {name}
        /\ identities'[name] = Aliased(name, tree)
        /\ \A m \in DOMAIN identities : m # name => identities'[m] = identities[m]
    BY <2>1 DEF Put
  <2>3. Names' BY <1>0, <2>1, <2>2 DEF Names, Phases
  <2>4. Decl[name].to \in Like(tree) BY <1>0, <1>1 DEF found, Entries, Entry
  <2>5. name \in Like(tree) BY <1>0, <2>4, LikeClosed DEF Closed
  <2>6. Entry(name, Aliased(name, tree)) BY <2>5 DEF Entry, Aliased
  <2>7. Entries' BY <1>0, <2>2, <2>6 DEF Entries
  <2> QED BY <1>0, <2>1, <2>3, <2>7 DEF Waiting
<1>2. CASE ~found(name)
  <2>1. identities' = identities /\ ls' = ls /\ (progress' <=> progress)
    BY <1>2, Zenon DEF Visit
  <2>2. Names' BY <1>0, <2>1 DEF Names, Phases
  <2>3. Entries' BY <1>0, <2>1 DEF Entries
  <2>4. Waiting' BY <1>0, <1>2, <2>1 DEF Waiting, found
  <2> QED BY <2>2, <2>3, <2>4
<1> QED BY <1>1, <1>2

(* When the passes end, the entries are closed under links: nothing in the *)
(* linkset leads to one of them, so nothing in it leads to a type.         *)
LEMMA EndPassesInv == ASSUME Inv, EndPasses PROVE Inv'
<1> USE DEF Inv
<1>0. /\ phase = "resolve" /\ phase' = "leftover" /\ todo' = todo /\ identities' = identities
      /\ ls' = ls /\ pass = {} /\ pass' = {}
  BY DEF EndPasses
<1>1. Names' BY <1>0 DEF Names, Phases
<1>2. Entries' BY <1>0 DEF Entries
<1>3. ASSUME NEW n \in ls, NEW m \in Types PROVE n \notin Like(Decl[m].tree)
  <2>1. ~progress BY <1>3 DEF EndPasses, another
  <2>2. \A x \in ls : Decl[x].to \notin DOMAIN identities BY <1>0, <2>1 DEF Waiting
  <2>3. DOMAIN identities \in SUBSET Specs BY <1>0, Kinds DEF Names
  <2>4. Closed(DOMAIN identities, Decl[m].tree) BY <1>0, <2>2 DEF Closed, Names
  <2>5. n \notin DOMAIN identities BY <1>0, <1>3 DEF Names
  <2> QED BY <2>3, <2>4, <2>5, LikeLeast
<1>4. Waiting' BY <1>0, <1>3 DEF Waiting, Unlike
<1> QED BY <1>1, <1>2, <1>4

(* What cannot be resolved gets its own identifier as entry, when no type  *)
(* lies behind it.                                                         *)
LEMMA LeftoverInv == ASSUME Inv, NEW name \in Specs, Leftover(name) PROVE Inv'
<1> USE DEF Inv
<1>0. /\ phase = "leftover" /\ phase' = "leftover" /\ todo' = todo /\ name \in ls
      /\ ls' = ls \ {name} /\ name \in LinkDecls /\ Unlike(name)
      /\ identities' = Put(identities, name, Aliased(name, Decl[name].tree))
  BY DEF Leftover, Names, Waiting
<1>1. /\ DOMAIN identities' = DOMAIN identities \cup {name}
      /\ identities'[name] = Aliased(name, Decl[name].tree)
      /\ \A m \in DOMAIN identities : m # name => identities'[m] = identities[m]
  BY <1>0 DEF Put
<1>2. Names' BY <1>0, <1>1 DEF Names, Phases
<1>3. Left(name, Aliased(name, Decl[name].tree)) BY <1>0 DEF Left, Aliased
<1>4. Entries' BY <1>0, <1>1, <1>3 DEF Entries
<1>5. Waiting' BY <1>0 DEF Waiting
<1> QED BY <1>2, <1>4, <1>5

(* The steps that only begin or end a loop of process and resolve.         *)
LEMMA OtherStepsInv == ASSUME Inv, Processed \/ BeginPass \/ Resolved PROVE Inv'
<1> USE DEF Inv
<1>1. CASE Processed
  <2>1. /\ phase = "parse" /\ todo = {} /\ phase' = IF ls = {} THEN "resolved" ELSE "resolve"
        /\ UNCHANGED <<todo, identities, ls, pass, progress>>
    BY <1>1 DEF Processed
  <2>2. DOMAIN identities = Types /\ ls = LinkDecls /\ pass = {} /\ progress BY <2>1 DEF Names
  <2>3. Names' BY <2>1, <2>2, Kinds DEF Names, Phases
  <2>4. Entries' BY <2>1 DEF Entries
  <2>5. Waiting' BY <2>1, <2>2 DEF Waiting
  <2> QED BY <2>3, <2>4, <2>5
<1>2. CASE BeginPass
  <2>1. /\ phase = "resolve" /\ phase' = phase /\ pass' = ls
        /\ UNCHANGED <<todo, identities, ls>>
    BY <1>2 DEF BeginPass
  <2> QED BY <2>1 DEF Names, Entries, Waiting, Phases
<1>3. CASE Resolved
  <2>1. /\ phase = "leftover" /\ ls = {} /\ phase' = "resolved"
        /\ UNCHANGED <<todo, identities, ls, pass, progress>>
    BY <1>3 DEF Resolved
  <2> QED BY <2>1 DEF Names, Entries, Waiting, Phases
<1> QED BY <1>1, <1>2, <1>3

(* Inv is inductive: no step of process or resolve breaks it.              *)
LEMMA StepInv == Inv /\ [NextLinks]_linkVars => Inv'
<1> SUFFICES ASSUME Inv, [NextLinks]_linkVars PROVE Inv' OBVIOUS
<1>1. CASE NextLinks
  BY <1>1, ProcessInv, VisitInv, LeftoverInv, EndPassesInv, OtherStepsInv DEF NextLinks
<1>2. CASE UNCHANGED linkVars
  BY <1>2 DEF linkVars, Inv, Names, Entries, Waiting
<1> QED BY <1>1, <1>2

(* At the end of resolve, Inv says what the Identities are.                *)
LEMMA InvConfluent == Inv => Confluent
<1> SUFFICES ASSUME Inv, phase = "resolved" PROVE
      /\ DOMAIN identities = Types \cup LinkDecls
      /\ \A n \in Types \cup LinkDecls :
           /\ identities[n].alias = n
           /\ \/ n \in Like(identities[n].tree)
              \/ /\ n \in LinkDecls /\ identities[n].tree = Decl[n].tree
                 /\ \A m \in Types : n \notin Like(Decl[m].tree)
  BY DEF Confluent
<1>1. DOMAIN identities = Types \cup LinkDecls BY DEF Inv, Names
<1> QED BY <1>1 DEF Inv, Entries, Entry, Left, Unlike

(* Confluent holds for every set of declarations, with chains of links of  *)
(* any length, cycles and links that lead out of the FileSet: resolve's    *)
(* result does not depend on the order of Go's maps.  With OneMeaning it   *)
(* determines the tree of every name.                                      *)
THEOREM ResolveConfluent == SpecLinks => []Confluent
<1>1. InitLinks => Inv BY InitInv
<1>2. Inv /\ [NextLinks]_linkVars => Inv' BY StepInv
<1>3. Inv => Confluent BY InvConfluent
<1> QED BY <1>1, <1>2, <1>3, PTL DEF SpecLinks
=============================================================================

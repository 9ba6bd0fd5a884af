--------------------------- MODULE Relationships ---------------------------
(***************************************************************************)
(* Component relationships: server/api/relationships.py creates, deletes   *)
(* and backfills them, get_ancestry of server/api/layers.py walks them.    *)
(* Each query sees what is committed when it runs (READ COMMITTED), each   *)
(* handler commits once.  A product removed meanwhile takes its            *)
(* relationships with it.                                                  *)
(***************************************************************************)
EXTENDS Naturals, Sequences, FiniteSets, Functions

CONSTANTS
  Products,     \* product rows: [name, version]; a name is the sequence of its parts
  Containers,   \* container scans: [product, readable, spdx, described, tools]
  Clients,      \* concurrent requests
  MaxDepth,     \* levels get_ancestry follows, ten in the source
  MaxRequests,  \* bound: requests made
  None

\* "maintained" is treated as "layered" is.
Types == {"layered", "build_tool"}

RelationshipsAssumption ==
  /\ MaxDepth \in Nat \ {0} /\ MaxRequests \in Nat
  /\ IsFiniteSet(Products) /\ \A p \in Products : p.version \in Nat /\ p.name # None
  /\ None \notin Products \cup [parent : Products, component : Products, type : Types]

VARIABLES
  alive,  \* products in the database
  rels,   \* relationships: [parent, component, type]
  req,    \* what each client's request is doing
  made    \* requests made

vars == <<alive, rels, req, made>>

\* quiet: nothing was committed since the request began.
Idle == [pc |-> "idle", quiet |-> TRUE, rel |-> None, chain |-> <<>>, inferred |-> FALSE,
         todo |-> {}, existing |-> {}, known |-> {}, adding |-> {}]

Init == /\ alive = Products /\ rels = {} /\ made = 0
        /\ req = [c \in Clients |-> Idle]

\* A unique pair and two foreign keys.
Accepts(rows, products) ==
  /\ \A r, s \in rows : r.parent = s.parent /\ r.component = s.component => r = s
  /\ \A r \in rows : {r.parent, r.component} \subseteq products

Disturbed(c, record) ==
  req' = [d \in Clients |-> IF d = c THEN record ELSE [req[d] EXCEPT !.quiet = FALSE]]

Begin(c, record) ==
  /\ req[c].pc = "idle" /\ made < MaxRequests
  /\ made' = made + 1
  /\ req' = [req EXCEPT ![c] = record]
  /\ UNCHANGED <<alive, rels>>

Return(c) == req' = [req EXCEPT ![c] = Idle]

----------------------------------------------------------------------------
(* create_relationship, delete_relationship, delete_product.               *)

\* Both products exist and no relationship of theirs: otherwise 404 or 409.
BeginCreate(c) ==
  \E p, q \in alive, t \in Types :
    /\ ~ \E r \in rels : r.parent = p /\ r.component = q
    /\ Begin(c, [Idle EXCEPT !.pc = "create",
                             !.rel = [parent |-> p, component |-> q, type |-> t]])

\* The insert fails when the pair was taken or a product removed meanwhile.
Create(c) ==
  /\ req[c].pc = "create"
  /\ IF Accepts(rels \cup {req[c].rel}, alive)
     THEN rels' = rels \cup {req[c].rel} /\ Disturbed(c, Idle)
     ELSE Return(c) /\ UNCHANGED rels
  /\ UNCHANGED <<alive, made>>

DeleteRelationship(c) ==
  \E r \in rels :
    /\ req[c].pc = "idle" /\ made < MaxRequests /\ made' = made + 1
    /\ rels' = rels \ {r}
    /\ Disturbed(c, Idle)
    /\ UNCHANGED alive

DeleteProduct(c) ==
  \E p \in alive :
    /\ req[c].pc = "idle" /\ made < MaxRequests /\ made' = made + 1
    /\ alive' = alive \ {p}
    /\ rels' = {r \in rels : p \notin {r.parent, r.component}}
    /\ Disturbed(c, Idle)

----------------------------------------------------------------------------
(* backfill_build_tool_relationships.                                      *)

\* _extract_spdx_build_tools: the images that are a build tool of the described
\* package, or of any when none is described.
BuildTools(scan) ==
  {t.name : t \in {x \in scan.tools : x.oci /\ scan.described \in {None, x.of}}}

\* Mutant: the lowest version.
Oldest(products) == CHOOSE p \in products : \A q \in products : p.version <= q.version

Newest(products) == CHOOSE p \in products : \A q \in products : q.version <= p.version

\* The scans, products and pairs are read first.
BeginBackfill(c) ==
  Begin(c, [Idle EXCEPT !.pc = "backfill", !.todo = {s \in Containers : s.product \in alive},
                        !.known = alive,
                        !.existing = {<<r.parent, r.component>> : r \in rels}])

\* A stored SBOM, while its product has it: an unreadable or other one is skipped.
Backfill(c) ==
  \E s \in req[c].todo :
    LET candidates(n) == {p \in req[c].known : p.name = n}
        bases == IF s.readable /\ s.spdx /\ s.product \in alive
                 THEN {n \in BuildTools(s) : candidates(n) # {}} ELSE {}
        pairs == {<<s.product, Newest(candidates(n))>> : n \in bases}
    IN  /\ req[c].pc = "backfill"
        /\ req' = [req EXCEPT ![c].todo = @ \ {s},
                              ![c].adding = @ \cup (pairs \ req[c].existing)]
        /\ UNCHANGED <<alive, rels, made>>

Built(pairs) == {[parent |-> e[1], component |-> e[2], type |-> "build_tool"] : e \in pairs}

\* Mutant: the database has no constraint.
CommitUnchecked(c) ==
  /\ req[c].pc = "backfill" /\ req[c].todo = {}
  /\ rels' = rels \cup Built(req[c].adding) /\ Disturbed(c, Idle)
  /\ UNCHANGED <<alive, made>>

\* One commit: a pair taken meanwhile fails all of it.
CommitBackfill(c) ==
  /\ req[c].pc = "backfill" /\ req[c].todo = {}
  /\ IF Accepts(rels \cup Built(req[c].adding), alive)
     THEN rels' = rels \cup Built(req[c].adding) /\ Disturbed(c, Idle)
     ELSE Return(c) /\ UNCHANGED rels
  /\ UNCHANGED <<alive, made>>

----------------------------------------------------------------------------
(* get_ancestry.                                                           *)

\* _infer_base_name.
Inferred(name) ==
  LET parts == Range(name)
  IN  IF name[1] = "ubi9" \/ "rhel9" \notin parts THEN None
      ELSE IF "minimal" \in parts THEN <<"ubi9", "minimal">> ELSE <<"ubi9">>

Current(c) == req[c].chain[Len(req[c].chain)]
Visited(c) == Range(req[c].chain)

BeginAncestry(c) ==
  \E p \in alive : Begin(c, [Idle EXCEPT !.pc = "relation", !.chain = <<p>>])

\* first(): some build_tool relationship of the current product.
Relation(c) ==
  LET found == {r \in rels : r.parent = Current(c) /\ r.type = "build_tool"}
  IN  /\ req[c].pc = "relation"
      /\ \E r \in IF found = {} THEN {None} ELSE found :
           req' = [req EXCEPT ![c].rel = r, ![c].pc = "parent"]
      /\ UNCHANGED <<alive, rels, made>>

StepUp(c) ==
  /\ req[c].rel # None
  /\ req[c].rel.component \in alive \ Visited(c)

\* The product whose name the first one's tells, in its highest version.
Base(c) ==
  LET named == {p \in alive : p.name = Inferred(Current(c).name)}
  IN  IF Len(req[c].chain) = 1 /\ Current(c) \in alive /\ named # {}
      THEN Newest(named) ELSE None

Parent(c) ==
  LET next == IF StepUp(c) THEN req[c].rel.component ELSE Base(c)
  IN  /\ req[c].pc = "parent"
      /\ req' = [req EXCEPT
           ![c].chain = IF next = None THEN @ ELSE Append(@, next),
           ![c].inferred = IF StepUp(c) \/ next = None THEN @ ELSE TRUE,
           ![c].pc = IF next = None \/ Len(req[c].chain) = MaxDepth
                     THEN "answered" ELSE "relation"]
      /\ UNCHANGED <<alive, rels, made>>

Answered(c) == req[c].pc = "answered" /\ Return(c) /\ UNCHANGED <<alive, rels, made>>

----------------------------------------------------------------------------

Quiet == /\ made = MaxRequests /\ \A c \in Clients : req[c].pc = "idle"
         /\ UNCHANGED vars

Handle(c) ==
  \/ Create(c) \/ Backfill(c) \/ CommitBackfill(c)
  \/ Relation(c) \/ Parent(c) \/ Answered(c)

Next ==
  \/ \E c \in Clients :
       \/ Handle(c)
       \/ BeginCreate(c) \/ DeleteRelationship(c) \/ DeleteProduct(c)
       \/ BeginBackfill(c) \/ BeginAncestry(c)
  \/ Quiet

Spec == Init /\ [][Next]_vars /\ \A c \in Clients : WF_vars(Handle(c))

----------------------------------------------------------------------------
(* Properties.                                                             *)

TypeOK ==
  /\ alive \subseteq Products /\ made \in 0 .. MaxRequests
  /\ rels \subseteq [parent : Products, component : Products, type : Types]
  /\ \A c \in Clients : Range(req[c].chain) \subseteq Products

\* A pair of products has one relationship, and both exist, whatever creations,
\* backfills and removals overlap.
OneRelationPerPair == Accepts(rels, alive)

\* A backfill relates a container only to an image its SBOM names as its build
\* tool, and to the highest version there was of it when it began.
BackfillNamesTheTool ==
  \A c \in Clients : CommitBackfill(c) =>
    \A r \in rels' \ rels :
      /\ \E s \in Containers : s.product = r.parent /\ r.component.name \in BuildTools(s)
      /\ ~ \E p \in req[c].known : /\ p.name = r.component.name
                                   /\ p.version > r.component.version

Tools(p) == {r.component : r \in {x \in rels : x.parent = p /\ x.type = "build_tool"}}

\* An ancestry no write overlapped names no product twice, goes along build_tool
\* relationships after the inferred one, and stops only where no new one leads on.
AncestryIsHeritage ==
  \A c \in Clients :
    LET chain == req[c].chain
    IN  req[c].pc = "answered" =>
          /\ IsInjective(chain)
          /\ req[c].quiet =>
               /\ \A i \in (IF req[c].inferred THEN 2 ELSE 1) .. Len(chain) - 1 :
                    chain[i + 1] \in Tools(chain[i])
               /\ \/ Tools(Current(c)) = {} \/ Len(chain) = MaxDepth + 1
                  \/ Tools(Current(c)) \cap Visited(c) # {}

============================================================================

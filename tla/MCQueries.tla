----------------------------- MODULE MCQueries -----------------------------
(***************************************************************************)
(* The endpoints that read what scans have stored and that relate it, side *)
(* by side in one state space: the initial state chooses a part, and the   *)
(* variables of the others stay empty.  The parts share tables only        *)
(* through scans, which each of them models for itself.                    *)
(***************************************************************************)
EXTENDS VulcanAnalyses

VARIABLES
  part,
  hits, analysis,                          \* VulcanDedup
  products, uploads, packages, dependencies, batches, nextId, task, offset, got, stayed,
  pushed, shrank, reply,                                 \* PagedQueries
  scans, layers, sources, marking, fresh, runs, \* ImageLayers
  alive, rels, req, made                   \* Relationships

dedupVars == <<hits, analysis>>
pageVars == <<products, uploads, packages, dependencies, batches, nextId, task, offset, got,
              stayed, pushed, shrank, reply>>
layerVars == <<scans, layers, sources, marking, fresh, runs>>
relVars == <<alive, rels, req, made>>
allVars == <<part, vars, dedupVars, pageVars, layerVars, relVars>>

----------------------------------------------------------------------------
(* The instances.                                                          *)

\* An inventory: a repository, base images of one family, and containers with
\* each kind of evidence about their base.
Container(name, version, tool, base, first) ==
  [name |-> name, version |-> version, type |-> "container", tool |-> tool,
   base |-> base, first |-> first]

Inventory ==
  {[name |-> <<"rhel">>, version |-> "1", type |-> "directory", tool |-> None,
    base |-> None, first |-> None],
   Container(<<"ubi9">>, "1", None, None, "d1"),
   Container(<<"ubi9">>, "2", None, None, None),
   Container(<<"app", "rhel9">>, "1", None, None, "d1"),
   Container(<<"app", "minimal", "rhel9">>, "1", None, None, None),
   Container(<<"web">>, "1", <<"ubi9", ":", "1">>, None, None),
   Container(<<"etcd">>, "1", None, <<"ubi9", "minimal", ":", "1">>, "d2"),
   Container(<<"tool">>, "1", None, None, "d1")}

Dedup == INSTANCE VulcanDedup WITH Products <- Inventory, MaxHits <- 3

\* Three products and their dependencies, listed one row to a page.
Pages == INSTANCE PagedQueries WITH
  Products <- 1 .. 3, Systems <- {}, Names <- {}, Processes <- {"p1"},
  Limit <- 1, ListLimit <- 2, MaxRows <- 3

\* Dependencies that two processes insert at the same time.
BusyPages == INSTANCE PagedQueries WITH
  Products <- {1}, Systems <- {}, Names <- {}, Processes <- {"p1", "p2"},
  Limit <- 1, ListLimit <- 2, MaxRows <- 4

\* Packages of a product and of a system, searched by pages of one row and two.
Searches == INSTANCE PagedQueries WITH
  Products <- {1}, Systems <- {11}, Names <- {1, 2}, Processes <- {"p1"},
  Limit <- 1, ListLimit <- 2, MaxRows <- 4

\* Chains that extend one another; the packages of a scan name their layers alike.
Alike(chain, value) == [i \in DOMAIN chain |-> value]
Unmarked == [base |-> FALSE, image |-> None]
Form(chain, by, marked, tag) ==
  [chain |-> chain, by |-> Alike(chain, by), tags |-> Alike(chain, tag),
   rows |-> [i \in DOMAIN chain |->
               IF i <= marked THEN [base |-> TRUE, image |-> "mid"] ELSE Unmarked]]

One == <<"a">>
Two == <<"a", "b">>
Three == <<"a", "b", "c">>

\* Scans as they come from clients that mark nothing, that take two layers for those of
\* mid, and that send no layers.
Layers == INSTANCE ImageLayers WITH
  Products <- <<"app", "base", "mid">>, Images <- {"app", "base", "mid", "ref"},
  Forms <- {Form(One, "digest", 0, None), Form(Two, "digest", 0, None),
            Form(Three, "digest", 0, None), Form(Three, "digest", 2, "ref"),
            [Form(Two, "digest", 0, "ref") EXCEPT !.rows = <<>>]},
  Clients <- {"c1"}, Together <- 1, MaxScans <- 3, MaxRuns <- 2,
  packages <- sources, plan <- marking

\* Packages that name their layer in every way, enriched by two at a time.
KeyedLayers == INSTANCE ImageLayers WITH
  Products <- <<"app", "base">>, Images <- {"app", "base", "mid", "ref"},
  Forms <- {Form(One, "digest", 0, None), Form(Two, "index", 0, None), Form(Two, "none", 1, "ref"),
            Form(Three, "index", 1, "ref"),
            [Form(Three, "index", 0, "ref") EXCEPT !.by = <<"index", "digest", "digest">>]},
  Clients <- {"c1", "c2"}, Together <- 2, MaxScans <- 2, MaxRuns <- 2,
  packages <- sources, plan <- marking

\* A base image in two versions and a container scanned twice.
Ubi9v1 == [name |-> <<"ubi9">>, version |-> 1]
Ubi9v2 == [name |-> <<"ubi9">>, version |-> 2]
App == [name |-> <<"app", "rhel9">>, version |-> 1]
Tool(of, name, oci) == [of |-> of, name |-> name, oci |-> oci]

Containers ==
  {[product |-> App, readable |-> TRUE, spdx |-> TRUE, described |-> "image",
    tools |-> {Tool("image", <<"ubi9">>, TRUE), Tool("other", <<"go", "rhel9">>, TRUE),
               Tool("image", <<"make">>, FALSE)}],
   [product |-> App, readable |-> TRUE, spdx |-> TRUE, described |-> None,
    tools |-> {Tool("any", <<"ubi9">>, TRUE)}],
   [product |-> Ubi9v1, readable |-> FALSE, spdx |-> TRUE, described |-> None, tools |-> {}]}

Rels == INSTANCE Relationships WITH
  Products <- {Ubi9v1, Ubi9v2, App}, Clients <- {"c1", "c2"}, MaxDepth <- 2, MaxRequests <- 2

\* One client that creates relationships, cycles among them, and walks along them.
LongerRels == INSTANCE Relationships WITH
  Products <- {Ubi9v1, Ubi9v2, App}, Clients <- {"c1"}, MaxDepth <- 2, MaxRequests <- 3

ASSUME PartsAssumption ==
  Dedup!VulcanAssumption /\ Layers!LayersAssumption
  /\ Pages!PagesAssumption /\ BusyPages!PagesAssumption /\ Searches!PagesAssumption
  /\ KeyedLayers!LayersAssumption
  /\ Rels!RelationshipsAssumption /\ LongerRels!RelationshipsAssumption

----------------------------------------------------------------------------
(* One part runs.                                                          *)

NoDedup == hits = None /\ analysis = None
NoPages == /\ products = None /\ uploads = None /\ packages = None
           /\ dependencies = None /\ batches = None /\ nextId = None /\ task = None
           /\ offset = None /\ got = None /\ stayed = None /\ pushed = None
           /\ shrank = None /\ reply = None
NoLayers == /\ scans = None /\ layers = None /\ sources = None /\ marking = None
            /\ fresh = None /\ runs = None
NoRels == alive = None /\ rels = None /\ req = None /\ made = None

QueriesInit ==
  /\ Init
  /\ \/ part = "analyses" /\ NoDedup /\ NoPages /\ NoLayers /\ NoRels
     \/ part = "impact" /\ Dedup!Init /\ NoPages /\ NoLayers /\ NoRels
     \/ /\ \/ part = "pages" /\ Pages!Init
           \/ part = "busy pages" /\ BusyPages!Init
           \/ part = "searches" /\ Searches!Init
        /\ NoDedup /\ NoLayers /\ NoRels
     \/ part = "layers" /\ Layers!Init /\ NoDedup /\ NoPages /\ NoRels
     \/ part = "keyed layers" /\ KeyedLayers!Init /\ NoDedup /\ NoPages /\ NoRels
     \/ part = "relationships" /\ Rels!Init /\ NoDedup /\ NoPages /\ NoLayers
     \/ part = "longer relationships" /\ LongerRels!Init /\ NoDedup /\ NoPages /\ NoLayers

AnalysesPart(A) ==
  part = "analyses" /\ A /\ UNCHANGED <<part, dedupVars, pageVars, layerVars, relVars>>
RelsPart(p, A) ==
  part = p /\ A /\ UNCHANGED <<part, vars, dedupVars, pageVars, layerVars>>

ImpactNext ==
  part = "impact" /\ Dedup!Next /\ UNCHANGED <<part, vars, pageVars, layerVars, relVars>>
PagesNext ==
  /\ \/ part = "pages" /\ Pages!Next
     \/ part = "busy pages" /\ BusyPages!Next
     \/ part = "searches" /\ Searches!Next
  /\ UNCHANGED <<part, vars, dedupVars, layerVars, relVars>>
LayersNext ==
  /\ \/ part = "layers" /\ Layers!Next
     \/ part = "keyed layers" /\ KeyedLayers!Next
  /\ UNCHANGED <<part, vars, dedupVars, pageVars, relVars>>

QueriesNext ==
  \/ AnalysesPart(Next) \/ ImpactNext \/ PagesNext \/ LayersNext
  \/ RelsPart("relationships", Rels!Next) \/ RelsPart("longer relationships", LongerRels!Next)

\* The fairness that each part states for itself: parts exclude one another, so
\* that one condition serves an action of each.
QueriesSpec ==
  /\ QueriesInit /\ [][QueriesNext]_allVars
  /\ \A r \in Resolvers : WF_allVars(AnalysesPart(Handle(r)))
  /\ \A r \in Deleters : WF_allVars(AnalysesPart(Handle(r)))
  /\ WF_allVars(\/ RelsPart("relationships", Rels!Handle("c1"))
                \/ RelsPart("longer relationships", LongerRels!Handle("c1")))
  /\ WF_allVars(RelsPart("relationships", Rels!Handle("c2")))

----------------------------------------------------------------------------
(* Properties.                                                             *)

\* The type invariant of the parts that have tables of their own.
PartsTypeOK ==
  /\ part = "layers" => Layers!TypeOK
  /\ part = "keyed layers" => KeyedLayers!TypeOK
  /\ part = "relationships" => Rels!TypeOK
  /\ part = "longer relationships" => LongerRels!TypeOK

\* Every affected product is counted in one category, and where one base image
\* is affected each container built on a base has exactly one tracker that covers it.
TrackersCoverOnce ==
  part = "impact" => Dedup!EachProductOnce /\ Dedup!LayeredCoveredOnce

\* A listing read page by page while others delete and insert loses no row unless one is
\* deleted, repeats one only after a row appeared before one it had read, and no
\* dependency where one process inserts them; and a search by owner that returns less
\* than a page has returned everything.
PagesKeepRows ==
  /\ part = "pages" =>
       Pages!GrowthLosesNothing /\ Pages!OnlyInsertsRepeat /\ Pages!DependenciesListedOnce
  /\ part = "busy pages" =>
       /\ BusyPages!GrowthLosesNothing /\ BusyPages!OnlyInsertsRepeat
       /\ BusyPages!DependenciesListedOnce
  /\ part = "searches" => Searches!GrowthLosesNothing /\ Searches!ScopedPageIsFull


\* A pair of products has one relationship, between products that exist, and an
\* undisturbed ancestry follows build_tool relationships without repeating itself.
RelationsHold ==
  /\ part = "relationships" => Rels!OneRelationPerPair /\ Rels!AncestryIsHeritage
  /\ part = "longer relationships" => LongerRels!OneRelationPerPair /\ LongerRels!AncestryIsHeritage

\* No backfill relates a container to an image that none of its SBOMs names as
\* build tool, or to another than the highest version it knew.
BackfillNamesTheTool == 
  [][/\ part = "relationships" => Rels!BackfillNamesTheTool
     /\ part = "longer relationships" => LongerRels!BackfillNamesTheTool]_allVars

InRels(c) == part = "relationships" \/ (part = "longer relationships" /\ c = "c1")
Walking(c) == InRels(c) /\ req[c].pc # "idle"
Answered(c) == InRels(c) /\ req[c].pc = "idle"

\* Every request is answered: resolves and deletes that wait for each other's
\* rows, backfills, and walks along relationships that form a cycle.
RequestsAnswered ==
  /\ <>(part = "analyses" => \A r \in Requests : pc[r] = "done")
  /\ \A c \in {"c1", "c2"} : Walking(c) ~> Answered(c)
=============================================================================

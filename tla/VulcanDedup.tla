---------------------------- MODULE VulcanDedup ----------------------------
(***************************************************************************)
(* The CVE impact analysis of server/api/vulcan.py: the products that have *)
(* the component are sorted into categories and a set of trackers is       *)
(* recommended, one for a base image and the containers built on it.       *)
(*                                                                         *)
(* A name is a sequence of its parts, so that one name may contain         *)
(* another.  The database answers the query in no particular order.        *)
(***************************************************************************)
EXTENDS Naturals, Sequences, FiniteSets, Functions

CONSTANTS
  Products,  \* inventory: see ProductShape
  MaxHits,   \* bound: rows of the query
  None

\* A product's scan is of a type; a container may have a build_tool relationship
\* (tool), layers marked as base and taken from an image (base), and a first layer.
ProductShape(p) ==
  DOMAIN p = {"name", "version", "type", "tool", "base", "first"}

VulcanAssumption == MaxHits \in Nat /\ \A p \in Products : ProductShape(p)

VARIABLES
  hits,     \* rows of the query: a product, and the layer that holds the package
  analysis  \* the stored analysis, or None

vars == <<hits, analysis>>

Places == {"base", "app", "unknown"}

----------------------------------------------------------------------------
(* _run_analysis.                                                          *)

\* _infer_base_image.
Inferred(name) ==
  LET parts == Range(name)
  IN  IF name[1] = "ubi9" \/ "rhel9" \notin parts THEN None
      ELSE IF "minimal" \in parts THEN <<"ubi9", "minimal">> ELSE <<"ubi9">>

\* digest_to_base: the first named image, in the order of the rows, names the base
\* of every image that shares its first layer.
SharedBase(rows, p) ==
  LET named == {i \in DOMAIN rows : /\ rows[i].product.type = "container"
                                    /\ rows[i].product.first = p.first
                                    /\ Inferred(rows[i].product.name) # None}
      i == CHOOSE k \in named : \A l \in named : k <= l
  IN  IF p.first = None \/ named = {} THEN None ELSE Inferred(rows[i].product.name)

\* The base of a container without build_tool relationship and base layers.
Guessed(rows, p) ==
  IF Inferred(p.name) # None THEN Inferred(p.name) ELSE SharedBase(rows, p)

Category(rows, hit) ==
  LET p == hit.product
  IN  CASE p.type # "container" -> "rhel_repos"
        [] p.type = "container" /\ p.tool # None -> "layered"
        [] p.type = "container" /\ p.tool = None /\ p.base # None ->
             IF hit.place = "base" THEN "layered" ELSE "app_layer"
        [] OTHER -> IF Guessed(rows, p) # None THEN "layered" ELSE "base_images"

BaseSource(rows, hit) ==
  LET p == hit.product
  IN  IF p.tool # None THEN p.tool
      ELSE IF p.base # None THEN p.base ELSE Guessed(rows, p)

\* seen: the first row of a product decides.
FirstHits(rows) ==
  {i \in DOMAIN rows : \A k \in 1 .. i - 1 : rows[k].product # rows[i].product}

Filed(rows, category) == {i \in FirstHits(rows) : Category(rows, rows[i]) = category}

----------------------------------------------------------------------------
(* _build_trackers.                                                        *)

Contains(whole, part) ==
  \E i \in 0 .. Len(whole) - Len(part) : SubSeq(whole, i + 1, i + Len(part)) = part

\* base_groups: a base source and the rows of its children.
Sources(rows) == {BaseSource(rows, rows[i]) : i \in Filed(rows, "layered")}
Children(rows, source) ==
  {i \in Filed(rows, "layered") : BaseSource(rows, rows[i]) = source}

\* The groups are visited in the order in which they appeared; a later match
\* overwrites an earlier one.
Matches(rows, p) == {s \in Sources(rows) : Contains(s, p.name)}
LastMatch(rows, p) ==
  LET since(s) == CHOOSE i \in Children(rows, s) : \A k \in Children(rows, s) : i <= k
  IN  CHOOSE s \in Matches(rows, p) : \A t \in Matches(rows, p) : since(t) <= since(s)

BaseTracker(rows, i) ==
  LET p == rows[i].product
  IN  [type |-> "base_image", of |-> <<p.name, p.version>>,
       covers |-> IF Matches(rows, p) = {} THEN {} ELSE Children(rows, LastMatch(rows, p))]

\* Mutant: every group gets a tracker of its own.
UnmatchedAll(rows) == Sources(rows)

\* matched_sources: the groups that some covering base image matches.
Unmatched(rows) ==
  {s \in Sources(rows) :
     ~ \E i \in Filed(rows, "base_images") : Contains(s, rows[i].product.name)}

UnscannedTracker(rows, source) ==
  [type |-> "base_image", of |-> <<source, "(unscanned)">>, covers |-> Children(rows, source)]

AppTracker(rows, i) ==
  [type |-> "app_layer", of |-> <<rows[i].product.name, rows[i].product.version>>, covers |-> {}]

TrackersFor(rows) ==
  {BaseTracker(rows, i) : i \in Filed(rows, "base_images")}
    \cup {UnscannedTracker(rows, s) : s \in Unmatched(rows)}
    \cup {AppTracker(rows, i) : i \in Filed(rows, "app_layer")}

----------------------------------------------------------------------------

Rows == [product : Products, place : Places]

\* A row says where the package lies in the product's scan: a layer marked as base
\* only where there are some, no layer at all outside containers.
Possible(row) ==
  /\ row.place = "base" => row.product.base # None
  /\ row.product.type # "container" => row.place = "unknown"

\* DISTINCT: no row twice.
Init ==
  /\ hits \in UNION {[1 .. n -> {r \in Rows : Possible(r)}] : n \in 0 .. MaxHits}
  /\ \A i, k \in DOMAIN hits : hits[i] = hits[k] => i = k
  /\ analysis = None

\* analyze counts and stores what the two functions return.
Analyze ==
  /\ analysis = None
  /\ analysis' =
       [rhel_repos |-> Cardinality(Filed(hits, "rhel_repos")),
        base_images |-> Cardinality(Filed(hits, "base_images")),
        layered |-> Cardinality(Filed(hits, "layered")),
        app_layer |-> Cardinality(Filed(hits, "app_layer")),
        trackers |-> TrackersFor(hits)]
  /\ UNCHANGED hits

Stored == analysis # None /\ UNCHANGED vars

Next == Analyze \/ Stored

Spec == Init /\ [][Next]_vars

----------------------------------------------------------------------------
(* Properties.                                                             *)

Affected == {hits[i].product : i \in DOMAIN hits}
Layered == Filed(hits, "layered")
Covering(i) == {t \in analysis.trackers : i \in t.covers}

\* Every affected product is counted once, in one category, whatever the order
\* of the rows.
EachProductOnce ==
  analysis # None =>
    analysis.rhel_repos + analysis.base_images + analysis.layered + analysis.app_layer
      = Cardinality(Affected)

Scanned == {i \in DOMAIN hits : i \in Filed(hits, "base_images")}

\* Where at most one base image is affected and it matches one group, each
\* container built on a base is covered by exactly one tracker.
LayeredCoveredOnce ==
  analysis # None /\ Cardinality(Scanned) <= 1
    /\ (\A i \in Scanned : Cardinality(Matches(hits, hits[i].product)) <= 1)
      => \A i \in Layered : Cardinality(Covering(i)) = 1

============================================================================

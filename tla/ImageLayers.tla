---------------------------- MODULE ImageLayers ----------------------------
(***************************************************************************)
(* Container layers of server/api/layers.py: the batch that marks the      *)
(* layers a product shares with a base image, and the queries that read    *)
(* the marks.  A scan's chain is the sequence of its layers' digests, the  *)
(* bottom one first, with one package in each layer that names it by       *)
(* digest, by position only, or not at all.  A client may send the chain   *)
(* with its scan or not, marks layers with the base image it takes them to *)
(* come from (from chains it read earlier, in scan-containers.py), and     *)
(* gives packages a source image of its own.                               *)
(***************************************************************************)
EXTENDS Naturals, Sequences, FiniteSets, Functions, TLC

CONSTANTS
  Products,  \* container products, in the order of their names: a sequence
  Images,    \* what images are called, by products and by clients
  Forms,     \* what clients upload of a container: [chain, by, rows, tags]
  Clients,   \* concurrent enrich requests
  Together,  \* scans a product may have at a time
  MaxScans,  \* bound: scans stored
  MaxRuns,   \* bound: enrichments
  None

\* A row of image_layers: whether it is marked as a base layer, and of which image.
Row == [base : BOOLEAN, image : Images \cup {None}]

\* by: how the package in each layer names it; rows: the layers sent, if they are;
\* tags: the packages' source images.
LayersAssumption ==
  /\ {Together, MaxScans, MaxRuns} \subseteq Nat
  /\ Products \in Seq(Range(Products)) /\ Range(Products) \subseteq Images
  /\ None \notin Images
  /\ \A f \in Forms :
       /\ f.chain \in Seq(Range(f.chain)) /\ f.chain # <<>>
       /\ f.by \in [DOMAIN f.chain -> {"digest", "index", "none"}]
       /\ f.rows = <<>> \/ f.rows \in [DOMAIN f.chain -> Row]
       /\ f.tags \in [DOMAIN f.chain -> Images \cup {None}]
  /\ \A S \in SUBSET (1 .. MaxScans) :
       None \notin [S -> [base : Range(Products), below : {f.chain : f \in Forms}]]

VARIABLES
  scans,     \* sequence of scans: [product, chain, by, rows, live], rows as they came
  layers,    \* image_layers: <<scan, index>> -> its row
  packages,  \* <<scan, index>> -> source_image of the package found in that layer
  plan,      \* each enrichment: the base and its depth for each scan it will mark
  fresh,     \* a history variable: no run that read before the last change will write
  runs       \* enrichments begun

vars == <<scans, layers, packages, plan, fresh, runs>>

Live == {s \in DOMAIN scans : scans[s].live}

Init == /\ scans = <<>> /\ layers = <<>> /\ packages = <<>>
        /\ plan = [c \in Clients |-> None] /\ fresh = FALSE /\ runs = 0

----------------------------------------------------------------------------
(* A scan is stored with what the client sent, and removed with it.        *)

ScansOf(p) == {s \in Live : scans[s].product = p}

\* Those that image_layers knows.
Layered(p) == {s \in ScansOf(p) : scans[s].rows # <<>>}

StoreScan ==
  \E p \in Range(Products), f \in Forms :
    LET s == Len(scans) + 1
    IN  /\ s <= MaxScans /\ Cardinality(ScansOf(p)) < Together
        /\ scans' = Append(scans, [product |-> p, chain |-> f.chain, by |-> f.by,
                                   rows |-> f.rows, live |-> TRUE])
        /\ layers' = [k \in DOMAIN layers \cup ({s} \X DOMAIN f.rows) |->
                         IF k[1] = s THEN f.rows[k[2]] ELSE layers[k]]
        /\ packages' = [k \in DOMAIN packages \cup ({s} \X DOMAIN f.tags) |->
                           IF k[1] = s THEN f.tags[k[2]] ELSE packages[k]]
        /\ fresh' = FALSE
        /\ UNCHANGED <<plan, runs>>

RemoveScan ==
  \E s \in Live :
    /\ scans' = [scans EXCEPT ![s].live = FALSE]
    /\ layers' = [k \in {x \in DOMAIN layers : x[1] # s} |-> layers[k]]
    /\ packages' = [k \in {x \in DOMAIN packages : x[1] # s} |-> packages[k]]
    /\ fresh' = FALSE
    /\ UNCHANGED <<plan, runs>>

----------------------------------------------------------------------------
(* enrich_layers.                                                          *)

\* A row is <<index, scan>>; the database breaks ties, the first row is the leader's.
RowsOf(p) == UNION {(DOMAIN scans[s].chain) \X {s} : s \in Layered(p)}

NotAfter(q, r, leader) ==
  \/ q[1] < r[1]
  \/ /\ q[1] = r[1]
     /\ q[2] = r[2] \/ q[2] = leader \/ (r[2] # leader /\ q[2] < r[2])

\* product_chains: the layers of all scans of a product, in the order of their
\* index; the first row's scan stands for it.
MergedFrom(p, leader) ==
  LET place(r) == Cardinality({q \in RowsOf(p) : NotAfter(q, r, leader)})
      row(n) == CHOOSE r \in RowsOf(p) : place(r) = n
  IN  [n \in 1 .. Cardinality(RowsOf(p)) |-> scans[row(n)[2]].chain[row(n)[1]]]

StrictlyPrefixes(short, long) ==
  Len(short) < Len(long) /\ SubSeq(long, 1, Len(short)) = short

Before(p, q) == \E i, j \in DOMAIN Products : i < j /\ Products[i] = p /\ Products[j] = q

\* The longest candidate; of equal ones the first in the order of names.
BestBase(chains, p) ==
  LET found == {q \in DOMAIN chains \ {p} : StrictlyPrefixes(chains[q], chains[p])}
  IN  IF Len(chains[p]) < 2 \/ found = {} THEN None
      ELSE CHOOSE q \in found : \A r \in found \ {q} :
             \/ Len(chains[r]) < Len(chains[q])
             \/ Len(chains[r]) = Len(chains[q]) /\ Before(q, r)

BeginEnrich(c) ==
  /\ plan[c] = None /\ runs < MaxRuns /\ runs' = runs + 1
  /\ LET chained == {p \in Range(Products) : Layered(p) # {}}
     IN  \E leader \in [chained -> Live] :
           /\ \A p \in chained : leader[p] \in Layered(p)
           /\ LET chains == [p \in chained |-> MergedFrom(p, leader[p])]
                  based == {p \in chained : BestBase(chains, p) # None}
              IN  plan' = [plan EXCEPT ![c] =
                    [s \in {leader[p] : p \in based} |->
                       [base |-> BestBase(chains, scans[s].product),
                        below |-> chains[BestBase(chains, scans[s].product)]]]]
  /\ fresh' = (fresh \/ \A d \in Clients : plan[d] = None)
  /\ UNCHANGED <<scans, layers, packages>>


\* By layer_id; when that finds none, by layer_index.
PackagesBelow(s, below) ==
  LET all == {k \in DOMAIN packages : k[1] = s}
      byDigest == {k \in all : /\ scans[s].by[k[2]] = "digest"
                               /\ scans[s].chain[k[2]] \in Range(below)}
  IN  IF byDigest # {} THEN byDigest
      ELSE {k \in all : scans[s].by[k[2]] # "none" /\ k[2] <= Len(below)}

\* Whether a run marks a layer's row.
IsMarked(todo, k) ==
  k[1] \in DOMAIN todo /\ scans[k[1]].chain[k[2]] \in Range(todo[k[1]].below)

\* Mutant: the rows are those that were read.
EnrichRead(c) ==
  /\ plan[c] # None
  /\ layers' = [k \in UNION {{s} \X DOMAIN plan[c][s].below : s \in DOMAIN plan[c]} |->
                   [base |-> TRUE, image |-> plan[c][k[1]].base]] @@ layers
  /\ plan' = [plan EXCEPT ![c] = None]
  /\ UNCHANGED <<scans, packages, fresh, runs>>

\* The updates of one transaction; rows removed meanwhile are not there to update.
Enrich(c) ==
  /\ plan[c] # None
  /\ layers' = [k \in DOMAIN layers |->
       IF IsMarked(plan[c], k) THEN [base |-> TRUE, image |-> plan[c][k[1]].base] ELSE layers[k]]
  /\ packages' = [k \in DOMAIN packages |->
       IF k[1] \in DOMAIN plan[c] /\ k \in PackagesBelow(k[1], plan[c][k[1]].below)
       THEN plan[c][k[1]].base ELSE packages[k]]
  /\ plan' = [plan EXCEPT ![c] = None]
  /\ UNCHANGED <<scans, fresh, runs>>

----------------------------------------------------------------------------
(* The queries.                                                            *)

\* get_layer_packages and search_packages_by_layer join by digest and scan.
JoinedRows(k) ==
  LET scan == scans[k[1]]
  IN  {layers[<<k[1], i>>] : i \in {j \in DOMAIN scan.rows :
         scan.by[k[2]] = "digest" /\ scan.chain[j] = scan.chain[k[2]]}}

BasePackages == {k \in DOMAIN packages : \E r \in JoinedRows(k) : r.base}

\* get_base_image: the latest scan's.
Latest(p) == CHOOSE s \in ScansOf(p) : \A t \in ScansOf(p) : t <= s
BaseImages(p) ==
  {layers[k].image : k \in {x \in DOMAIN layers : x[1] = Latest(p) /\ layers[x].base}} \ {None}

----------------------------------------------------------------------------

Quiet == /\ Len(scans) = MaxScans /\ Live = {} /\ runs = MaxRuns
         /\ \A c \in Clients : plan[c] = None
         /\ UNCHANGED vars

Next ==
  \/ StoreScan \/ RemoveScan
  \/ \E c \in Clients : BeginEnrich(c) \/ Enrich(c)
  \/ Quiet

Spec == Init /\ [][Next]_vars

----------------------------------------------------------------------------
(* Properties.                                                             *)

TypeOK ==
  /\ \A s \in DOMAIN scans : scans[s].product \in Range(Products)
  /\ DOMAIN layers = UNION {{s} \X DOMAIN scans[s].rows : s \in Live}
  /\ DOMAIN packages = UNION {{s} \X DOMAIN scans[s].chain : s \in Live}
  /\ Range(layers) \subseteq Row /\ Range(packages) \subseteq Images \cup {None}

\* The marks are current: the last run read what is stored, and all have ended.
Enriched == fresh /\ \A c \in Clients : plan[c] = None

\* The scans of other products whose chain is a strict prefix of a scan's.
Bases(s) ==
  {t \in Live : /\ scans[s].rows # <<>> /\ scans[t].rows # <<>>
                /\ scans[t].product # scans[s].product
                /\ StrictlyPrefixes(scans[t].chain, scans[s].chain)}

\* The layers a scan shares with one of them.
Shared(s) == {i \in DOMAIN scans[s].chain : \E t \in Bases(s) : i <= Len(scans[t].chain)}

\* After a run every layer that a container shares with base images is marked, and with
\* the one that shares the most, whatever the client had marked it with.
BasesAreMarked ==
  Enriched =>
    \A s \in Live : \A i \in Shared(s) : \E u \in Bases(s) :
      /\ layers[<<s, i>>] = [base |-> TRUE, image |-> scans[u].product]
      /\ \A t \in Bases(s) : Len(scans[t].chain) <= Len(scans[u].chain)

\* Whether a run finds the package in a shared layer: by digest, or by position when no
\* package of its scan has a digest.
Found(s, i) ==
  \/ scans[s].by[i] = "digest"
  \/ scans[s].by[i] = "index" /\ \A j \in DOMAIN scans[s].by : scans[s].by[j] # "digest"

\* After a run the packages it finds in shared layers carry their layers' mark.
PackagesFollowLayers ==
  Enriched =>
    \A s \in Live : \A i \in Shared(s) :
      Found(s, i) => packages[<<s, i>>] = layers[<<s, i>>].image

\* After a run a search for base packages finds every package that names a shared layer
\* by digest, and the base images of its product include the one the package names.
QueriesAgree ==
  Enriched =>
    \A s \in Live : \A i \in Shared(s) :
      /\ scans[s].by[i] = "digest" => <<s, i>> \in BasePackages
      /\ Found(s, i) /\ s = Latest(scans[s].product) =>
           packages[<<s, i>>] \in BaseImages(scans[s].product)

\* Whenever it read and whenever it wrote: a layer is marked as its client marked it, or
\* with a product that had a scan whose chain is a strict prefix and holds that layer.
MarksHaveGrounds ==
  \A k \in DOMAIN layers :
    \/ layers[k] = scans[k[1]].rows[k[2]]
    \/ \E t \in DOMAIN scans :
         /\ layers[k] = [base |-> TRUE, image |-> scans[t].product]
         /\ StrictlyPrefixes(scans[t].chain, scans[k[1]].chain)
         /\ scans[k[1]].chain[k[2]] \in Range(scans[t].chain)
============================================================================

------------------------- MODULE PackageProvenance --------------------------
(***************************************************************************)
(* How `syfter scan` of a container decides which image each layer and     *)
(* each package came from (scan in syfter/cli.py; get_container_layer_info,*)
(* discover_base_images_from_registry, find_base_image_chain_by_layers and *)
(* get_package_source_images in syfter/scanner.py), and what of the answer *)
(* it stores.                                                              *)
(*                                                                         *)
(* The registry is the world: images with their layers, and for every      *)
(* package the layer of the target that installed it.  Every inspection    *)
(* and every scan of an image is a request that may fail on its own.  The  *)
(* scanner's state is the chain of verified images, the packages of the    *)
(* last base scanned, and the sources found so far.                        *)
(***************************************************************************)
EXTENDS Integers, SequencesExt

CONSTANTS Bases,        \* images the scanned one may be built on
          Target,       \* the scanned image
          Rpms, Others, \* its packages: in the rpm database, and the rest
          LayerChoices, \* the layer sequences a base may have
          TargetLayers, \* the layer sequence of the target
          None, NoName  \* no source; the empty name of an unlabelled image

ProvenanceAssumption ==
  /\ {None, NoName} \cap (Bases \cup {Target}) = {}
  /\ \A l \in LayerChoices \cup {TargetLayers} : l \in Seq(ToSet(l))

VARIABLES layersOf,     \* image -> its layers
          home,         \* package -> the layer that installed it
          mode,         \* where the scan is stored: "local" or "server"
          pc,           \* where the command is
          todo,         \* candidates still to verify, or bases still to scan
          chain,        \* verified images: [image, name, layers]
          previous,     \* packages of the last base that was scanned
          found,        \* package_sources: package -> name, None if not found
          sources,      \* package -> source_image
          imageLayers,  \* layer index -> source image
          trouble,      \* ghost: a request has failed
          stored        \* what was stored: [sources, imageLayers]

world == <<layersOf, home, mode>>
vars == <<world, pc, todo, chain, previous, found, sources, imageLayers, trouble, stored>>

Images == Bases \cup {Target}
Packages == Rpms \cup Others
NotStored == [sources |-> [p \in Packages |-> None], imageLayers |-> <<>>]

\* What `syft --select-catalogers rpm` lists in an image; a layer that the
\* target does not have holds packages of the same names.
RpmsIn(layers) ==
  {p \in Rpms : home[p] \in ToSet(layers) \/ ToSet(layers) \ ToSet(TargetLayers) # {}}

-----------------------------------------------------------------------------

Init ==
  /\ layersOf \in [Images -> LayerChoices \cup {TargetLayers}]
  /\ layersOf[Target] = TargetLayers
  /\ home \in [Packages -> ToSet(TargetLayers)]
  /\ mode \in {"local", "server"}
  /\ pc = "info" /\ todo = {} /\ chain = <<>> /\ previous = {}
  /\ found = [p \in Packages |-> None]
  /\ sources = [p \in Packages |-> None]
  /\ imageLayers = [i \in DOMAIN TargetLayers |-> None]
  /\ trouble = FALSE
  /\ stored = NotStored

\* get_image_metadata: the labels and the layers are two requests, and a
\* failed one leaves its part empty.
Inspections(image) ==
  {[image |-> image, name |-> n, layers |-> l] :
     n \in {image, NoName}, l \in {layersOf[image], <<>>}}

Trouble(m) == trouble' = (trouble \/ m.name = NoName \/ m.layers = <<>>)

\* get_container_layer_info: every layer is put down to the target; the
\* packages take the source of their layer.
LayerInfo(m) ==
  /\ pc = "info"
  /\ IF m.layers = <<>>
     THEN UNCHANGED <<sources, imageLayers>>
     ELSE /\ imageLayers' = [i \in DOMAIN m.layers |-> m.name]
          /\ sources' = [p \in Packages |-> m.name]
  /\ pc' \in {"discover", "store"}      \* --containerfile skips the bases
  /\ Trouble(m)
  /\ UNCHANGED <<world, todo, chain, previous, found, stored>>

\* discover_base_images_from_registry: the names in the image's history and
\* the common bases, in the order of a set; the target may name itself.
Discover(candidates, m) ==
  /\ pc = "discover"
  /\ todo' = candidates
  /\ pc' = IF candidates = {} \/ m.layers = <<>> THEN "store" ELSE "verify"
  /\ trouble' = (trouble \/ m.layers = <<>>)
  /\ UNCHANGED <<world, chain, previous, found, sources, imageLayers, stored>>

IsBase(layers) ==
  /\ layers # <<>>
  /\ Len(layers) < Len(TargetLayers)
  /\ IsPrefix(layers, TargetLayers)

Verify(candidate, m) ==
  /\ pc = "verify" /\ candidate \in todo
  /\ todo' = todo \ {candidate}
  /\ chain' = IF IsBase(m.layers) THEN Append(chain, m) ELSE chain
  /\ Trouble(m)
  /\ UNCHANGED <<world, pc, previous, found, sources, imageLayers, stored>>

\* Python's sort keeps the order of what compares equal.
NotBehind(s, i) ==
  {j \in DOMAIN s :
     \/ Len(s[j].layers) < Len(s[i].layers)
     \/ Len(s[j].layers) = Len(s[i].layers) /\ j <= i}

ByLayerCount(s) ==
  [k \in DOMAIN s |-> s[CHOOSE i \in DOMAIN s : Cardinality(NotBehind(s, i)) = k]]

\* The bases sorted by layer count, then the target; without a base there is
\* nothing to compare with.
SortChain(m) ==
  /\ pc = "verify" /\ todo = {}
  /\ m.layers # <<>>
  /\ IF chain = <<>>
     THEN pc' = "store" /\ UNCHANGED chain
     ELSE pc' = "scan" /\ chain' = Append(ByLayerCount(chain), m)
  /\ todo' = IF chain = <<>> THEN {} ELSE DOMAIN chain
  /\ Trouble(m)
  /\ UNCHANGED <<world, previous, found, sources, imageLayers, stored>>

\* The target's layers could not be read again: no chain at all.
ChainFails ==
  /\ pc = "verify" /\ todo = {}
  /\ pc' = "store" /\ chain' = <<>>
  /\ trouble' = TRUE
  /\ UNCHANGED <<world, todo, previous, found, sources, imageLayers, stored>>

NextBase(i) == i \in todo /\ \A j \in todo : i <= j

\* What a base introduced: its packages that the base before it lacks.
ScanBase(i) ==
  /\ pc = "scan" /\ NextBase(i)
  /\ LET base == RpmsIn(chain[i].layers)
     IN /\ found' = [p \in Packages |->
                       IF p \in base \ previous THEN chain[i].name ELSE found[p]]
        /\ previous' = base
  /\ todo' = todo \ {i}
  /\ UNCHANGED <<world, pc, chain, sources, imageLayers, trouble, stored>>

\* A base that cannot be pulled or scanned in time is passed over.
ScanBaseFails(i) ==
  /\ pc = "scan" /\ NextBase(i)
  /\ todo' = todo \ {i}
  /\ trouble' = TRUE
  /\ UNCHANGED <<world, pc, chain, previous, found, sources, imageLayers, stored>>

LongEnough(i) == {k \in DOMAIN chain : Len(chain[k].layers) >= i}

\* Mutant: a layer count is compared with an index that starts at zero.
IntroducerOffByOne(i) ==
  chain[CHOOSE k \in LongEnough(i - 1) : \A j \in LongEnough(i - 1) : k <= j].name

\* A layer belongs to the first image of the chain that is long enough.
Introducer(i) == chain[CHOOSE k \in LongEnough(i) : \A j \in LongEnough(i) : k <= j].name

\* The packages no base had come from the target; the layers follow the chain.
Attribute ==
  /\ pc = "scan" /\ todo = {}
  /\ sources' = [p \in Packages |-> IF found[p] = None THEN Last(chain).name ELSE found[p]]
  /\ imageLayers' = [i \in DOMAIN Last(chain).layers |-> Introducer(i)]
  /\ pc' = "store"
  /\ UNCHANGED <<world, todo, chain, previous, found, trouble, stored>>

\* store_scan takes the image layers; SyfterClient.upload_scan has no
\* parameter for them.
Store ==
  /\ pc = "store"
  /\ stored' = [sources |-> sources,
                imageLayers |-> IF mode = "local" THEN imageLayers ELSE <<>>]
  /\ pc' = "done"
  /\ UNCHANGED <<world, todo, chain, previous, found, sources, imageLayers, trouble>>

\* The command has ended.
Quiet == pc = "done" /\ UNCHANGED vars

Next ==
  \/ \E m \in Inspections(Target) : LayerInfo(m)
  \/ \E candidates \in SUBSET Images, m \in Inspections(Target) : Discover(candidates, m)
  \/ \E c \in Images : \E m \in Inspections(c) : Verify(c, m)
  \/ \E m \in Inspections(Target) : SortChain(m)
  \/ ChainFails
  \/ \E i \in todo : ScanBase(i) \/ ScanBaseFails(i)
  \/ Attribute
  \/ Store
  \/ Quiet

Spec == Init /\ [][Next]_vars

-----------------------------------------------------------------------------

Done == pc = "done"

\* The candidates the chain was made of, with what they really are.
Verified == {m.image : m \in ToSet(chain)}

\* The smallest verified image that holds a layer.
FirstWith(layer) ==
  {b \in Verified :
     /\ layer \in ToSet(layersOf[b])
     /\ \A c \in Verified : layer \in ToSet(layersOf[c]) => Len(layersOf[b]) <= Len(layersOf[c])}

\* When every request was answered, a package from the rpm database is put
\* down to the smallest image of the chain that has the layer it was
\* installed in.
RpmsFromTheirImage ==
  (Done /\ ~trouble /\ chain # <<>>)
    => \A p \in Rpms : stored.sources[p] \in FirstWith(home[p])

\* The two answers agree: a package's source is the source of the layer that
\* installed it, also when two names stand for one image.
PackagesAgreeWithLayers ==
  (pc = "store" /\ ~trouble /\ chain # <<>>)
    => \A p \in Rpms, i \in DOMAIN TargetLayers :
         TargetLayers[i] = home[p] => sources[p] = imageLayers[i]

\* Whatever fails, no layer or package is put down to an image that the
\* target is not built on.
OnlyAncestorsNamed ==
  Done => \A n \in Range(stored.sources) \cup ToSet(stored.imageLayers) :
            n \in Images => IsPrefix(layersOf[n], TargetLayers)

=============================================================================

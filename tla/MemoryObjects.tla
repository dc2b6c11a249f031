----------------------------- MODULE MemoryObjects -----------------------------
(***************************************************************************)
(* Images, volumes and networks of the memory backend                      *)
(* (internal/backend/memory/backend.go).  Every operation is one step      *)
(* under the mutex; those that only look something up are left out.  Ids,  *)
(* references and names are cut into parts, so that the beginning of one   *)
(* may be used for it.  A tag or a network's name need not be unique.      *)
(***************************************************************************)
EXTENDS Integers, Sequences, Functions
LOCAL INSTANCE SequencesExt

CONSTANTS
  ImageRefs,    \* what clients pull
  NetworkIds,   \* ids of created networks, hexadecimal times, taken to be distinct
  NetworkNames, \* names clients give to networks; other networks' ids may be among them
  VolumeNames

VARIABLES
  images,    \* b.images: id -> its tag
  networks,  \* b.networks: id -> its name
  volumes,   \* the keys of b.volumes
  spent,     \* ids given to networks so far (history)
  removal    \* the last step, if it was a removal by reference that succeeded: table, reference and what it found

objectVars == <<images, networks, volumes, spent, removal>>

Predefined == {<<"bri", "dge">>, <<"host">>, <<"none">>}

Example == <<"sha256:", "example">>
Loaded == <<"sha256:", "loaded">>
HelloWorld == <<"hello-world", ":", "latest">>
LoadedTag == <<"loaded", ":", "latest">>

(* "sha256:" and the reference, with "-" for "/" and ":".                   *)
ImageId(ref) ==
  <<"sha256:">> \o [n \in DOMAIN ref |-> IF ref[n] \in {"/", ":"} THEN "-" ELSE ref[n]]

ASSUME IdsAreNew == NetworkIds \cap Predefined = {}

NoRemoval == <<>>

ObjectInit ==
  /\ images = [i \in {Example} |-> HelloWorld]
  /\ networks = [n \in Predefined |-> n]
  /\ volumes = {} /\ spent = {} /\ removal = NoRemoval

Put(table, id, name) == [i \in DOMAIN table \cup {id} |-> IF i = id THEN name ELSE table[i]]

Without(table, ids) == Restrict(table, DOMAIN table \ ids)
-----------------------------------------------------------------------------
PullImage(ref) ==
  /\ ref # <<>>
  /\ images' = Put(images, ImageId(ref), ref)
  /\ removal' = NoRemoval
  /\ UNCHANGED <<networks, volumes, spent>>

LoadImages ==
  /\ images' = Put(images, Loaded, LoadedTag)
  /\ removal' = NoRemoval
  /\ UNCHANGED <<networks, volumes, spent>>

(* The images that a removal may find; a prefix of an id, by which an       *)
(* inspection finds an image, is not enough.                                *)
FoundImages(ref) ==
  IF ref \in DOMAIN images THEN {ref} ELSE {i \in DOMAIN images : images[i] = ref}

(* Mutant: what is deleted is the entry of the given reference.             *)
RemoveImageGiven(ref) ==
  \E i \in FoundImages(ref) :
    /\ images' = Without(images, {ref})
    /\ removal' = <<"image", ref, i>>
    /\ UNCHANGED <<networks, volumes, spent>>

RemoveImage(ref) ==
  \E i \in FoundImages(ref) :
    /\ images' = Without(images, {i})
    /\ removal' = <<"image", ref, i>>
    /\ UNCHANGED <<networks, volumes, spent>>

PruneImages ==
  /\ images' = Restrict(images, {i \in DOMAIN images : images[i] = HelloWorld})
  /\ removal' = NoRemoval
  /\ UNCHANGED <<networks, volumes, spent>>
-----------------------------------------------------------------------------
CreateVolume(name) ==
  /\ volumes' = volumes \cup {name}
  /\ removal' = NoRemoval
  /\ UNCHANGED <<images, networks, spent>>

RemoveVolume(name) ==
  /\ name \in volumes
  /\ volumes' = volumes \ {name}
  /\ removal' = NoRemoval
  /\ UNCHANGED <<images, networks, spent>>

PruneVolumes ==
  /\ volumes' = {}
  /\ removal' = NoRemoval
  /\ UNCHANGED <<images, networks, spent>>
-----------------------------------------------------------------------------
CreateNetwork(id, name) ==
  /\ id \notin spent /\ name # <<>>
  /\ networks' = Put(networks, id, name)
  /\ spent' = spent \cup {id}
  /\ removal' = NoRemoval
  /\ UNCHANGED <<images, volumes>>

(* Mutant: the exact id has no precedence over prefixes and names.          *)
FoundNetworksAny(ref) == {n \in DOMAIN networks : networks[n] = ref \/ IsPrefix(ref, n)}

(* network(): the networks that one lookup of ref may return.               *)
FoundNetworks(ref) ==
  IF ref \in DOMAIN networks THEN {ref}
  ELSE {n \in DOMAIN networks : networks[n] = ref \/ IsPrefix(ref, n)}

(* Mutant: the reference is checked, not the network that it finds.         *)
RemoveNetworkUnresolved(ref) ==
  \E n \in FoundNetworks(ref) :
    /\ ref \notin Predefined
    /\ networks' = Without(networks, {n})
    /\ removal' = <<"network", ref, n>>
    /\ UNCHANGED <<images, volumes, spent>>

(* Refused for the names of the predefined networks, whoever has them.      *)
RemoveNetwork(ref) ==
  \E n \in FoundNetworks(ref) :
    /\ networks[n] \notin Predefined
    /\ networks' = Without(networks, {n})
    /\ removal' = <<"network", ref, n>>
    /\ UNCHANGED <<images, volumes, spent>>

PruneNetworks ==
  /\ networks' = Restrict(networks, {n \in DOMAIN networks : networks[n] \in Predefined})
  /\ removal' = NoRemoval
  /\ UNCHANGED <<images, volumes, spent>>
-----------------------------------------------------------------------------
Beginnings(ids) == UNION {{SubSeq(i, 1, n) : n \in 0..Len(i)} : i \in ids}

ObjectNext ==
  \/ \E ref \in ImageRefs : PullImage(ref)
  \/ LoadImages \/ PruneImages
  \/ \E ref \in ImageRefs \cup Beginnings(DOMAIN images) : RemoveImage(ref)
  \/ \E name \in VolumeNames : CreateVolume(name) \/ RemoveVolume(name)
  \/ PruneVolumes
  \/ \E id \in NetworkIds, name \in NetworkNames : CreateNetwork(id, name)
  \/ \E ref \in NetworkNames \cup Beginnings(NetworkIds \cup Predefined) : RemoveNetwork(ref)
  \/ PruneNetworks

ObjectSpec == ObjectInit /\ [][ObjectNext]_objectVars
-----------------------------------------------------------------------------
ObjectTypeOK ==
  /\ Range(images) \subseteq ImageRefs \cup {HelloWorld, LoadedTag}
  /\ DOMAIN networks \subseteq spent \cup Predefined /\ spent \subseteq NetworkIds
  /\ Range(networks) \subseteq NetworkNames \cup Predefined
  /\ volumes \subseteq VolumeNames

(* Whatever networks are called and however they are referred to, bridge,   *)
(* host and none are there and are found by their names.                    *)
PredefinedStay ==
  \A p \in Predefined : p \in DOMAIN networks /\ networks[p] = p /\ FoundNetworks(p) = {p}

(* A removal that is answered with success has removed exactly the one      *)
(* object that the reference found, which for a full id is the object of    *)
(* that id, even if others have it for their name or begin with it.         *)
RemovalIsExact ==
  [][removal' # NoRemoval =>
       LET table == removal'[1]
           ref == removal'[2]
           found == removal'[3] IN
       /\ table = "image" =>
            /\ found \in DOMAIN images /\ images' = Without(images, {found})
            /\ ref \in DOMAIN images => found = ref
       /\ table = "network" =>
            /\ found \in DOMAIN networks /\ networks' = Without(networks, {found})
            /\ ref \in DOMAIN networks => found = ref]_objectVars
===============================================================================

------------------------------ MODULE MCBackends ------------------------------
(***************************************************************************)
(* The memory backend with its containers and its other objects, and the   *)
(* Apple backend with what it makes of the ends of CLI commands and its    *)
(* volumes, networks and images.  They share no state, so a behaviour      *)
(* exercises one of the four.                                              *)
(***************************************************************************)
EXTENDS MemoryContainers, MemoryObjects, AppleObjects

VARIABLE part

appleVars == <<commandVars, appleObjectVars>>
MCVars == <<vars, objectVars, appleVars, part>>

MCInit ==
  /\ Init /\ ObjectInit /\ CommandInit /\ AppleObjectInit
  /\ part \in {"containers", "objects", "command", "appleObjects"}
  /\ part # "appleObjects" => section = "volume"

MCNext ==
  /\ UNCHANGED part
  /\ \/ part = "containers" /\ Next /\ UNCHANGED <<objectVars, appleVars>>
     \/ part = "objects" /\ ObjectNext /\ UNCHANGED <<vars, appleVars>>
     \/ part = "command" /\ CommandNext /\ UNCHANGED <<vars, objectVars, appleObjectVars>>
     \/ part = "appleObjects" /\ AppleObjectNext /\ UNCHANGED <<vars, objectVars, commandVars>>

MCSpec == MCInit /\ [][MCNext]_MCVars

\* Two ids that share a prefix; a client names a container by the id of the other.
MCIds == {"18a1", "18a2"}
MCNames == {"18a1"}
MCAbbrev == [i \in MCIds |-> {"18a"}]

\* Two references that give one id; two that give the tag of another image.
MCImageRefs ==
  {<<"a", "/", "b", ":", "1">>, <<"a", "-", "b", ":", "1">>, <<"hello-world", ":", "latest">>,
   <<"loaded", ":", "latest">>}

\* Two ids that share a prefix; an ordinary name, a predefined one, another's id.
MCNetworkIds == {<<"18", "a1">>, <<"18", "a2">>}
MCNetworkNames == {<<"web">>, <<"bri", "dge">>, <<"18", "a1">>}

\* A name whose text translateError takes for a reason.
MCWording == [data |-> {}, validation |-> {"invalid"}]
================================================================================

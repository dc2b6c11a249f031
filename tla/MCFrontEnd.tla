------------------------------ MODULE MCFrontEnd ------------------------------
(***************************************************************************)
(* What surrounds the sessions: serve, the subcommands that change Docker  *)
(* contexts, the writing of streams, the transfers of archives, and the    *)
(* routes.  The parts share no state, so a behaviour exercises one of them *)
(* while the others rest.                                                  *)
(***************************************************************************)
EXTENDS ServeLifecycle, DockerContext, StreamCopy, ImageTransfers, Router

VARIABLE part

serverVars == <<serveVars, ctxVars, streamVars>>
vars == <<serverVars, transferVars, routeVars, part>>

Parts == {"serve", "context", "stream", "transfer", "route"}

Relative(parts) == [absolute |-> FALSE, parts |-> parts]

\* Every relative name of at most two of three parts, and others that matter.
MCEntryNames ==
  {Relative(parts) : parts \in UNION {[1..n -> {"a", "b", ".."}] : n \in 0..2}}
    \cup {Relative(parts) : parts \in {<<".">>, <<"a", ".", "b">>, <<"a", "..", "..">>, <<"a", "..", "b">>}}
    \cup {[absolute |-> TRUE, parts |-> parts] : parts \in {<<>>, <<"a">>, <<"..", "a">>}}

\* Names that read like a route or a version, with slashes, with one in front.
MCRouteIds ==
  {<<"web">>, <<"", "web">>, <<"json">>, <<"prune">>, <<"v1.47">>, <<"library", "json">>, <<"images", "get">>}

Init ==
  /\ ServeInit /\ ContextInit /\ StreamInit /\ TransferInit /\ RouteInit
  /\ part \in Parts
  /\ part # "serve" => backendUp
  /\ part # "context" => answering
  /\ part # "stream" => mode = "frames"

Next ==
  /\ UNCHANGED part
  /\ \/ part = "serve" /\ ServeNext /\ UNCHANGED <<ctxVars, streamVars, transferVars, routeVars>>
     \/ part = "context" /\ ContextNext /\ UNCHANGED <<serveVars, streamVars, transferVars, routeVars>>
     \/ part = "stream" /\ StreamNext /\ UNCHANGED <<serveVars, ctxVars, transferVars, routeVars>>
     \/ part = "transfer" /\ TransferNext /\ UNCHANGED <<serverVars, routeVars>>
     \/ part = "route" /\ RouteNext /\ UNCHANGED <<serverVars, transferVars>>

Fairness ==
  \/ part = "serve" /\ ServeFairness
  \/ part = "stream" /\ StreamFairness
  \/ part \in {"context", "transfer", "route"}

Spec == Init /\ [][Next]_vars /\ Fairness

(* The parts have their types; the delay between pings of the backend stays *)
(* at most 8 seconds.                                                       *)
TypeOK == ServeTypeOK /\ ContextTypeOK /\ StreamTypeOK /\ TransferTypeOK
===============================================================================

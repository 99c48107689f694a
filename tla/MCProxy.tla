-------------------------------- MODULE MCProxy --------------------------------
(* Model checking of the proxy in both modes: one option of its configuration,  *)
(* read once, says whether connections are served by serve_l7_ (HttpProxy) or   *)
(* by serve_l4_ (ProxyRelay).                                                   *)
EXTENDS HttpProxy

CONSTANTS Manners, Request, Reply, Room, Chunk, MayDie,     \* of ProxyRelay
          Modes                                             \* \subseteq {"l7", "l4"}

ASSUME RelayAssumption ==
  /\ Manners \subseteq {"reply", "keep", "echo"} /\ Request \in Nat /\ Reply \in Nat
  /\ Room \in Nat \ {0} /\ Chunk \in Nat \ {0} /\ MayDie \subseteq {"c", "u"}

VARIABLES mode, manner, in, out, inEnd, outEnd, wrote, got, dead, rpc, ra, ev, hold, open, outcome

L4 == INSTANCE ProxyRelay WITH pc <- rpc, a <- ra

relay == <<manner, in, out, inEnd, outEnd, wrote, got, dead, rpc, ra, ev, hold, open, outcome>>
proxy == <<mode, vars, relay>>

ProxyInit == mode \in Modes /\ Init /\ L4!Init /\ (mode = "l7" => manner = "keep")

ProxyNext ==
  \/ mode = "l7" /\ Next /\ UNCHANGED <<mode, relay>>
  \/ mode = "l4" /\ L4!Next /\ UNCHANGED <<mode, vars>>

\* The fairness of the two modules, each in its mode.
ProxySpec ==
  /\ ProxyInit /\ [][ProxyNext]_proxy
  /\ WF_proxy(mode = "l7" /\ AcceptorLooks /\ UNCHANGED <<mode, relay>>)
  /\ WF_proxy(mode = "l7" /\ AcceptorTimesOut /\ UNCHANGED <<mode, relay>>)
  /\ WF_proxy(mode = "l7" /\ (StopShuts \/ StopReturns) /\ UNCHANGED <<mode, relay>>)
  /\ \A c \in Conns : WF_proxy(mode = "l7" /\ Serve(c) /\ UNCHANGED <<mode, relay>>)
  /\ WF_proxy(mode = "l4" /\ L4!Relaying /\ UNCHANGED <<mode, vars>>)
  /\ \A s \in {"c", "u"} :
       /\ WF_proxy(mode = "l4" /\ L4!Write(s) /\ UNCHANGED <<mode, vars>>)
       /\ WF_proxy(mode = "l4" /\ L4!EndWriting(s) /\ UNCHANGED <<mode, vars>>)
       /\ WF_proxy(mode = "l4" /\ L4!Take(s) /\ UNCHANGED <<mode, vars>>)

\* A side of a relay is told of an end of file after every byte before it, and a
\* relay is the backend's failure only if the backend broke it off.
RelayInv == L4!RelayInv

\* Layer 7: stop() returns.  Layer 4: all of the request and all of the answer arrive,
\* and the thread of a client that is gone, or was shut by stop(), ends; except for the
\* relay that a backend jams by writing while it reads (proxy.hpp:113), which moves
\* nothing and keeps stop() waiting for ever.
ProxyEnds == StopEnds /\ L4!MovesOrJams /\ L4!EndsOrJams
=============================================================================

--------------------------- MODULE MCBusConnection ---------------------------
(***************************************************************************)
(* Small instances of BusConnection: one well-known name that two          *)
(* processes may own in turn, and two handlers.                            *)
(***************************************************************************)
EXTENDS BusConnection, TLC

CONSTANTS n1, p1, p2, h1, h2

MCNames == {n1}
MCPeers == {p1, p2}
MCHandlers == {h1, h2}

\* h2 holds OWNER_CHANGED_RULE itself, the rule the owner watch shares.
SharedWatch == (h1 :> n1) @@ (h2 :> BusName)

\* h2 gives no sender, so processes that own no name reach the socket too.
SharedSocket == (h1 :> n1) @@ (h2 :> AnySender)

\* The processes are interchangeable.
PeerSymmetry == Permutations(MCPeers)
=============================================================================

--------------------------- MODULE MCBackendEvents ---------------------------
(***************************************************************************)
(* Small instances of BackendEvents: two domains on the system bus, one on *)
(* the session bus that no tray refresh is connected to.                   *)
(***************************************************************************)
EXTENDS BackendEvents, TLC

CONSTANTS system, session, power, network, display

MCBuses == {system, session}
MCDomains == {power, network, display}
MCBusOf == (power :> system) @@ (network :> system) @@ (display :> session)
MCTray == <<power, network, display>>
MCWatched == <<power, network, display>>
MCWanted == {power, network}
=============================================================================

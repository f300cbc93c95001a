-------------------------------- MODULE Link --------------------------------
(***************************************************************************)
(* What stands between a connection and a wire: a NetworkInterface, the    *)
(* datagram adapters, and the formats in which both send.  A behaviour is  *)
(* a behaviour of one of them; the variables of the others keep their      *)
(* initial values.                                                         *)
(***************************************************************************)
EXTENDS NetworkInterfaceSpec, AdapterSpec, TLC

CONSTANTS
    Noise, Padding                              \* FormatsSpec

VARIABLES
    part,                                       \* the one whose behaviour this is
    message, wire, fate, done, arrived          \* FormatsSpec

\* Callers that share an ip, and callers that share a port.
MCHome == [server |-> [ip |-> "s", port |-> 9], a |-> [ip |-> "p", port |-> 1],
           b |-> [ip |-> "p", port |-> 2], c |-> [ip |-> "q", port |-> 1]]

FS == INSTANCE FormatsSpec

fsvars == <<message, wire, fate, done, arrived>>

AnyInit ==
    /\ part \in {"interface", "adapter", "formats"}
    /\ Init
    /\ AdapterInit /\ (part # "adapter" => kind = "udp")
    /\ FS!Init /\ (part # "formats" => message = CHOOSE m \in FS!Messages : TRUE)

AnyNext ==
    /\ UNCHANGED part
    /\ \/ part = "interface" /\ Next /\ UNCHANGED <<adapterVars, fsvars>>
       \/ part = "adapter" /\ AdapterNext /\ UNCHANGED <<vars, fsvars>>
       \/ part = "formats" /\ FS!Next /\ UNCHANGED <<vars, adapterVars>>

AnySpec == AnyInit /\ [][AnyNext]_<<part, vars, adapterVars, fsvars>>

\* The hosts on the link are alike.
Symmetry == Permutations(IP) \union Permutations(EthernetAddress \ {MyEthernet})
-----------------------------------------------------------------------------
(* The properties, stated and explained in the modules they come from. *)

\* parse() reads back what serialize() wrote.
RoundTrip == FS!RoundTrip

\* What is handed up after damage on the way is what was sent.
IntactOrDropped == FS!IntactOrDropped
=============================================================================

----------------------------- MODULE AddressPool -----------------------------
(***************************************************************************)
(* allocateWireGuardIP (internal/vpn/wireguard.go): the lowest free host    *)
(* address of a server's subnet, in the 32-bit arithmetic of the code.      *)
(*                                                                         *)
(* used holds the addresses of the active keys; an entry that is no IPv4    *)
(* address is skipped by the code and is no member.                         *)
(***************************************************************************)
EXTENDS AddressSpace

\* A mistake: the bound is moved to the other side, where nothing wraps back.
Offsets_Moved(size) == {offset \in 2 .. Top : offset + 1 < Wrap(size)}

\* The offsets the loop passes: not the network's own and the gateway's, and
\* none from the broadcast address on.  The size of a /0 is 0 in uint32, and
\* its broadcast offset wraps back to the last address.
Offsets(size) == {offset \in 2 .. Top : offset < Wrap(Wrap(size) - 1)}

FreeOffsets(network, size, used) ==
  {offset \in Offsets(size) : Wrap(network + offset) \notin used}

Exhausted(network, size, used) == FreeOffsets(network, size, used) = {}

\* allocateWireGuardIP: the first free candidate of the loop.
Allocated(network, size, used) ==
  Wrap(network + CHOOSE offset \in FreeOffsets(network, size, used) :
                   \A other \in FreeOffsets(network, size, used) : offset <= other)

------------------------------------------------------------------------------
(* Properties.                                                               *)

\* What the comment of allocateWireGuardIP promises: the hosts of a subnet are
\* all its addresses but the first two and the last.
HostsOf(network, size) ==
  {a \in Addresses : network + 1 < a /\ a < network + size - 1}

GivesLowestFree(network, size, used) ==
  LET free == HostsOf(network, size) \ used IN
    IF Exhausted(network, size, used)
    THEN free = {}
    ELSE /\ Allocated(network, size, used) \in free
         /\ \A a \in free : Allocated(network, size, used) <= a

\* Whatever addresses are in use, the pool of every subnet, the /0, /31 and /32
\* included, gives its lowest free host, and reports itself exhausted exactly
\* when no host is free: no address outside the subnet, none twice.
LowestFreeHost ==
  \A network \in Addresses, size \in Sizes :
    IsNetwork(network, size) =>
      \A used \in SUBSET (network .. network + size - 1) : GivesLowestFree(network, size, used)
=============================================================================

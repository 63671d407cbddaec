--------------------------- MODULE MCSplitRouting ---------------------------
(* SplitRouting and AddressPool with four-bit addresses.                    *)
EXTENDS SplitRouting, AddressPool

\* AddressPool keeps no state: allocateWireGuardIP gives the lowest free host of
\* every subnet, whatever is in use, asked where the computation begins.
AllocatesLowestFree == pc = "parse" => LowestFreeHost

PowersOfTwo == {1, 2, 4, 8, 16}
=============================================================================

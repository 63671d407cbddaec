---------------------------- MODULE AddressSpace ----------------------------
(***************************************************************************)
(* IPv4 addresses as the 32-bit numbers internal/vpn computes with.  A     *)
(* prefix length is represented by the size of its block.                  *)
(***************************************************************************)
EXTENDS Integers

CONSTANTS
  Whole,     \* the number of addresses: 2^32 in the code
  Sizes      \* the sizes a CIDR may have: the powers of two up to Whole

ASSUME AddressAssumption ==
  /\ Whole \in Nat /\ Whole \in Sizes /\ 1 \in Sizes
  /\ Sizes \subseteq 1 .. Whole

Top == Whole - 1
Addresses == 0 .. Top

\* uint32: the result of one addition or subtraction.
Wrap(n) == IF n >= Whole THEN n - Whole ELSE IF n < 0 THEN n + Whole ELSE n

\* What a CIDR can denote (net.ParseCIDR masks the address).
IsNetwork(a, size) == a % size = 0 /\ a + size <= Whole
=============================================================================

-------------------------------- MODULE Routes --------------------------------
(***************************************************************************)
(* Which addresses go through the tunnel: the AllowedIPs that              *)
(* connect_vpn_selected computes from the server's routes, the user's own  *)
(* routes and domains, the allowlist, the denylist and the peer's own      *)
(* address, with the CIDR arithmetic of utils.rs.                          *)
(*                                                                         *)
(* An address is its bits, the most significant one first, so that a mask  *)
(* is a number of bits to compare.  Lists are sets: their order and        *)
(* duplicates decide no route.                                             *)
(***************************************************************************)
EXTENDS Integers

CONSTANTS Width,   \* host_bit_count: the bits of an address, by family
          Bad,     \* any entry that parse_cidr refuses
          Lists,   \* the lists of entries that server and configuration may hold
          Answers  \* what the configured domains may resolve to

Family == {"v4", "v6"}

Bits(f) == [1..Width[f] -> {0, 1}]

Address == UNION {[family : {f}, bits : Bits(f)] : f \in Family}

Block == UNION {[family : {f}, bits : Bits(f), prefix : 0..Width[f]] : f \in Family}

Cidr == Block \cup {Bad}

ASSUME RoutesAssumption == /\ Width \in [Family -> Nat]
                           /\ Bad \notin Block
                           /\ Lists \subseteq SUBSET Cidr
                           /\ Answers \subseteq SUBSET Address

VARIABLES stage,    \* where connect_vpn_selected is
          six,      \* has_ipv6_address
          routes,   \* allowed_ips
          offered,  \* history: the addresses the server and the user ask to route,
          allowed,  \*   those on the allowlist,
          denied,   \*   those on the denylist,
          peer      \*   and the peer's, if it is given as an address

vars == <<stage, six, routes, offered, allowed, denied, peer>>

TypeOK == /\ stage \in {"server", "more", "allow", "deny", "peer", "done", "refused"}
          /\ six \in BOOLEAN
          /\ routes \subseteq Cidr
          /\ offered \subseteq Address /\ allowed \subseteq Address
          /\ denied \subseteq Address /\ peer \subseteq Address

Init == /\ stage = "server" /\ six \in BOOLEAN /\ routes = {}
        /\ offered = {} /\ allowed = Address /\ denied = {} /\ peer = {}
-----------------------------------------------------------------------------
(* CIDR arithmetic                                                         *)

Agree(b, c, n) == \A i \in 1..n : b[i] = c[i]

\* cidr_contains_ip, for an address or the base of a block.
Contains(c, a) == c.family = a.family /\ Agree(c.bits, a.bits, c.prefix)

Canonicalize(c) ==
  [family |-> c.family, prefix |-> c.prefix,
   bits |-> [i \in 1..Width[c.family] |-> IF i <= c.prefix THEN c.bits[i] ELSE 0]]

\* The narrower block, if it lies in the wider one; the empty set is None.
Intersect(first, second) ==
  IF Bad \in {first, second} THEN {}
  ELSE LET a == Canonicalize(first)
           b == Canonicalize(second)
       IN  IF a.prefix >= b.prefix /\ Contains(b, a) THEN {a}
           ELSE IF b.prefix >= a.prefix /\ Contains(a, b) THEN {b} ELSE {}

\* carve_recursive.  At level n it has come to the block that has the first n - 1 bits of
\* inner, keeps the half without inner, and goes on with the other one.
Sibling(inner, n) ==
  [family |-> inner.family, prefix |-> n,
   bits |-> [i \in 1..Width[inner.family] |-> CASE i < n -> inner.bits[i]
                                               [] i = n -> 1 - inner.bits[i]
                                               [] i > n -> 0]]

\* Mutant: the last level is left out.
CarveTooShort(outer, inner) == {Sibling(inner, n) : n \in outer.prefix + 1 .. inner.prefix - 1}

\* Mutant: the sibling is kept with the prefix of the block that was split.
CarveTooWide(outer, inner) ==
  {[Sibling(inner, n) EXCEPT !.prefix = n - 1] : n \in outer.prefix + 1 .. inner.prefix}

Carve(outer, inner) == {Sibling(inner, n) : n \in outer.prefix + 1 .. inner.prefix}

Subtract(outer, inner) ==
  IF Bad \in {outer, inner} THEN {outer}
  ELSE LET o == Canonicalize(outer)
           i == Canonicalize(inner)
       IN  IF i.prefix <= o.prefix /\ Contains(i, o) THEN {}
           ELSE IF Contains(o, i) THEN Carve(o, i) ELSE {outer}

Host(a) == [family |-> a.family, bits |-> a.bits, prefix |-> Width[a.family]]
-----------------------------------------------------------------------------
(* What a set of routes covers                                             *)

Addresses(c) == IF c = Bad THEN {} ELSE {a \in Address : Contains(c, a)}

Covered(R) == UNION {Addresses(c) : c \in R}

Usable == {a \in Address : six \/ a.family = "v4"}

Apart(R) == \A r, s \in R : r # s => Addresses(r) \cap Addresses(s) = {}
-----------------------------------------------------------------------------
(* connect_vpn_selected                                                    *)

\* The routes of either mode; a full tunnel without any is refused.  Nothing looks at the
\* family of an entry: the second list is left out as a whole where there is no IPv6
\* address, and an IPv6 entry of the first list is kept.
Server(v4, v6, full) ==
  /\ stage = "server"
  /\ routes' = v4 \cup (IF six THEN v6 ELSE {})
  /\ stage' = (IF full /\ routes' = {} THEN "refused" ELSE "more")
  /\ offered' = Covered(v4) \cup (IF six THEN Covered(v6) ELSE {})
  /\ UNCHANGED <<six, allowed, denied, peer>>

\* merge_additional_routes, of the user's routes and what the user's domains resolve to.
Merge(list, answers) ==
  /\ stage = "more"
  /\ stage' = "allow"
  /\ routes' = routes \cup {c \in list \cup {Host(a) : a \in answers} :
                              c # Bad /\ (six \/ c.family = "v4")}
  /\ offered' = offered \cup ((Covered(list) \cup answers) \cap Usable)
  /\ UNCHANGED <<six, allowed, denied, peer>>

\* apply_route_filters: without an allowlist the routes are kept as they are.
AllowAll == /\ stage = "allow"
            /\ stage' = "deny"
            /\ UNCHANGED <<six, routes, offered, allowed, denied, peer>>

Allow(list) ==
  /\ stage = "allow"
  /\ stage' = "deny"
  /\ routes' = UNION {Intersect(r, c) : r \in routes, c \in list}
  /\ allowed' = Covered(list)
  /\ UNCHANGED <<six, offered, denied, peer>>

\* One turn of its loop over the denylist, and the end of it.
Deny(c) ==
  /\ stage = "deny"
  /\ routes' = UNION {Subtract(r, c) : r \in routes}
  /\ denied' = denied \cup Addresses(c)
  /\ UNCHANGED <<stage, six, offered, allowed, peer>>

DenyEnd == /\ stage = "deny"
           /\ stage' = "peer"
           /\ UNCHANGED <<six, routes, offered, allowed, denied, peer>>

\* The outer packets must not enter the tunnel; a peer with a name is not looked up.
CarvePeer(a) ==
  /\ stage = "peer"
  /\ stage' = "done"
  /\ routes' = UNION {Subtract(r, Host(a)) : r \in routes}
  /\ peer' = {a}
  /\ UNCHANGED <<six, offered, allowed, denied>>

NamedPeer == /\ stage = "peer"
             /\ stage' = "done"
             /\ UNCHANGED <<six, routes, offered, allowed, denied, peer>>

Next == \/ \E v4, v6 \in Lists, full \in BOOLEAN : Server(v4, v6, full)
        \/ \E list \in Lists, answers \in Answers : Merge(list, answers)
        \/ AllowAll
        \/ \E list \in Lists : Allow(list)
        \/ \E list \in Lists : \E c \in list : Deny(c)
        \/ DenyEnd
        \/ \E a \in Address : CarvePeer(a)
        \/ NamedPeer

Spec == Init /\ [][Next]_vars
-----------------------------------------------------------------------------
(* Properties                                                              *)

\* At every stage the routes cover exactly the addresses that were asked for, allowed and
\* not denied, without the peer's own: no filter loses an address or lets one through.
RoutesAreExact ==
  stage # "refused" => Covered(routes) = ((offered \cap allowed) \ denied) \ peer

\* utils.rs:145 promises of carving "a minimal set of CIDRs whose union is exactly" what is
\* left: a hole never makes routes overlap that did not.
HolesAddNoOverlap == [][(stage \in {"deny", "peer"} /\ Apart(routes)) => Apart(routes')]_vars
=============================================================================

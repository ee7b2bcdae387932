----------------------------- MODULE MCConnectVpn -----------------------------
(* ConnectVpn for TLC: addresses of three bits in one family and of one in    *)
(* the other, lists that hold nested, equal, disjoint, non-canonical and      *)
(* unparseable entries of every prefix, and three nodes: one of each family   *)
(* and one with a name, of each protocol, one of which is not supported.      *)
EXTENDS ConnectVpn

MCWidth == [v4 |-> 3, v6 |-> 1]

V4(a, b, c, n) == [family |-> "v4", bits |-> <<a, b, c>>, prefix |-> n]

V6(a, n) == [family |-> "v6", bits |-> <<a>>, prefix |-> n]

MCLists == {{}, {V4(0, 0, 0, 0)}, {V4(0, 1, 1, 2)}, {V4(1, 0, 0, 2), V4(1, 0, 1, 3)},
            {V4(1, 1, 0, 1), Bad}, {V6(1, 0)}, {V6(1, 1)}, {V4(0, 0, 0, 0), V6(0, 0)}}

MCAnswers == {{}, {[family |-> "v4", bits |-> <<1, 0, 1>>], [family |-> "v6", bits |-> <<0>>]}}

Four  == [id |-> 1, name |-> "a", mode |-> 1,
          ip |-> [family |-> "v4", bits |-> <<1, 0, 0>>]]
Six   == [id |-> 2, name |-> "a", mode |-> 2, ip |-> [family |-> "v6", bits |-> <<1>>]]
Named == [id |-> 3, name |-> "b", mode |-> 2, ip |-> Hostname]
Other == [id |-> 1, name |-> "b", mode |-> 3,
          ip |-> [family |-> "v4", bits |-> <<1, 0, 0>>]]

MCOffers == {<<>>, <<Four, Six, Named>>, <<Named, Other, Four>>}

MCWanted == {<<Any, Any>>, <<"a", Any>>, <<Any, 3>>, <<"a", 2>>}
===============================================================================

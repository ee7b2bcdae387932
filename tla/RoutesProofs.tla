----------------------------- MODULE RoutesProofs -----------------------------
(***************************************************************************)
(* Proofs about the routes, for addresses of any width (32 and 128 bits    *)
(* among them), any lists and any answers of DNS.                          *)
(*                                                                         *)
(* The lemmas say what intersection and subtraction of blocks do to the    *)
(* sets of addresses they stand for; the invariants follow stage by stage. *)
(***************************************************************************)
EXTENDS Routes, WellFoundedInduction, TLAPS

\* A set of levels that is not empty has a lowest one.
LEMMA Lowest ==
  ASSUME NEW T, T \subseteq Nat, T # {}
  PROVE  \E n \in T : \A m \in T : n <= m
<1> DEFINE Less == {s \in Nat \X Nat : s[1] < s[2]}
<1>1. IsWellFoundedOn(Less, Nat)
  BY NatLessThanWellFounded DEF OpToRel
<1>2. \A m, n \in Nat : m < n => <<m, n>> \in Less
  OBVIOUS
<1> HIDE DEF Less
<1>3. \E n \in T : \A m \in T : ~(<<m, n>> \in Less)
  BY <1>1, WFMin
<1>4. PICK n \in T : \A m \in T : ~(<<m, n>> \in Less)
  BY <1>3
<1>5. ASSUME NEW m \in T PROVE n <= m
  <2>1. m \in Nat /\ n \in Nat /\ ~(m < n)
    BY <1>2, <1>4
  <2>2. QED
    BY <2>1
<1>6. QED
  BY <1>5

USE RoutesAssumption

(* Blocks and the addresses in them.                                       *)

LEMMA BlockFields ==
  /\ \A c \in Block : /\ c = [family |-> c.family, bits |-> c.bits, prefix |-> c.prefix]
                      /\ c.family \in Family /\ c.bits \in Bits(c.family)
                      /\ c.prefix \in 0..Width[c.family] /\ Width[c.family] \in Nat
                      /\ c # Bad
  /\ \A f \in Family : \A b \in Bits(f) : \A n \in 0..Width[f] :
       [family |-> f, bits |-> b, prefix |-> n] \in Block
BY DEF Block, Family

LEMMA AddressFields ==
  \A a \in Address : /\ a = [family |-> a.family, bits |-> a.bits]
                     /\ a.family \in Family /\ a.bits \in Bits(a.family)
BY DEF Address, Family

LEMMA InBlock ==
  ASSUME NEW c \in Block, NEW a
  PROVE  a \in Addresses(c) <=> /\ a \in Address /\ c.family = a.family
                                /\ \A i \in 1..c.prefix : c.bits[i] = a.bits[i]
BY BlockFields DEF Addresses, Contains, Agree

\* Parsing changes no address of a block.
LEMMA CanonicalBlock ==
  ASSUME NEW c \in Block
  PROVE  /\ Canonicalize(c) \in Block
         /\ Canonicalize(c).family = c.family /\ Canonicalize(c).prefix = c.prefix
         /\ \A i \in 1..c.prefix : Canonicalize(c).bits[i] = c.bits[i]
         /\ Addresses(Canonicalize(c)) = Addresses(c)
<1> DEFINE b == [i \in 1..Width[c.family] |-> IF i <= c.prefix THEN c.bits[i] ELSE 0]
           d == [family |-> c.family, prefix |-> c.prefix, bits |-> b]
<1>1. Canonicalize(c) = d
  BY DEF Canonicalize
<1>2. b \in Bits(c.family)
  BY BlockFields DEF Bits
<1>3. d \in Block
  BY <1>2, BlockFields
<1>4. \A i \in 1..c.prefix : d.bits[i] = c.bits[i]
  BY BlockFields
<1> HIDE DEF b, d
<1>5. d.family = c.family /\ d.prefix = c.prefix
  BY DEF d
<1>6. \A a : a \in Addresses(d) <=> a \in Addresses(c)
  BY <1>3, <1>4, <1>5, InBlock
<1>7. QED
  BY <1>1, <1>3, <1>4, <1>5, <1>6

\* Two blocks are nested or disjoint: the narrower one is in the wider one, or they have
\* no address in common.
LEMMA Nested ==
  ASSUME NEW c \in Block, NEW d \in Block, c.prefix <= d.prefix
  PROVE  IF Contains(c, d) THEN Addresses(d) \subseteq Addresses(c)
         ELSE Addresses(c) \cap Addresses(d) = {}
<1>1. ASSUME Contains(c, d), NEW a \in Addresses(d) PROVE a \in Addresses(c)
  BY <1>1, InBlock, BlockFields DEF Contains, Agree
<1>2. ASSUME NEW a \in Addresses(c), a \in Addresses(d) PROVE Contains(c, d)
  BY <1>2, InBlock, BlockFields DEF Contains, Agree
<1>3. QED
  BY <1>1, <1>2

(* Intersection and subtraction.                                           *)

LEMMA IntersectExact ==
  ASSUME NEW first \in Cidr, NEW second \in Cidr
  PROVE  /\ Intersect(first, second) \subseteq Block
         /\ Covered(Intersect(first, second)) = Addresses(first) \cap Addresses(second)
<1>1. CASE Bad \in {first, second}
  BY <1>1 DEF Intersect, Covered, Addresses
<1>2. CASE Bad \notin {first, second}
  <2> DEFINE a == Canonicalize(first)
             b == Canonicalize(second)
  <2>1. /\ a \in Block /\ b \in Block
        /\ Addresses(a) = Addresses(first) /\ Addresses(b) = Addresses(second)
    BY <1>2, CanonicalBlock DEF Cidr
  <2> HIDE DEF a, b
  <2>2. Intersect(first, second) =
          IF a.prefix >= b.prefix /\ Contains(b, a) THEN {a}
          ELSE IF b.prefix >= a.prefix /\ Contains(a, b) THEN {b} ELSE {}
    BY <1>2 DEF Intersect, a, b
  <2>3. a.prefix \in Nat /\ b.prefix \in Nat
    BY <2>1, BlockFields
  <2>4. CASE a.prefix >= b.prefix
    BY <2>1, <2>2, <2>3, <2>4, Nested DEF Covered
  <2>5. CASE b.prefix >= a.prefix /\ ~(a.prefix >= b.prefix)
    BY <2>1, <2>2, <2>3, <2>5, Nested DEF Covered
  <2>6. QED
    BY <2>3, <2>4, <2>5
<1>3. QED
  BY <1>1, <1>2

LEMMA SiblingBlock ==
  ASSUME NEW i \in Block, NEW n \in 1..i.prefix
  PROVE  /\ Sibling(i, n) \in Block
         /\ Sibling(i, n).family = i.family /\ Sibling(i, n).prefix = n
         /\ \A k \in 1..(n - 1) : Sibling(i, n).bits[k] = i.bits[k]
         /\ Sibling(i, n).bits[n] = 1 - i.bits[n]
         /\ i.bits[n] \in {0, 1}
<1> DEFINE b == [k \in 1..Width[i.family] |-> CASE k < n -> i.bits[k]
                                                 [] k = n -> 1 - i.bits[k]
                                                 [] k > n -> 0]
           d == [family |-> i.family, prefix |-> n, bits |-> b]
<1>1. Sibling(i, n) = d
  BY DEF Sibling
<1>2. \A k \in 1..Width[i.family] : i.bits[k] \in {0, 1}
  BY BlockFields DEF Bits
<1>3. n \in 1..Width[i.family] /\ Width[i.family] \in Nat
  BY BlockFields
<1>4. \A k \in 1..Width[i.family] : /\ k < n => b[k] = i.bits[k]
                                    /\ k = n => b[k] = 1 - i.bits[k]
                                    /\ k > n => b[k] = 0
  BY <1>3
<1> HIDE DEF b
<1>6. b \in Bits(i.family)
  <2>1. \A k \in 1..Width[i.family] : b[k] \in {0, 1}
    BY <1>2, <1>3, <1>4
  <2>2. QED
    BY <2>1 DEF b, Bits
<1>7. d \in Block
  BY <1>3, <1>6, BlockFields
<1>8. QED
  BY <1>1, <1>2, <1>3, <1>4, <1>7

\* What carving leaves is what is not in the hole, and in blocks that do not overlap.
LEMMA CarveExact ==
  ASSUME NEW o \in Block, NEW i \in Block, Contains(o, i), o.prefix < i.prefix
  PROVE  /\ Carve(o, i) \subseteq Block
         /\ Covered(Carve(o, i)) = Addresses(o) \ Addresses(i)
         /\ Apart(Carve(o, i))
<1>1. \A n \in o.prefix + 1 .. i.prefix : n \in 1..i.prefix /\ Sibling(i, n) \in Block
  BY SiblingBlock, BlockFields
<1>2. Carve(o, i) \subseteq Block
  BY <1>1 DEF Carve
<1>3. o.family = i.family /\ \A k \in 1..o.prefix : o.bits[k] = i.bits[k]
  BY DEF Contains, Agree
<1>4. ASSUME NEW n \in o.prefix + 1 .. i.prefix, NEW a \in Addresses(Sibling(i, n))
      PROVE  /\ a \in Addresses(o) \ Addresses(i)
             /\ a.bits[n] # i.bits[n] /\ \A k \in 1..(n - 1) : a.bits[k] = i.bits[k]
  <2>1. /\ a \in Address /\ a.family = i.family
        /\ \A k \in 1..(n - 1) : a.bits[k] = i.bits[k]
        /\ a.bits[n] = 1 - i.bits[n] /\ i.bits[n] \in {0, 1}
    <3>1. PICK s \in Block : s = Sibling(i, n)
      BY <1>1
    <3>2. /\ n \in Nat /\ s.family = i.family /\ s.prefix = n
          /\ \A k \in 1..(n - 1) : s.bits[k] = i.bits[k]
          /\ s.bits[n] = 1 - i.bits[n] /\ i.bits[n] \in {0, 1}
      BY <1>1, <3>1, SiblingBlock
    <3>3. a \in Address /\ s.family = a.family /\ \A k \in 1..n : s.bits[k] = a.bits[k]
      BY <3>1, <3>2, InBlock
    <3>4. n \in 1..n
      BY <1>1
    <3>5. QED
      BY <3>2, <3>3, <3>4
  <2>2. a \in Addresses(o)
    BY <1>3, <2>1, InBlock, BlockFields
  <2>3. a \notin Addresses(i)
    BY <1>1, <2>1, InBlock
  <2>4. QED
    BY <2>1, <2>2, <2>3
<1>5. ASSUME NEW a \in Addresses(o), a \notin Addresses(i)
      PROVE  \E n \in o.prefix + 1 .. i.prefix : a \in Addresses(Sibling(i, n))
  <2> DEFINE T == {n \in 1..i.prefix : a.bits[n] # i.bits[n]}
  <2>1. a \in Address /\ a.family = i.family
        /\ \A k \in 1..o.prefix : a.bits[k] = i.bits[k]
    BY <1>3, InBlock
  <2>2. T # {} /\ T \subseteq Nat
    BY <1>5, <2>1, InBlock, BlockFields
  <2>3. PICK n \in T : \A m \in T : n <= m
    BY <2>2, Lowest
  <2>4. n \in o.prefix + 1 .. i.prefix
    BY <2>1, BlockFields
  <2>5. \A k \in 1..(n - 1) : a.bits[k] = i.bits[k]
    BY <2>3, <2>4, BlockFields
  <2>6. a.bits[n] \in {0, 1}
    BY <2>1, <2>4, AddressFields, BlockFields DEF Bits
  <2>7. a.bits[n] = 1 - i.bits[n]
    BY <1>1, <2>4, <2>6, SiblingBlock
  <2>8. \A k \in 1..n : Sibling(i, n).bits[k] = a.bits[k]
    <3>1. /\ \A k \in 1..(n - 1) : Sibling(i, n).bits[k] = i.bits[k]
          /\ Sibling(i, n).bits[n] = 1 - i.bits[n]
      BY <1>1, <2>4, SiblingBlock
    <3>2. \A k \in 1..n : k = n \/ k \in 1..(n - 1)
      BY <1>1, <2>4
    <3>3. QED
      BY <2>5, <2>7, <3>1, <3>2
  <2>9. QED
    BY <1>1, <2>1, <2>4, <2>8, InBlock, SiblingBlock
<1>6. Covered(Carve(o, i)) = Addresses(o) \ Addresses(i)
  BY <1>4, <1>5 DEF Covered, Carve
<1>7. ASSUME NEW n \in o.prefix + 1 .. i.prefix, NEW m \in o.prefix + 1 .. i.prefix, n < m
      PROVE  Addresses(Sibling(i, n)) \cap Addresses(Sibling(i, m)) = {}
  BY <1>4, <1>7, BlockFields
<1>8. Apart(Carve(o, i))
  BY <1>7, BlockFields DEF Apart, Carve
<1>9. QED
  BY <1>2, <1>6, <1>8

LEMMA SubtractExact ==
  ASSUME NEW outer \in Cidr, NEW inner \in Cidr
  PROVE  /\ Subtract(outer, inner) \subseteq Cidr
         /\ Covered(Subtract(outer, inner)) = Addresses(outer) \ Addresses(inner)
         /\ Apart(Subtract(outer, inner))
<1>1. CASE Bad \in {outer, inner}
  BY <1>1 DEF Subtract, Covered, Addresses, Apart
<1>2. CASE Bad \notin {outer, inner}
  <2> DEFINE o == Canonicalize(outer)
             i == Canonicalize(inner)
  <2>1. /\ o \in Block /\ i \in Block
        /\ Addresses(o) = Addresses(outer) /\ Addresses(i) = Addresses(inner)
    BY <1>2, CanonicalBlock DEF Cidr
  <2> HIDE DEF o, i
  <2>2. Subtract(outer, inner) = IF i.prefix <= o.prefix /\ Contains(i, o) THEN {}
                                 ELSE IF Contains(o, i) THEN Carve(o, i) ELSE {outer}
    BY <1>2 DEF Subtract, o, i
  <2>3. i.prefix \in Nat /\ o.prefix \in Nat
    BY <2>1, BlockFields
  <2>4. CASE i.prefix <= o.prefix /\ Contains(i, o)
    <3>1. Addresses(o) \subseteq Addresses(i)
      BY <2>1, <2>4, Nested
    <3>2. QED
      BY <2>1, <2>2, <2>4, <3>1 DEF Covered, Apart
  <2>5. CASE Contains(o, i) /\ o.prefix < i.prefix
    <3>1. Subtract(outer, inner) = Carve(o, i)
      BY <2>2, <2>3, <2>5
    <3>2. QED
      BY <2>1, <2>5, <3>1, CarveExact DEF Cidr
  <2>6. CASE Contains(o, i) /\ i.prefix <= o.prefix
    BY <2>3, <2>4, <2>6 DEF Contains, Agree
  <2>7. CASE ~Contains(o, i) /\ ~(i.prefix <= o.prefix /\ Contains(i, o))
    <3>1. Subtract(outer, inner) = {outer}
      BY <2>2, <2>7
    <3>2. Addresses(o) \cap Addresses(i) = {}
      BY <2>1, <2>3, <2>7, Nested
    <3>3. QED
      BY <2>1, <3>1, <3>2 DEF Covered, Apart
  <2>8. QED
    BY <2>3, <2>4, <2>5, <2>6, <2>7
<1>3. QED
  BY <1>1, <1>2

(* Lists.                                                                  *)

LEMMA InCovered == \A R, a : a \in Covered(R) <=> \E c \in R : a \in Addresses(c)
BY DEF Covered

LEMMA IntersectAll ==
  ASSUME NEW R \in SUBSET Cidr, NEW list \in SUBSET Cidr,
         NEW I, \A d : d \in I <=> \E r \in R, c \in list : d \in Intersect(r, c)
  PROVE  I \subseteq Cidr /\ Covered(I) = Covered(R) \cap Covered(list)
<1>1. \A r \in R, c \in list : Intersect(r, c) \subseteq Cidr
  BY IntersectExact DEF Cidr
<1>2. I \subseteq Cidr
  BY <1>1
<1>3. \A r \in R, c \in list : \A a :
        (\E d \in Intersect(r, c) : a \in Addresses(d)) <=> a \in Addresses(r) \cap Addresses(c)
  <2>1. \A r \in R, c \in list : Covered(Intersect(r, c)) = Addresses(r) \cap Addresses(c)
    BY IntersectExact
  <2>2. QED
    BY <2>1, InCovered
<1>4. ASSUME NEW a PROVE a \in Covered(I) <=> a \in Covered(R) /\ a \in Covered(list)
  <2>1. a \in Covered(I) <=> \E r \in R, c \in list : \E d \in Intersect(r, c) : a \in Addresses(d)
    BY InCovered
  <2>2. a \in Covered(R) /\ a \in Covered(list)
          <=> \E r \in R, c \in list : a \in Addresses(r) \cap Addresses(c)
    BY InCovered
  <2>3. QED
    BY <1>3, <2>1, <2>2
<1>5. QED
  BY <1>2, <1>4

LEMMA SubtractAll ==
  ASSUME NEW R \in SUBSET Cidr, NEW c \in Cidr,
         NEW D, \A d : d \in D <=> \E r \in R : d \in Subtract(r, c)
  PROVE  /\ D \subseteq Cidr
         /\ Covered(D) = Covered(R) \ Addresses(c)
         /\ Apart(R) => Apart(D)
<1>1. D \subseteq Cidr
  BY SubtractExact
<1>2. \A r \in R : \A a :
        (\E d \in Subtract(r, c) : a \in Addresses(d)) <=> a \in Addresses(r) \ Addresses(c)
  <2>1. \A r \in R : Covered(Subtract(r, c)) = Addresses(r) \ Addresses(c)
    BY SubtractExact
  <2>2. QED
    BY <2>1, InCovered
<1>3. ASSUME NEW a PROVE a \in Covered(D) <=> a \in Covered(R) /\ a \notin Addresses(c)
  <2>1. a \in Covered(D) <=> \E r \in R : \E d \in Subtract(r, c) : a \in Addresses(d)
    BY InCovered
  <2>2. a \in Covered(R) /\ a \notin Addresses(c) <=> \E r \in R : a \in Addresses(r) \ Addresses(c)
    BY InCovered
  <2>3. QED
    BY <1>2, <2>1, <2>2
<1>4. ASSUME Apart(R), NEW d \in D, NEW e \in D, d # e
      PROVE  Addresses(d) \cap Addresses(e) = {}
  <2>1. PICK r \in R, s \in R : d \in Subtract(r, c) /\ e \in Subtract(s, c)
    OBVIOUS
  <2>2. CASE r = s
    BY <1>4, <2>1, <2>2, SubtractExact DEF Apart
  <2>3. CASE r # s
    BY <1>2, <1>4, <2>1, <2>3 DEF Apart
  <2>4. QED
    BY <2>2, <2>3
<1>5. QED
  BY <1>1, <1>3, <1>4 DEF Apart

LEMMA SameFunction ==
  ASSUME NEW S, NEW T, NEW f \in [S -> T], NEW g \in [S -> T], \A x \in S : f[x] = g[x]
  PROVE  f = g
OBVIOUS

LEMMA HostExact ==
  ASSUME NEW a \in Address
  PROVE  Host(a) \in Block /\ Host(a).family = a.family /\ Addresses(Host(a)) = {a}
<1>1. Host(a) \in Block /\ Host(a).family = a.family
  BY AddressFields, BlockFields DEF Host, Bits
<1>2. a \in Addresses(Host(a))
  BY <1>1, InBlock DEF Host
<1>3. ASSUME NEW b \in Addresses(Host(a)) PROVE b = a
  <2>1. b \in Address /\ b.family = a.family
        /\ \A i \in 1..Width[a.family] : a.bits[i] = b.bits[i]
    BY <1>1, InBlock DEF Host
  <2>2. a.bits \in [1..Width[a.family] -> {0, 1}] /\ b.bits \in [1..Width[a.family] -> {0, 1}]
    BY <2>1, AddressFields DEF Bits
  <2>3. a.bits = b.bits
    <3> DEFINE S == 1..Width[a.family]
    <3>1. /\ a.bits \in [S -> {0, 1}] /\ b.bits \in [S -> {0, 1}]
          /\ \A i \in S : a.bits[i] = b.bits[i]
      BY <2>1, <2>2
    <3> HIDE DEF S
    <3>2. PICK f \in [S -> {0, 1}], g \in [S -> {0, 1}] : f = a.bits /\ g = b.bits
      BY <3>1
    <3>3. \A i \in S : f[i] = g[i]
      BY <3>1, <3>2
    <3>4. f = g
      BY <3>3, SameFunction
    <3>5. QED
      BY <3>2, <3>4
  <2>4. QED
    BY <2>1, <2>3, AddressFields
<1>4. QED
  BY <1>1, <1>2, <1>3

(* The pipeline.                                                           *)

\* What has not been asked yet excludes nothing.
StageInv == /\ stage = "server" => routes = {} /\ offered = {}
            /\ stage \in {"server", "more", "allow"} => allowed = Address /\ denied = {}
            /\ stage # "done" => peer = {}

IInv == TypeOK /\ StageInv /\ RoutesAreExact

LEMMA CoveredType == \A R : Covered(R) \subseteq Address
BY DEF Covered, Addresses

\* A list in which every entry that can be parsed is of one family.
OfFamily(list, f) == \A c \in list \ {Bad} : c.family = f

\* The client takes the server's two lists as they are.  If the server keeps the families
\* apart, what the client takes is what both lists cover, as far as it has an address for it:
\* then no IPv6 route is taken from the server without an IPv6 address.
LEMMA ServersFamilies ==
  ASSUME NEW v4 \in Lists, NEW v6 \in Lists, NEW full \in BOOLEAN, Server(v4, v6, full),
         OfFamily(v4, "v4"), OfFamily(v6, "v6")
  PROVE  offered' = Covered(v4 \cup v6) \cap Usable
<1>1. offered' = Covered(v4) \cup (IF six THEN Covered(v6) ELSE {})
  BY DEF Server
<1>2. \A c \in v4 \cup v6 : \A a \in Addresses(c) : c # Bad /\ a \in Address /\ a.family = c.family
  BY DEF Addresses, Contains
<1>3. /\ \A c \in v4 : c # Bad => c.family = "v4"
      /\ \A c \in v6 : c # Bad => c.family = "v6"
  BY DEF OfFamily
<1>4. CASE six
  BY <1>1, <1>2, <1>4, CoveredType DEF Covered, Usable
<1>5. CASE ~six
  BY <1>1, <1>2, <1>3, <1>5 DEF Covered, Usable
<1>6. QED
  BY <1>4, <1>5

LEMMA InitInv == Init => IInv
BY DEF Init, IInv, TypeOK, StageInv, RoutesAreExact, Covered

LEMMA ServerInv ==
  ASSUME IInv, NEW v4 \in Lists, NEW v6 \in Lists, NEW full \in BOOLEAN, Server(v4, v6, full)
  PROVE  IInv'
<1>1. TypeOK' /\ StageInv'
  BY CoveredType DEF IInv, TypeOK, StageInv, Server
<1>2. Covered(v4 \cup IF six THEN v6 ELSE {}) = Covered(v4) \cup (IF six THEN Covered(v6) ELSE {})
  BY DEF Covered
<1>3. /\ routes' = v4 \cup (IF six THEN v6 ELSE {})
      /\ offered' = Covered(v4) \cup (IF six THEN Covered(v6) ELSE {})
      /\ allowed' = Address /\ denied' = {} /\ peer' = {}
  BY DEF Server, IInv, StageInv
<1>4. Covered(routes') = offered'
  BY <1>2, <1>3
<1>5. RoutesAreExact'
  <2>1. Covered(routes') = ((offered' \cap allowed') \ denied') \ peer'
    BY <1>3, <1>4, CoveredType
  <2>2. QED
    BY <2>1 DEF RoutesAreExact, Covered, Addresses, Contains, Agree
<1>6. QED
  BY <1>1, <1>5 DEF IInv

LEMMA MergeInv ==
  ASSUME IInv, NEW list \in Lists, NEW answers \in Answers, Merge(list, answers)
  PROVE  IInv'
<1> DEFINE M == {c \in list \cup {Host(a) : a \in answers} : c # Bad /\ (six \/ c.family = "v4")}
<1>1. M \subseteq Cidr /\ answers \subseteq Address
  BY HostExact DEF Cidr
<1>2. Covered(M) = (Covered(list) \cup answers) \cap Usable
  <2>1. ASSUME NEW a \in Covered(M) PROVE a \in (Covered(list) \cup answers) \cap Usable
    <3>1. PICK c \in M : a \in Addresses(c)
      BY DEF Covered
    <3>2. a \in Address /\ a.family = c.family /\ a \in Usable
      BY <3>1 DEF Addresses, Contains, Usable
    <3>3. CASE c \in list
      BY <3>1, <3>2, <3>3 DEF Covered
    <3>4. CASE c \in {Host(b) : b \in answers}
      BY <1>1, <3>1, <3>2, <3>4, HostExact
    <3>5. QED
      BY <3>3, <3>4
  <2>2. ASSUME NEW a \in Covered(list), a \in Usable PROVE a \in Covered(M)
    <3>1. PICK c \in list : a \in Addresses(c)
      BY DEF Covered
    <3>2. c \in M
      BY <2>2, <3>1 DEF Addresses, Contains, Usable
    <3>3. QED
      BY <3>1, <3>2 DEF Covered
  <2>3. ASSUME NEW a \in answers, a \in Usable PROVE a \in Covered(M)
    <3>1. Host(a) \in M
      BY <1>1, <2>3, HostExact, BlockFields DEF Usable
    <3>2. QED
      BY <1>1, <3>1, HostExact DEF Covered
  <2>4. QED
    BY <2>1, <2>2, <2>3
<1> HIDE DEF M
<1>3. /\ routes' = routes \cup M /\ offered' = offered \cup ((Covered(list) \cup answers) \cap Usable)
      /\ stage = "more" /\ stage' = "allow" /\ UNCHANGED <<six, allowed, denied, peer>>
  BY DEF Merge, M
<1>4. TypeOK' /\ StageInv'
  BY <1>1, <1>3, CoveredType DEF IInv, TypeOK, StageInv, Usable
<1>5. Covered(routes') = Covered(routes) \cup Covered(M)
  BY <1>3 DEF Covered
<1>6. Covered(routes) = offered
  BY <1>3 DEF IInv, TypeOK, StageInv, RoutesAreExact
<1>7. RoutesAreExact'
  BY <1>2, <1>3, <1>4, <1>5, <1>6 DEF IInv, TypeOK, StageInv, RoutesAreExact
<1>8. QED
  BY <1>4, <1>7 DEF IInv

LEMMA AllowInv ==
  ASSUME IInv, NEW list \in Lists, Allow(list)
  PROVE  IInv'
<1>1. /\ routes' \subseteq Cidr /\ Covered(routes') = Covered(routes) \cap Covered(list)
  <2>1. routes' = UNION {Intersect(r, c) : r \in routes, c \in list}
        /\ routes \in SUBSET Cidr /\ list \in SUBSET Cidr
    BY DEF Allow, IInv, TypeOK
  <2>2. PICK R \in SUBSET Cidr, L \in SUBSET Cidr, I \in {routes'} : R = routes /\ L = list
    BY <2>1
  <2>3. \A d : d \in I <=> \E r \in R, c \in L : d \in Intersect(r, c)
    BY <2>1, <2>2
  <2>4. I \subseteq Cidr /\ Covered(I) = Covered(R) \cap Covered(L)
    BY <2>3, IntersectAll
  <2>5. QED
    BY <2>2, <2>4
<1>2. QED
  BY <1>1, CoveredType DEF Allow, IInv, TypeOK, StageInv, RoutesAreExact

LEMMA DenyInv ==
  ASSUME IInv, NEW list \in Lists, NEW c \in list, Deny(c)
  PROVE  IInv' /\ (Apart(routes) => Apart(routes'))
<1>1. /\ routes' \subseteq Cidr /\ Covered(routes') = Covered(routes) \ Addresses(c)
      /\ Apart(routes) => Apart(routes')
  <2>1. routes' = UNION {Subtract(r, c) : r \in routes} /\ routes \in SUBSET Cidr /\ c \in Cidr
    BY RoutesAssumption DEF Deny, IInv, TypeOK
  <2>2. PICK R \in SUBSET Cidr, D \in {routes'} : R = routes
    BY <2>1
  <2>3. \A d : d \in D <=> \E r \in R : d \in Subtract(r, c)
    BY <2>1, <2>2
  <2>4. /\ D \subseteq Cidr /\ Covered(D) = Covered(R) \ Addresses(c)
        /\ Apart(R) => Apart(D)
    BY <2>1, <2>3, SubtractAll
  <2>5. QED
    BY <2>2, <2>4
<1>2. Addresses(c) \subseteq Address
  BY DEF Addresses
<1>3. QED
  BY <1>1, <1>2 DEF Deny, IInv, TypeOK, StageInv, RoutesAreExact

LEMMA CarvePeerInv ==
  ASSUME IInv, NEW a \in Address, CarvePeer(a)
  PROVE  IInv' /\ (Apart(routes) => Apart(routes'))
<1>1. Host(a) \in Cidr /\ Addresses(Host(a)) = {a}
  BY HostExact DEF Cidr
<1>2. /\ routes' \subseteq Cidr /\ Covered(routes') = Covered(routes) \ {a}
      /\ Apart(routes) => Apart(routes')
  <2>1. routes' = UNION {Subtract(r, Host(a)) : r \in routes} /\ routes \in SUBSET Cidr
    BY DEF CarvePeer, IInv, TypeOK
  <2>2. PICK R \in SUBSET Cidr, D \in {routes'} : R = routes
    BY <2>1
  <2>3. PICK c \in Cidr : c = Host(a)
    BY <1>1
  <2>4. \A d : d \in D <=> \E r \in R : d \in Subtract(r, c)
    BY <2>1, <2>2, <2>3
  <2>5. /\ D \subseteq Cidr /\ Covered(D) = Covered(R) \ Addresses(c)
        /\ Apart(R) => Apart(D)
    BY <2>4, SubtractAll
  <2>6. QED
    BY <1>1, <2>2, <2>3, <2>5
<1>3. QED
  BY <1>2 DEF CarvePeer, IInv, TypeOK, StageInv, RoutesAreExact

LEMMA Unchanged ==
  ASSUME IInv, AllowAll \/ DenyEnd \/ NamedPeer \/ UNCHANGED vars
  PROVE  IInv' /\ routes' = routes
BY DEF AllowAll, DenyEnd, NamedPeer, vars, IInv, TypeOK, StageInv, RoutesAreExact, Covered

LEMMA Inductive == Spec => []IInv
<1>1. IInv /\ [Next]_vars => IInv'
  BY ServerInv, MergeInv, AllowInv, DenyInv, CarvePeerInv, Unchanged DEF Next
<1>2. QED
  BY InitInv, <1>1, PTL DEF Spec

\* The routes keep their types: every route is a block of its family's width, or an entry
\* that nobody could parse.
THEOREM RoutesTypeOK == Spec => []TypeOK
<1>1. IInv => TypeOK
  BY DEF IInv
<1>2. QED
  BY Inductive, <1>1, PTL

\* For 32- and 128-bit addresses, and any other width, the tunnel gets exactly the addresses
\* asked for, allowed and not denied, without the peer's.
THEOREM RoutesAreAlwaysExact == Spec => []RoutesAreExact
<1>1. IInv => RoutesAreExact
  BY DEF IInv
<1>2. QED
  BY Inductive, <1>1, PTL

\* Carving a hole never makes routes overlap that did not.
THEOREM HolesNeverAddOverlap == Spec => HolesAddNoOverlap
<1>1. IInv /\ [Next]_vars
        => [(stage \in {"deny", "peer"} /\ Apart(routes)) => Apart(routes')]_vars
  <2> SUFFICES ASSUME IInv, Next, stage \in {"deny", "peer"}, Apart(routes)
               PROVE  Apart(routes')
    OBVIOUS
  <2>1. \/ \E list \in Lists : \E c \in list : Deny(c)
        \/ \E a \in Address : CarvePeer(a)
        \/ AllowAll \/ DenyEnd \/ NamedPeer
    <3>1. ASSUME NEW v4 \in Lists, NEW v6 \in Lists, NEW full \in BOOLEAN,
                 Server(v4, v6, full)
          PROVE  FALSE
      BY <3>1 DEF Server
    <3>2. ASSUME NEW list \in Lists, NEW answers \in Answers,
                 Merge(list, answers)
          PROVE  FALSE
      BY <3>2 DEF Merge
    <3>3. ASSUME NEW list \in Lists, Allow(list) PROVE FALSE
      BY <3>3 DEF Allow
    <3>4. QED
      BY Zenon, <3>1, <3>2, <3>3 DEF Next
  <2>2. QED
    BY <2>1, DenyInv, CarvePeerInv, Unchanged
<1>2. QED
  BY Inductive, <1>1, PTL DEF Spec, HolesAddNoOverlap
===============================================================================

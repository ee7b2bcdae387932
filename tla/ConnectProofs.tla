---------------------------- MODULE ConnectProofs ----------------------------
(***************************************************************************)
(* Proofs about a client's connect, for lists of any length, latencies,    *)
(* orders of answers, addresses and routes.                                *)
(*                                                                         *)
(* The choice of a node is proved on its own, and so are the routes (in    *)
(* RoutesProofs).  That the connect implements both specifications carries *)
(* the two results over to it; what the filters leave is proved by         *)
(* induction over the list.                                                *)
(***************************************************************************)
EXTENDS ConnectVpn, RoutesProofs, FiniteSetTheorems

(* The choice of a node                                                    *)

\* The fastest so far beats every other node that has answered.
FastestInv == how = "fastest" /\ phase # "idle" =>
  \/ fastest = 0 /\ \A i \in Nodes \ pending : ~Ok(i)
  \/ /\ fastest \in Nodes \ pending /\ Ok(fastest)
     /\ \A j \in Nodes \ pending : Ok(j) /\ j # fastest =>
          outcome[fastest] < outcome[j] \/ (outcome[fastest] = outcome[j] /\ fastest < j)

\* What is before next_index has failed, and what is not is there once it has answered.
FirstInv == how = "first" /\ phase \in {"waiting", "draining"} =>
  /\ \A j \in Nodes : j < next => j \notin pending /\ ~Ok(j)
  /\ \A j \in Nodes : next <= j => results[j] = IF j \in pending THEN {} ELSE {outcome[j]}
  /\ phase = "waiting" /\ next <= count => next \in pending

ListInv == how = "list" => \A i \in Nodes \ pending : results[i] = {outcome[i]}

\* What each function's result is.
DoneInv == /\ phase = "draining" => how = "first"
           /\ phase = "done" => pending = {} /\ (how = "fastest" => found = fastest)
           /\ phase = "done" /\ how = "first" =>
                \/ found = 0 /\ \A i \in Nodes : ~Ok(i)
                \/ found \in Nodes /\ Ok(found) /\ \A j \in Nodes : j < found => ~Ok(j)

SelectInv == SelectTypeOK /\ FastestInv /\ FirstInv /\ ListInv /\ DoneInv

LEMMA OutcomeType ==
  ASSUME SelectTypeOK, NEW i \in Nodes
  PROVE  outcome[i] \in Nat \cup {Failed} /\ (Ok(i) <=> outcome[i] \in Nat) /\ i \in Nat
<1>1. outcome[i] \in Latency \cup {Failed}
  BY DEF SelectTypeOK, Outcome
<1>2. i \in Nat
  BY SelectAssumption DEF SelectTypeOK, Nodes
<1>3. QED
  BY <1>1, <1>2, SelectAssumption DEF Ok

LEMMA SelectConsequences ==
  ASSUME SelectInv PROVE ChoiceIsBest /\ ListIsComplete /\ NoNeedlessWait
<1>1. ChoiceIsBest
  <2>1. CASE how = "first"
    BY <2>1, OutcomeType DEF SelectInv, DoneInv, ChoiceIsBest, Best, Nodes, SelectTypeOK
  <2>2. CASE how = "fastest"
    BY <2>2, OutcomeType
    DEF SelectInv, DoneInv, FastestInv, ChoiceIsBest, Best, Nodes, SelectTypeOK
  <2>3. QED
    BY <2>1, <2>2 DEF SelectInv, SelectTypeOK, ChoiceIsBest
<1>2. ListIsComplete
  BY DEF SelectInv, ListInv, DoneInv, ListIsComplete
<1>3. NoNeedlessWait
  BY OutcomeType DEF SelectInv, SelectTypeOK, FirstInv, NoNeedlessWait, Nodes
<1>4. QED
  BY <1>1, <1>2, <1>3

LEMMA SelectInitInv == SelectInit => SelectInv
BY SelectAssumption
DEF SelectInit, SelectInv, SelectTypeOK, FastestInv, FirstInv, ListInv, DoneInv, Nodes, Outcome, Ok

LEMMA SelectReturnInv == SelectReturn => SelectInv'
BY SelectAssumption
DEF SelectReturn, SelectInv, SelectTypeOK, FastestInv, FirstInv, ListInv, DoneInv, Nodes,
    Outcome, Ok

LEMMA SelectBeginInv ==
  ASSUME NEW h \in {"first", "fastest", "list"}, NEW n, NEW o, SelectBegin(h, n, o)
  PROVE  SelectInv'
BY SelectAssumption
DEF SelectBegin, SelectInv, SelectTypeOK, FastestInv, FirstInv, ListInv, DoneInv, Nodes,
    Outcome, Ok

LEMMA CompareInv ==
  ASSUME SelectInv, NEW i \in Nodes, Compare(i)
  PROVE  SelectInv'
<1>1. SelectTypeOK' /\ FirstInv' /\ ListInv' /\ DoneInv'
  BY DEF SelectInv, SelectTypeOK, FirstInv, ListInv, DoneInv, Compare, Nodes, Ok
<1>2. FastestInv'
  <2>1. \A j \in Nodes : outcome[j] \in Nat \cup {Failed} /\ (Ok(j) <=> outcome[j] \in Nat)
    BY OutcomeType DEF SelectInv
  <2>2. Nodes' = Nodes /\ outcome' = outcome /\ \A j : Ok(j)' = Ok(j)
    BY DEF Compare, Nodes, Ok
  <2>3. CASE Ok(i) /\ Faster(i)
    BY <2>1, <2>2, <2>3 DEF SelectInv, SelectTypeOK, FastestInv, Compare, Faster, Nodes
  <2>4. CASE ~(Ok(i) /\ Faster(i))
    BY <2>1, <2>2, <2>4 DEF SelectInv, SelectTypeOK, FastestInv, Compare, Faster, Nodes
  <2>5. QED
    BY <2>3, <2>4
<1>3. QED
  BY <1>1, <1>2 DEF SelectInv

LEMMA RecordInv ==
  ASSUME SelectInv, NEW i \in Nodes, Record(i) \/ ListNode(i)
  PROVE  SelectInv'
<1>1. SelectTypeOK'
  BY DEF SelectInv, SelectTypeOK, Record, ListNode, Nodes
<1>2. FastestInv' /\ DoneInv'
  BY DEF SelectInv, SelectTypeOK, FastestInv, DoneInv, Record, ListNode, Nodes, Ok
<1>3. FirstInv' /\ ListInv'
  BY DEF SelectInv, SelectTypeOK, FirstInv, ListInv, Record, ListNode, Nodes, Ok
<1>4. QED
  BY <1>1, <1>2, <1>3 DEF SelectInv

LEMMA DrainInv ==
  ASSUME SelectInv, Drain \/ DrainGap \/ TakeFirst
  PROVE  SelectInv'
<1>1. how = "first"
  BY DEF SelectInv, DoneInv, Drain, DrainGap, TakeFirst
<1>2. /\ next \in Nat /\ count \in Nat /\ Nodes \subseteq Nat
      /\ Nodes' = Nodes /\ \A j : Ok(j)' = Ok(j)
  BY DEF SelectInv, SelectTypeOK, Drain, DrainGap, TakeFirst, Nodes, Ok
<1>3. \A j \in Nodes : next <= j => results[j] = IF j \in pending THEN {} ELSE {outcome[j]}
  BY <1>1 DEF SelectInv, FirstInv, Drain, DrainGap, TakeFirst
<1>4. next <= next
  BY <1>2
<1>5. CASE Drain
  <2>1. next \in Nodes /\ next \notin pending /\ ~Ok(next)
    <3>1. next \in Nodes /\ results[next] = {Failed}
      BY <1>2, <1>5 DEF SelectInv, SelectTypeOK, Drain, Nodes
    <3>2. results[next] = IF next \in pending THEN {} ELSE {outcome[next]}
      BY <1>3, <1>4, <3>1
    <3>3. QED
      BY <3>1, <3>2 DEF Ok
  <2>2. SelectTypeOK'
    BY <1>2, <1>5, <2>1 DEF SelectInv, SelectTypeOK, Drain, Nodes
  <2>3. \A j \in Nodes : j < next' => j < next \/ j = next
    BY <1>2, <1>5 DEF Drain
  <2>4. \A j \in Nodes : next' <= j => next <= j /\ results'[j] = results[j]
    BY <1>2, <1>5 DEF SelectInv, SelectTypeOK, Drain
  <2>5. FirstInv'
    BY <1>1, <1>2, <1>5, <2>1, <2>3, <2>4 DEF SelectInv, FirstInv, Drain
  <2>6. QED
    BY <1>1, <1>5, <2>2, <2>5 DEF SelectInv, FastestInv, ListInv, DoneInv, Drain
<1>6. CASE DrainGap
  <2>1. ASSUME next <= count PROVE next \in pending
    <3>1. next \in Nodes /\ results[next] = {}
      BY <1>2, <1>6, <2>1 DEF SelectInv, SelectTypeOK, DrainGap, Nodes
    <3>2. results[next] = IF next \in pending THEN {} ELSE {outcome[next]}
      BY <1>3, <1>4, <3>1
    <3>3. QED
      BY <3>1, <3>2
  <2>2. SelectTypeOK'
    BY <1>2, <1>6 DEF SelectInv, SelectTypeOK, DrainGap, Nodes
  <2>3. FirstInv'
    BY <1>1, <1>2, <1>6, <2>1 DEF SelectInv, SelectTypeOK, FirstInv, DrainGap, Nodes
  <2>4. QED
    BY <1>1, <1>6, <2>2, <2>3 DEF SelectInv, FastestInv, ListInv, DoneInv, DrainGap
<1>7. CASE TakeFirst
  <2>1. next \in Nodes /\ Ok(next) /\ \A j \in Nodes : j < next => ~Ok(j)
    BY <1>1, <1>2, <1>7 DEF SelectInv, SelectTypeOK, FirstInv, TakeFirst, Nodes, Ok
  <2>2. SelectTypeOK'
    BY <1>2, <1>7, <2>1 DEF SelectInv, SelectTypeOK, TakeFirst, Nodes
  <2>3. QED
    BY <1>1, <1>2, <1>7, <2>1, <2>2
    DEF SelectInv, FastestInv, FirstInv, ListInv, DoneInv, TakeFirst
<1>8. QED
  BY <1>5, <1>6, <1>7

LEMMA SelectEndInv ==
  ASSUME SelectInv, SelectEnd
  PROVE  SelectInv'
<1>1. Nodes' = Nodes /\ (\A j : Ok(j)' = Ok(j)) /\ outcome' = outcome /\ results' = results
  BY DEF SelectEnd, Nodes, Ok
<1>2. SelectTypeOK' /\ FastestInv' /\ FirstInv' /\ ListInv'
  BY <1>1 DEF SelectInv, SelectTypeOK, FastestInv, FirstInv, ListInv, SelectEnd, Nodes
<1>3. how = "first" => \A i \in Nodes : ~Ok(i)
  BY DEF SelectInv, SelectTypeOK, FirstInv, SelectEnd, Nodes
<1>4. DoneInv'
  BY <1>1, <1>3 DEF SelectInv, DoneInv, SelectEnd
<1>5. QED
  BY <1>2, <1>4 DEF SelectInv

LEMMA SelectStutter ==
  ASSUME SelectInv, UNCHANGED probes
  PROVE  SelectInv'
BY DEF SelectInv, SelectTypeOK, FastestInv, FirstInv, ListInv, DoneInv, Nodes, Ok, probes

\* Every order of answers, for lists of any length: the inductive invariant of the choice.
THEOREM SelectInvariant == SelectSpec => []SelectInv
<1>1. SelectInv /\ [SelectNext]_probes => SelectInv'
  <2>1. SUFFICES ASSUME SelectInv, SelectNext PROVE SelectInv'
    BY SelectStutter
  <2>2. CASE SelectStep
    BY <2>1, <2>2, CompareInv, RecordInv, DrainInv, SelectEndInv DEF SelectStep, Answer
  <2>3. CASE SelectReturn
    BY <2>3, SelectReturnInv
  <2>4. QED
    BY <2>1, <2>2, <2>3, SelectBeginInv DEF SelectNext
<1>2. QED
  BY <1>1, SelectInitInv, PTL DEF SelectSpec

(* The connect implements the choice and the routes                        *)

LEMMA RouteSteps == ConnectNext => [Next]_vars
<1>1. SUFFICES ASSUME ConnectNext PROVE [Next]_vars
  OBVIOUS
<1>2. CASE RouteStep
  BY <1>2 DEF RouteStep, CarveEndpoint, Next
<1>3. CASE ~RouteStep
  BY <1>1, <1>3 DEF ConnectNext, ConnectFails, LoggedOut, ListVpn, ListNodes, Probe, Listed,
     NoVpnAvailable, Choose, PeerInfo, RoutesRefused, Configured
<1>4. QED
  BY <1>2, <1>3

LEMMA ChoiceSteps == ConnectNext => [SelectNext]_probes
<1>1. SUFFICES ASSUME ConnectNext PROVE [SelectNext]_probes
  OBVIOUS
<1>2. \A h \in {"first", "fastest", "list"} : \A n, o : SelectBegin(h, n, o) => SelectNext
  BY DEF SelectBegin, SelectNext
<1>3. CASE \E list \in Offers, want \in Wanted, strategy \in {"first", "fastest"} :
             ListVpn(list, want, strategy)
  BY <1>2, <1>3 DEF ListVpn
<1>4. CASE \E list \in Offers : ListNodes(list)
  BY <1>2, <1>4 DEF ListNodes
<1>5. CASE Probe \/ Listed \/ NoVpnAvailable \/ Choose
  BY <1>5 DEF Probe, Listed, NoVpnAvailable, Choose, SelectNext
<1>6. CASE ConnectFails \/ LoggedOut \/ PeerInfo \/ RouteStep \/ RoutesRefused
  BY <1>6 DEF ConnectFails, LoggedOut, PeerInfo, RouteStep, RoutesRefused
<1>7. CASE \E force \in {Any, 0, 1} : Configured(force)
  BY <1>7 DEF Configured
<1>8. QED
  BY <1>1, <1>3, <1>4, <1>5, <1>6, <1>7 DEF ConnectNext

\* The routes of a connect are computed as module Routes says, the endpoint it carves out
\* being that of the node it chose.
THEOREM ConnectComputesRoutes == ConnectSpec => Spec
<1>1. ConnectInit => Init
  BY DEF ConnectInit
<1>2. [ConnectNext]_<<vars, probes, client>> => [Next]_vars
  BY RouteSteps
<1>3. QED
  BY <1>1, <1>2, PTL DEF ConnectSpec, Spec

\* A connect and a listing run the probes of module NodeSelect and nothing else on their state.
THEOREM ConnectChooses == ConnectSpec => SelectSpec
<1>1. ConnectInit => SelectInit
  BY DEF ConnectInit
<1>2. [ConnectNext]_<<vars, probes, client>> => [SelectNext]_probes
  BY ChoiceSteps
<1>3. QED
  BY <1>1, <1>2, PTL DEF ConnectSpec, SelectSpec

(* What the two specifications carry over                                  *)

\* The chosen node is the one the strategy stands for, in whatever order the probes answer.
THEOREM ChoiceBest == ConnectSpec => []ChoiceIsBest
BY ConnectChooses, SelectInvariant, SelectConsequences, PTL

\* The listing shows every node with its own latency.
THEOREM ListComplete == ConnectSpec => []ListIsComplete
BY ConnectChooses, SelectInvariant, SelectConsequences, PTL

\* The default strategy waits for no node behind the one it will take.
THEOREM NoWait == ConnectSpec => []NoNeedlessWait
BY ConnectChooses, SelectInvariant, SelectConsequences, PTL

\* The types of the choice's state.
THEOREM SelectTypes == ConnectSpec => []SelectTypeOK
<1>1. SelectInv => SelectTypeOK
  BY DEF SelectInv
<1>2. QED
  BY <1>1, ConnectChooses, SelectInvariant, PTL

(* Induction over the natural numbers up to a bound, for a set: of the     *)
(* elements that are missing one would be the least.                       *)

LEMMA LeastNatural ==
  ASSUME NEW S, S \subseteq Nat, S # {}
  PROVE  \E n \in S : \A k \in S : n <= k
<1> DEFINE R == {ss \in Nat \X Nat : ss[1] < ss[2]}
<1>1. IsWellFoundedOn(R, Nat)
  BY NatLessThanWellFounded DEF OpToRel
<1> HIDE DEF R
<1>2. PICK n \in S : \A k \in S : <<k, n>> \notin R
  BY <1>1, WFMin
<1>3. \A k \in S : ~(k < n)
  BY <1>2 DEF R
<1>4. QED
  BY <1>3

LEMMA InductionUpTo ==
  ASSUME NEW m \in Nat, NEW S, 0 \in S, \A n \in 0..m - 1 : n \in S => n + 1 \in S
  PROVE  0..m \subseteq S
<1>1. SUFFICES ASSUME (0..m) \ S # {} PROVE FALSE
  OBVIOUS
<1> DEFINE T == (0..m) \ S
<1>2. T \subseteq Nat /\ T # {}
  BY <1>1
<1> HIDE DEF T
<1>3. PICK n \in T : \A k \in T : n <= k
  BY <1>2, LeastNatural
<1> USE DEF T
<1>4. n # 0 /\ n - 1 \in 0..m - 1 /\ n - 1 + 1 = n
  OBVIOUS
<1>5. n - 1 \in S
  BY <1>3, <1>4
<1>6. QED
  BY <1>4, <1>5

(* The filter                                                              *)

\* f holds, for every i, what the filters leave of the list's first i nodes.
IsKept(f, list, want, n) ==
  f = [i \in 0..n |-> IF i = 0 THEN <<>>
                      ELSE IF Suits(list[i], want) THEN Append(f[i - 1], list[i]) ELSE f[i - 1]]

LEMMA KeptExists ==
  ASSUME NEW list, NEW want, NEW m \in Nat
  PROVE  \E f : IsKept(f, list, want, m)
<1> DEFINE S == {n \in 0..m : \E f : IsKept(f, list, want, n)}
<1>1. 0 \in S
  <2>1. IsKept([i \in 0..0 |-> <<>>], list, want, 0)
    BY DEF IsKept
  <2>2. QED
    BY <2>1
<1>2. ASSUME NEW n \in 0..m - 1, n \in S PROVE n + 1 \in S
  <2>1. PICK f : IsKept(f, list, want, n)
    BY <1>2
  <2> DEFINE last == IF Suits(list[n + 1], want) THEN Append(f[n], list[n + 1]) ELSE f[n]
             g    == [i \in 0..n + 1 |-> IF i = n + 1 THEN last ELSE f[i]]
  <2>2. \A i \in 0..n : g[i] = f[i]
    OBVIOUS
  <2>3. g[n + 1] = last
    OBVIOUS
  <2>4. \A i \in 0..n : f[i] = IF i = 0 THEN <<>>
                      ELSE IF Suits(list[i], want) THEN Append(f[i - 1], list[i]) ELSE f[i - 1]
    BY <2>1 DEF IsKept
  <2> HIDE DEF last
  <2>5. ASSUME NEW i \in 0..n + 1
        PROVE  g[i] = IF i = 0 THEN <<>>
                      ELSE IF Suits(list[i], want) THEN Append(g[i - 1], list[i]) ELSE g[i - 1]
    <3>1. CASE i \in 0..n
      <4>1. i # 0 => g[i - 1] = f[i - 1]
        BY <3>1, <2>2
      <4>2. QED
        BY <3>1, <4>1, <2>2, <2>4
    <3>2. CASE i = n + 1
      <4>1. g[n] = f[n] /\ i # 0 /\ i - 1 = n
        BY <3>2, <2>2
      <4>2. QED
        BY <3>2, <4>1, <2>3 DEF last
    <3>3. QED
      BY <3>1, <3>2
  <2>6. IsKept(g, list, want, n + 1)
    BY <2>5 DEF IsKept
  <2>7. QED
    BY <2>6
<1> HIDE DEF S
<1>3. 0..m \subseteq S
  BY <1>1, <1>2, InductionUpTo
<1>4. QED
  BY <1>3 DEF S

LEMMA SuitableIsKept ==
  ASSUME NEW list \in Seq(Node), NEW want
  PROVE  \E f : IsKept(f, list, want, Len(list)) /\ Suitable(list, want) = f[Len(list)]
<1> DEFINE f == CHOOSE g : IsKept(g, list, want, Len(list))
<1>1. IsKept(f, list, want, Len(list))
  BY KeptExists
<1>2. Suitable(list, want) = f[Len(list)]
  BY Zenon DEF Suitable, IsKept
<1>3. QED
  BY <1>1, <1>2

\* v holds exactly those of the first n nodes of the list that suit, in the order of the list.
IsSelection(v, list, want, n) ==
  /\ v \in Seq(Node) /\ Len(v) <= n
  /\ \E pos \in [1..Len(v) -> 1..n] :
       /\ \A j \in 1..Len(v) : v[j] = list[pos[j]] /\ Suits(v[j], want)
       /\ \A j, k \in 1..Len(v) : j < k => pos[j] < pos[k]
       /\ \A i \in 1..n : Suits(list[i], want) => \E j \in 1..Len(v) : pos[j] = i

LEMMA SelectionGrows ==
  ASSUME NEW list \in Seq(Node), NEW want, NEW n \in 0..Len(list) - 1, NEW v,
         IsSelection(v, list, want, n)
  PROVE  IsSelection(IF Suits(list[n + 1], want) THEN Append(v, list[n + 1]) ELSE v,
                     list, want, n + 1)
<1>1. PICK pos \in [1..Len(v) -> 1..n] :
        /\ \A j \in 1..Len(v) : v[j] = list[pos[j]] /\ Suits(v[j], want)
        /\ \A j, k \in 1..Len(v) : j < k => pos[j] < pos[k]
        /\ \A i \in 1..n : Suits(list[i], want) => \E j \in 1..Len(v) : pos[j] = i
  BY DEF IsSelection
<1>2. v \in Seq(Node) /\ Len(v) \in Nat /\ Len(v) <= n /\ list[n + 1] \in Node
  BY DEF IsSelection
<1>3. CASE ~Suits(list[n + 1], want)
  <2>1. pos \in [1..Len(v) -> 1..n + 1] /\ Len(v) <= n + 1
    BY <1>2
  <2>2. \A i \in 1..n + 1 : Suits(list[i], want) => \E j \in 1..Len(v) : pos[j] = i
    BY <1>1, <1>3
  <2>3. QED
    BY <1>1, <1>2, <1>3, <2>1, <2>2 DEF IsSelection
<1>4. CASE Suits(list[n + 1], want)
  <2> DEFINE w == Append(v, list[n + 1])
             q == [j \in 1..Len(v) + 1 |-> IF j = Len(v) + 1 THEN n + 1 ELSE pos[j]]
  <2>1. /\ w \in Seq(Node) /\ Len(w) = Len(v) + 1 /\ w[Len(v) + 1] = list[n + 1]
        /\ \A j \in 1..Len(v) : w[j] = v[j]
    BY <1>2
  <2>2. /\ q \in [1..Len(v) + 1 -> 1..n + 1] /\ q[Len(v) + 1] = n + 1
        /\ \A j \in 1..Len(v) : q[j] = pos[j] /\ pos[j] \in 1..n
    BY <1>2
  <2>3. \A j \in 1..Len(v) + 1 : j \in 1..Len(v) \/ j = Len(v) + 1
    BY <1>2
  <2> HIDE DEF w, q
  <2>4. \A j \in 1..Len(w) : w[j] = list[q[j]] /\ Suits(w[j], want)
    BY <1>1, <1>4, <2>1, <2>2, <2>3
  <2>5. \A j, k \in 1..Len(w) : j < k => q[j] < q[k]
    <3>1. SUFFICES ASSUME NEW j \in 1..Len(v) + 1, NEW k \in 1..Len(v) + 1, j < k
                   PROVE  q[j] < q[k]
      BY <2>1
    <3>2. j \in 1..Len(v) /\ Len(v) \in Nat
      BY <1>2, <3>1
    <3>3. CASE k \in 1..Len(v)
      BY <1>1, <2>2, <3>1, <3>2, <3>3
    <3>4. CASE k = Len(v) + 1
      BY <2>2, <3>2, <3>4
    <3>5. QED
      BY <2>3, <3>3, <3>4
  <2>6. \A i \in 1..n + 1 : Suits(list[i], want) => \E j \in 1..Len(w) : q[j] = i
    <3>1. ASSUME NEW i \in 1..n, Suits(list[i], want) PROVE \E j \in 1..Len(w) : q[j] = i
      <4>1. PICK j \in 1..Len(v) : pos[j] = i
        BY <1>1, <3>1
      <4>2. j \in 1..Len(w) /\ q[j] = i
        BY <1>2, <2>1, <2>2, <4>1
      <4>3. QED
        BY <4>2
    <3>2. Len(v) + 1 \in 1..Len(w)
      BY <1>2, <2>1
    <3>3. QED
      BY <2>2, <3>1, <3>2
  <2>7. Len(w) <= n + 1 /\ q \in [1..Len(w) -> 1..n + 1]
    BY <1>2, <2>1, <2>2
  <2>8. IsSelection(w, list, want, n + 1)
    BY <2>1, <2>4, <2>5, <2>6, <2>7 DEF IsSelection
  <2>9. QED
    BY <1>4, <2>8 DEF w
<1>5. QED
  BY <1>3, <1>4

\* The filter keeps the nodes that suit, all of them, in the server's order.
THEOREM SuitableExact ==
  ASSUME NEW list \in Seq(Node), NEW want
  PROVE  IsSelection(Suitable(list, want), list, want, Len(list))
<1>1. PICK f : IsKept(f, list, want, Len(list)) /\ Suitable(list, want) = f[Len(list)]
  BY SuitableIsKept
<1> DEFINE S == {n \in 0..Len(list) : IsSelection(f[n], list, want, n)}
<1>2. \A i \in 0..Len(list) : f[i] = IF i = 0 THEN <<>>
                      ELSE IF Suits(list[i], want) THEN Append(f[i - 1], list[i]) ELSE f[i - 1]
  BY <1>1 DEF IsKept
<1>3. 0 \in S
  <2>1. f[0] = <<>>
    BY <1>2
  <2> DEFINE none == [j \in 1..0 |-> 0]
  <2>2. <<>> \in Seq(Node) /\ Len(<<>>) = 0 /\ none \in [1..0 -> 1..0]
    OBVIOUS
  <2>3. \A j : j \notin 1..0
    OBVIOUS
  <2>4. \A i \in 1..0 : Suits(list[i], want) => \E j \in 1..0 : none[j] = i
    BY <2>3
  <2> HIDE DEF none
  <2>5. IsSelection(f[0], list, want, 0)
    <3>1. f[0] \in Seq(Node) /\ Len(f[0]) = 0
      BY <2>1, <2>2
    <3>2. QED
      BY <2>2, <2>3, <2>4, <3>1 DEF IsSelection
  <2>6. 0 \in 0..Len(list)
    OBVIOUS
  <2>7. QED
    BY <2>5, <2>6
<1>4. ASSUME NEW n \in 0..Len(list) - 1, n \in S PROVE n + 1 \in S
  <2>1. n + 1 \in 0..Len(list) /\ n + 1 # 0 /\ (n + 1) - 1 = n
    OBVIOUS
  <2>2. f[n + 1] = IF Suits(list[n + 1], want) THEN Append(f[n], list[n + 1]) ELSE f[n]
    BY <1>2, <2>1
  <2>3. IsSelection(f[n + 1], list, want, n + 1)
    BY <1>4, <2>2, SelectionGrows
  <2>4. QED
    BY <2>1, <2>3
<1> HIDE DEF S
<1>5. Len(list) \in S
  <2>1. Len(list) \in Nat
    OBVIOUS
  <2>2. 0..Len(list) \subseteq S
    BY <1>3, <1>4, <2>1, InductionUpTo
  <2>3. QED
    BY <2>1, <2>2
<1>6. QED
  BY <1>1, <1>5 DEF S

(* The node that is used is one that was wanted                            *)

\* Every candidate suits, hence the one that was found, hence the one that is chosen.
WishInv ==
  /\ step = "choose" => count = Len(candidates)
  /\ step = "choose" /\ how # "list" => \A i \in 1..Len(candidates) : Suits(candidates[i], wish)
  /\ step \in {"peer_info", "routes", "connected"} => chosen \in Node /\ Suits(chosen, wish)

LEMMA ChooseSuits ==
  ASSUME SelectTypeOK, ClientTypeOK, WishInv, Choose
  PROVE  candidates[found] \in Node /\ Suits(candidates[found], wish)
<1>1. found \in 1..Len(candidates)
  BY SelectAssumption DEF Choose, WishInv, SelectTypeOK
<1>2. QED
  BY <1>1 DEF Choose, WishInv, ClientTypeOK

LEMMA ListVpnKeeps ==
  ASSUME NEW list \in Offers, NEW want \in Wanted, NEW strategy \in {"first", "fastest"},
         ClientTypeOK, ListVpn(list, want, strategy)
  PROVE  ClientTypeOK' /\ WishInv'
<1> DEFINE vpns == Suitable(list, want)
<1>1. list \in Seq(Node)
  BY ConnectAssumption
<1>2. vpns \in Seq(Node) /\ \A i \in 1..Len(vpns) : Suits(vpns[i], want)
  BY <1>1, SuitableExact DEF IsSelection
<1> HIDE DEF vpns
<1>3. /\ step' = "choose" /\ candidates' = vpns /\ wish' = want
      /\ UNCHANGED <<chosen, endpoint, jar, conf>>
      /\ how' = strategy /\ count' = Len(vpns)
  BY DEF ListVpn, SelectBegin, vpns
<1>4. ClientTypeOK'
  BY <1>2, <1>3 DEF ClientTypeOK
<1>5. WishInv'
  BY <1>2, <1>3 DEF WishInv
<1>6. QED
  BY <1>4, <1>5

LEMMA WishInductive == ConnectSpec => [](ClientTypeOK /\ WishInv)
<1>1. ConnectInit => ClientTypeOK /\ WishInv
  BY DEF ConnectInit, ClientTypeOK, WishInv
<1>2. SelectTypeOK /\ ClientTypeOK /\ WishInv /\ [ConnectNext]_<<vars, probes, client>>
        => ClientTypeOK' /\ WishInv'
  <2>1. SUFFICES ASSUME SelectTypeOK, ClientTypeOK, WishInv, ConnectNext
                 PROVE  ClientTypeOK' /\ WishInv'
    BY DEF ClientTypeOK, WishInv, Suits, probes, client
  <2>2. CASE \E list \in Offers, want \in Wanted, strategy \in {"first", "fastest"} :
               ListVpn(list, want, strategy)
    BY <2>1, <2>2, ListVpnKeeps
  <2>3. CASE \E list \in Offers : ListNodes(list)
    BY <2>1, <2>3, ConnectAssumption DEF ListNodes, SelectBegin, ClientTypeOK, WishInv
  <2>4. CASE Probe
    <3>1. how' = how /\ count' = count /\ UNCHANGED client
      BY <2>4 DEF Probe, SelectStep, Answer, Compare, Record, ListNode, Drain, DrainGap, TakeFirst,
                  SelectEnd
    <3>2. QED
      BY <2>1, <3>1 DEF ClientTypeOK, WishInv, client
  <2>5. CASE Choose
    BY <2>1, <2>5, ChooseSuits DEF Choose, ClientTypeOK, WishInv
  <2>6. CASE RouteStep
    BY <2>1, <2>6 DEF RouteStep, ClientTypeOK, WishInv, client, probes
  <2>7. CASE \E force \in {Any, 0, 1} : Configured(force)
    BY <2>1, <2>7 DEF Configured, Protocol, ClientTypeOK, WishInv
  <2>8. CASE ConnectFails \/ LoggedOut \/ PeerInfo \/ RoutesRefused
    BY <2>1, <2>8 DEF ConnectFails, LoggedOut, PeerInfo, RoutesRefused, ClientTypeOK, WishInv, probes
  <2>9. CASE Listed \/ NoVpnAvailable
    <3>1. /\ step' \in {"listed", "failed"} /\ candidates' = <<>>
          /\ UNCHANGED <<chosen, endpoint, jar, conf, wish>>
      BY <2>9 DEF Listed, NoVpnAvailable
    <3>2. QED
      BY <2>1, <3>1 DEF ClientTypeOK, WishInv
  <2>10. QED
    BY <2>1, <2>2, <2>3, <2>4, <2>5, <2>6, <2>7, <2>8, <2>9 DEF ConnectNext
<1>3. QED
  BY <1>1, <1>2, SelectTypes, PTL DEF ConnectSpec

\* The state of a connect or a listing keeps its types, for lists of any length.
THEOREM ConnectTypes == ConnectSpec => []ConnectTypeOK
<1>1. TypeOK /\ SelectTypeOK /\ ClientTypeOK => ConnectTypeOK
  BY DEF ConnectTypeOK
<1>2. QED
  BY <1>1, ConnectComputesRoutes, RoutesTypeOK, SelectTypes, WishInductive, PTL

(* The peer of the tunnel                                                  *)

\* From the choice on the client deals with one node, and it is that node's address that
\* the routes leave out.
PathInv ==
  /\ step \in {"list", "choose"} => jar = {}
  /\ step \in {"peer_info", "routes", "connected"} => endpoint = chosen /\ jar = {chosen}
  /\ step \in {"list", "choose", "peer_info"} => stage = "server"
  /\ step \in {"routes", "connected"} /\ stage = "done" /\ chosen.ip \in Address =>
       peer = {chosen.ip}
  /\ step = "connected" => stage = "done" /\ conf.peer = chosen

LEMMA PathInductive == ConnectSpec => []PathInv
<1>1. ConnectInit => PathInv
  BY DEF ConnectInit, Init, PathInv
<1>2. PathInv /\ [ConnectNext]_<<vars, probes, client>> => PathInv'
  <2>1. SUFFICES ASSUME PathInv, ConnectNext PROVE PathInv'
    BY DEF PathInv, vars, client
  <2>2. CASE RouteStep
    <3>1. CASE stage = "peer"
      BY <2>1, <2>2, <3>1
      DEF PathInv, RouteStep, client, Server, Merge, AllowAll, Allow, Deny, DenyEnd,
          CarveEndpoint, CarvePeer, NamedPeer
    <3>2. CASE stage # "peer"
      <4>1. \A v4, v6, full : Server(v4, v6, full) => stage' # "done"
        BY DEF Server
      <4>2. \A list, answers : Merge(list, answers) => stage' # "done"
        BY DEF Merge
      <4>3. (\A list : Allow(list) => stage' # "done") /\ (AllowAll => stage' # "done")
        BY DEF Allow, AllowAll
      <4>4. (\A c : Deny(c) => stage' # "done") /\ (DenyEnd => stage' # "done")
        BY DEF Deny, DenyEnd
      <4>5. ~CarveEndpoint
        BY <3>2 DEF CarveEndpoint, CarvePeer, NamedPeer
      <4>6. step = "routes" /\ UNCHANGED client /\ stage' # "done"
        BY Zenon, <2>2, <4>1, <4>2, <4>3, <4>4, <4>5 DEF RouteStep
      <4>7. QED
        BY <2>1, <4>6 DEF PathInv, client
    <3>3. QED
      BY <3>1, <3>2
  <2>3. CASE \E list \in Offers, want \in Wanted, strategy \in {"first", "fastest"} :
               ListVpn(list, want, strategy)
    BY <2>1, <2>3 DEF PathInv, ListVpn, vars
  <2>4. CASE Choose
    BY <2>1, <2>4 DEF PathInv, Choose, vars
  <2>5. CASE \E force \in {Any, 0, 1} : Configured(force)
    BY <2>1, <2>5 DEF PathInv, Configured, vars
  <2>6. CASE Probe \/ Listed \/ NoVpnAvailable \/ PeerInfo \/ RoutesRefused
    BY <2>1, <2>6 DEF PathInv, Probe, Listed, NoVpnAvailable, PeerInfo, RoutesRefused, vars, client
  <2>7. CASE ConnectFails \/ LoggedOut \/ \E list \in Offers : ListNodes(list)
    BY <2>1, <2>7 DEF PathInv, ConnectFails, LoggedOut, ListNodes, vars
  <2>8. QED
    BY <2>1, <2>2, <2>3, <2>4, <2>5, <2>6, <2>7 DEF ConnectNext
<1>3. QED
  BY <1>1, <1>2, PTL DEF ConnectSpec

\* Once the tunnel is configured, packets to the node that carries it stay outside, for
\* every address width, list and filter.
THEOREM PeerStaysOutside == ConnectSpec => []PeerBypassesTunnel
<1>1. PathInv /\ WishInv /\ RoutesAreExact => PeerBypassesTunnel
  BY DEF PathInv, WishInv, RoutesAreExact, PeerBypassesTunnel
<1>2. QED
  BY <1>1, PathInductive, WishInductive, ConnectComputesRoutes, RoutesAreAlwaysExact, PTL

(* A choice cannot go on for ever                                          *)

\* What a choice has left to do: answers to wait for, results to take, and to leave a loop.
Left == 2 * Cardinality(pending) + (count + 1 - next)
          + (CASE phase = "draining" -> 2 [] phase = "waiting" -> 1 [] OTHER -> 0)

LEMMA LeftType ==
  ASSUME SelectTypeOK
  PROVE  /\ IsFiniteSet(pending) /\ Cardinality(pending) \in Nat
         /\ count \in Nat /\ next \in 1..count + 1 /\ Left \in Nat
<1>1. count \in Nat /\ next \in 1..count + 1
  BY SelectAssumption DEF SelectTypeOK
<1>2. IsFiniteSet(pending) /\ Cardinality(pending) \in Nat
  <2>1. IsFiniteSet(1..count)
    BY <1>1, FS_Interval
  <2>2. pending \in SUBSET (1..count)
    BY DEF SelectTypeOK, Nodes
  <2>3. IsFiniteSet(pending)
    BY <2>1, <2>2, FS_Subset
  <2>4. QED
    BY <2>3, FS_CardinalityType
<1>3. Left \in Nat
  BY <1>1, <1>2 DEF Left, SelectTypeOK
<1>4. QED
  BY <1>1, <1>2, <1>3

LEMMA AnswerShrinks ==
  ASSUME SelectTypeOK, NEW i \in Nodes, Answer(i)
  PROVE  Left' < Left
<1>1. /\ i \in pending /\ pending' = pending \ {i} /\ UNCHANGED <<count, next>>
      /\ phase = "waiting" /\ phase' \in {"waiting", "draining"}
  BY DEF Answer, Compare, Record, ListNode
<1>2. Cardinality(pending') = Cardinality(pending) - 1
  BY <1>1, LeftType, FS_RemoveElement
<1>3. QED
  BY <1>1, <1>2, LeftType DEF Left

\* Every step of a choice leaves it less to do, for lists of any length and whatever the
\* probes answer: no order of answers makes the loop over the results run for ever.
THEOREM ChoiceShrinks ==
  ConnectSpec => [][SelectStep => Left \in Nat /\ Left' < Left]_<<vars, probes, client>>
<1>1. SelectTypeOK /\ SelectStep => Left \in Nat /\ Left' < Left
  <2>1. SUFFICES ASSUME SelectTypeOK, SelectStep PROVE Left' < Left
    BY LeftType
  <2>2. CASE \E i \in Nodes : Answer(i)
    BY <2>1, <2>2, AnswerShrinks
  <2>3. CASE Drain
    BY <2>1, <2>3, LeftType DEF Drain, Left
  <2>4. CASE DrainGap
    BY <2>1, <2>4, LeftType DEF DrainGap, Left
  <2>5. CASE TakeFirst
    <3>1. Cardinality(pending') = 0
      BY <2>5, FS_EmptySet DEF TakeFirst
    <3>2. QED
      BY <2>1, <2>5, <3>1, LeftType DEF TakeFirst, Left
  <2>6. CASE SelectEnd
    BY <2>1, <2>6, LeftType DEF SelectEnd, Left
  <2>7. QED
    BY <2>1, <2>2, <2>3, <2>4, <2>5, <2>6 DEF SelectStep
<1>2. QED
  BY <1>1, SelectTypes, PTL
=============================================================================

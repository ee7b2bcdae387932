------------------------------ MODULE NodeSelect ------------------------------
(***************************************************************************)
(* Which VPN node is used: the probes that get_first_available_vpn,        *)
(* get_first_vpn_by_latency and probe_vpn_nodes send to every node of a    *)
(* list at once, and what each makes of the answers, which arrive in any   *)
(* order.  A node is its position in the list, counted from one.           *)
(***************************************************************************)
EXTENDS Integers

CONSTANTS MaxNodes,  \* bound: the longest list
          Latency,   \* what a probe may measure
          Failed     \* the outcome of a probe that is an error or, in a listing, too late

ASSUME SelectAssumption == MaxNodes \in Nat /\ Latency \subseteq Nat /\ Failed \notin Nat

VARIABLES how,      \* which of the three functions runs
          count,    \* vpn_info.len()
          outcome,  \* what the probe of each node will come to
          pending,  \* the probes that have not answered
          results,  \* by node; an empty set until it is there, and once it was taken
          next,     \* next_index
          fastest,  \* the best node so far, or 0
          found,    \* the function's result: a node, or 0
          phase     \* what the function does

probes == <<how, count, outcome, pending, results, next, fastest, found, phase>>

Nodes == 1..count

Outcome == Latency \cup {Failed}

Ok(i) == outcome[i] # Failed

SelectTypeOK == /\ how \in {"first", "fastest", "list"}
                /\ count \in 0..MaxNodes
                /\ outcome \in [Nodes -> Outcome]
                /\ pending \subseteq Nodes
                /\ results \in [Nodes -> {{}} \cup {{o} : o \in Outcome}]
                /\ next \in 1..count + 1
                /\ fastest \in 0..count
                /\ found \in 0..count
                /\ phase \in {"idle", "waiting", "draining", "done"}

SelectInit == /\ how = "first" /\ count = 0 /\ outcome = [i \in 1..0 |-> Failed]
              /\ pending = {} /\ results = [i \in 1..0 |-> {}]
              /\ next = 1 /\ fastest = 0 /\ found = 0 /\ phase = "idle"

\* Every node is probed at once.
SelectBegin(h, n, o) ==
  /\ phase = "idle" /\ n \in 0..MaxNodes /\ o \in [1..n -> Outcome]
  /\ phase' = "waiting"
  /\ how' = h /\ count' = n /\ outcome' = o
  /\ pending' = 1..n
  /\ results' = [i \in 1..n |-> {}]
  /\ next' = 1 /\ fastest' = 0 /\ found' = 0
-----------------------------------------------------------------------------
(* get_first_vpn_by_latency                                                *)

\* Mutant: of two nodes that are equally fast the later answer wins.
NotSlower(i) == fastest = 0 \/ outcome[i] <= outcome[fastest]

\* (latency_ms, index) < (latency, best_index).
Faster(i) == \/ fastest = 0
             \/ outcome[i] < outcome[fastest]
             \/ outcome[i] = outcome[fastest] /\ i < fastest

Compare(i) ==
  /\ how = "fastest" /\ phase = "waiting" /\ i \in pending
  /\ pending' = pending \ {i}
  /\ fastest' = IF Ok(i) /\ Faster(i) THEN i ELSE fastest
  /\ UNCHANGED <<how, count, outcome, results, next, found, phase>>
-----------------------------------------------------------------------------
(* get_first_available_vpn                                                 *)

Record(i) ==
  /\ how = "first" /\ phase = "waiting" /\ i \in pending
  /\ pending' = pending \ {i}
  /\ results' = [results EXCEPT ![i] = {outcome[i]}]
  /\ phase' = "draining"
  /\ UNCHANGED <<how, count, outcome, next, fastest, found>>

\* Mutant: only the answer at hand is looked at, none that came before it.
DrainOne ==
  /\ phase = "draining" /\ next <= count /\ results[next] = {Failed}
  /\ results' = [results EXCEPT ![next] = {}]
  /\ next' = next + 1
  /\ phase' = "waiting"
  /\ UNCHANGED <<how, count, outcome, pending, fastest, found>>

\* The answers that are there are taken in the order of the list; an error is passed over.
Drain ==
  /\ phase = "draining" /\ next <= count /\ results[next] = {Failed}
  /\ results' = [results EXCEPT ![next] = {}]
  /\ next' = next + 1
  /\ UNCHANGED <<how, count, outcome, pending, fastest, found, phase>>

DrainGap ==
  /\ phase = "draining" /\ (next <= count => results[next] = {})
  /\ phase' = "waiting"
  /\ UNCHANGED <<how, count, outcome, pending, results, next, fastest, found>>

\* The first success is the result, and the probes that are left are dropped.
TakeFirst ==
  /\ phase = "draining" /\ next <= count /\ results[next] \notin {{}, {Failed}}
  /\ found' = next
  /\ results' = [results EXCEPT ![next] = {}]
  /\ next' = next + 1
  /\ pending' = {}
  /\ phase' = "done"
  /\ UNCHANGED <<how, count, outcome, fastest>>
-----------------------------------------------------------------------------
(* probe_vpn_nodes, and the end of each                                    *)

\* Mutant: the nodes are listed in the order of their answers.
ListInOrderOfArrival(i) ==
  /\ how = "list" /\ phase = "waiting" /\ i \in pending
  /\ pending' = pending \ {i}
  /\ \E k \in Nodes : /\ results[k] = {} /\ \A j \in 1..k - 1 : results[j] # {}
                     /\ results' = [results EXCEPT ![k] = {outcome[i]}]
  /\ UNCHANGED <<how, count, outcome, next, fastest, found, phase>>

ListNode(i) ==
  /\ how = "list" /\ phase = "waiting" /\ i \in pending
  /\ pending' = pending \ {i}
  /\ results' = [results EXCEPT ![i] = {outcome[i]}]
  /\ UNCHANGED <<how, count, outcome, next, fastest, found, phase>>

\* Mutant: a function that has found nothing does not return.
SelectEndWithNode ==
  /\ phase = "waiting" /\ pending = {} /\ fastest # 0
  /\ phase' = "done"
  /\ found' = fastest
  /\ UNCHANGED <<how, count, outcome, pending, results, next, fastest>>

SelectEnd ==
  /\ phase = "waiting" /\ pending = {}
  /\ phase' = "done"
  /\ found' = IF how = "fastest" THEN fastest ELSE 0
  /\ UNCHANGED <<how, count, outcome, pending, results, next, fastest>>

\* The function returns, and its locals are gone.
SelectReturn ==
  /\ phase = "done"
  /\ how' = "first" /\ count' = 0 /\ outcome' = [i \in 1..0 |-> Failed]
  /\ pending' = {} /\ results' = [i \in 1..0 |-> {}]
  /\ next' = 1 /\ fastest' = 0 /\ found' = 0 /\ phase' = "idle"

Answer(i) == Compare(i) \/ Record(i) \/ ListNode(i)

SelectStep == \/ \E i \in Nodes : Answer(i)
              \/ Drain \/ DrainGap \/ TakeFirst \/ SelectEnd

SelectNext ==
  \/ SelectStep \/ SelectReturn
  \/ \E n \in 0..MaxNodes : \E h \in {"first", "fastest", "list"}, o \in [1..n -> Outcome] :
       SelectBegin(h, n, o)

SelectSpec == SelectInit /\ [][SelectNext]_probes
-----------------------------------------------------------------------------
(* Properties                                                              *)

\* The node that each strategy stands for, whoever answered first.
Best(i) ==
  /\ Ok(i)
  /\ \A j \in Nodes : Ok(j) /\ j # i =>
       \/ how = "first" /\ i < j
       \/ how = "fastest" /\ (outcome[i] < outcome[j] \/ (outcome[i] = outcome[j] /\ i < j))

\* In whatever order the answers arrive: the default strategy takes the first node of the
\* list that is up, the other one the fastest, of two the one listed first, and neither
\* comes back with nothing while a node is up.
ChoiceIsBest ==
  phase = "done" /\ how # "list" =>
    \/ found \in Nodes /\ Best(found)
    \/ found = 0 /\ \A i \in Nodes : ~Ok(i)

\* A listing holds every node with its own probe's latency, not with that of another one.
ListIsComplete ==
  phase = "done" /\ how = "list" => \A i \in Nodes : results[i] = {outcome[i]}

\* The default strategy waits for nobody it does not need: as soon as a node has answered
\* and all before it have failed, that node is the result ("the default strategy follows
\* server-list priority", and a slow node at the end of the list delays no connect).
NoNeedlessWait ==
  how = "first" /\ phase = "waiting" =>
    \A i \in Nodes \ pending : Ok(i) => \E j \in pending : j < i
=============================================================================

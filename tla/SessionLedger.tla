---------------------------- MODULE SessionLedger ----------------------------
(***************************************************************************)
(* What the desktop owes the VPN server for the sessions it is granted,    *)
(* with nothing said of mutexes, helpers or commands; the code that keeps  *)
(* to it is the AppController of apps/desktop (module Controller, which    *)
(* implements this specification).                                         *)
(*                                                                         *)
(* One session at a time: another is asked for only when the last has been *)
(* given back or lost, and a session that is held is never dropped, nor    *)
(* exchanged for another, other than by asking the server to end it.  What *)
(* is lost stays with the server for good: nobody knows of it any more.    *)
(***************************************************************************)
CONSTANT Sessions  \* the sessions the server may grant

VARIABLES granted, \* the sessions it has granted so far
          kept,    \* those it still keeps for this client
          held,    \* those the client can still ask it to end
          lost     \* those nobody will ask it to end

lvars == <<granted, kept, held, lost>>

Init == granted = {} /\ kept = {} /\ held = {} /\ lost = {}

\* A session nobody has had, while the client holds none.
Fresh(s) == /\ s \notin granted /\ held = {}
            /\ granted' = granted \cup {s}
            /\ kept' = kept \cup {s}

Granted(s) == Fresh(s) /\ held' = {s} /\ UNCHANGED lost

\* What came with it was of no use, and the client drops it.
Wasted(s) == Fresh(s) /\ lost' = lost \cup {s} /\ UNCHANGED held

GivenBack(s) == /\ s \in held /\ held' = held \ {s}
                /\ kept' = kept \ {s}
                /\ UNCHANGED <<granted, lost>>

\* The server would not end it, or did not hear.
Lost(s) == /\ s \in held /\ held' = held \ {s}
           /\ lost' = lost \cup {s}
           /\ UNCHANGED <<granted, kept>>

Next == \E s \in Sessions : Granted(s) \/ Wasted(s) \/ GivenBack(s) \/ Lost(s)

Spec == Init /\ [][Next]_lvars
=============================================================================

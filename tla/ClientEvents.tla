---------------------------- MODULE ClientEvents ----------------------------
(***************************************************************************)
(* What a Swoole\Async\Client promises to the script that listens to it,   *)
(* whatever the transport, the callbacks and their nesting:                *)
(*                                                                         *)
(*  - a connection is heard of from the call that starts it until its end, *)
(*    in the order onConnect, traffic, end, and the end is told once;      *)
(*  - the object stands for one connection at a time: a second one starts  *)
(*    only when nothing can be heard of the first any more;                *)
(*  - when an end is told, the object is free for a new connection.        *)
(***************************************************************************)
EXTENDS Naturals

CONSTANT MaxConnect     \* bound: how many connections the object starts

VARIABLES stream,    \* a stream socket; else a datagram socket
          started,   \* number of connections started
          current,   \* the connection the object stands for, or 0
          open,      \* connections that may still be heard of
          told       \* the callback last called for each connection

vars == <<stream, started, current, open, told>>

Connections == 1..MaxConnect

Traffic == {"onReceive", "onSSLReady", "onBufferFull", "onBufferEmpty"}

Init ==
    /\ stream \in BOOLEAN
    /\ started = 0
    /\ current = 0
    /\ open = {}
    /\ told = [g \in Connections |-> "nothing"]

(* Datagrams may come without an onConnect.                                *)
Established(g) == ~stream \/ told[g] \in {"onConnect"} \cup Traffic

Tell(g, event) == told' = [told EXCEPT ![g] = event]

New(g) == current = 0 /\ g = started + 1 /\ started' = g /\ UNCHANGED stream

(* A connection starts; a datagram socket is connected at once.            *)
Start(g) ==
    /\ New(g)
    /\ current' = g
    /\ open' = open \cup {g}
    /\ \/ UNCHANGED told
       \/ ~stream /\ Tell(g, "onConnect")

(* The call fails, and the object stays free.                              *)
Fail(g) ==
    /\ New(g)
    /\ UNCHANGED <<current, open>>
    /\ UNCHANGED told \/ Tell(g, "onError")

(* The object is taken by a socket that is never heard of.                 *)
Occupy(g) ==
    /\ New(g)
    /\ current' = g
    /\ UNCHANGED <<open, told>>

Establish(g) ==
    /\ stream
    /\ g \in open
    /\ told[g] = "nothing"
    /\ Tell(g, "onConnect")
    /\ UNCHANGED <<stream, started, current, open>>

Report(g, event) ==
    /\ g \in open
    /\ Established(g)
    /\ Tell(g, event)
    /\ UNCHANGED <<stream, started, current, open>>

(* The end is told, and the object is free.                                *)
End(g, event) ==
    /\ g \in open
    /\ event = "onClose" => Established(g)
    /\ event = "onError" => stream
    /\ Tell(g, event)
    /\ open' = open \ {g}
    /\ current' = 0
    /\ UNCHANGED <<stream, started>>

(* The script closes a connection for whose end no callback is due.        *)
Abandon(g) ==
    /\ g \in open
    /\ open' = open \ {g}
    /\ UNCHANGED <<stream, started, current, told>>

(* The object is destroyed.                                                *)
Destroy ==
    /\ open = {}
    /\ current' = 0
    /\ UNCHANGED <<stream, started, open, told>>

Next ==
    \/ \E g \in Connections :
          \/ Start(g)
          \/ Fail(g)
          \/ Occupy(g)
          \/ Establish(g)
          \/ \E event \in Traffic : Report(g, event)
          \/ \E event \in {"onClose", "onError"} : End(g, event)
          \/ Abandon(g)
    \/ Destroy

Spec == Init /\ [][Next]_vars
=============================================================================

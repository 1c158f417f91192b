----------------------------- MODULE AsyncClient -----------------------------
(***************************************************************************)
(* One Swoole\Async\Client object (swoole_async_client.cc).                *)
(*                                                                         *)
(* cb (client_callback) keeps the functions the script installed with on() *)
(* and lives as long as the PHP object.  cli (the transport's client) is   *)
(* created by connect() or sendto() and freed by the handlers of the end   *)
(* of a connection.  connect() takes a reference on the PHP object, which  *)
(* client_onClose, client_onError, or close() on a connection that is not  *)
(* established give back: the object lives through its callbacks though    *)
(* the script may have let go of it.                                       *)
(*                                                                         *)
(* Everything runs on one thread.  stack holds the user callbacks that are *)
(* running, innermost first; in each of them the script may use the object *)
(* again, and client_onClose and client_onError go on when theirs returns. *)
(*                                                                         *)
(* The transport (swoole::network::Client) is not part of this extension:  *)
(* conn models it from how the methods and handlers use it.  Connections   *)
(* are numbered in the order the object creates their cli.                 *)
(***************************************************************************)
EXTENDS Integers, Sequences

CONSTANTS
    MaxConnect,   \* bound: number of cli's the object creates
    Env           \* the behaviours its surroundings may show

(* Behaviours of the script and of the system beyond the everyday ones.    *)
Behaviours == {
    "connectAborts",         \* connect() fails and reports nothing
    "sendto",                \* the script uses sendto() without connect()
    "closeWhileConnecting" } \* the script closes before onConnect

ASSUME MaxConnectAssumption == MaxConnect \in Nat \ {0}
ASSUME EnvAssumption == Env \subseteq Behaviours

VARIABLES
    stream,     \* the type given to the constructor is a stream socket
    cb,         \* events that have a callback
    cli,        \* the client of the object, or NoCli
    zsocket,    \* the connection whose getSocket() resource is kept
    conn,       \* phase of the transport of each cli
    held,       \* references each connection holds on the PHP object
    script,     \* the script holds a reference
    stack,      \* running user callbacks
    told,       \* the callback last called for each connection
    connects,   \* number of cli's created so far
    alive,      \* the PHP object exists
    fault       \* what the process cannot go on after

vars == <<stream, cb, cli, zsocket, conn, held, script, stack, told, connects,
          alive, fault>>

Null == 0
Connections == 1..MaxConnect
Ids == 0..MaxConnect

Events == {"onConnect", "onReceive", "onClose", "onError", "onBufferFull",
           "onBufferEmpty"}
Callbacks == Events \cup {"onSSLReady"}
Endings == {"onClose", "onError"}

(* idle: created, not active; unconnected: active through sendto(); silent: *)
(* closed while it was active, without onClose.                            *)
Phases == {"none", "idle", "connecting", "connected", "unconnected", "silent",
           "closed"}

CliType == [id : Ids, on : SUBSET Events, tls : {"off", "wait", "ready"},
            full : BOOLEAN, asleep : BOOLEAN]

NoCli == [id |-> Null, on |-> {}, tls |-> "off", full |-> FALSE,
          asleep |-> FALSE]

(* within: onError runs inside a connect() that fails.                     *)
Frame == {f \in [kind : Callbacks, id : Connections, within : BOOLEAN] :
             f.within => f.kind = "onError"}

(* fatal: E_ERROR; released: a reference was dropped that nobody held.     *)
Faults == {"none", "fatal", "released"}

TypeOK ==
    /\ stream \in BOOLEAN
    /\ cb \in SUBSET Events
    /\ cli \in CliType
    /\ zsocket \in Ids
    /\ conn \in [Connections -> Phases]
    /\ held \in [Connections -> Nat]
    /\ script \in BOOLEAN
    /\ stack \in Seq(Frame)
    /\ told \in [Connections -> {"nothing"} \cup Callbacks]
    /\ connects \in Ids
    /\ alive \in BOOLEAN
    /\ fault \in Faults

Init ==
    /\ stream \in BOOLEAN
    /\ cb = {}
    /\ cli = NoCli
    /\ zsocket = Null
    /\ conn = [g \in Connections |-> "none"]
    /\ held = [g \in Connections |-> 0]
    /\ script = TRUE
    /\ stack = <<>>
    /\ told = [g \in Connections |-> "nothing"]
    /\ connects = 0
    /\ alive = TRUE
    /\ fault = "none"

-----------------------------------------------------------------------------
(* The transport, the callbacks and the references.                        *)

Open(g) == conn[g] \in {"connecting", "connected"}   \* events may come

Called(kind, g, below) ==
    <<[kind |-> kind, id |-> g, within |-> FALSE]>> \o below

Tell(g, event) == told' = [told EXCEPT ![g] = event]

AtReactor == alive /\ fault = "none" /\ stack = <<>>

(* The script has control and a way to reach the object: a variable of its *)
(* own, or the argument of the callback that runs.                         *)
ScriptRuns == alive /\ fault = "none" /\ (stack = <<>> => script)

(* client_get_ptr: the object has a client that is active.                 *)
Usable == cli # NoCli /\ conn[cli.id] \in {"connected", "unconnected"}

(* Faulty variant: the connection takes no reference.                      *)
AddRefBug(g) == held

AddRef(g) == [held EXCEPT ![g] = @ + 1]         \* Z_TRY_ADDREF_P(zobject)

DropRef(g) == [held EXCEPT ![g] = @ - 1]        \* zval_ptr_dtor(zobject)

(* Faulty variants: the object keeps its client, or its socket.            *)
AsyncClientFreeBug == zsocket' = Null /\ UNCHANGED cli

AsyncClientFreeBugSocket == cli' = NoCli /\ UNCHANGED zsocket

(* php_swoole_async_client_free                                            *)
AsyncClientFree == cli' = NoCli /\ zsocket' = Null

(* client_onClose and client_onError up to the callback: the client is     *)
(* freed first, so the callback may connect() again.                       *)
CallEnding(g, event, within) ==
    /\ AsyncClientFree
    /\ conn' = [conn EXCEPT ![g] = "closed"]
    /\ stack' = <<[kind |-> event, id |-> g, within |-> within]>> \o stack
    /\ Tell(g, event)

-----------------------------------------------------------------------------
(* Methods of the object.                                                  *)

On(event) ==
    /\ ScriptRuns
    /\ event \notin cb
    /\ cb' = cb \cup {event}
    /\ UNCHANGED <<stream, cli, zsocket, conn, held, script, stack, told,
                   connects, alive, fault>>

Required == IF stream THEN {"onReceive", "onConnect", "onError", "onClose"}
                      ELSE {"onReceive"}

(* The handlers connect() gives to the client.                             *)
Installed == IF stream THEN cb ELSE cb \ {"onBufferFull", "onBufferEmpty"}

NewCli(g, on) == [NoCli EXCEPT !.id = g, !.on = on]

(* php_swoole_async_client_new, for an object without a client.            *)
Creates(g) ==
    /\ ScriptRuns
    /\ cli = NoCli
    /\ connects < MaxConnect
    /\ g = connects + 1
    /\ connects' = g
    /\ UNCHANGED <<stream, cb, script, alive>>

(* connect() without the callbacks it needs.                               *)
ConnectWithoutCallback(g) ==
    /\ Creates(g)
    /\ ~(Required \subseteq cb)
    /\ fault' = "fatal"
    /\ cli' = NewCli(g, {})
    /\ conn' = [conn EXCEPT ![g] = "idle"]
    /\ UNCHANGED <<zsocket, held, stack, told>>

Connects(g) == Creates(g) /\ Required \subseteq cb /\ UNCHANGED fault

(* A stream socket: the connection is under way.                           *)
ConnectStarts(g) ==
    /\ Connects(g)
    /\ stream
    /\ cli' = NewCli(g, Installed)
    /\ conn' = [conn EXCEPT ![g] = "connecting"]
    /\ held' = AddRef(g)
    /\ UNCHANGED <<zsocket, stack, told>>

(* A datagram socket: onConnect runs inside connect().                     *)
ConnectAtOnce(g) ==
    /\ Connects(g)
    /\ ~stream
    /\ cli' = NewCli(g, Installed)
    /\ conn' = [conn EXCEPT ![g] = "connected"]
    /\ held' = AddRef(g)
    /\ IF "onConnect" \in Installed
       THEN stack' = Called("onConnect", g, stack) /\ Tell(g, "onConnect")
       ELSE UNCHANGED <<stack, told>>
    /\ UNCHANGED zsocket

(* The transport's connect() fails: it runs client_onError, which gives    *)
(* back the reference connect() has taken.                                 *)
ConnectFails(g) ==
    /\ Connects(g)
    /\ "onError" \in Installed
    /\ held' = AddRef(g)
    /\ CallEnding(g, "onError", TRUE)

(* The same on a client without onError: connect() frees it.               *)
ConnectFailsSilently(g) ==
    /\ Connects(g)
    /\ "onError" \notin Installed
    /\ conn' = [conn EXCEPT ![g] = "closed"]
    /\ UNCHANGED <<cli, zsocket, held, stack, told>>

(* It fails before it could call onError: the client stays.                *)
ConnectAborts(g) ==
    /\ "connectAborts" \in Env
    /\ Connects(g)
    /\ "onError" \in Installed
    /\ cli' = NewCli(g, Installed)
    /\ conn' = [conn EXCEPT ![g] = "idle"]
    /\ held' = AddRef(g)
    /\ UNCHANGED <<zsocket, stack, told>>

Connect(g) ==
    \/ ConnectWithoutCallback(g)
    \/ ConnectStarts(g)
    \/ ConnectAtOnce(g)
    \/ ConnectFails(g)
    \/ ConnectFailsSilently(g)
    \/ ConnectAborts(g)

(* sendto() on an object without a client: active, but no handler is       *)
(* installed and no reference taken.                                       *)
Sendto(g) ==
    /\ "sendto" \in Env
    /\ Creates(g)
    /\ cli' = NewCli(g, {})
    /\ conn' = [conn EXCEPT ![g] = "unconnected"]
    /\ UNCHANGED <<zsocket, held, stack, told, fault>>

(* send() that fills the output buffer to its high watermark.              *)
Send ==
    /\ ScriptRuns
    /\ Usable
    /\ ~cli.full
    /\ cli' = [cli EXCEPT !.full = TRUE]
    /\ IF "onBufferFull" \in cli.on
       THEN /\ stack' = Called("onBufferFull", cli.id, stack)
            /\ Tell(cli.id, "onBufferFull")
       ELSE UNCHANGED <<stack, told>>
    /\ UNCHANGED <<stream, cb, zsocket, conn, held, script, connects, alive,
                   fault>>

(* sleep() and wakeup()                                                    *)
Sleep(asleep) ==
    /\ ScriptRuns
    /\ Usable
    /\ cli.asleep # asleep
    /\ cli' = [cli EXCEPT !.asleep = asleep]
    /\ UNCHANGED <<stream, cb, zsocket, conn, held, script, stack, told,
                   connects, alive, fault>>

GetSocket ==
    /\ ScriptRuns
    /\ Usable
    /\ zsocket = Null
    /\ zsocket' = cli.id
    /\ UNCHANGED <<stream, cb, cli, conn, held, script, stack, told, connects,
                   alive, fault>>

(* enableSSL() with a callback, on an established connection.              *)
EnableSSL ==
    /\ ScriptRuns
    /\ stream
    /\ cli # NoCli /\ conn[cli.id] = "connected"
    /\ cli.tls = "off"
    /\ cli' = [cli EXCEPT !.tls = "wait"]
    /\ UNCHANGED <<stream, cb, zsocket, conn, held, script, stack, told,
                   connects, alive, fault>>

(* Faulty variants: the reference is dropped whatever the client's state,  *)
(* or never.                                                               *)
ClosedRefsBugAlways(g) == DropRef(g)

ClosedRefsBugNever(g) == held

(* close() gives the reference back for a client that is not active, for   *)
(* which no handler will run.                                              *)
ClosedRefs(g) ==
    IF conn[g] \in {"idle", "connecting"} THEN DropRef(g) ELSE held

(* close() runs client_onClose if the connection is established and the    *)
(* handler is installed; otherwise the object keeps the closed client.     *)
Close ==
    LET g == cli.id IN
    /\ ScriptRuns
    /\ cli # NoCli /\ conn[g] \notin {"silent", "closed"}
    /\ conn[g] = "connecting" => "closeWhileConnecting" \in Env
    /\ held' = ClosedRefs(g)
    /\ \/ /\ conn[g] = "connected" /\ "onClose" \in cli.on
          /\ CallEnding(g, "onClose", FALSE)
       \/ /\ conn[g] \in {"idle", "connecting"}
          /\ conn' = [conn EXCEPT ![g] = "closed"]
          /\ UNCHANGED <<cli, zsocket, stack, told>>
       \/ /\ Usable /\ "onClose" \notin cli.on
          /\ conn' = [conn EXCEPT ![g] = "silent"]
          /\ UNCHANGED <<cli, zsocket, stack, told>>
    /\ UNCHANGED <<stream, cb, script, connects, alive, fault>>

-----------------------------------------------------------------------------
(* The end of the object.                                                  *)

LastReference ==
    ~script' /\ stack' = <<>> /\ \A g \in Connections : held'[g] = 0

(* __destruct with the last reference: it closes the socket of a sendto()  *)
(* and frees cb.                                                           *)
Destruct ==
    /\ alive' = FALSE
    /\ cb' = {}
    /\ conn' = IF cli # NoCli THEN [conn EXCEPT ![cli.id] = "closed"] ELSE conn

DestructIfLast ==
    IF LastReference THEN Destruct ELSE UNCHANGED <<alive, cb, conn>>

(* The script lets go of the object.                                       *)
Forget ==
    /\ ScriptRuns
    /\ script
    /\ script' = FALSE
    /\ UNCHANGED <<stream, cli, zsocket, held, stack, told, connects, fault>>
    /\ DestructIfLast

(* Faulty variant: client_onClose and client_onError keep the reference.   *)
ReturnedRefsBug(f) == held

ReturnedRefs(f) == IF f.kind \in Endings THEN DropRef(f.id) ELSE held

(* connect() goes on behind client_onError and looks for the object's      *)
(* client again.  One without onError, which a sendto() of the callback    *)
(* made, it takes for its own: it frees it and drops a second reference,   *)
(* which fault stands for.                                                 *)
Mistaken(f) == f.within /\ cli # NoCli /\ "onError" \notin cli.on

ReturnMistaken ==
    /\ fault = "none"
    /\ stack # <<>>
    /\ Mistaken(Head(stack))
    /\ AsyncClientFree
    /\ conn' = [conn EXCEPT ![cli.id] = "closed"]
    /\ held' = DropRef(Head(stack).id)
    /\ stack' = Tail(stack)
    /\ fault' = "released"
    /\ UNCHANGED <<stream, cb, script, told, connects, alive>>

(* Any other user callback returns.                                        *)
Return ==
    /\ fault = "none"
    /\ stack # <<>>
    /\ ~Mistaken(Head(stack))
    /\ stack' = Tail(stack)
    /\ held' = ReturnedRefs(Head(stack))
    /\ UNCHANGED <<stream, cli, zsocket, script, told, connects, fault>>
    /\ DestructIfLast

-----------------------------------------------------------------------------
(* Events of the reactor.                                                  *)

(* An event that calls a callback and changes the client to c.             *)
Calls(g, event, c) ==
    /\ AtReactor
    /\ cli' = c
    /\ stack' = Called(event, g, <<>>)
    /\ Tell(g, event)
    /\ UNCHANGED <<stream, cb, zsocket, held, script, connects, alive, fault>>

(* client_onConnect                                                        *)
OnConnect(g) ==
    /\ conn[g] = "connecting"
    /\ conn' = [conn EXCEPT ![g] = "connected"]
    /\ Calls(g, "onConnect", cli)

(* client_onConnect again, when the handshake of enableSSL() is done.      *)
OnSSLReady(g) ==
    /\ conn[g] = "connected"
    /\ cli.tls = "wait"
    /\ Calls(g, "onSSLReady", [cli EXCEPT !.tls = "ready"])
    /\ UNCHANGED conn

OnReceive(g) ==
    /\ conn[g] = "connected"
    /\ ~cli.asleep
    /\ Calls(g, "onReceive", cli)
    /\ UNCHANGED conn

(* The output buffer drained.                                              *)
OnBufferEmpty(g) ==
    /\ conn[g] = "connected"
    /\ "onBufferEmpty" \in cli.on
    /\ cli.full
    /\ Calls(g, "onBufferEmpty", [cli EXCEPT !.full = FALSE])
    /\ UNCHANGED conn

(* client_onError: the connection failed or timed out, or the handshake    *)
(* did not succeed; the transport has closed it without onClose.           *)
OnError(g) ==
    /\ AtReactor
    /\ conn[g] = "connecting" \/ (conn[g] = "connected" /\ cli.tls = "wait")
    /\ CallEnding(g, "onError", FALSE)
    /\ UNCHANGED <<stream, cb, held, script, connects, alive, fault>>

(* client_onClose: the peer closed.                                        *)
OnClose(g) ==
    /\ AtReactor
    /\ stream
    /\ conn[g] = "connected"
    /\ CallEnding(g, "onClose", FALSE)
    /\ UNCHANGED <<stream, cb, held, script, connects, alive, fault>>

ConnectEnds == \E g \in Connections : OnConnect(g) \/ OnError(g)

(* A client that sleeps need not notice that the peer closes.              *)
PeerCloses == ~cli.asleep /\ \E g \in Connections : OnClose(g)

Next ==
    \/ \E event \in Events : On(event)
    \/ \E g \in Connections : Connect(g) \/ Sendto(g)
    \/ Send
    \/ \E asleep \in BOOLEAN : Sleep(asleep)
    \/ GetSocket
    \/ EnableSSL
    \/ Close
    \/ Forget
    \/ ReturnMistaken
    \/ Return
    \/ ConnectEnds
    \/ \E g \in Connections :
          OnSSLReady(g) \/ OnReceive(g) \/ OnBufferEmpty(g) \/ OnClose(g)

Spec == Init /\ [][Next]_vars

(* User callbacks return, the transport reports every connect() within its *)
(* own timeout, and a server closes its connections in the end: the        *)
(* reactor serves every ready socket in each of its rounds, however many   *)
(* other events there are.                                                 *)
Fairness ==
    /\ WF_vars(Return \/ ReturnMistaken)
    /\ WF_vars(ConnectEnds)
    /\ SF_vars(PeerCloses)

FairSpec == Spec /\ Fairness

-----------------------------------------------------------------------------
(* Safety.                                                                 *)

(* The handlers of a connection that can still produce events find the     *)
(* object alive, standing for this very connection, and a function behind  *)
(* every handler connect() installed, whatever the script closed, freed or *)
(* connected again in the callbacks.                                       *)
HandlersFindTheirObject ==
    \A g \in Connections : Open(g) =>
        /\ alive
        /\ cli.id = g
        /\ cli.on \subseteq cb
        /\ held[g] > 0

(* A datagram client that is closed without onClose keeps its reference:   *)
(* close() gives none back and no handler will.                            *)
Leaks(g) == conn[g] = "silent" /\ cli.on # {}

Ending(g) == \E i \in DOMAIN stack : stack[i].kind \in Endings
                                     /\ stack[i].id = g

(* A connection holds one reference on the object from connect() until     *)
(* its end was told to the script, or close() gave it up: nothing else     *)
(* keeps the object alive, and nothing destroys it under a running         *)
(* connection.  Only ReturnMistaken drops one that no connection took.     *)
ReferencesBalance ==
    fault # "fatal" => \A g \in Connections :
        held[g] = IF \/ conn[g] = "idle" \/ Open(g)
                     \/ Ending(g) \/ Leaks(g) THEN 1 ELSE 0

(* The socket resource that getSocket() keeps is the one of the client the *)
(* object has now, never of one that was freed.                            *)
SocketIsCurrent == zsocket \in {Null, cli.id}

-----------------------------------------------------------------------------
(* Liveness.                                                               *)

(* A stream client that the script let go of is destroyed: no order of     *)
(* connecting, closing and failing leaves it a reference for good, but for *)
(* a connect() that failed without onError and was not followed by         *)
(* close(), and a connection left asleep.                                  *)
EveryClientIsReleased ==
    stream /\ ~script ~>
        \/ ~alive
        \/ fault # "none"
        \/ \E g \in Connections : conn[g] = "idle"
        \/ cli.asleep

-----------------------------------------------------------------------------
(* The promise made to the script.                                         *)

Promise == INSTANCE ClientEvents WITH
    started <- connects,
    current <- IF alive THEN cli.id ELSE Null,
    open <- {g \in Connections : Open(g)}

(* What the script hears of its connections is a behaviour of ClientEvents.*)
KeepsPromise == Promise!Spec
=============================================================================

------------------------------- MODULE MySQL -------------------------------
(***************************************************************************)
(* One Swoole\MySQL object (swoole_mysql.cc): connecting, the handshake of *)
(* the MySQL protocol, queries and transactions, closing and connecting    *)
(* again.                                                                  *)
(*                                                                         *)
(* client (mysql_client) lives as long as the PHP object and is reused by  *)
(* every connection; client.cli names the connection it has, or 0.  The    *)
(* reactor of the script's thread calls the handlers of the connection;    *)
(* these call the script's callbacks, which may call the object again.     *)
(* stack holds the callbacks that run, innermost first.                    *)
(*                                                                         *)
(* The server and the network are external.  The server's side of a        *)
(* connection is the packets it sent (wire), whether it let the client in  *)
(* (auth) and whether a transaction is open (serverTx); it answers what    *)
(* the client sends in the step that sends it, and wire delivers it later, *)
(* cut or joined as the stream happens to be.  It answers a query with one *)
(* result.                                                                 *)
(***************************************************************************)
EXTENDS Naturals, Sequences, SequencesExt

CONSTANTS
    MaxConnect,  \* bound: calls of connect() that create a connection
    MaxQuery,    \* bound: calls of query(), begin(), commit(), rollback()
    Env          \* the behaviours its surroundings may show

Behaviours == {
    "sha2",             \* the server uses caching_sha2_password
    "switches",         \* the server asks for another authentication
    "split",            \* a handshake packet arrives in pieces
    "noRsa",            \* built without OpenSSL
    "refuses",          \* the server does not let the client in
    "serverErrors",     \* the server refuses a begin, commit or rollback
    "connectFails",     \* connect() is refused, at once or later
    "connectAborts",    \* connect() fails and reports nothing
    "sendFails",        \* send() or write() fails
    "peerCloses",       \* the server closes
    "closesEarly",      \* the script closes before its callbacks ran
    "reconnects",       \* the script connects again
    "queriesUnconnected" }  \* the script queries without a connection

ASSUME MySQLAssumption ==
    /\ MaxConnect \in Nat \ {0}
    /\ MaxQuery \in Nat \ {0}
    /\ Env \subseteq Behaviours

VARIABLES
    client,    \* the mysql_client
    conn,      \* phase of each connection
    wire,      \* packets the server sent and the client did not read
    cut,       \* the first packet of wire arrived in part
    buffer,    \* packets the client read and did not get past
    auth,      \* what the server thinks of the client
    serverTx,  \* the server has an open transaction
    ref,       \* connections that hold a reference on the PHP object
    stack,     \* running callbacks
    connects,  \* connections so far
    queries,   \* the queries so far, with the connection each was sent on
    answers,   \* how often the callback of each query ran
    told,      \* what the callback of each connect() was told, in order
    alive,     \* the PHP object exists
    rsa,       \* the extension was built with OpenSSL
    fault      \* the process died on a null or a dangling pointer

external == <<wire, cut, buffer, auth, serverTx>>
script == <<queries, answers>>
vars == <<client, conn, external, ref, stack, connects, script, told, alive,
          rsa, fault>>

Conns == 1..MaxConnect
Queries == 1..MaxQuery
None == 0

Phases == {"none", "idle", "connecting", "connected", "closed"}
HandshakeStates == {"WAIT_REQUEST", "WAIT_SIGNATURE", "WAIT_RSA",
                    "WAIT_RESULT", "COMPLETED"}
ReadStates == {"QUERY", "READ_START", "READ_FIELD", "READ_ROW"}
Commands == {"query", "begin", "commit", "rollback"}

Greetings == {"greetNative", "greetSha2"}
Switches == {"switchNative", "switchSha2"}
PacketKinds == Greetings \cup Switches \cup
    {"signature", "full", "key", "ok", "err", "count", "fields", "row", "eof"}

(* A packet and the query it answers, or 0.                                *)
Packet == [kind : PacketKinds, query : {None} \cup Queries]

ClientType == [cli : {None} \cup Conns, connected : BOOLEAN,
               state : ReadStates, handshake : HandshakeStates,
               switchCheck : BOOLEAN, transaction : BOOLEAN,
               error : BOOLEAN, callback : {None} \cup Queries]

FrameType == [kind : {"connect", "result", "close"}, conn : Conns,
              drops : BOOLEAN]

TypeOK ==
    /\ client \in ClientType
    /\ conn \in [Conns -> Phases]
    /\ wire \in [Conns -> Seq(Packet)]
    /\ cut \in [Conns -> BOOLEAN]
    /\ buffer \in [Conns -> Seq(Packet)]
    /\ auth \in [Conns -> {"pending", "done", "refused"}]
    /\ serverTx \in [Conns -> BOOLEAN]
    /\ ref \in SUBSET Conns
    /\ stack \in Seq(FrameType)
    /\ connects \in {None} \cup Conns
    /\ queries \in Seq({None} \cup Conns)
    /\ answers \in [Queries -> Nat]
    /\ told \in [Conns -> Seq(BOOLEAN)]
    /\ alive \in BOOLEAN
    /\ rsa \in BOOLEAN
    /\ fault \in BOOLEAN

Init ==
    /\ client = [cli |-> None, connected |-> FALSE, state |-> "QUERY",
                 handshake |-> "WAIT_REQUEST", switchCheck |-> FALSE,
                 transaction |-> FALSE, error |-> FALSE, callback |-> None]
    /\ conn = [g \in Conns |-> "none"]
    /\ wire = [g \in Conns |-> <<>>]
    /\ cut = [g \in Conns |-> FALSE]
    /\ buffer = [g \in Conns |-> <<>>]
    /\ auth = [g \in Conns |-> "pending"]
    /\ serverTx = [g \in Conns |-> FALSE]
    /\ ref = {}
    /\ stack = <<>>
    /\ connects = None
    /\ queries = <<>>
    /\ answers = [q \in Queries |-> 0]
    /\ told = [g \in Conns |-> <<>>]
    /\ alive = TRUE
    /\ rsa \in (IF "noRsa" \in Env THEN BOOLEAN ELSE {TRUE})
    /\ fault = FALSE

-----------------------------------------------------------------------------
(* The server.                                                             *)

Plain(kinds) == [i \in 1..Len(kinds) |-> [kind |-> kinds[i], query |-> None]]

Greeted == {<<"greetNative">>}
    \cup (IF "sha2" \in Env THEN {<<"greetSha2">>} ELSE {})
    \cup (IF "refuses" \in Env THEN {<<"err">>} ELSE {})

(* What the server answers to an authentication; next is the state that    *)
(* the client then waits in.                                               *)
Verdicts(next) ==
    (IF next = "WAIT_RESULT" THEN {<<"ok">>}
     ELSE IF next = "WAIT_SIGNATURE" THEN {<<"signature", "ok">>, <<"full">>}
     ELSE {<<"key">>})
    \cup (IF "refuses" \in Env THEN {<<"err">>} ELSE {})

Switched(greeted) ==
    IF greeted /\ "switches" \in Env
    THEN {<<"switchNative">>} \cup
         (IF "sha2" \in Env THEN {<<"switchSha2">>} ELSE {})
    ELSE {}

Opinion(kinds) ==
    CASE Last(kinds) = "ok" -> "done"
      [] Last(kinds) = "err" -> "refused"
      [] OTHER -> "pending"

(* What the server answers to a command of a client it let in.             *)
Results(command) ==
    IF command = "query"
    THEN {<<"ok">>, <<"err">>, <<"count", "fields", "row", "eof">>,
          <<"count", "fields", "err">>}
    ELSE {<<"ok">>} \cup (IF "serverErrors" \in Env THEN {<<"err">>} ELSE {})

TxAfter(g, command, kinds) ==
    IF kinds = <<"ok">> /\ command # "query" THEN command = "begin"
                                             ELSE serverTx[g]

(* The server reads a command on connection g.  To a client that did not   *)
(* finish its authentication it is a wrong answer.                         *)
ServerReads(g, command, q) ==
    LET Reply(kinds) == [i \in 1..Len(kinds) |->
                            [kind |-> kinds[i], query |-> q]]
    IN
    \/ /\ auth[g] = "done"
       /\ \E kinds \in Results(command) :
             /\ wire' = [wire EXCEPT ![g] = @ \o Reply(kinds)]
             /\ serverTx' = [serverTx EXCEPT
                                ![g] = TxAfter(g, command, kinds)]
       /\ UNCHANGED auth
    \/ /\ auth[g] = "pending"
       /\ wire' = [wire EXCEPT ![g] = @ \o Reply(<<"err">>)]
       /\ auth' = [auth EXCEPT ![g] = "refused"]
       /\ UNCHANGED serverTx
    \/ /\ auth[g] = "refused"
       /\ UNCHANGED <<wire, auth, serverTx>>

-----------------------------------------------------------------------------
(* Callbacks.                                                              *)

Open(g) == conn[g] \in {"connecting", "connected"}

AtReactor == ~fault /\ stack = <<>>

(* The script has control between two events and in its callbacks.         *)
ScriptRuns == ~fault /\ alive

Push(kind, g, drops, below) ==
    <<[kind |-> kind, conn |-> g, drops |-> drops]>> \o below

(* swoole_mysql_onConnect tells the callback of connect() FALSE when the   *)
(* connector holds an error, and TRUE otherwise.                           *)
Reported(c) == [c EXCEPT !.connected = @ \/ ~c.error]

Tell(g, c, drops, below) ==
    /\ client' = Reported(c)
    /\ told' = [told EXCEPT ![g] = Append(@, ~c.error)]
    /\ stack' = Push("connect", g, drops, below)

(* Faulty variant: client->connected stays set.                            *)
FreedBug(c) == [c EXCEPT !.cli = None]

(* mysql_client_free.  The state of the query, the transaction and the     *)
(* error of the connector stay.                                            *)
Freed(c) == [c EXCEPT !.cli = None, !.connected = FALSE]

(* cli->close(); mysql_client_onClose follows for a connection that was    *)
(* established.                                                            *)
CloseConnection(g, below) ==
    /\ conn' = [conn EXCEPT ![g] = "closed"]
    /\ IF conn[g] = "connected"
       THEN /\ client' = Freed(client)
            /\ stack' = Push("close", g, TRUE, below)
       ELSE /\ stack' = below
            /\ UNCHANGED client

Closable == client.cli # None /\ conn[client.cli] # "closed"

(* The method close().                                                     *)
CloseMethod(below) ==
    IF Closable
    THEN CloseConnection(client.cli, below)
    ELSE /\ stack' = below
         /\ UNCHANGED <<client, conn>>

-----------------------------------------------------------------------------
(* The calls of the script.                                                *)

(* Faulty variant: the connection takes no reference on the object.        *)
ReferencedBug(g) == ref

Referenced(g) == ref \cup {g}

Connect(g) ==
    /\ ScriptRuns
    /\ client.cli = None
    /\ connects < MaxConnect
    /\ connects > 0 => "reconnects" \in Env
    /\ g = connects + 1
    /\ connects' = g
    /\ ref' = Referenced(g)
    /\ \/ /\ conn' = [conn EXCEPT ![g] = "connecting"]
          /\ client' = [client EXCEPT !.cli = g]
          /\ UNCHANGED <<stack, told>>
       \/ /\ "connectAborts" \in Env
          /\ conn' = [conn EXCEPT ![g] = "idle"]
          /\ client' = [client EXCEPT !.cli = g]
          /\ UNCHANGED <<stack, told>>
       \/ /\ "connectFails" \in Env    \* mysql_client_onError runs inside
          /\ conn' = [conn EXCEPT ![g] = "closed"]
          /\ Tell(g, Freed([client EXCEPT !.error = TRUE]), TRUE, stack)
    /\ UNCHANGED <<external, script, alive, rsa, fault>>

(* Faulty variant: a query is accepted while another one waits.            *)
IdleBug == client.connected

Idle == client.connected /\ client.state = "QUERY"

(* Faulty variant: rollback() leaves the flag set.                         *)
TransactionAfterBug(command) ==
    IF command \in {"begin", "commit"} THEN command = "begin"
                                       ELSE client.transaction

(* begin, commit and rollback set the flag once their query is written.    *)
TransactionAfter(command) ==
    IF command = "query" THEN client.transaction ELSE command = "begin"

Permitted(command) ==
    /\ command = "begin" => ~client.transaction
    /\ command \in {"commit", "rollback"} => client.transaction

(* Faulty variant: a callback that has run is kept for the next query.     *)
RegisteredBug(q) == IF client.callback = None THEN q ELSE client.callback

Registered(q) == q

(* mysql_query on a connection.                                            *)
Query(command) ==
    LET q == Len(queries) + 1 IN
    /\ ScriptRuns
    /\ q \in Queries
    /\ Permitted(command)
    /\ client.cli # None /\ Idle
    /\ \/ /\ client' = [client EXCEPT
                 !.callback = Registered(q), !.state = "READ_START",
                 !.transaction = TransactionAfter(command)]
          /\ ServerReads(client.cli, command, q)
          /\ queries' = Append(queries, client.cli)
       \/ /\ "sendFails" \in Env
          /\ client' = [client EXCEPT !.callback = Registered(q)]
          /\ queries' = Append(queries, None)
          /\ UNCHANGED <<wire, auth, serverTx>>
    /\ UNCHANGED <<cut, buffer, conn, ref, stack, connects, answers, told,
                   alive, rsa, fault>>

(* Without a connection the warning of mysql_query reads client->cli.      *)
QueryOnNullCli ==
    /\ "queriesUnconnected" \in Env
    /\ ScriptRuns
    /\ client.cli = None
    /\ fault' = TRUE
    /\ UNCHANGED <<client, conn, external, ref, stack, connects, script,
                   told, alive, rsa>>

Close ==
    /\ ScriptRuns
    /\ Closable
    /\ \/ "closesEarly" \in Env
       \/ conn[client.cli] = "connected" /\ Idle
    /\ CloseMethod(stack)
    /\ UNCHANGED <<external, ref, connects, script, told, alive, rsa, fault>>

(* The script drops the object, and no connection holds it.                *)
Destruct ==
    /\ AtReactor
    /\ alive
    /\ ref = {}
    /\ alive' = FALSE
    /\ CloseMethod(stack)
    /\ UNCHANGED <<external, ref, connects, script, told, rsa, fault>>

(* The script dropped it in the callback of connect(), and closed the      *)
(* connection there: it dies as the callback returns, and                  *)
(* swoole_mysql_onConnect reads the client that is gone.  Either there     *)
(* still is no error to be seen, or close() is called on the dead object.  *)
DestructInCallback ==
    /\ ~fault /\ stack # <<>> /\ Head(stack).kind = "connect"
    /\ alive
    /\ ref = {}
    /\ alive' = FALSE
    /\ CloseMethod(Tail(stack))
    /\ fault' \in BOOLEAN
    /\ UNCHANGED <<external, ref, connects, script, told, rsa>>

-----------------------------------------------------------------------------
(* Events of the connection.                                               *)

OnConnect(g) ==
    /\ AtReactor
    /\ conn[g] = "connecting"
    /\ conn' = [conn EXCEPT ![g] = "connected"]
    /\ client' = [client EXCEPT !.handshake = "WAIT_REQUEST"]
    /\ \E kinds \in Greeted :
          /\ wire' = [wire EXCEPT ![g] = Plain(kinds)]
          /\ auth' = [auth EXCEPT ![g] = Opinion(kinds)]
    /\ UNCHANGED <<cut, buffer, serverTx, ref, stack, connects, script, told,
                   alive, rsa, fault>>

OnError(g) ==
    /\ AtReactor
    /\ "connectFails" \in Env
    /\ conn[g] = "connecting"
    /\ conn' = [conn EXCEPT ![g] = "closed"]
    /\ Tell(g, Freed([client EXCEPT !.error = TRUE]), TRUE, <<>>)
    /\ UNCHANGED <<external, ref, connects, script, alive, rsa, fault>>

OnClose(g) ==
    /\ "peerCloses" \in Env
    /\ AtReactor
    /\ conn[g] = "connected"
    /\ CloseConnection(g, <<>>)
    /\ UNCHANGED <<external, ref, connects, script, told, alive, rsa, fault>>

(* swoole_mysql_onHandShake works on what the buffer holds: read, the      *)
(* complete packets, and perhaps the beginning of the first one of rest,   *)
(* which are still to come.  c is the client it leaves.                    *)
Keep(g, read, rest) ==
    /\ buffer' = [buffer EXCEPT ![g] = read]
    /\ wire' = [wire EXCEPT ![g] = rest]
    /\ UNCHANGED auth

Wait(g, c, read, rest) ==
    /\ client' = c
    /\ Keep(g, read, rest)
    /\ UNCHANGED <<stack, told>>

Finish(g, c, read, rest) ==
    /\ Tell(g, c, FALSE, <<>>)
    /\ Keep(g, read, rest)

(* The label _send: the buffer is cleared and the state moves on, or the   *)
(* error of send() is reported.                                            *)
Send(g, c, next, greeted, read, rest) ==
    \/ /\ client' = [c EXCEPT !.handshake = next]
       /\ buffer' = [buffer EXCEPT ![g] = <<>>]
       /\ \/ /\ auth[g] = "pending"
             /\ \E kinds \in Verdicts(next) \cup Switched(greeted) :
                   /\ wire' = [wire EXCEPT ![g] = rest \o Plain(kinds)]
                   /\ auth' = [auth EXCEPT ![g] = Opinion(kinds)]
          \/ /\ auth[g] = "refused"
             /\ wire' = [wire EXCEPT ![g] = rest]
             /\ UNCHANGED auth
       /\ UNCHANGED <<stack, told>>
    \/ /\ "sendFails" \in Env
       /\ Finish(g, [c EXCEPT !.error = TRUE], read, rest)

Authenticated(kind) ==      \* mysql_auth_encrypt_dispatch
    IF kind \in {"greetSha2", "switchSha2"} THEN "WAIT_SIGNATURE"
                                            ELSE "WAIT_RESULT"

ShakeRequest(g, c, read, rest) ==
    LET d == [c EXCEPT !.switchCheck = TRUE] IN
    /\ c.handshake = "WAIT_REQUEST"
    /\ \/ /\ read # <<>> /\ Head(read).kind \in Greetings
          /\ Send(g, d, Authenticated(Head(read).kind), TRUE, read, rest)
       \/ /\ read # <<>> /\ Head(read).kind = "err"
          /\ Finish(g, [d EXCEPT !.error = TRUE], read, rest)
       \/ /\ read = <<>>
          /\ Wait(g, d, read, rest)

(* Faulty variant: the handshake goes on.                                  *)
CompletedBug(c) == c

Completed(c) == [c EXCEPT !.handshake = "COMPLETED"]

(* The last step; a packet that is no error is taken for the OK.           *)
ShakeResult(g, c, read, rest) ==
    /\ c.handshake = "WAIT_RESULT"
    /\ \/ /\ read # <<>> /\ Head(read).kind = "err"
          /\ Finish(g, [c EXCEPT !.error = TRUE], read, rest)
       \/ /\ read # <<>> /\ Head(read).kind # "err"
          /\ Finish(g, Completed(c), <<>>, rest)
       \/ /\ read = <<>>
          /\ Wait(g, c, read, rest)

(* Faulty variant: nothing is looked for behind the signature.             *)
MorePacketsBug(read) == FALSE

MorePackets(read) == Len(read) > 1

(* Anything but a complete signature goes to the label _error, which sets  *)
(* no error.                                                               *)
ShakeSignature(g, c, read, rest) ==
    LET first == IF read = <<>> THEN "incomplete" ELSE Head(read).kind
        d == [c EXCEPT !.handshake = "WAIT_RESULT"]
    IN
    /\ c.handshake = "WAIT_SIGNATURE"
    /\ \/ /\ first = "signature" /\ ~MorePackets(read)
          /\ Wait(g, d, <<>>, rest)
       \/ /\ first = "signature" /\ MorePackets(read)
          /\ ShakeResult(g, d, Tail(read), rest)
       \/ /\ first = "full"
          /\ Send(g, c, "WAIT_RSA", FALSE, read, rest)
       \/ /\ first \notin {"signature", "full"}
          /\ Finish(g, c, read, rest)

(* Without OpenSSL the error code is -1, which is 65535 in the uint16_t    *)
(* that holds it, whatever arrived.  With it, what is no key fails like a  *)
(* signature: the label _error, and no error set.  (The search for the key *)
(* may also run out of the packet and crash, which ends the behaviour.)    *)
ShakeRsa(g, c, read, rest) ==
    /\ c.handshake = "WAIT_RSA"
    /\ \/ /\ ~rsa
          /\ Finish(g, [c EXCEPT !.error = TRUE], read, rest)
       \/ /\ rsa /\ read # <<>> /\ Head(read).kind # "key"
          /\ Finish(g, c, read, rest)
       \/ /\ rsa /\ read # <<>> /\ Head(read).kind = "key"
          /\ Send(g, c, "WAIT_RESULT", FALSE, read, rest)
       \/ /\ rsa /\ read = <<>>
          /\ Wait(g, c, read, rest)

(* After the client's answer to the greeting the first packet may ask for  *)
(* another authentication; an incomplete one is looked at only once.       *)
OnHandShake(g, read, rest) ==
    LET first == Head(read \o rest).kind
        c == [client EXCEPT !.switchCheck = FALSE]
        switch == client.switchCheck /\ first \in Switches
    IN
    \/ /\ switch /\ read # <<>>
       /\ Send(g, c, Authenticated(first), FALSE, read, rest)
    \/ /\ switch /\ read = <<>>
       /\ Wait(g, c, read, rest)
    \/ /\ ~switch
       /\ \/ ShakeRequest(g, c, read, rest)
          \/ ShakeSignature(g, c, read, rest)
          \/ ShakeRsa(g, c, read, rest)
          \/ ShakeResult(g, c, read, rest)

(* Faulty variant: the EOF behind the rows does not end the response.      *)
StateAfterBug(state, packet) ==
    CASE packet.kind \in {"ok", "err"} -> "QUERY"
      [] packet.kind = "count" /\ state = "READ_START" -> "READ_FIELD"
      [] packet.kind = "fields" /\ state = "READ_FIELD" -> "READ_ROW"
      [] OTHER -> state

(* mysql_response: the state behind one more packet; "QUERY" stands for    *)
(* the end of the response.                                                *)
StateAfter(state, packet) ==
    CASE packet.kind \in {"ok", "err", "eof"} /\ state # "READ_FIELD"
              -> "QUERY"
      [] packet.kind = "count" /\ state = "READ_START" -> "READ_FIELD"
      [] packet.kind = "fields" /\ state = "READ_FIELD" -> "READ_ROW"
      [] OTHER -> state

(* Faulty variant: the state behind a response is not reset.               *)
AnsweredBug(state) == [client EXCEPT !.state = "READ_END"]

Answered(state) == [client EXCEPT !.state = state]

(* A packet that no query waits for is an error to mysql_response, and     *)
(* stays in the buffer, in front of the next response.                     *)
ResponseToNobody(g, unread) ==
    /\ client.state = "QUERY"
    /\ buffer' = [buffer EXCEPT ![g] = unread]
    /\ UNCHANGED <<client, stack, answers>>

(* swoole_mysql_onResponse; run is the states behind each packet.  What a  *)
(* response brought is cleared when its callback has returned.             *)
ResponseToQuery(g, unread) ==
    /\ client.state # "QUERY"
    /\ \E run \in [0..Len(unread) -> ReadStates] :
          /\ run[0] = client.state
          /\ \A i \in 1..Len(unread) :
                run[i] = StateAfter(run[i - 1], unread[i])
          /\ \/ /\ run[Len(unread)] # "QUERY"
                /\ client' = [client EXCEPT !.state = run[Len(unread)]]
                /\ buffer' = [buffer EXCEPT ![g] = <<>>]
                /\ UNCHANGED <<stack, answers>>
             \/ /\ run[Len(unread)] = "QUERY"
                /\ client' = Answered("QUERY")
                /\ buffer' = [buffer EXCEPT ![g] = unread]
                /\ answers' = [answers EXCEPT ![client.callback] = @ + 1]
                /\ stack' = Push("result", g, FALSE, <<>>)

OnResponse(g, unread, rest) ==
    /\ wire' = [wire EXCEPT ![g] = rest]
    /\ ResponseToNobody(g, unread) \/ ResponseToQuery(g, unread)
    /\ UNCHANGED <<auth, told>>

(* mysql_client_onReceive: n packets and perhaps a part of the next one.   *)
(* One piece holds packets of one exchange: all of the handshake, or all   *)
(* of one response; and a part shows at least the type of its packet.      *)
OnReceive(g, n, part) ==
    LET piece == SubSeq(wire[g], 1, n)
        rest == SubSeq(wire[g], n + 1, Len(wire[g]))
    IN
    /\ AtReactor
    /\ conn[g] = "connected"
    /\ n <= Len(wire[g])
    /\ \A i \in 1..n : wire[g][i].query = Head(wire[g]).query
    /\ ~part => n > 0
    /\ part => /\ "split" \in Env
               /\ client.handshake # "COMPLETED"
               /\ n = 0 => ~cut[g]
               /\ rest # <<>> /\ Head(rest).query = None
    /\ cut' = [cut EXCEPT ![g] = part]
    /\ \/ /\ client.handshake # "COMPLETED"
          /\ OnHandShake(g, buffer[g] \o piece, rest)
          /\ UNCHANGED answers
       \/ /\ client.handshake = "COMPLETED"
          /\ OnResponse(g, buffer[g] \o piece, rest)
    /\ UNCHANGED <<conn, serverTx, ref, connects, queries, alive, rsa, fault>>

Receive ==
    \E g \in Conns, part \in BOOLEAN : \E n \in 0..Len(wire[g]) :
        OnReceive(g, n, part)

-----------------------------------------------------------------------------
(* A callback returns; its handler goes on.                                *)

Returns(kind) == ~fault /\ stack # <<>> /\ Head(stack).kind = kind

Dropped == IF Head(stack).drops THEN ref \ {Head(stack).conn} ELSE ref

(* Behind the callback of connect() an error closes the connection that    *)
(* the client has now.                                                     *)
ReturnConnect ==
    /\ Returns("connect")
    /\ ref' = Dropped
    /\ IF client.error
       THEN CloseMethod(Tail(stack))
       ELSE /\ stack' = Tail(stack)
            /\ UNCHANGED <<client, conn>>
    /\ UNCHANGED <<external, connects, script, told, alive, rsa, fault>>

ReturnResult ==
    /\ Returns("result")
    /\ stack' = Tail(stack)
    /\ buffer' = IF conn[Head(stack).conn] # "closed" /\ client.cli # None
                 THEN [buffer EXCEPT ![client.cli] = <<>>]
                 ELSE buffer
    /\ UNCHANGED <<client, conn, wire, cut, auth, serverTx, ref, connects,
                   script, told, alive, rsa, fault>>

ReturnClose ==
    /\ Returns("close")
    /\ stack' = Tail(stack)
    /\ ref' = Dropped
    /\ UNCHANGED <<client, conn, external, connects, script, told, alive,
                   rsa, fault>>

Return == ReturnConnect \/ ReturnResult \/ ReturnClose

ConnectEnds == \E g \in Conns : OnConnect(g) \/ OnError(g)

Next ==
    \/ \E g \in Conns : Connect(g)
    \/ \E command \in Commands : Query(command)
    \/ QueryOnNullCli
    \/ Close
    \/ Destruct
    \/ DestructInCallback
    \/ ConnectEnds
    \/ \E g \in Conns : OnClose(g)
    \/ Receive
    \/ Return

Spec == Init /\ [][Next]_vars

(* Callbacks return, connect() ends in time, and the stream delivers what  *)
(* the server sent.                                                        *)
Fairness ==
    /\ WF_vars(Return)
    /\ WF_vars(ConnectEnds)
    /\ WF_vars(Receive)

FairSpec == Spec /\ Fairness

-----------------------------------------------------------------------------
(* Safety.                                                                 *)

(* The callback of a query runs at most once, on whatever connections and  *)
(* in whatever state of a handshake packets arrive.                        *)
AnsweredAtMostOnce == \A q \in Queries : answers[q] <= 1

(* A connection whose handlers can still run is the one of the client, and *)
(* holds a reference on the PHP object that the handlers use.              *)
HandlersFindTheirClient ==
    \A g \in Conns : Open(g) => alive /\ g \in ref /\ client.cli = g

(* client->connected, which lets queries through, is true only on an       *)
(* established connection.                                                 *)
ConnectedIsEstablished ==
    client.connected => client.cli # None /\ conn[client.cli] = "connected"

(* A query that waits on an open connection is the one whose callback is   *)
(* registered, and keeps further queries out: none is forgotten.           *)
NoQueryIsForgotten ==
    \A q \in 1..Len(queries) :
        /\ queries[q] # None /\ answers[q] = 0
        /\ conn[queries[q]] = "connected"
        => client.callback = q /\ client.state # "QUERY"

(* Between two queries the client's idea of a transaction is the server's. *)
TransactionIsServers ==
    client.connected /\ client.state = "QUERY" =>
        client.transaction = serverTx[client.cli]

(* The callback of a connect() runs once.                                  *)
ConnectIsToldOnce == \A g \in Conns : Len(told[g]) <= 1

(* A response goes to the query that it answers.                           *)
ResponseMatchesQuery ==
    [][\A g \in Conns, q \in Queries :
          wire'[g] # wire[g] /\ answers'[q] # answers[q]
             => Head(wire[g]).query = q]_vars

-----------------------------------------------------------------------------
(* Liveness.                                                               *)

(* Every query that is sent is answered.                                   *)
EveryQueryAnswered ==
    \A q \in Queries :
        (Len(queries) >= q /\ queries[q] # None) ~> answers[q] > 0

(* Every connect() is reported to its callback.                            *)
EveryConnectReported == \A g \in Conns : connects >= g ~> told[g] # <<>>

-----------------------------------------------------------------------------
(* swoole_mysql_async.h:87 "get signature failed": the callback of         *)
(* connect() hears TRUE only from a server that let the client in.         *)
ToldTrueMeansAuthenticated ==
    \A g \in Conns : TRUE \in Range(told[g]) => auth[g] = "done"

(* swoole_mysql.cc:2361 "mysql client is waiting response, cannot send new *)
(* sql query.": a connection that refuses a query in these words waits for *)
(* the response of an earlier one.                                         *)
BusyMeansAsked ==
    client.connected /\ client.state # "QUERY" =>
        \E q \in 1..Len(queries) :
            queries[q] = client.cli /\ answers[q] = 0
=============================================================================

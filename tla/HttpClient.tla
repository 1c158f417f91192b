----------------------------- MODULE HttpClient -----------------------------
(***************************************************************************)
(* One Swoole\Http\Client object (swoole_http_client.cc).                  *)
(*                                                                         *)
(* The object has two parts.  hcc (http_client_property) lives as long as  *)
(* the PHP object and keeps the response callback.  http (http_client)     *)
(* lives as long as the connection: get() creates it, the handlers of the  *)
(* end of the connection free it.  All of it runs on one thread: the       *)
(* reactor calls a handler, the handler calls a user callback, and the     *)
(* callback may call get() and close(), whose handlers call callbacks in   *)
(* turn.  stack holds the user callbacks that are running, innermost       *)
(* first; each frame names the handler that goes on when its callback      *)
(* returns.  With an empty stack the reactor delivers the next event, or   *)
(* other code of the script uses the object.                               *)
(*                                                                         *)
(* The transport (swoole::network::Client) and the server are not part of  *)
(* this extension: conn and owes model them from how the handlers use      *)
(* them.  Requests are numbered in the order the object accepts them; the  *)
(* request that creates http also names http and its connection.           *)
(***************************************************************************)
EXTENDS Naturals, Sequences

CONSTANTS
    MaxGet,      \* bound: number of requests the object accepts
    Env          \* the behaviours its surroundings may show

(* Behaviours of the script, of the server and of the operating system     *)
(* beyond the everyday ones, one per entry so that a run says which of     *)
(* them it allows.                                                         *)
Behaviours == {
    "downloadFails",         \* the download file cannot be opened
    "connectAborts",         \* connect() fails and reports nothing
    "sendFails",             \* send() fails
    "noTimeout",             \* the script sets a timeout of 0
    "callInOnConnect",       \* the script uses the object in onConnect
    "closeWhileConnecting",  \* the script closes before onConnect
    "unsolicited",           \* the server sends what nobody asked for
    "untilClose" }           \* responses that only the end of stream ends

ASSUME MaxGetAssumption == MaxGet \in Nat \ {0}
ASSUME EnvAssumption == Env \subseteq Behaviours

VARIABLES
    hcc,       \* onResponse, timedOut (EFLAG_TIMEOUT), shutdown
    http,      \* the http_client, or NoHttp
    conn,      \* phase of the transport of each http
    ref,       \* connections that hold a reference on the PHP object
    owes,      \* requests the server received and did not answer, in order
    stack,     \* running user callbacks
    gets,      \* requests accepted so far
    answers,   \* how often the callback of each request was called
    status,    \* statusCode the last call of that callback saw
    alive,     \* the PHP object exists
    fault      \* the null pointer the process died on

vars == <<hcc, http, conn, ref, owes, stack, gets, answers, status, alive,
          fault>>

Null == 0
Requests == 1..MaxGet
Ids == 0..MaxGet

States == {"READY", "BUSY", "WAIT_CLOSE"}
Phases == {"none", "idle", "connecting", "connected", "upgraded", "closed"}
Statuses == {"none", "ok", "connectFailed", "timeout", "reset"}
FrameKinds == {"connect", "response", "waitClose", "exception", "event",
               "message"}
Kinds == {"length", "chunked", "untilClose", "bodyless", "upgrade"}
Faults == {"none", "execute", "onConnect", "onClose"}

HttpType == [id : Ids, cli : BOOLEAN, state : States, keepAlive : BOOLEAN,
             timeout : BOOLEAN, upgrade : BOOLEAN, chunked : BOOLEAN,
             completed : BOOLEAN, headerCompleted : BOOLEAN, timer : BOOLEAN]

NoHttp == [id |-> Null, cli |-> FALSE, state |-> "READY", keepAlive |-> TRUE,
           timeout |-> TRUE, upgrade |-> FALSE, chunked |-> FALSE,
           completed |-> FALSE, headerCompleted |-> FALSE, timer |-> FALSE]

Frame == [kind : FrameKinds, id : Requests, event : {"onError", "onClose"}]

TypeOK ==
    /\ hcc \in [onResponse : Ids, timedOut : BOOLEAN, shutdown : BOOLEAN]
    /\ http \in HttpType
    /\ http.cli => http.id \in Requests
    /\ conn \in [Requests -> Phases]
    /\ ref \in SUBSET Requests
    /\ owes \in [Requests -> Seq(Ids)]
    /\ stack \in Seq(Frame)
    /\ gets \in Ids
    /\ answers \in [Requests -> Nat]
    /\ status \in [Requests -> Statuses]
    /\ alive \in BOOLEAN
    /\ fault \in Faults

Init ==
    /\ hcc = [onResponse |-> Null, timedOut |-> FALSE, shutdown |-> FALSE]
    /\ http = NoHttp
    /\ conn = [g \in Requests |-> "none"]
    /\ ref = {}
    /\ owes = [g \in Requests |-> <<>>]
    /\ stack = <<>>
    /\ gets = 0
    /\ answers = [r \in Requests |-> 0]
    /\ status = [r \in Requests |-> "none"]
    /\ alive = TRUE
    /\ fault = "none"

-----------------------------------------------------------------------------
(* The transport and the callback stack.                                   *)

Active(g) == conn[g] \in {"connected", "upgraded"}      \* cli->active
Open(g) == Active(g) \/ conn[g] = "connecting"          \* events may come

Push(kind, g, event, below) ==
    <<[kind |-> kind, id |-> g, event |-> event]>> \o below

FramesOf(s) == {s[i] : i \in 1..Len(s)}

Running(kind) == stack # <<>> /\ Head(stack).kind = kind

AtReactor == fault = "none" /\ stack = <<>>

(* The script has control: between two events, or in a user callback.      *)
ScriptRuns ==
    /\ fault = "none"
    /\ alive
    /\ Running("connect") => "callInOnConnect" \in Env

Answer(r, code) ==
    /\ answers' = [answers EXCEPT ![r] = @ + 1]
    /\ status' = [status EXCEPT ![r] = code]

-----------------------------------------------------------------------------
(* Faulty variant: only a failed connect answers the request.              *)
ExecuteCallbackBug(event, g, below, timedOut) ==
    IF hcc.onResponse = Null \/ event = "onClose"
    THEN /\ hcc' = [hcc EXCEPT !.timedOut = timedOut]
         /\ stack' = Push("event", g, event, below)
         /\ UNCHANGED <<answers, status>>
    ELSE /\ hcc' = [hcc EXCEPT !.timedOut = timedOut, !.shutdown = TRUE]
         /\ stack' = Push("exception", g, event, below)
         /\ Answer(hcc.onResponse, "connectFailed")

(* http_client_execute_callback for onError and onClose: a request without *)
(* an answer gets an error code and its callback runs first; the user's    *)
(* own handler of the event follows when it returns.                       *)
ExecuteCallback(event, g, below, timedOut) ==
    IF hcc.onResponse = Null
    THEN /\ hcc' = [hcc EXCEPT !.timedOut = timedOut]
         /\ stack' = Push("event", g, event, below)
         /\ UNCHANGED <<answers, status>>
    ELSE /\ hcc' = [hcc EXCEPT !.timedOut = timedOut, !.shutdown = TRUE]
         /\ stack' = Push("exception", g, event, below)
         /\ Answer(hcc.onResponse,
                   CASE event = "onError" -> "connectFailed"
                     [] event = "onClose" /\ timedOut -> "timeout"
                     [] OTHER -> "reset")

(* cli->close() with http_client_onClose, which the transport calls for a  *)
(* connection that was established.  A response that the end of the stream *)
(* completes is delivered here, before http is freed.                      *)
ClientClose(g, below, timedOut) ==
    /\ conn' = [conn EXCEPT ![g] = "closed"]
    /\ CASE ~Active(g) ->
              /\ hcc' = [hcc EXCEPT !.timedOut = timedOut]
              /\ stack' = below
              /\ UNCHANGED <<http, answers, status, fault>>
         [] Active(g) /\ http.state = "WAIT_CLOSE" /\ hcc.onResponse # Null ->
              /\ hcc' = [hcc EXCEPT !.timedOut = timedOut, !.shutdown = TRUE]
              /\ Answer(hcc.onResponse, "ok")
              /\ stack' = Push("waitClose", g, "onClose", below)
              /\ UNCHANGED <<http, fault>>
         [] Active(g) /\ http.state = "WAIT_CLOSE" /\ hcc.onResponse = Null ->
              /\ fault' = "onClose"          \* sw_zval_free(NULL)
              /\ stack' = below
              /\ UNCHANGED <<hcc, http, answers, status>>
         [] OTHER ->
              /\ http' = NoHttp
              /\ ExecuteCallback("onClose", g, below, timedOut)
              /\ UNCHANGED fault

(* The method close(): nothing without an open socket.                     *)
CloseMethod(below, timedOut) ==
    IF http.cli /\ conn[http.id] # "closed"
    THEN ClientClose(http.id, below, timedOut)
    ELSE /\ hcc' = [hcc EXCEPT !.timedOut = timedOut]
         /\ stack' = below
         /\ UNCHANGED <<http, conn, answers, status, fault>>

-----------------------------------------------------------------------------
(* Issuing a request.                                                      *)

(* Faulty variant: no timer is added.                                      *)
SentBug(ok) == [http EXCEPT !.state = "BUSY"]

(* http_client_send_http_request past its checks.                          *)
Sent(ok) == [http EXCEPT !.state = "BUSY", !.timer = ok /\ http.timeout]

SendOutcome(ok) == ok \/ "sendFails" \in Env

NewHttp(r, cli, keepAlive, timeout) ==
    [NoHttp EXCEPT !.id = r, !.cli = cli, !.keepAlive = keepAlive,
                   !.timeout = timeout]

(* Faulty variant: a request is accepted while another one waits.          *)
ReadyBug == http.cli /\ Active(http.id)

(* An http that accepts a request: it waits for none, and is connected.    *)
Ready == http.cli /\ http.state = "READY" /\ Active(http.id)

(* Faulty variant: hcc->shutdown is not checked.                           *)
AcceptBug(r) ==
    /\ ScriptRuns
    /\ gets < MaxGet
    /\ r = gets + 1
    /\ gets' = r
    /\ UNCHANGED <<alive, fault>>

Accept(r) ==
    /\ ScriptRuns
    /\ ~hcc.shutdown
    /\ gets < MaxGet
    /\ r = gets + 1
    /\ gets' = r
    /\ UNCHANGED <<alive, fault>>

(* Faulty variant: the connection takes no reference on the object.        *)
ReferencedBug(r) == ref

Referenced(r) == ref \cup {r}      \* Z_TRY_ADDREF_P(zobject)

Registered(r) ==
    hcc' = [hcc EXCEPT !.onResponse = r, !.timedOut = FALSE]

(* get() without a connection: the transport starts to connect.            *)
GetConnecting(r, keepAlive, timeout) ==
    /\ timeout \/ "noTimeout" \in Env
    /\ Accept(r)
    /\ http = NoHttp
    /\ Registered(r)
    /\ http' = NewHttp(r, TRUE, keepAlive, timeout)
    /\ conn' = [conn EXCEPT ![r] = "connecting"]
    /\ ref' = Referenced(r)
    /\ UNCHANGED <<owes, stack, answers, status>>

(* get() whose connect() fails at once: http_client_onError runs inside.   *)
GetRefused(r) ==
    /\ Accept(r)
    /\ http = NoHttp
    /\ hcc' = [onResponse |-> r, timedOut |-> FALSE, shutdown |-> TRUE]
    /\ conn' = [conn EXCEPT ![r] = "closed"]
    /\ ref' = Referenced(r)
    /\ Answer(r, "connectFailed")
    /\ stack' = Push("exception", r, "onError", stack)
    /\ UNCHANGED <<http, owes>>

(* get() whose connect() returns an error without any event, or that finds *)
(* the proxy without a Host header (before the reference is taken).        *)
GetAborted(r, held) ==
    /\ "connectAborts" \in Env
    /\ Accept(r)
    /\ http = NoHttp
    /\ Registered(r)
    /\ http' = NewHttp(r, TRUE, TRUE, TRUE)
    /\ conn' = [conn EXCEPT ![r] = "idle"]
    /\ ref' = IF held THEN Referenced(r) ELSE ref
    /\ UNCHANGED <<owes, stack, answers, status>>

(* download() whose file cannot be opened (or, without a connection, a     *)
(* transport that cannot be created): the callback is registered and       *)
(* nothing else happens.                                                   *)
GetWithoutFile(r) ==
    /\ "downloadFails" \in Env
    /\ Accept(r)
    /\ \/ http = NoHttp /\ http' = NewHttp(r, FALSE, TRUE, TRUE)
       \/ Ready /\ UNCHANGED http
    /\ Registered(r)
    /\ UNCHANGED <<conn, ref, owes, stack, answers, status>>

(* get() on a connection that is kept alive.                               *)
GetReusing(r, ok) ==
    /\ Accept(r)
    /\ Ready
    /\ SendOutcome(ok)
    /\ Registered(r)
    /\ http' = Sent(ok)
    /\ owes' = IF ok THEN [owes EXCEPT ![http.id] = Append(@, r)]
                     ELSE owes
    /\ UNCHANGED <<conn, ref, stack, answers, status>>

(* get() on an http without transport: it reads http->cli->active.         *)
GetOnNullCli ==
    /\ ScriptRuns
    /\ ~hcc.shutdown
    /\ http # NoHttp /\ ~http.cli
    /\ fault' = "execute"
    /\ UNCHANGED <<hcc, http, conn, ref, owes, stack, gets, answers, status,
                   alive>>

Get ==
    \/ \E r \in Requests :
          \/ \E keepAlive, timeout \in BOOLEAN :
                GetConnecting(r, keepAlive, timeout)
          \/ GetRefused(r)
          \/ \E held \in BOOLEAN : GetAborted(r, held)
          \/ GetWithoutFile(r)
          \/ \E ok \in BOOLEAN : GetReusing(r, ok)
    \/ GetOnNullCli

(* The script calls close().                                               *)
Close ==
    /\ ScriptRuns
    /\ http.cli /\ conn[http.id] # "closed"
    /\ conn[http.id] = "connecting" => "closeWhileConnecting" \in Env
    /\ CloseMethod(stack, hcc.timedOut)
    /\ UNCHANGED <<ref, owes, gets, alive>>

(* The script drops its last reference, and no connection holds one:       *)
(* __destruct closes, frees the callback and hcc, and leaves http.         *)
Destruct ==
    /\ AtReactor
    /\ alive
    /\ ref = {}
    /\ alive' = FALSE
    /\ hcc' = [hcc EXCEPT !.onResponse = Null]
    /\ conn' = IF http.cli THEN [conn EXCEPT ![http.id] = "closed"] ELSE conn
    /\ UNCHANGED <<http, ref, owes, stack, gets, answers, status, fault>>

-----------------------------------------------------------------------------
(* Events of the reactor.                                                  *)

OnConnect(g) ==
    /\ AtReactor
    /\ conn[g] = "connecting"
    /\ conn' = [conn EXCEPT ![g] = "connected"]
    /\ stack' = Push("connect", g, "onError", <<>>)
    /\ UNCHANGED <<hcc, http, ref, owes, gets, answers, status, alive, fault>>

(* The transport closes a connection it could not establish (no onClose)   *)
(* and calls http_client_onError.                                          *)
OnError(g) ==
    /\ AtReactor
    /\ conn[g] = "connecting"
    /\ conn' = [conn EXCEPT ![g] = "closed"]
    /\ http' = NoHttp
    /\ ExecuteCallback("onError", g, <<>>, hcc.timedOut)
    /\ UNCHANGED <<ref, owes, gets, alive, fault>>

(* The peer closed, or http_client_onReceive rejects what it sent.         *)
OnClose(g) ==
    /\ AtReactor
    /\ Active(g)
    /\ ClientClose(g, <<>>, hcc.timedOut)
    /\ UNCHANGED <<ref, owes, gets, alive>>

OnRequestTimeout ==
    /\ AtReactor
    /\ http.timer
    /\ CloseMethod(<<>>, TRUE)
    /\ UNCHANGED <<ref, owes, gets, alive>>

(* http_client_onReceive with a piece of the stream after which the header *)
(* is complete.  kind describes the header the piece completes, if it does *)
(* complete one; fin says that the piece ends the message.                 *)
NewMessage == ~http.headerCompleted \/ http.completed

Chunked(kind) == http.chunked \/ (NewMessage /\ kind = "chunked")

NoLength(kind) ==       \* on_headers_complete sets WAIT_CLOSE
    /\ NewMessage
    /\ ~Chunked(kind)
    /\ kind \in {"untilClose", "bodyless", "upgrade"}

StateAfter(kind) == IF NoLength(kind) THEN "WAIT_CLOSE" ELSE http.state

CanFinish(kind, fin) ==
    \/ ~NewMessage /\ (http.state = "WAIT_CLOSE" => ~fin)
    \/ NewMessage /\ kind \in {"length", "chunked"}
    \/ NewMessage /\ kind \in {"bodyless", "upgrade"} /\ fin
    \/ NewMessage /\ kind = "untilClose" /\ (NoLength(kind) => ~fin)

Parsed(kind) ==
    [http EXCEPT !.headerCompleted = TRUE,
                 !.chunked = Chunked(kind),
                 !.upgrade = @ \/ (NewMessage /\ kind = "upgrade"),
                 !.state = StateAfter(kind)]

(* Faulty variants: the timer is not deleted; the state WAIT_CLOSE is      *)
(* kept; an upgraded connection stays in the state UPGRADE.                *)
RearmedBugTimer(h) ==
    [h EXCEPT !.completed = FALSE, !.headerCompleted = FALSE,
              !.state = "READY"]

RearmedBugWaitClose(h) ==
    [h EXCEPT !.timer = FALSE, !.completed = FALSE,
              !.headerCompleted = FALSE]

RearmedBugUpgrade(h) ==
    [h EXCEPT !.timer = FALSE, !.completed = FALSE,
              !.headerCompleted = FALSE,
              !.state = IF h.upgrade THEN "UPGRADE" ELSE "READY"]

(* http_client_clear and http_client_reset *)
Rearmed(h) ==
    [h EXCEPT !.timer = FALSE, !.completed = FALSE,
              !.headerCompleted = FALSE, !.state = "READY"]

(* Faulty variant: hcc->onResponse is not cleared.                         *)
DeliveredBug == hcc

(* http_client_onReceive takes the callback before it calls it.            *)
Delivered == [hcc EXCEPT !.onResponse = Null]

OnReceive(g, kind, fin) ==
    LET h == Parsed(kind)
        done == http.completed \/ fin
    IN
    /\ AtReactor
    /\ conn[g] = "connected"
    /\ owes[g] # <<>> \/ "unsolicited" \in Env
    /\ kind = "untilClose" => "untilClose" \in Env
    /\ CanFinish(kind, fin)
    /\ owes' = IF fin /\ owes[g] # <<>> THEN [owes EXCEPT ![g] = Tail(@)]
                                         ELSE owes
    /\ \/ /\ ~done
          /\ http' = h
          /\ UNCHANGED <<hcc, conn, stack, answers, status>>
       \/ /\ done /\ hcc.onResponse = Null
          /\ http' = [h EXCEPT !.completed = TRUE]
          /\ UNCHANGED <<hcc, conn, stack, answers, status>>
       \/ /\ done /\ hcc.onResponse # Null
          /\ http' = Rearmed(h)
          /\ hcc' = Delivered
          /\ conn' = IF h.upgrade THEN [conn EXCEPT ![g] = "upgraded"]
                                  ELSE conn
          /\ Answer(hcc.onResponse, "ok")
          /\ stack' = Push("response", g, "onClose", <<>>)
    /\ UNCHANGED <<ref, gets, alive, fault>>

(* http_client_onMessage: a frame on a connection that was upgraded.       *)
OnMessage(g) ==
    /\ AtReactor
    /\ conn[g] = "upgraded"
    /\ stack' = Push("message", g, "onClose", <<>>)
    /\ UNCHANGED <<hcc, http, conn, ref, owes, gets, answers, status, alive,
                   fault>>

-----------------------------------------------------------------------------
(* A user callback returns; its handler goes on.                           *)

Returns(kind) == fault = "none" /\ Running(kind)

(* http_client_onConnect sends the request, on the http it finds now.      *)
ReturnConnect(ok) ==
    /\ Returns("connect")
    /\ stack' = Tail(stack)
    /\ \/ /\ http = NoHttp
          /\ fault' = "onConnect"
          /\ UNCHANGED <<http, owes>>
       \/ /\ http # NoHttp /\ http.state # "READY"
          /\ UNCHANGED <<http, owes, fault>>
       \/ /\ http # NoHttp /\ http.state = "READY"
          /\ SendOutcome(ok)
          /\ http' = Sent(ok)
          /\ owes' = IF ok
                     THEN [owes EXCEPT ![http.id] = Append(@, hcc.onResponse)]
                     ELSE owes
          /\ UNCHANGED fault
    /\ UNCHANGED <<hcc, conn, ref, gets, answers, status, alive>>

(* http_client_onReceive goes on: the callback may have closed the         *)
(* connection; a frame may have come behind the response that upgraded it; *)
(* http_client_check_keep closes a connection that is not to be kept.      *)
ReturnResponse ==
    LET g == Head(stack).id IN
    /\ Returns("response")
    /\ \/ /\ Active(g) /\ http.upgrade
          /\ stack' = Push("message", g, "onClose", Tail(stack))
          /\ UNCHANGED <<hcc, http, conn, answers, status, fault>>
       \/ /\ Active(g) /\ ~http.keepAlive /\ ~http.upgrade
          /\ http.state # "WAIT_CLOSE"
          /\ CloseMethod(Tail(stack), hcc.timedOut)
       \/ /\ \/ ~Active(g)
             \/ http.keepAlive \/ http.upgrade \/ http.state = "WAIT_CLOSE"
          /\ stack' = Tail(stack)
          /\ UNCHANGED <<hcc, http, conn, answers, status, fault>>
    /\ UNCHANGED <<ref, owes, gets, alive>>

(* http_client_onClose after a response that the end of stream completed.  *)
ReturnWaitClose ==
    /\ Returns("waitClose")
    /\ hcc' = [hcc EXCEPT !.onResponse = Null]
    /\ http' = NoHttp
    /\ stack' = Push("event", Head(stack).id, "onClose", Tail(stack))
    /\ UNCHANGED <<conn, ref, owes, gets, answers, status, alive, fault>>

(* http_client_execute_callback goes on to the user's event callback.      *)
ReturnException ==
    /\ Returns("exception")
    /\ stack' = Push("event", Head(stack).id, Head(stack).event, Tail(stack))
    /\ UNCHANGED <<hcc, http, conn, ref, owes, gets, answers, status, alive,
                   fault>>

(* http_client_onClose and http_client_onError drop their reference.       *)
ReturnEvent ==
    /\ Returns("event")
    /\ stack' = Tail(stack)
    /\ ref' = ref \ {Head(stack).id}
    /\ UNCHANGED <<hcc, http, conn, owes, gets, answers, status, alive, fault>>

ReturnMessage ==
    /\ Returns("message")
    /\ stack' = Tail(stack)
    /\ UNCHANGED <<hcc, http, conn, ref, owes, gets, answers, status, alive,
                   fault>>

Return ==
    \/ \E ok \in BOOLEAN : ReturnConnect(ok)
    \/ ReturnResponse
    \/ ReturnWaitClose
    \/ ReturnException
    \/ ReturnEvent
    \/ ReturnMessage

ConnectEnds == \E g \in Requests : OnConnect(g) \/ OnError(g)

Next ==
    \/ Get
    \/ Close
    \/ Destruct
    \/ ConnectEnds
    \/ \E g \in Requests : OnClose(g)
    \/ OnRequestTimeout
    \/ \E g \in Requests, kind \in Kinds, fin \in BOOLEAN :
          OnReceive(g, kind, fin)
    \/ \E g \in Requests : OnMessage(g)
    \/ Return

Spec == Init /\ [][Next]_vars

(* User callbacks return; the transport reports every connect(), within    *)
(* its own timeout; the reactor serves its timers in every round, so a     *)
(* pending timer fires however many other events there are.                *)
Fairness ==
    /\ WF_vars(Return)
    /\ WF_vars(ConnectEnds)
    /\ SF_vars(OnRequestTimeout)

FairSpec == Spec /\ Fairness
-----------------------------------------------------------------------------
(* Safety.                                                                 *)

(* The callback of a request never runs a second time, whatever mix of     *)
(* responses, errors, timeouts and closing follows: hcc->onResponse stays  *)
(* set after an exceptional answer and only hcc->shutdown protects it.     *)
AnsweredAtMostOnce == \A r \in Requests : answers[r] <= 1

(* A handler of the transport finds what it dereferences: the PHP object,  *)
(* its reference, and an http that belongs to this very connection and not *)
(* one that a user callback freed or created meanwhile.                    *)
HandlersFindTheirObject ==
    fault = "none" =>
        \A g \in Requests : Open(g) =>
            /\ alive
            /\ g \in ref
            /\ http # NoHttp /\ http.cli /\ http.id = g

(* The request timer is pending only for a request that waits on an open   *)
(* connection, or while http_client_onClose delivers its last response: it *)
(* never fires on a transport that is freed or on an idle connection.      *)
TimerGuardsRequest ==
    fault = "none" /\ http.timer =>
        /\ hcc.onResponse # Null
        /\ http.state \in {"BUSY", "WAIT_CLOSE"}
        /\ \/ Active(http.id)
           \/ \E f \in FramesOf(stack) :
                 f.kind = "waitClose" /\ f.id = http.id

(* After an answer that ended the connection nothing is open any more, so  *)
(* no event can reach the callback that is still registered.               *)
ShutdownIsSilent ==
    hcc.shutdown => \A g \in Requests : ~Open(g)

(* The process dies on a null pointer only in the ways this model names:   *)
(* an http without transport, an object used in onConnect, or a message    *)
(* that no request asked for.                                              *)
FaultNeedsACause ==
    /\ fault = "execute" => "downloadFails" \in Env
    /\ fault = "onConnect" => "callInOnConnect" \in Env
    /\ fault = "onClose" => "unsolicited" \in Env

-----------------------------------------------------------------------------
(* The inductive invariant behind the safety properties: what the          *)
(* variables say about each other between any two steps.                   *)

(* At most one connection can still produce events: the one of http.       *)
OpenConnectionIsHttps ==
    \A g \in Requests :
        Open(g) => alive /\ g \in ref /\ http.cli /\ http.id = g

(* Requests that are not issued yet left no trace.                         *)
FutureIsBlank ==
    /\ hcc.onResponse <= gets
    /\ \A r \in Requests : r > gets => answers[r] = 0 /\ conn[r] = "none"

(* Only shutdown lets a callback stay registered that already ran.         *)
RegisteredIsUnanswered ==
    hcc.onResponse # Null /\ ~hcc.shutdown => answers[hcc.onResponse] = 0

(* Callbacks that follow the end of a connection run when it is closed.    *)
EndFrames ==
    \A f \in FramesOf(stack) :
        /\ f.kind \in {"waitClose", "exception", "event"}
              => conn[f.id] = "closed"
        /\ f.kind = "waitClose" => hcc.shutdown

(* While onConnect runs, its http waits to send, or was closed for good.   *)
ConnectFrames ==
    fault = "none" =>
        \A f \in FramesOf(stack) : f.kind = "connect" =>
            \/ http = NoHttp /\ hcc.shutdown
            \/ /\ http # NoHttp /\ http.cli /\ Active(http.id)
               /\ http.state # "WAIT_CLOSE" /\ hcc.onResponse # Null

(* A connection under way has a request and has not sent it.               *)
ConnectingIsUnsent ==
    \A g \in Requests : conn[g] = "connecting" =>
        http.state = "READY" /\ hcc.onResponse # Null

(* The transport of http was created with it; a timer needs it.            *)
TransportExists ==
    /\ http.cli => conn[http.id] # "none"
    /\ http.timer => http.cli

IInv ==
    /\ OpenConnectionIsHttps
    /\ ShutdownIsSilent
    /\ AnsweredAtMostOnce
    /\ FutureIsBlank
    /\ RegisteredIsUnanswered
    /\ EndFrames
    /\ ConnectFrames
    /\ ConnectingIsUnsent
    /\ TransportExists
    /\ TimerGuardsRequest

-----------------------------------------------------------------------------
(* What surroundings that behave add to it.                                *)

(* Only download() makes an http without a transport.                      *)
TransportIsThere ==
    "downloadFails" \notin Env /\ http # NoHttp => http.cli

(* A script that leaves the object alone in onConnect lets nothing else    *)
(* happen until its callback returns.                                      *)
ConnectRunsAlone ==
    "callInOnConnect" \notin Env =>
        \A f \in FramesOf(stack) : f.kind = "connect" =>
            Tail(stack) = <<>> /\ http # NoHttp

(* A request that is not issued yet is not on the wire.                    *)
FutureOwesNothing == \A g \in Requests : g > gets => owes[g] = <<>>

(* A server that only answers owes nothing but the request whose callback  *)
(* is registered; what arrives is then a part of its response.             *)
ServerOwesTheWaiting ==
    "unsolicited" \notin Env =>
        \A g \in Requests : Open(g) =>
            /\ ~http.completed
            /\ http.state = "WAIT_CLOSE" => owes[g] # <<>>
            /\ owes[g] # <<>> => /\ http.state # "READY"
                                 /\ hcc.onResponse # Null
                                 /\ owes[g] = <<hcc.onResponse>>

CausesInv ==
    /\ FaultNeedsACause
    /\ TransportIsThere
    /\ ConnectRunsAlone
    /\ FutureOwesNothing
    /\ ServerOwesTheWaiting

(* A callback that shutdown leaves registered ran.                         *)
ShutdownAnswered ==
    hcc.shutdown /\ hcc.onResponse # Null => answers[hcc.onResponse] > 0

(* A request waits with the http that will answer it.                      *)
WaitingHasHttp ==
    http = NoHttp /\ ~hcc.shutdown => hcc.onResponse = Null

(* An http that accepts a request waits for none, but in its onConnect.    *)
ReadyIsFree ==
    Ready /\ hcc.onResponse # Null => Running("connect")

(* The connection of http still holds its reference: the callbacks that    *)
(* follow the end of a connection run when http is another one.            *)
HttpIsReferenced ==
    /\ http.cli /\ alive /\ ~hcc.shutdown => http.id \in ref
    /\ \A f \in FramesOf(stack) :
          f.kind \in {"exception", "event"} /\ http.cli => f.id # http.id

WaitingInv ==
    /\ ShutdownAnswered
    /\ WaitingHasHttp
    /\ ReadyIsFree
    /\ HttpIsReferenced

-----------------------------------------------------------------------------
(* Action properties.                                                      *)

(* A response that arrives is given to the request the server answers,     *)
(* never to one that was issued while it was under way.                    *)
ResponseMatchesRequest ==
    [][\A g \in Requests, r \in Requests :
          owes'[g] # owes[g] /\ answers'[r] # answers[r]
             => r = Head(owes[g])]_vars

(* A request leaves hcc->onResponse only when its callback runs or ran: no *)
(* request is overwritten by a later one.                                  *)
NoRequestOverwritten ==
    [][hcc'.onResponse # hcc.onResponse /\ hcc.onResponse # Null
          => answers'[hcc.onResponse] > 0]_vars

-----------------------------------------------------------------------------
(* Liveness.                                                               *)

(* Every request the object accepts is answered, by a response or by an    *)
(* error.                                                                  *)
EveryRequestAnswered ==
    \A r \in Requests : gets >= r ~> answers[r] > 0

(* A request that is on the wire with its timer set is answered whatever   *)
(* the script, the server and the system do.                               *)
SentRequestAnswered ==
    \A r \in Requests :
        http.timer /\ hcc.onResponse = r ~> answers[r] > 0

-----------------------------------------------------------------------------
(* The promise made to the script.                                         *)

Pending ==
    IF hcc.onResponse # Null /\ answers[hcc.onResponse] = 0
    THEN hcc.onResponse ELSE Null

Dead == hcc.shutdown \/ ~alive

Promise == INSTANCE HttpRequest WITH
    issued <- gets, pending <- Pending, dead <- Dead

(* What the script sees of the object, whatever connections, timers and    *)
(* handlers are behind it, is a behaviour of HttpRequest.                  *)
KeepsPromise == Promise!Spec

(* swoole_http_client.cc:328 "http is not null when keeping alive": an     *)
(* http that exists has a transport to reuse.                              *)
HttpHasTransport == http # NoHttp => http.cli

(* tests/swoole_http_client/request_timeout.phpt:16: the callback of a     *)
(* request that timed out sees the status code of a timeout.               *)
TimeoutIsReported ==
    [][http.timer /\ hcc'.timedOut /\ ~hcc.timedOut
          => status'[hcc.onResponse] = "timeout"]_vars
=============================================================================

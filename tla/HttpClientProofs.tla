-------------------------- MODULE HttpClientProofs --------------------------
(***************************************************************************)
(* Theorems about HttpClient, for every MaxGet and every Env, and the      *)
(* proof that it implements HttpRequest: what the script sees of the       *)
(* object is what HttpRequest promises, whatever the surroundings do.      *)
(***************************************************************************)
EXTENDS HttpClient, TLAPS

-----------------------------------------------------------------------------
(* The callback stack: what a push and a return do to the running frames.  *)

LEMMA PushType ==
    ASSUME NEW kind \in FrameKinds, NEW g \in Requests,
           NEW event \in {"onError", "onClose"}, NEW below \in Seq(Frame)
    PROVE  Push(kind, g, event, below) \in Seq(Frame)
BY DEF Push, Frame

LEMMA EmptyType == <<>> \in Seq(Frame)
OBVIOUS

LEMMA PopType ==
    ASSUME stack \in Seq(Frame), stack # <<>>
    PROVE  /\ Tail(stack) \in Seq(Frame)
           /\ Head(stack) \in Frame
           /\ Head(stack).id \in Requests
           /\ Head(stack).event \in {"onError", "onClose"}
<1>1. /\ Tail(stack) \in Seq(Frame)
      /\ Head(stack) \in Frame
  OBVIOUS
<1>2. QED
  BY <1>1 DEF Frame

-----------------------------------------------------------------------------
(* Every variable keeps its type.  The two operators that several handlers *)
(* share come first.                                                       *)

LEMMA WaitingType ==
    ASSUME TypeOK, hcc.onResponse # Null
    PROVE  hcc.onResponse \in Requests
BY MaxGetAssumption DEF TypeOK, Ids, Requests, Null

LEMMA AnswerType ==
    ASSUME TypeOK, NEW r \in Requests, NEW code \in Statuses, Answer(r, code)
    PROVE  /\ answers' \in [Requests -> Nat]
           /\ status' \in [Requests -> Statuses]
<1>1. /\ answers \in [Requests -> Nat]
      /\ status \in [Requests -> Statuses]
  BY DEF TypeOK
<1>2. answers[r] + 1 \in Nat
  BY <1>1
<1>3. QED
  BY <1>1, <1>2 DEF Answer

LEMMA ExecuteCallbackType ==
    ASSUME TypeOK, NEW event \in {"onError", "onClose"}, NEW g \in Requests,
           NEW below \in Seq(Frame), NEW timedOut \in BOOLEAN,
           ExecuteCallback(event, g, below, timedOut)
    PROVE  /\ hcc' \in [onResponse : Ids, timedOut : BOOLEAN,
                        shutdown : BOOLEAN]
           /\ stack' \in Seq(Frame)
           /\ answers' \in [Requests -> Nat]
           /\ status' \in [Requests -> Statuses]
<1>1. CASE hcc.onResponse = Null
  <2>1. stack' \in Seq(Frame)
    BY <1>1, PushType DEF ExecuteCallback, FrameKinds
  <2>2. QED
    BY <1>1, <2>1 DEF ExecuteCallback, TypeOK
<1>2. CASE hcc.onResponse # Null
  <2>1. stack' \in Seq(Frame)
    BY <1>2, PushType DEF ExecuteCallback, FrameKinds
  <2> DEFINE code == CASE event = "onError" -> "connectFailed"
                       [] event = "onClose" /\ timedOut -> "timeout"
                       [] OTHER -> "reset"
  <2>2. code \in Statuses
    BY DEF Statuses
  <2>3. Answer(hcc.onResponse, code)
    BY <1>2 DEF ExecuteCallback
  <2>4. hcc.onResponse \in Requests
    BY <1>2, WaitingType
  <2>5. hcc' \in [onResponse : Ids, timedOut : BOOLEAN, shutdown : BOOLEAN]
    BY <1>2 DEF ExecuteCallback, TypeOK
  <2> HIDE DEF code
  <2>6. QED
    BY <2>1, <2>2, <2>3, <2>4, <2>5, AnswerType
<1>3. QED
  BY <1>1, <1>2

LEMMA NoHttpType == NoHttp \in HttpType /\ ~NoHttp.cli
BY MaxGetAssumption DEF NoHttp, HttpType, Ids, Null, States

LEMMA ClientCloseType ==
    ASSUME TypeOK, NEW g \in Requests, NEW below \in Seq(Frame),
           NEW timedOut \in BOOLEAN, ClientClose(g, below, timedOut),
           UNCHANGED <<ref, owes, gets, alive>>
    PROVE  TypeOK'
<1>1. conn' \in [Requests -> Phases]
  BY DEF ClientClose, TypeOK, Phases
<1>2. CASE ~Active(g)
  BY <1>1, <1>2 DEF ClientClose, TypeOK
<1>3. CASE Active(g) /\ http.state = "WAIT_CLOSE" /\ hcc.onResponse # Null
  <2>1. stack' \in Seq(Frame)
    BY <1>3, PushType DEF ClientClose, FrameKinds
  <2>2. /\ answers' \in [Requests -> Nat]
        /\ status' \in [Requests -> Statuses]
    <3>1. Answer(hcc.onResponse, "ok")
      BY <1>3 DEF ClientClose
    <3>2. QED
      BY <1>3, <3>1, WaitingType, AnswerType DEF Statuses
  <2>3. QED
    BY <1>1, <1>3, <2>1, <2>2 DEF ClientClose, TypeOK
<1>4. CASE Active(g) /\ http.state = "WAIT_CLOSE" /\ hcc.onResponse = Null
  BY <1>1, <1>4 DEF ClientClose, TypeOK, Faults
<1>5. CASE Active(g) /\ http.state # "WAIT_CLOSE"
  <2>1. /\ http' = NoHttp
        /\ ExecuteCallback("onClose", g, below, timedOut)
        /\ UNCHANGED fault
    BY <1>5 DEF ClientClose
  <2>2. QED
    BY <1>1, <2>1, NoHttpType, ExecuteCallbackType DEF TypeOK
<1>6. QED
  BY <1>2, <1>3, <1>4, <1>5

LEMMA CloseMethodType ==
    ASSUME TypeOK, NEW below \in Seq(Frame), NEW timedOut \in BOOLEAN,
           CloseMethod(below, timedOut), UNCHANGED <<ref, owes, gets, alive>>
    PROVE  TypeOK'
<1>1. CASE http.cli /\ conn[http.id] # "closed"
  <2>1. http.id \in Requests
    BY <1>1 DEF TypeOK
  <2>2. QED
    BY <1>1, <2>1, ClientCloseType DEF CloseMethod
<1>2. CASE ~(http.cli /\ conn[http.id] # "closed")
  BY <1>2 DEF CloseMethod, TypeOK
<1>3. QED
  BY <1>1, <1>2

LEMMA NewHttpType ==
    ASSUME NEW r \in Requests, NEW cli \in BOOLEAN,
           NEW keepAlive \in BOOLEAN, NEW timeout \in BOOLEAN
    PROVE  /\ NewHttp(r, cli, keepAlive, timeout) \in HttpType
           /\ NewHttp(r, cli, keepAlive, timeout).id = r
<1>1. r \in Ids
  BY DEF Requests, Ids
<1>2. NoHttp \in HttpType
  BY NoHttpType
<1> HIDE DEF NoHttp
<1>3. QED
  BY <1>1, <1>2 DEF NewHttp, HttpType

(* A request that is accepted: its callback, the counter, its reference.   *)
LEMMA AcceptType ==
    ASSUME TypeOK, NEW r \in Requests, Accept(r)
    PROVE  /\ gets' \in Ids
           /\ Registered(r) => hcc' \in [onResponse : Ids, timedOut : BOOLEAN,
                                        shutdown : BOOLEAN]
           /\ Referenced(r) \in SUBSET Requests
           /\ UNCHANGED <<alive, fault>>
<1>1. r \in Ids
  BY DEF Requests, Ids
<1>2. QED
  BY <1>1 DEF Accept, Registered, Referenced, TypeOK

LEMMA SentType ==
    ASSUME TypeOK, NEW ok \in BOOLEAN
    PROVE  /\ Sent(ok) \in HttpType
           /\ Sent(ok).cli = http.cli /\ Sent(ok).id = http.id
BY DEF TypeOK, Sent, HttpType, States

LEMMA ParsedType ==
    ASSUME TypeOK, NEW kind \in Kinds
    PROVE  /\ Parsed(kind) \in HttpType
           /\ Rearmed(Parsed(kind)) \in HttpType
           /\ [Parsed(kind) EXCEPT !.completed = TRUE] \in HttpType
           /\ Parsed(kind).cli = http.cli /\ Parsed(kind).id = http.id
<1>1. StateAfter(kind) \in States
  BY DEF StateAfter, States, TypeOK, HttpType
<1>2. /\ Chunked(kind) \in BOOLEAN
      /\ http.upgrade \/ (NewMessage /\ kind = "upgrade") \in BOOLEAN
  BY DEF Chunked, NewMessage, TypeOK, HttpType
<1>3. /\ Parsed(kind) \in HttpType
      /\ Parsed(kind).cli = http.cli /\ Parsed(kind).id = http.id
  BY <1>1, <1>2 DEF Parsed, TypeOK, HttpType
<1> HIDE DEF Parsed
<1>4. QED
  BY <1>3 DEF Rearmed, HttpType, States

(* What a message leaves of an http.                                       *)
LEMMA MessageKeeps ==
    ASSUME NEW h \in HttpType,
           NEW next \in {h, Rearmed(h), [h EXCEPT !.completed = TRUE]}
    PROVE  /\ next.cli = h.cli /\ next.id = h.id
           /\ next.timer => /\ h.timer
                            /\ next.state = h.state
<1>1. CASE next = h
  BY <1>1
<1>2. CASE next = Rearmed(h)
  BY <1>2 DEF Rearmed, HttpType
<1>3. CASE next = [h EXCEPT !.completed = TRUE]
  BY <1>3 DEF HttpType
<1>4. QED
  BY <1>1, <1>2, <1>3

(* The type of every variable is preserved by every operation.             *)
THEOREM TypeCorrect == Spec => []TypeOK
<1>1. Init => TypeOK
  BY MaxGetAssumption, NoHttpType, EmptyType
     DEF Init, TypeOK, Ids, Null, Phases, Statuses, Faults
<1>2. TypeOK /\ [Next]_vars => TypeOK'
  <2> SUFFICES ASSUME TypeOK, [Next]_vars PROVE TypeOK'
    OBVIOUS
  <2>1. ASSUME NEW r \in Requests, NEW keepAlive \in BOOLEAN,
               NEW timeout \in BOOLEAN, GetConnecting(r, keepAlive, timeout)
        PROVE  TypeOK'
    <3>1. /\ http' \in HttpType
          /\ http'.cli => http'.id \in Requests
      BY <2>1, NewHttpType DEF GetConnecting
    <3>2. QED
      BY <2>1, <3>1, AcceptType DEF GetConnecting, TypeOK, Phases
  <2>2. ASSUME NEW r \in Requests, GetRefused(r)
        PROVE  TypeOK'
    <3>1. stack' \in Seq(Frame)
      BY <2>2, PushType DEF GetRefused, TypeOK, FrameKinds
    <3>2. /\ answers' \in [Requests -> Nat]
          /\ status' \in [Requests -> Statuses]
      BY <2>2, AnswerType DEF GetRefused, Statuses
    <3>3. r \in Ids
      BY DEF Requests, Ids
    <3>4. QED
      BY <2>2, <3>1, <3>2, <3>3, AcceptType DEF GetRefused, TypeOK, Phases
  <2>3. ASSUME NEW r \in Requests, NEW held \in BOOLEAN, GetAborted(r, held)
        PROVE  TypeOK'
    <3>1. /\ http' \in HttpType
          /\ http'.cli => http'.id \in Requests
      BY <2>3, NewHttpType DEF GetAborted
    <3>2. QED
      BY <2>3, <3>1, AcceptType DEF GetAborted, TypeOK, Phases
  <2>4. ASSUME NEW r \in Requests, GetWithoutFile(r)
        PROVE  TypeOK'
    <3>1. /\ http' \in HttpType
          /\ http'.cli => http'.id \in Requests
      <4>1. CASE http' = NewHttp(r, FALSE, TRUE, TRUE)
        BY <4>1, NewHttpType
      <4>2. CASE UNCHANGED http
        BY <4>2 DEF TypeOK
      <4>3. QED
        BY <2>4, <4>1, <4>2 DEF GetWithoutFile
    <3>2. QED
      BY <2>4, <3>1, AcceptType DEF GetWithoutFile, TypeOK
  <2>5. ASSUME NEW r \in Requests, NEW ok \in BOOLEAN, GetReusing(r, ok)
        PROVE  TypeOK'
    <3>1. /\ http' \in HttpType
          /\ http'.cli => http'.id \in Requests
      BY <2>5, SentType DEF GetReusing, TypeOK
    <3>2. owes' \in [Requests -> Seq(Ids)]
      <4>1. /\ r \in Ids
            /\ http.id \in Requests
        BY <2>5 DEF Ids, Requests, GetReusing, Ready, TypeOK
      <4>2. owes[http.id] \in Seq(Ids)
        BY <4>1 DEF TypeOK
      <4>3. Append(owes[http.id], r) \in Seq(Ids)
        BY <4>1, <4>2
      <4>4. QED
        BY <2>5, <4>1, <4>3 DEF GetReusing, TypeOK
    <3>3. QED
      BY <2>5, <3>1, <3>2, AcceptType DEF GetReusing, TypeOK
  <2>6. CASE GetOnNullCli
    BY <2>6 DEF GetOnNullCli, TypeOK, Faults
  <2>7. CASE Close
    <3>1. stack \in Seq(Frame) /\ hcc.timedOut \in BOOLEAN
      BY DEF TypeOK
    <3>2. QED
      BY <2>7, <3>1, CloseMethodType DEF Close
  <2>8. CASE Destruct
    <3>1. Null \in Ids
      BY MaxGetAssumption DEF Ids, Null
    <3>2. hcc' \in [onResponse : Ids, timedOut : BOOLEAN, shutdown : BOOLEAN]
      BY <2>8, <3>1 DEF Destruct, TypeOK
    <3>3. conn' \in [Requests -> Phases]
      BY <2>8 DEF Destruct, TypeOK, Phases
    <3>4. QED
      BY <2>8, <3>2, <3>3 DEF Destruct, TypeOK
  <2>9. ASSUME NEW g \in Requests, OnConnect(g)
        PROVE  TypeOK'
    <3>1. stack' \in Seq(Frame)
      BY <2>9, PushType, EmptyType DEF OnConnect, FrameKinds
    <3>2. QED
      BY <2>9, <3>1 DEF OnConnect, TypeOK, Phases
  <2>10. ASSUME NEW g \in Requests, OnError(g)
         PROVE  TypeOK'
    <3>1. hcc.timedOut \in BOOLEAN
      BY DEF TypeOK
    <3>2. /\ hcc' \in [onResponse : Ids, timedOut : BOOLEAN,
                        shutdown : BOOLEAN]
          /\ stack' \in Seq(Frame)
          /\ answers' \in [Requests -> Nat]
          /\ status' \in [Requests -> Statuses]
      BY <2>10, <3>1, ExecuteCallbackType, EmptyType DEF OnError
    <3>3. QED
      BY <2>10, <3>2, NoHttpType DEF OnError, TypeOK, Phases
  <2>11. ASSUME NEW g \in Requests, OnClose(g)
         PROVE  TypeOK'
    <3>1. hcc.timedOut \in BOOLEAN
      BY DEF TypeOK
    <3>2. QED
      BY <2>11, <3>1, ClientCloseType, EmptyType DEF OnClose
  <2>12. CASE OnRequestTimeout
    BY <2>12, CloseMethodType, EmptyType DEF OnRequestTimeout
  <2>13. ASSUME NEW g \in Requests, NEW kind \in Kinds, NEW fin \in BOOLEAN,
                OnReceive(g, kind, fin)
         PROVE  TypeOK'
    <3>1. owes' \in [Requests -> Seq(Ids)]
      <4>1. owes \in [Requests -> Seq(Ids)] /\ owes[g] \in Seq(Ids)
        BY DEF TypeOK
      <4>2. owes[g] # <<>> => Tail(owes[g]) \in Seq(Ids)
        BY <4>1
      <4>3. QED
        BY <2>13, <4>1, <4>2 DEF OnReceive
    <3>2. /\ http' \in HttpType
          /\ http'.cli => http'.id \in Requests
      <4>1. http' \in {Parsed(kind), Rearmed(Parsed(kind)),
                       [Parsed(kind) EXCEPT !.completed = TRUE]}
        BY <2>13 DEF OnReceive
      <4>2. /\ http'.cli = Parsed(kind).cli
            /\ http'.id = Parsed(kind).id
        BY <4>1, ParsedType, MessageKeeps
      <4>3. QED
        BY <4>1, <4>2, ParsedType DEF TypeOK
    <3>3. CASE UNCHANGED <<hcc, conn, stack, answers, status>>
      BY <2>13, <3>1, <3>2, <3>3 DEF OnReceive, TypeOK
    <3>4. CASE /\ hcc.onResponse # Null
               /\ hcc' = Delivered
               /\ conn' = IF Parsed(kind).upgrade
                          THEN [conn EXCEPT ![g] = "upgraded"] ELSE conn
               /\ Answer(hcc.onResponse, "ok")
               /\ stack' = Push("response", g, "onClose", <<>>)
      <4>1. stack' \in Seq(Frame)
        BY <3>4, PushType, EmptyType DEF FrameKinds
      <4>2. /\ answers' \in [Requests -> Nat]
            /\ status' \in [Requests -> Statuses]
        BY <3>4, WaitingType, AnswerType DEF Statuses
      <4>3. /\ hcc' \in [onResponse : Ids, timedOut : BOOLEAN,
                          shutdown : BOOLEAN]
            /\ conn' \in [Requests -> Phases]
        <5>1. Null \in Ids
          BY MaxGetAssumption DEF Ids, Null
        <5>2. "upgraded" \in Phases
          BY DEF Phases
        <5>3. QED
          BY <3>4, <5>1, <5>2 DEF Delivered, TypeOK
      <4>4. QED
        BY <2>13, <3>1, <3>2, <4>1, <4>2, <4>3 DEF OnReceive, TypeOK
    <3>5. QED
      BY <2>13, <3>3, <3>4 DEF OnReceive
  <2>14. ASSUME NEW g \in Requests, OnMessage(g)
         PROVE  TypeOK'
    <3>1. stack' \in Seq(Frame)
      BY <2>14, PushType, EmptyType DEF OnMessage, FrameKinds
    <3>2. QED
      BY <2>14, <3>1 DEF OnMessage, TypeOK
  <2>15. ASSUME NEW ok \in BOOLEAN, ReturnConnect(ok)
         PROVE  TypeOK'
    <3>1. stack' \in Seq(Frame)
      BY <2>15, PopType DEF ReturnConnect, Returns, Running, TypeOK
    <3>2. /\ http' \in HttpType
          /\ http'.cli => http'.id \in Requests
      BY <2>15, SentType DEF ReturnConnect, TypeOK
    <3>3. owes' \in [Requests -> Seq(Ids)]
      <4>1. /\ owes \in [Requests -> Seq(Ids)]
            /\ hcc.onResponse \in Ids
        BY DEF TypeOK
      <4>2. CASE http.id \in Requests
        <5>1. Append(owes[http.id], hcc.onResponse) \in Seq(Ids)
          BY <4>1, <4>2
        <5>2. QED
          BY <2>15, <4>1, <4>2, <5>1 DEF ReturnConnect
      <4>3. CASE http.id \notin Requests
        BY <2>15, <4>1, <4>3 DEF ReturnConnect
      <4>4. QED
        BY <4>2, <4>3
    <3>4. QED
      BY <2>15, <3>1, <3>2, <3>3 DEF ReturnConnect, TypeOK, Faults
  <2>16. CASE ReturnResponse
    <3>1. /\ Tail(stack) \in Seq(Frame)
          /\ Head(stack).id \in Requests
      BY <2>16, PopType DEF ReturnResponse, Returns, Running, TypeOK
    <3>2. CASE CloseMethod(Tail(stack), hcc.timedOut)
      <4>1. hcc.timedOut \in BOOLEAN
        BY DEF TypeOK
      <4>2. QED
        BY <2>16, <3>1, <3>2, <4>1, CloseMethodType DEF ReturnResponse
    <3>3. CASE UNCHANGED <<hcc, http, conn, answers, status, fault>>
      <4>1. stack' \in Seq(Frame)
        <5>1. CASE stack' = Tail(stack)
          BY <3>1, <5>1
        <5>2. CASE stack' = Push("message", Head(stack).id, "onClose",
                                 Tail(stack))
          BY <3>1, <5>2, PushType DEF FrameKinds
        <5>3. CASE CloseMethod(Tail(stack), hcc.timedOut)
          <6>1. hcc.timedOut \in BOOLEAN
            BY DEF TypeOK
          <6>2. QED
            BY <2>16, <3>1, <5>3, <6>1, CloseMethodType
               DEF ReturnResponse, TypeOK
        <5>4. QED
          BY <2>16, <5>1, <5>2, <5>3 DEF ReturnResponse
      <4>2. QED
        BY <2>16, <3>3, <4>1 DEF ReturnResponse, TypeOK
    <3>4. QED
      BY <2>16, <3>2, <3>3 DEF ReturnResponse
  <2>17. CASE ReturnWaitClose
    <3>1. stack' \in Seq(Frame)
      BY <2>17, PopType, PushType
         DEF ReturnWaitClose, Returns, Running, TypeOK, FrameKinds
    <3>2. QED
      BY <2>17, <3>1, NoHttpType, MaxGetAssumption
         DEF ReturnWaitClose, TypeOK, Ids, Null
  <2>18. CASE ReturnException
    <3>1. stack' \in Seq(Frame)
      BY <2>18, PopType, PushType
         DEF ReturnException, Returns, Running, TypeOK, FrameKinds
    <3>2. QED
      BY <2>18, <3>1 DEF ReturnException, TypeOK
  <2>19. CASE ReturnEvent
    <3>1. stack' \in Seq(Frame)
      BY <2>19, PopType DEF ReturnEvent, Returns, Running, TypeOK
    <3>2. QED
      BY <2>19, <3>1 DEF ReturnEvent, TypeOK
  <2>20. CASE ReturnMessage
    <3>1. stack' \in Seq(Frame)
      BY <2>20, PopType DEF ReturnMessage, Returns, Running, TypeOK
    <3>2. QED
      BY <2>20, <3>1 DEF ReturnMessage, TypeOK
  <2>21. CASE UNCHANGED vars
    BY <2>21 DEF vars, TypeOK
  <2>22. QED
    BY <2>1, <2>2, <2>3, <2>4, <2>5, <2>6, <2>7, <2>8, <2>9, <2>10, <2>11,
       <2>12, <2>13, <2>14, <2>15, <2>16, <2>17, <2>18, <2>19, <2>20, <2>21
       DEF Next, Get, ConnectEnds, Return
<1>3. QED
  BY <1>1, <1>2, PTL DEF Spec

-----------------------------------------------------------------------------
(* The set of running frames.                                              *)

LEMMA FramesPush ==
    ASSUME NEW kind \in FrameKinds, NEW g \in Requests,
           NEW event \in {"onError", "onClose"}, NEW below \in Seq(Frame)
    PROVE  FramesOf(Push(kind, g, event, below))
             = {[kind |-> kind, id |-> g, event |-> event]}
                 \cup FramesOf(below)
<1> DEFINE f == [kind |-> kind, id |-> g, event |-> event]
           s == <<f>> \o below
<1>1. /\ Len(s) = Len(below) + 1
      /\ Len(below) \in Nat
      /\ s[1] = f
      /\ \A i \in 1..Len(below) : s[i + 1] = below[i]
  OBVIOUS
<1> HIDE DEF f
<1>2. FramesOf(s) \subseteq {f} \cup FramesOf(below)
  <2> SUFFICES ASSUME NEW i \in 1..Len(s), i # 1
               PROVE  s[i] \in FramesOf(below)
    BY <1>1 DEF FramesOf
  <2>1. i - 1 \in 1..Len(below) /\ (i - 1) + 1 = i
    BY <1>1
  <2>2. s[i] = below[i - 1]
    BY <1>1, <2>1
  <2>3. QED
    BY <2>1, <2>2 DEF FramesOf
<1>3. {f} \cup FramesOf(below) \subseteq FramesOf(s)
  <2>1. f \in FramesOf(s)
    BY <1>1 DEF FramesOf
  <2>2. ASSUME NEW i \in 1..Len(below) PROVE below[i] \in FramesOf(s)
    <3>1. i + 1 \in 1..Len(s) /\ s[i + 1] = below[i]
      BY <1>1
    <3>2. QED
      BY <3>1 DEF FramesOf
  <2>3. QED
    BY <2>1, <2>2 DEF FramesOf
<1>4. QED
  BY <1>2, <1>3 DEF Push, f

LEMMA FramesPop ==
    ASSUME stack \in Seq(Frame), stack # <<>>
    PROVE  FramesOf(stack) = {Head(stack)} \cup FramesOf(Tail(stack))
<1>1. /\ Len(stack) \in Nat /\ Len(stack) >= 1
      /\ Len(Tail(stack)) = Len(stack) - 1
      /\ Head(stack) = stack[1]
      /\ \A i \in 1..Len(Tail(stack)) : Tail(stack)[i] = stack[i + 1]
  OBVIOUS
<1>2. FramesOf(stack) \subseteq {Head(stack)} \cup FramesOf(Tail(stack))
  <2> SUFFICES ASSUME NEW i \in 1..Len(stack), i # 1
               PROVE  stack[i] \in FramesOf(Tail(stack))
    BY <1>1 DEF FramesOf
  <2>1. i - 1 \in 1..Len(Tail(stack)) /\ (i - 1) + 1 = i
    BY <1>1
  <2>2. QED
    BY <1>1, <2>1 DEF FramesOf
<1>3. {Head(stack)} \cup FramesOf(Tail(stack)) \subseteq FramesOf(stack)
  <2>1. Head(stack) \in FramesOf(stack)
    BY <1>1 DEF FramesOf
  <2>2. ASSUME NEW i \in 1..Len(Tail(stack))
        PROVE  Tail(stack)[i] \in FramesOf(stack)
    <3>1. i + 1 \in 1..Len(stack)
      BY <1>1
    <3>2. QED
      BY <1>1, <3>1 DEF FramesOf
  <2>3. QED
    BY <2>1, <2>2 DEF FramesOf
<1>4. QED
  BY <1>2, <1>3

LEMMA FramesEmpty == FramesOf(<<>>) = {}
BY DEF FramesOf

LEMMA FramesSingle ==
    ASSUME NEW kind \in FrameKinds, NEW g \in Requests,
           NEW event \in {"onError", "onClose"}
    PROVE  FramesOf(Push(kind, g, event, <<>>))
             = {[kind |-> kind, id |-> g, event |-> event]}
<1> DEFINE below == <<>>
<1>1. below \in Seq(Frame) /\ FramesOf(below) = {}
  BY EmptyType, FramesEmpty
<1> HIDE DEF below
<1>2. FramesOf(Push(kind, g, event, below))
        = {[kind |-> kind, id |-> g, event |-> event]}
  BY <1>1, FramesPush
<1>3. QED
  BY <1>2 DEF below

(* The form for a frame that follows the one that returns.                 *)
LEMMA FramesFollow ==
    ASSUME NEW kind \in FrameKinds, NEW event \in {"onError", "onClose"},
           Head(stack).id \in Requests, Tail(stack) \in Seq(Frame)
    PROVE  FramesOf(Push(kind, Head(stack).id, event, Tail(stack)))
             = {[kind |-> kind, id |-> Head(stack).id, event |-> event]}
                 \cup FramesOf(Tail(stack))
<1> DEFINE g == Head(stack).id
           below == Tail(stack)
<1>1. g \in Requests /\ below \in Seq(Frame)
  OBVIOUS
<1> HIDE DEF g, below
<1>2. FramesOf(Push(kind, g, event, below))
        = {[kind |-> kind, id |-> g, event |-> event]} \cup FramesOf(below)
  BY <1>1, FramesPush
<1>3. QED
  BY <1>2 DEF g, below

LEMMA FramesType ==
    ASSUME stack \in Seq(Frame), NEW f \in FramesOf(stack)
    PROVE  f \in Frame /\ f.id \in Requests
<1>1. f \in Frame
  BY DEF FramesOf
<1>2. QED
  BY <1>1 DEF Frame

-----------------------------------------------------------------------------
(* The inductive invariant.  Closing the connection of http comes first:   *)
(* close(), the timer, the peer and http_client_check_keep all end there.  *)

LEMMA AnswerOnce ==
    ASSUME TypeOK, IInv, ~hcc.shutdown, hcc.onResponse # Null,
           NEW code, Answer(hcc.onResponse, code)
    PROVE  /\ AnsweredAtMostOnce'
           /\ \A r \in Requests : r > gets => answers'[r] = answers[r]
<1>1. hcc.onResponse \in Requests /\ answers[hcc.onResponse] = 0
  BY WaitingType DEF IInv, RegisteredIsUnanswered
<1>2. /\ answers \in [Requests -> Nat]
      /\ answers' = [answers EXCEPT ![hcc.onResponse] = @ + 1]
      /\ hcc.onResponse <= gets
  BY DEF Answer, TypeOK, IInv, FutureIsBlank
<1>3. QED
  BY <1>1, <1>2 DEF IInv, AnsweredAtMostOnce, TypeOK, Requests, Ids

(* The connection of http ends and http is freed: onError, and onClose     *)
(* without a response to deliver.                                          *)
LEMMA ConnectionEndKeepsIInv ==
    ASSUME TypeOK, IInv, fault = "none", NEW g \in Requests, Open(g),
           NEW event \in {"onError", "onClose"}, NEW below \in Seq(Frame),
           NEW timedOut \in BOOLEAN,
           FramesOf(below) \subseteq FramesOf(stack),
           conn' = [conn EXCEPT ![g] = "closed"],
           http' = NoHttp, ExecuteCallback(event, g, below, timedOut),
           UNCHANGED <<ref, owes, gets, alive, fault>>
    PROVE  IInv'
<1>1. http.cli /\ http.id = g /\ ~hcc.shutdown
  BY DEF IInv, OpenConnectionIsHttps, ShutdownIsSilent
<1>2. /\ conn \in [Requests -> Phases]
      /\ conn'[g] = "closed"
      /\ \A k \in Requests : k # g => conn'[k] = conn[k]
  BY DEF TypeOK
<1>3. \A k \in Requests : ~Open(k)'
  BY <1>1, <1>2 DEF IInv, OpenConnectionIsHttps, Open, Active
<1>4. conn[g] # "none" /\ g <= gets
  BY <1>1 DEF IInv, TransportExists, FutureIsBlank, TypeOK, Requests, Ids
<1>5. \A f \in FramesOf(stack) : f \in Frame /\ f.id \in Requests
  BY FramesType DEF TypeOK
<1>6. (OpenConnectionIsHttps /\ ShutdownIsSilent /\ ConnectingIsUnsent)'
  BY <1>3 DEF OpenConnectionIsHttps, ShutdownIsSilent, ConnectingIsUnsent,
              Open
<1>7. CASE hcc.onResponse = Null
  <2>1. /\ stack' = Push("event", g, event, below)
        /\ hcc'.onResponse = hcc.onResponse
        /\ hcc'.shutdown = hcc.shutdown
        /\ UNCHANGED <<answers, status>>
    BY <1>7 DEF ExecuteCallback, TypeOK
  <2>2. FramesOf(stack') = {[kind |-> "event", id |-> g, event |-> event]}
                              \cup FramesOf(below)
    BY <2>1, FramesPush DEF FrameKinds
  <2>3. \A f \in FramesOf(stack) : f.kind # "connect"
    BY <1>1, <1>7, NoHttpType DEF IInv, ConnectFrames
  <2>4. (AnsweredAtMostOnce /\ RegisteredIsUnanswered)'
    BY <2>1 DEF IInv, AnsweredAtMostOnce, RegisteredIsUnanswered
  <2>5. FutureIsBlank'
    BY <1>2, <1>4, <2>1 DEF IInv, FutureIsBlank, TypeOK, Requests, Ids
  <2>6. EndFrames'
    BY <1>2, <1>5, <2>1, <2>2 DEF IInv, EndFrames
  <2>7. (ConnectFrames /\ TransportExists /\ TimerGuardsRequest)'
    BY <2>2, <2>3
       DEF ConnectFrames, TransportExists, TimerGuardsRequest, NoHttp
  <2>8. QED
    BY <1>6, <2>4, <2>5, <2>6, <2>7 DEF IInv
<1>8. CASE hcc.onResponse # Null
  <2>1. /\ stack' = Push("exception", g, event, below)
        /\ hcc'.onResponse = hcc.onResponse /\ hcc'.shutdown
    BY <1>8 DEF ExecuteCallback, TypeOK
  <2>2. \E code : Answer(hcc.onResponse, code)
    BY <1>8 DEF ExecuteCallback
  <2>3. /\ AnsweredAtMostOnce'
        /\ \A r \in Requests : r > gets => answers'[r] = answers[r]
    BY <1>1, <1>8, <2>2, AnswerOnce
  <2>4. FramesOf(stack') = {[kind |-> "exception", id |-> g,
                             event |-> event]} \cup FramesOf(below)
    BY <2>1, FramesPush DEF FrameKinds
  <2>5. RegisteredIsUnanswered'
    BY <2>1 DEF RegisteredIsUnanswered
  <2>6. FutureIsBlank'
    BY <1>2, <1>4, <2>1, <2>3 DEF IInv, FutureIsBlank, TypeOK, Requests, Ids
  <2>7. EndFrames'
    BY <1>2, <1>5, <2>1, <2>4 DEF IInv, EndFrames
  <2>8. (ConnectFrames /\ TransportExists /\ TimerGuardsRequest)'
    BY <2>1, <2>4
       DEF ConnectFrames, TransportExists, TimerGuardsRequest, NoHttp
  <2>9. QED
    BY <1>6, <2>3, <2>5, <2>6, <2>7, <2>8 DEF IInv
<1>9. QED
  BY <1>7, <1>8

LEMMA ClientCloseKeepsIInv ==
    ASSUME TypeOK, IInv, fault = "none", NEW g \in Requests,
           NEW below \in Seq(Frame), NEW timedOut \in BOOLEAN,
           FramesOf(below) \subseteq FramesOf(stack),
           Active(g) \/ (http.cli /\ http.id = g /\ conn[g] # "closed"),
           ClientClose(g, below, timedOut),
           UNCHANGED <<ref, owes, gets, alive>>
    PROVE  IInv'
<1>1. http.cli /\ http.id = g
  BY DEF IInv, OpenConnectionIsHttps, Open
<1>2. /\ conn' = [conn EXCEPT ![g] = "closed"]
      /\ conn \in [Requests -> Phases]
      /\ conn'[g] = "closed"
      /\ \A k \in Requests : k # g => conn'[k] = conn[k]
  BY DEF ClientClose, TypeOK
<1>3. \A k \in Requests : ~Open(k)'
  BY <1>1, <1>2 DEF IInv, OpenConnectionIsHttps, Open, Active
<1>4. conn[g] # "none" /\ g <= gets
  BY <1>1 DEF IInv, TransportExists, FutureIsBlank, TypeOK, Requests, Ids
<1>5. \A f \in FramesOf(stack) : f \in Frame /\ f.id \in Requests
  BY FramesType DEF TypeOK
<1>6. (OpenConnectionIsHttps /\ ShutdownIsSilent /\ ConnectingIsUnsent)'
  BY <1>3 DEF OpenConnectionIsHttps, ShutdownIsSilent, ConnectingIsUnsent,
              Open
<1>7. CASE ~Active(g)
  <2>1. /\ stack' = below
        /\ hcc'.onResponse = hcc.onResponse /\ hcc'.shutdown = hcc.shutdown
        /\ UNCHANGED <<http, answers, status, fault>>
    BY <1>7 DEF ClientClose, TypeOK
  <2>2. ~http.timer
    BY <1>1, <1>5, <1>7 DEF IInv, TimerGuardsRequest, EndFrames
  <2>3. \A f \in FramesOf(stack) : f.kind # "connect"
    BY <1>1, <1>7, NoHttpType DEF IInv, ConnectFrames
  <2>4. (AnsweredAtMostOnce /\ RegisteredIsUnanswered)'
    BY <2>1 DEF IInv, AnsweredAtMostOnce, RegisteredIsUnanswered
  <2>5. FutureIsBlank'
    BY <1>2, <1>4, <2>1 DEF IInv, FutureIsBlank, TypeOK, Requests, Ids
  <2>6. EndFrames'
    BY <1>2, <1>5, <2>1 DEF IInv, EndFrames
  <2>7. (ConnectFrames /\ TransportExists /\ TimerGuardsRequest)'
    BY <1>1, <1>2, <2>1, <2>2, <2>3
       DEF ConnectFrames, TransportExists, TimerGuardsRequest
  <2>8. QED
    BY <1>6, <2>4, <2>5, <2>6, <2>7 DEF IInv
<1>8. CASE Active(g)
  <2>1. ~hcc.shutdown
    BY <1>8 DEF IInv, ShutdownIsSilent, Open
  <2>3. ASSUME NEW code, hcc.onResponse # Null, Answer(hcc.onResponse, code)
        PROVE  /\ AnsweredAtMostOnce'
               /\ \A r \in Requests : r > gets => answers'[r] = answers[r]
    BY <2>1, <2>3, AnswerOnce
  <2>4. CASE http.state = "WAIT_CLOSE" /\ hcc.onResponse # Null
    <3>1. /\ stack' = Push("waitClose", g, "onClose", below)
          /\ hcc'.onResponse = hcc.onResponse /\ hcc'.shutdown
          /\ Answer(hcc.onResponse, "ok")
          /\ UNCHANGED <<http, fault>>
      BY <1>8, <2>4 DEF ClientClose, TypeOK
    <3>2. FramesOf(stack') = {[kind |-> "waitClose", id |-> g,
                               event |-> "onClose"]} \cup FramesOf(below)
      BY <3>1, FramesPush DEF FrameKinds
    <3>3. \A f \in FramesOf(stack) : f.kind # "connect"
      BY <2>4, <1>1, NoHttpType DEF IInv, ConnectFrames
    <3>4. (AnsweredAtMostOnce /\ RegisteredIsUnanswered)'
      BY <2>3, <2>4, <3>1 DEF RegisteredIsUnanswered
    <3>5. FutureIsBlank'
      BY <1>2, <1>4, <2>3, <2>4, <3>1
         DEF IInv, FutureIsBlank, TypeOK, Requests, Ids
    <3>6. EndFrames'
      BY <1>2, <1>5, <3>1, <3>2 DEF IInv, EndFrames
    <3>7. ConnectFrames'
      BY <3>2, <3>3 DEF ConnectFrames
    <3>8. (TransportExists /\ TimerGuardsRequest)'
      <4>1. TransportExists'
        BY <1>1, <1>2, <3>1 DEF IInv, TransportExists
      <4>2. \E f \in FramesOf(stack') :
               f.kind = "waitClose" /\ f.id = http'.id
        <5> DEFINE f == [kind |-> "waitClose", id |-> g, event |-> "onClose"]
        <5>1. f \in FramesOf(stack')
          BY <3>2
        <5>2. f.kind = "waitClose" /\ f.id = http'.id
          BY <1>1, <3>1
        <5>3. QED
          BY <5>1, <5>2
      <4>3. TimerGuardsRequest'
        BY <2>4, <3>1, <4>2 DEF IInv, TimerGuardsRequest
      <4>4. QED
        BY <4>1, <4>3
    <3>9. QED
      BY <1>6, <3>4, <3>5, <3>6, <3>7, <3>8 DEF IInv
  <2>5. CASE http.state = "WAIT_CLOSE" /\ hcc.onResponse = Null
    <3>1. /\ stack' = below /\ fault' = "onClose"
          /\ UNCHANGED <<hcc, http, answers, status>>
      BY <1>8, <2>5 DEF ClientClose
    <3>2. (AnsweredAtMostOnce /\ RegisteredIsUnanswered)'
      BY <3>1 DEF IInv, AnsweredAtMostOnce, RegisteredIsUnanswered
    <3>3. FutureIsBlank'
      BY <1>2, <1>4, <3>1 DEF IInv, FutureIsBlank, TypeOK, Requests, Ids
    <3>4. EndFrames'
      BY <1>2, <1>5, <3>1 DEF IInv, EndFrames
    <3>5. (ConnectFrames /\ TransportExists /\ TimerGuardsRequest)'
      BY <1>1, <1>2, <3>1
         DEF IInv, ConnectFrames, TransportExists, TimerGuardsRequest
    <3>6. QED
      BY <1>6, <3>2, <3>3, <3>4, <3>5 DEF IInv
  <2>6. CASE http.state # "WAIT_CLOSE"
    <3>1. /\ http' = NoHttp
          /\ ExecuteCallback("onClose", g, below, timedOut)
          /\ UNCHANGED fault
      BY <1>8, <2>6 DEF ClientClose
    <3>2. QED
      BY <1>2, <1>8, <3>1, ConnectionEndKeepsIInv DEF Open
  <2>7. QED
    BY <2>4, <2>5, <2>6
<1>9. QED
  BY <1>7, <1>8

LEMMA CloseMethodKeepsIInv ==
    ASSUME TypeOK, IInv, fault = "none", NEW below \in Seq(Frame),
           NEW timedOut \in BOOLEAN,
           FramesOf(below) \subseteq FramesOf(stack),
           http.cli, conn[http.id] # "closed", CloseMethod(below, timedOut),
           UNCHANGED <<ref, owes, gets, alive>>
    PROVE  IInv'
<1>1. http.id \in Requests
  BY DEF TypeOK
<1>2. ClientClose(http.id, below, timedOut)
  BY DEF CloseMethod
<1>3. QED
  BY <1>1, <1>2, ClientCloseKeepsIInv

LEMMA NewHttpFields ==
    ASSUME NEW r \in Requests, NEW cli \in BOOLEAN,
           NEW keepAlive \in BOOLEAN, NEW timeout \in BOOLEAN
    PROVE  LET h == NewHttp(r, cli, keepAlive, timeout) IN
           h.id = r /\ h.cli = cli /\ h.state = "READY" /\ h.timer = FALSE
BY DEF NewHttp, NoHttp

(* Without http nothing is open, no onConnect runs and no timer is set.    *)
LEMMA WithoutHttp ==
    ASSUME TypeOK, IInv, fault = "none", http = NoHttp, ~hcc.shutdown
    PROVE  /\ \A k \in Requests : ~Open(k)
           /\ \A f \in FramesOf(stack) : f.kind # "connect"
<1>1. ~http.cli
  BY NoHttpType
<1>2. QED
  BY <1>1 DEF IInv, OpenConnectionIsHttps, ConnectFrames

(* Where a request starts: its number is new.                              *)
LEMMA AcceptIsFresh ==
    ASSUME TypeOK, IInv, NEW r \in Requests, Accept(r)
    PROVE  /\ answers[r] = 0 /\ conn[r] = "none"
           /\ r = gets + 1 /\ gets' = r /\ r # Null
           /\ ~hcc.shutdown /\ alive /\ alive' /\ fault = "none"
           /\ fault' = "none"
           /\ \A f \in FramesOf(stack) :
                 f.kind \in {"waitClose", "exception", "event"} => f.id # r
<1>1. r = gets + 1 /\ gets' = r /\ gets \in Nat /\ r \in Nat /\ r # Null
  BY DEF Accept, TypeOK, Ids, Requests, Null
<1>2. answers[r] = 0 /\ conn[r] = "none"
  BY <1>1 DEF IInv, FutureIsBlank
<1>3. QED
  BY <1>1, <1>2 DEF Accept, ScriptRuns, IInv, EndFrames

LEMMA NextKeepsIInv ==
    ASSUME TypeOK, IInv, [Next]_vars
    PROVE  IInv'
<1> USE DEF IInv
<1>0. \A f \in FramesOf(stack) : f \in Frame /\ f.id \in Requests
  BY FramesType DEF TypeOK
<1>1. ASSUME NEW r \in Requests, NEW keepAlive \in BOOLEAN,
             NEW timeout \in BOOLEAN, GetConnecting(r, keepAlive, timeout)
      PROVE  IInv'
  <2>1. /\ Accept(r) /\ http = NoHttp
        /\ hcc'.onResponse = r /\ hcc'.shutdown = hcc.shutdown
        /\ http'.id = r /\ http'.cli /\ http'.state = "READY"
        /\ ~http'.timer
        /\ conn'[r] = "connecting" /\ conn \in [Requests -> Phases]
        /\ \A k \in Requests : k # r => conn'[k] = conn[k]
        /\ r \in ref'
        /\ UNCHANGED <<stack, answers>>
    <3>1. /\ Accept(r) /\ http = NoHttp /\ Registered(r)
          /\ http' = NewHttp(r, TRUE, keepAlive, timeout)
          /\ conn' = [conn EXCEPT ![r] = "connecting"]
          /\ ref' = Referenced(r)
          /\ UNCHANGED <<stack, answers>>
      BY <1>1 DEF GetConnecting
    <3>2. hcc'.onResponse = r /\ hcc'.shutdown = hcc.shutdown
      BY <3>1 DEF Registered, TypeOK
    <3>3. /\ http'.id = r /\ http'.cli = TRUE /\ http'.state = "READY"
          /\ http'.timer = FALSE
      BY <3>1 DEF NewHttp, NoHttp
    <3>4. /\ conn \in [Requests -> Phases] /\ conn'[r] = "connecting"
          /\ \A k \in Requests : k # r => conn'[k] = conn[k]
      BY <3>1 DEF TypeOK
    <3>5. r \in ref'
      BY <3>1 DEF Referenced
    <3>6. QED
      BY <3>1, <3>2, <3>3, <3>4, <3>5
  <2>2. QED
    BY <1>0, <2>1, AcceptIsFresh, WithoutHttp
       DEF OpenConnectionIsHttps, ShutdownIsSilent, AnsweredAtMostOnce,
           FutureIsBlank, RegisteredIsUnanswered, EndFrames, ConnectFrames,
           ConnectingIsUnsent, TransportExists, TimerGuardsRequest, Open,
           Active, TypeOK, Ids, Requests
<1>2. ASSUME NEW r \in Requests, GetRefused(r)
      PROVE  IInv'
  <2>1. /\ Accept(r) /\ http = NoHttp
        /\ hcc'.onResponse = r /\ hcc'.shutdown
        /\ UNCHANGED http
        /\ conn'[r] = "closed" /\ conn \in [Requests -> Phases]
        /\ \A k \in Requests : k # r => conn'[k] = conn[k]
        /\ answers \in [Requests -> Nat]
        /\ answers' = [answers EXCEPT ![r] = @ + 1]
        /\ FramesOf(stack') =
              {[kind |-> "exception", id |-> r, event |-> "onError"]}
                 \cup FramesOf(stack)
    BY <1>2, FramesPush DEF GetRefused, Answer, TypeOK, FrameKinds
  <2>2. \A k \in Requests : ~Open(k)'
    BY <2>1, AcceptIsFresh, WithoutHttp DEF Open, Active
  <2>3. (OpenConnectionIsHttps /\ ShutdownIsSilent /\ ConnectingIsUnsent)'
    BY <2>2 DEF OpenConnectionIsHttps, ShutdownIsSilent, ConnectingIsUnsent,
                Open
  <2>4. (AnsweredAtMostOnce /\ FutureIsBlank /\ RegisteredIsUnanswered)'
    <3>1. /\ answers[r] = 0 /\ answers'[r] = 1
          /\ \A k \in Requests : k # r => answers'[k] = answers[k]
      BY <2>1, AcceptIsFresh
    <3>2. AnsweredAtMostOnce'
      BY <3>1 DEF AnsweredAtMostOnce
    <3>3. r \in Nat /\ gets' = r /\ r = gets + 1
      BY <2>1 DEF Accept, Requests
    <3>4. FutureIsBlank'
      BY <2>1, <3>1, <3>3, AcceptIsFresh
         DEF FutureIsBlank, TypeOK, Ids, Requests
    <3>5. RegisteredIsUnanswered'
      BY <2>1 DEF RegisteredIsUnanswered
    <3>6. QED
      BY <3>2, <3>4, <3>5
  <2>5. EndFrames'
    BY <1>0, <2>1, AcceptIsFresh DEF EndFrames
  <2>6. (ConnectFrames /\ TransportExists /\ TimerGuardsRequest)'
    BY <2>1, AcceptIsFresh, WithoutHttp
       DEF ConnectFrames, TransportExists, TimerGuardsRequest, NoHttp
  <2>7. QED
    BY <2>3, <2>4, <2>5, <2>6
<1>3. ASSUME NEW r \in Requests, NEW held \in BOOLEAN, GetAborted(r, held)
      PROVE  IInv'
  <2>1. /\ Accept(r) /\ http = NoHttp
        /\ hcc'.onResponse = r /\ hcc'.shutdown = hcc.shutdown
        /\ http'.id = r /\ http'.state = "READY" /\ ~http'.timer
        /\ conn'[r] = "idle" /\ conn \in [Requests -> Phases]
        /\ \A k \in Requests : k # r => conn'[k] = conn[k]
        /\ UNCHANGED <<stack, answers>>
    <3>1. /\ Accept(r) /\ http = NoHttp /\ Registered(r)
          /\ http' = NewHttp(r, TRUE, TRUE, TRUE)
          /\ conn' = [conn EXCEPT ![r] = "idle"]
          /\ UNCHANGED <<stack, answers>>
      BY <1>3 DEF GetAborted
    <3>2. hcc'.onResponse = r /\ hcc'.shutdown = hcc.shutdown
      BY <3>1 DEF Registered, TypeOK
    <3>3. http'.id = r /\ http'.state = "READY" /\ http'.timer = FALSE
      BY <3>1, NewHttpFields
    <3>4. /\ conn \in [Requests -> Phases] /\ conn'[r] = "idle"
          /\ \A k \in Requests : k # r => conn'[k] = conn[k]
      BY <3>1 DEF TypeOK
    <3>5. QED
      BY <3>1, <3>2, <3>3, <3>4
  <2>2. \A k \in Requests : ~Open(k)'
    BY <2>1, AcceptIsFresh, WithoutHttp DEF Open, Active
  <2>3. (OpenConnectionIsHttps /\ ShutdownIsSilent /\ ConnectingIsUnsent)'
    BY <2>2 DEF OpenConnectionIsHttps, ShutdownIsSilent, ConnectingIsUnsent,
                Open
  <2>4. (AnsweredAtMostOnce /\ FutureIsBlank /\ RegisteredIsUnanswered)'
    BY <2>1, AcceptIsFresh
       DEF AnsweredAtMostOnce, FutureIsBlank, RegisteredIsUnanswered,
           TypeOK, Ids, Requests
  <2>5. EndFrames'
    BY <1>0, <2>1, AcceptIsFresh DEF EndFrames
  <2>6. (ConnectFrames /\ TransportExists /\ TimerGuardsRequest)'
    BY <2>1, AcceptIsFresh, WithoutHttp
       DEF ConnectFrames, TransportExists, TimerGuardsRequest
  <2>7. QED
    BY <2>3, <2>4, <2>5, <2>6
<1>4. ASSUME NEW r \in Requests, GetWithoutFile(r)
      PROVE  IInv'
  <2>1. /\ Accept(r)
        /\ hcc'.onResponse = r /\ hcc'.shutdown = hcc.shutdown
        /\ UNCHANGED <<conn, ref, stack, answers>>
    BY <1>4 DEF GetWithoutFile, Registered, TypeOK
  <2>2. (ShutdownIsSilent /\ AnsweredAtMostOnce /\ RegisteredIsUnanswered
           /\ EndFrames)'
    BY <2>1, AcceptIsFresh
       DEF ShutdownIsSilent, AnsweredAtMostOnce, RegisteredIsUnanswered,
           EndFrames, Open, Active
  <2>3. FutureIsBlank'
    BY <2>1, AcceptIsFresh DEF FutureIsBlank, TypeOK, Ids, Requests
  <2>4. CASE http = NoHttp /\ http' = NewHttp(r, FALSE, TRUE, TRUE)
    <3>1. http'.id = r /\ ~http'.cli /\ http'.state = "READY" /\ ~http'.timer
      BY <2>4, NewHttpFields
    <3>2. (OpenConnectionIsHttps /\ ConnectingIsUnsent)'
      BY <2>1, <2>4, AcceptIsFresh, WithoutHttp
         DEF OpenConnectionIsHttps, ConnectingIsUnsent, Open, Active
    <3>3. (ConnectFrames /\ TransportExists /\ TimerGuardsRequest)'
      BY <2>1, <2>4, <3>1, AcceptIsFresh, WithoutHttp
         DEF ConnectFrames, TransportExists, TimerGuardsRequest
    <3>4. QED
      BY <2>2, <2>3, <3>2, <3>3
  <2>5. CASE Ready /\ UNCHANGED http
    <3>1. (OpenConnectionIsHttps /\ ConnectingIsUnsent)'
      BY <2>1, <2>5, AcceptIsFresh
         DEF OpenConnectionIsHttps, ConnectingIsUnsent, Open, Active
    <3>2. (ConnectFrames /\ TransportExists /\ TimerGuardsRequest)'
      BY <2>1, <2>5, AcceptIsFresh
         DEF ConnectFrames, TransportExists, TimerGuardsRequest, Active, Ready
    <3>3. QED
      BY <2>2, <2>3, <3>1, <3>2
  <2>6. QED
    BY <1>4, <2>4, <2>5 DEF GetWithoutFile
<1>5. ASSUME NEW r \in Requests, NEW ok \in BOOLEAN, GetReusing(r, ok)
      PROVE  IInv'
  <2>1. /\ Accept(r) /\ Ready
        /\ hcc'.onResponse = r /\ hcc'.shutdown = hcc.shutdown
        /\ http'.id = http.id /\ http'.cli = http.cli
        /\ http'.state = "BUSY"
        /\ http' # NoHttp
        /\ UNCHANGED <<conn, ref, stack, answers>>
    BY <1>5 DEF GetReusing, Registered, TypeOK, Sent, HttpType, NoHttp
  <2>2. (ShutdownIsSilent /\ AnsweredAtMostOnce /\ RegisteredIsUnanswered
           /\ EndFrames)'
    BY <2>1, AcceptIsFresh
       DEF ShutdownIsSilent, AnsweredAtMostOnce, RegisteredIsUnanswered,
           EndFrames, Open, Active
  <2>3. FutureIsBlank'
    BY <2>1, AcceptIsFresh DEF FutureIsBlank, TypeOK, Ids, Requests
  <2>4. OpenConnectionIsHttps'
    BY <2>1, AcceptIsFresh DEF OpenConnectionIsHttps, Open, Active
  <2>5. ConnectingIsUnsent'
    BY <2>1 DEF OpenConnectionIsHttps, ConnectingIsUnsent, Open, Active,
                Ready
  <2>6. (ConnectFrames /\ TransportExists /\ TimerGuardsRequest)'
    BY <2>1, AcceptIsFresh
       DEF ConnectFrames, TransportExists, TimerGuardsRequest, Active, Ready
  <2>7. QED
    BY <2>2, <2>3, <2>4, <2>5, <2>6
<1>6. CASE GetOnNullCli
  BY <1>6 DEF GetOnNullCli, OpenConnectionIsHttps, ShutdownIsSilent,
     AnsweredAtMostOnce, FutureIsBlank, RegisteredIsUnanswered, EndFrames,
     ConnectFrames, ConnectingIsUnsent, TransportExists, TimerGuardsRequest,
     Open, Active
<1>7. CASE Close
  BY <1>7, CloseMethodKeepsIInv DEF Close, ScriptRuns, TypeOK
<1>8. CASE Destruct
  <2>1. /\ fault = "none" /\ stack = <<>> /\ ref = {} /\ conn \in [Requests -> Phases]
        /\ hcc'.onResponse = Null /\ hcc'.shutdown = hcc.shutdown
        /\ UNCHANGED <<http, ref, stack, gets, answers, fault>>
        /\ conn' = IF http.cli THEN [conn EXCEPT ![http.id] = "closed"]
                   ELSE conn
    BY <1>8 DEF Destruct, AtReactor, TypeOK
  <2>2. \A k \in Requests : ~Open(k) /\ ~Open(k)'
    BY <2>1 DEF OpenConnectionIsHttps, Open, Active
  <2>3. (OpenConnectionIsHttps /\ ShutdownIsSilent /\ ConnectingIsUnsent)'
    BY <2>2 DEF OpenConnectionIsHttps, ShutdownIsSilent, ConnectingIsUnsent,
                Open
  <2>4. (AnsweredAtMostOnce /\ RegisteredIsUnanswered)'
    BY <2>1 DEF AnsweredAtMostOnce, RegisteredIsUnanswered
  <2>5. FutureIsBlank'
    BY <2>1 DEF FutureIsBlank, TransportExists, TypeOK, Ids, Requests, Null
  <2>6. (EndFrames /\ ConnectFrames)'
    BY <2>1, FramesEmpty DEF EndFrames, ConnectFrames
  <2>7. ~http.timer
    BY <2>1, <2>2, FramesEmpty
       DEF TimerGuardsRequest, TransportExists, TypeOK, Open
  <2>8. (TransportExists /\ TimerGuardsRequest)'
    BY <2>1, <2>7 DEF TransportExists, TimerGuardsRequest, TypeOK
  <2>9. QED
    BY <2>3, <2>4, <2>5, <2>6, <2>8
<1>9. ASSUME NEW g \in Requests, OnConnect(g)
      PROVE  IInv'
  <2>1. /\ fault = "none" /\ stack = <<>> /\ conn[g] = "connecting"
        /\ conn \in [Requests -> Phases]
        /\ conn'[g] = "connected"
        /\ \A k \in Requests : k # g => conn'[k] = conn[k]
        /\ FramesOf(stack') =
              {[kind |-> "connect", id |-> g, event |-> "onError"]}
        /\ UNCHANGED <<hcc, http, ref, gets, answers, alive, fault>>
    <3>1. "connect" \in FrameKinds
      BY DEF FrameKinds
    <3>2. stack' = Push("connect", g, "onError", <<>>)
      BY <1>9 DEF OnConnect
    <3>3. FramesOf(stack') =
             {[kind |-> "connect", id |-> g, event |-> "onError"]}
      BY <3>1, <3>2, FramesSingle
    <3>4. QED
      BY <1>9, <3>3 DEF OnConnect, AtReactor, TypeOK
  <2>2. /\ http.id = g /\ http.cli /\ http.state = "READY" /\ ~hcc.shutdown
        /\ hcc.onResponse # Null /\ g <= gets /\ ~http.timer /\ alive /\ g \in ref
    BY <2>1 DEF OpenConnectionIsHttps, ShutdownIsSilent, ConnectingIsUnsent,
       TimerGuardsRequest, FutureIsBlank, Open, TypeOK, Requests, Ids
  <2>3. (OpenConnectionIsHttps /\ ShutdownIsSilent /\ ConnectingIsUnsent)'
    BY <2>1, <2>2 DEF OpenConnectionIsHttps, ShutdownIsSilent,
       ConnectingIsUnsent, Open, Active
  <2>4. (AnsweredAtMostOnce /\ RegisteredIsUnanswered)'
    BY <2>1 DEF AnsweredAtMostOnce, RegisteredIsUnanswered
  <2>5. FutureIsBlank'
    BY <2>1, <2>2 DEF FutureIsBlank, TypeOK, Requests, Ids
  <2>6. EndFrames'
    BY <2>1 DEF EndFrames
  <2>7. (ConnectFrames /\ TransportExists /\ TimerGuardsRequest)'
    BY <2>1, <2>2, NoHttpType
       DEF ConnectFrames, TransportExists, TimerGuardsRequest, Active
  <2>8. QED
    BY <2>3, <2>4, <2>5, <2>6, <2>7
<1>10. ASSUME NEW g \in Requests, OnError(g)
       PROVE  IInv'
  <2>1. hcc.timedOut \in BOOLEAN /\ FramesOf(<<>>) \subseteq FramesOf(stack)
    BY FramesEmpty DEF TypeOK
  <2>2. Open(g) /\ fault = "none"
    BY <1>10 DEF OnError, Open, AtReactor
  <2>3. QED
    BY <1>10, <2>1, <2>2, EmptyType, ConnectionEndKeepsIInv DEF OnError
<1>11. ASSUME NEW g \in Requests, OnClose(g)
       PROVE  IInv'
  <2>1. hcc.timedOut \in BOOLEAN /\ FramesOf(<<>>) \subseteq FramesOf(stack)
    BY FramesEmpty DEF TypeOK
  <2>2. QED
    BY <1>11, <2>1, EmptyType, ClientCloseKeepsIInv DEF OnClose, AtReactor
<1>12. CASE OnRequestTimeout
  <2>1. FramesOf(<<>>) \subseteq FramesOf(stack)
    BY FramesEmpty
  <2>2. fault = "none" /\ http.cli /\ conn[http.id] # "closed"
    BY <1>12, FramesEmpty
       DEF OnRequestTimeout, AtReactor, TransportExists, TimerGuardsRequest,
           Active
  <2>3. QED
    BY <1>12, <2>1, <2>2, EmptyType, CloseMethodKeepsIInv
       DEF OnRequestTimeout
<1>13. ASSUME NEW g \in Requests, NEW kind \in Kinds, NEW fin \in BOOLEAN,
              OnReceive(g, kind, fin)
       PROVE  IInv'
  <2>1. /\ fault = "none" /\ stack = <<>> /\ conn[g] = "connected"
        /\ UNCHANGED <<ref, gets, alive, fault>>
    BY <1>13 DEF OnReceive, AtReactor
  <2>2. /\ http.cli /\ http.id = g /\ alive /\ g \in ref /\ ~hcc.shutdown
        /\ \A k \in Requests : k # g => ~Open(k)
    BY <2>1 DEF OpenConnectionIsHttps, ShutdownIsSilent, Open, Active
  <2>3. http.timer => /\ hcc.onResponse # Null
                     /\ http.state \in {"BUSY", "WAIT_CLOSE"}
    BY <2>1 DEF TimerGuardsRequest
  <2>4. /\ Parsed(kind).cli = http.cli /\ Parsed(kind).id = http.id
        /\ Parsed(kind).timer = http.timer
        /\ Parsed(kind).state \in {http.state, "WAIT_CLOSE"}
        /\ Parsed(kind) \in HttpType
    <3>1. http \in HttpType /\ StateAfter(kind) \in {http.state, "WAIT_CLOSE"}
      BY DEF StateAfter, TypeOK
    <3>2. /\ Parsed(kind).cli = http.cli /\ Parsed(kind).id = http.id
          /\ Parsed(kind).timer = http.timer
          /\ Parsed(kind).state = StateAfter(kind)
      BY <3>1 DEF Parsed, HttpType
    <3>3. Parsed(kind) \in HttpType
      BY ParsedType
    <3>4. QED
      BY <3>1, <3>2, <3>3
  <2>5. http' \in {Parsed(kind), Rearmed(Parsed(kind)),
                   [Parsed(kind) EXCEPT !.completed = TRUE]}
    BY <1>13 DEF OnReceive
  <2>6. /\ http'.cli /\ http'.id = g
        /\ http'.timer => http.timer /\ http'.state \in {"BUSY", "WAIT_CLOSE"}
    <3>1. /\ http'.cli = Parsed(kind).cli /\ http'.id = Parsed(kind).id
          /\ http'.timer => /\ Parsed(kind).timer
                            /\ http'.state = Parsed(kind).state
      <4>1. Parsed(kind) \in HttpType
        BY <2>4
      <4> QED BY <4>1, <2>5, MessageKeeps
    <3>2. QED
      BY <3>1, <2>2, <2>3, <2>4
  <2>7. CASE UNCHANGED <<hcc, conn, stack, answers, status>>
    <3>1. OpenConnectionIsHttps'
      BY <2>1, <2>2, <2>6, <2>7 DEF OpenConnectionIsHttps, Open, Active
    <3>2. (ShutdownIsSilent /\ AnsweredAtMostOnce /\ FutureIsBlank
             /\ RegisteredIsUnanswered /\ EndFrames)'
      BY <2>1, <2>7 DEF ShutdownIsSilent, AnsweredAtMostOnce, FutureIsBlank,
         RegisteredIsUnanswered, EndFrames, Open, Active
    <3>3. ConnectingIsUnsent'
      BY <2>1, <2>2, <2>7 DEF ConnectingIsUnsent, Open
    <3>4. (ConnectFrames /\ TransportExists /\ TimerGuardsRequest)'
      BY <2>1, <2>2, <2>3, <2>6, <2>7, FramesEmpty
         DEF ConnectFrames, TransportExists, TimerGuardsRequest, Active
    <3>5. QED
      BY <3>1, <3>2, <3>3, <3>4
  <2>8. CASE /\ hcc.onResponse # Null
             /\ http' = Rearmed(Parsed(kind))
             /\ hcc' = Delivered
             /\ conn' = IF Parsed(kind).upgrade
                        THEN [conn EXCEPT ![g] = "upgraded"] ELSE conn
             /\ Answer(hcc.onResponse, "ok")
             /\ stack' = Push("response", g, "onClose", <<>>)
    <3>1. /\ FramesOf(stack') =
               {[kind |-> "response", id |-> g, event |-> "onClose"]}
          /\ hcc'.onResponse = Null /\ hcc'.shutdown = hcc.shutdown
          /\ conn \in [Requests -> Phases]
          /\ conn'[g] \in {"connected", "upgraded"}
          /\ \A k \in Requests : k # g => conn'[k] = conn[k]
          /\ ~http'.timer
      <4>1. "response" \in FrameKinds
        BY DEF FrameKinds
      <4>2. FramesOf(stack') =
               {[kind |-> "response", id |-> g, event |-> "onClose"]}
        BY <2>8, <4>1, FramesSingle
      <4>3. hcc'.onResponse = Null /\ hcc'.shutdown = hcc.shutdown
        BY <2>8 DEF Delivered, TypeOK
      <4>4. /\ conn \in [Requests -> Phases]
            /\ conn'[g] \in {"connected", "upgraded"}
            /\ \A k \in Requests : k # g => conn'[k] = conn[k]
        BY <2>1, <2>8 DEF TypeOK
      <4>5. ~http'.timer
        BY <2>4, <2>8 DEF Rearmed, HttpType
      <4>6. QED
        BY <4>2, <4>3, <4>4, <4>5
    <3>2. /\ AnsweredAtMostOnce'
          /\ \A r \in Requests : r > gets => answers'[r] = answers[r]
      BY <2>2, <2>8, AnswerOnce
    <3>3. OpenConnectionIsHttps'
      BY <2>1, <2>2, <2>6, <3>1 DEF OpenConnectionIsHttps, Open, Active
    <3>4. (ShutdownIsSilent /\ ConnectingIsUnsent)'
      BY <2>2, <3>1 DEF ShutdownIsSilent, ConnectingIsUnsent, Open, Active
    <3>5. FutureIsBlank'
      BY <2>1, <3>1, <3>2 DEF FutureIsBlank, TypeOK, Ids, Requests, Null
    <3>6. (RegisteredIsUnanswered /\ EndFrames /\ ConnectFrames)'
      BY <3>1 DEF RegisteredIsUnanswered, EndFrames, ConnectFrames
    <3>7. (TransportExists /\ TimerGuardsRequest)'
      BY <2>6, <3>1 DEF TransportExists, TimerGuardsRequest
    <3>8. QED
      BY <3>2, <3>3, <3>4, <3>5, <3>6, <3>7
  <2>9. QED
    BY <1>13, <2>7, <2>8 DEF OnReceive
<1>14. ASSUME NEW g \in Requests, OnMessage(g)
       PROVE  IInv'
  <2>1. /\ FramesOf(stack') =
             {[kind |-> "message", id |-> g, event |-> "onClose"]}
        /\ stack = <<>>
        /\ UNCHANGED <<hcc, http, conn, ref, gets, answers, alive, fault>>
    <3>1. "message" \in FrameKinds
      BY DEF FrameKinds
    <3>2. stack' = Push("message", g, "onClose", <<>>)
      BY <1>14 DEF OnMessage
    <3>3. FramesOf(stack') =
             {[kind |-> "message", id |-> g, event |-> "onClose"]}
      BY <3>1, <3>2, FramesSingle
    <3>4. QED
      BY <1>14, <3>3 DEF OnMessage, AtReactor
  <2>2. QED
    BY <2>1, FramesEmpty DEF OpenConnectionIsHttps, ShutdownIsSilent,
       AnsweredAtMostOnce, FutureIsBlank, RegisteredIsUnanswered, EndFrames,
       ConnectFrames, ConnectingIsUnsent, TransportExists,
       TimerGuardsRequest, Open, Active
<1>15. ASSUME NEW kind \in FrameKinds, Returns(kind)
       PROVE  /\ FramesOf(stack) = {Head(stack)} \cup FramesOf(Tail(stack))
              /\ Tail(stack) \in Seq(Frame)
              /\ Head(stack) \in Frame /\ Head(stack).id \in Requests
              /\ Head(stack).event \in {"onError", "onClose"}
              /\ Head(stack).kind = kind
              /\ Head(stack) \in FramesOf(stack)
              /\ fault = "none"
  BY <1>15, PopType, FramesPop DEF Returns, Running, TypeOK
<1>16. ASSUME NEW ok \in BOOLEAN, ReturnConnect(ok)
       PROVE  IInv'
  <2>1. /\ FramesOf(stack) = {Head(stack)} \cup FramesOf(stack')
        /\ Head(stack) \in FramesOf(stack) /\ Head(stack).kind = "connect"
        /\ fault = "none"
        /\ UNCHANGED <<hcc, conn, ref, gets, answers, alive>>
    BY <1>15, <1>16 DEF ReturnConnect, FrameKinds
  <2>2. (ShutdownIsSilent /\ AnsweredAtMostOnce /\ FutureIsBlank
           /\ RegisteredIsUnanswered /\ EndFrames)'
    BY <2>1 DEF ShutdownIsSilent, AnsweredAtMostOnce, FutureIsBlank,
       RegisteredIsUnanswered, EndFrames, Open, Active
  <2>3. CASE UNCHANGED http
    <3>1. (OpenConnectionIsHttps /\ ConnectingIsUnsent)'
      BY <2>1, <2>3 DEF OpenConnectionIsHttps, ConnectingIsUnsent, Open, Active
    <3>2. ConnectFrames'
      BY <2>1, <2>3 DEF ConnectFrames, Active
    <3>3. TransportExists'
      BY <2>1, <2>3 DEF TransportExists
    <3>4. TimerGuardsRequest'
      BY <2>1, <2>3 DEF TimerGuardsRequest, Active
    <3>5. QED
      BY <2>2, <3>1, <3>2, <3>3, <3>4
  <2>4. CASE /\ http # NoHttp /\ http.state = "READY" /\ http' = Sent(ok)
             /\ UNCHANGED fault
    <3>1. /\ http.cli /\ Active(http.id) /\ hcc.onResponse # Null
          /\ http.id \in Requests
      BY <2>1, <2>4 DEF ConnectFrames, TypeOK
    <3>2. /\ http'.id = http.id /\ http'.cli /\ http'.state = "BUSY"
          /\ http' # NoHttp
      BY <2>4, <3>1 DEF Sent, TypeOK, HttpType, NoHttp
    <3>3. OpenConnectionIsHttps'
      BY <2>1, <3>1, <3>2 DEF OpenConnectionIsHttps, Open, Active
    <3>4. ConnectingIsUnsent'
      BY <2>1, <3>1 DEF OpenConnectionIsHttps, ConnectingIsUnsent, Open, Active
    <3>5. (ConnectFrames /\ TransportExists /\ TimerGuardsRequest)'
      BY <2>1, <2>4, <3>1, <3>2
         DEF ConnectFrames, TransportExists, TimerGuardsRequest, Active
    <3>6. QED
      BY <2>2, <3>3, <3>4, <3>5
  <2>5. QED
    BY <1>16, <2>3, <2>4 DEF ReturnConnect
<1>17. CASE ReturnResponse
  <2>1. /\ FramesOf(stack) = {Head(stack)} \cup FramesOf(Tail(stack))
        /\ Tail(stack) \in Seq(Frame) /\ Head(stack).id \in Requests
        /\ Head(stack).kind = "response" /\ fault = "none"
        /\ UNCHANGED <<ref, owes, gets, alive>>
    BY <1>15, <1>17 DEF ReturnResponse, FrameKinds
  <2>2. CASE /\ Active(Head(stack).id)
             /\ CloseMethod(Tail(stack), hcc.timedOut)
    <3>1. http.cli /\ conn[http.id] # "closed"
      BY <2>1, <2>2 DEF OpenConnectionIsHttps, Open, Active
    <3>2. hcc.timedOut \in BOOLEAN
      BY DEF TypeOK
    <3>3. QED
      BY <2>1, <2>2, <3>1, <3>2, CloseMethodKeepsIInv
  <2>3. CASE /\ \/ stack' = Tail(stack)
                \/ stack' = Push("message", Head(stack).id, "onClose",
                                 Tail(stack))
             /\ UNCHANGED <<hcc, http, conn, answers, status, fault>>
    <3>0. FramesOf(Push("message", Head(stack).id, "onClose", Tail(stack)))
             = {[kind |-> "message", id |-> Head(stack).id,
                 event |-> "onClose"]} \cup FramesOf(Tail(stack))
      <4>1. "message" \in FrameKinds
        BY DEF FrameKinds
      <4>2. "onClose" \in {"onError", "onClose"}
        OBVIOUS
      <4>3. QED
        BY <2>1, <4>1, <4>2, FramesFollow
    <3>1. FramesOf(stack') \subseteq
             {[kind |-> "message", id |-> Head(stack).id,
               event |-> "onClose"]} \cup FramesOf(stack)
      <4>1. CASE stack' = Tail(stack)
        BY <2>1, <4>1
      <4>2. CASE stack' = Push("message", Head(stack).id, "onClose",
                               Tail(stack))
        BY <2>1, <3>0, <4>2
      <4>3. QED
        BY <2>3, <4>1, <4>2
    <3>2. \A f \in FramesOf(stack) :
             f.kind = "waitClose" => f \in FramesOf(stack')
      <4>1. FramesOf(Tail(stack)) \subseteq FramesOf(stack')
        BY <2>3, <3>0
      <4>2. QED
        BY <2>1, <4>1
    <3>3. (OpenConnectionIsHttps /\ ShutdownIsSilent /\ AnsweredAtMostOnce
             /\ FutureIsBlank /\ RegisteredIsUnanswered
             /\ ConnectingIsUnsent /\ TransportExists)'
      BY <2>1, <2>3 DEF OpenConnectionIsHttps, ShutdownIsSilent,
         AnsweredAtMostOnce, FutureIsBlank, RegisteredIsUnanswered,
         ConnectingIsUnsent, TransportExists, Open, Active
    <3>4. EndFrames' /\ ConnectFrames'
      BY <2>1, <2>3, <3>1 DEF EndFrames, ConnectFrames, Active
    <3>5. TimerGuardsRequest'
      BY <2>1, <2>3, <3>2 DEF TimerGuardsRequest, Active
    <3>6. QED
      BY <3>3, <3>4, <3>5
  <2>4. QED
    BY <1>17, <2>2, <2>3 DEF ReturnResponse
<1>18. CASE ReturnWaitClose
  <2>1. /\ FramesOf(stack) = {Head(stack)} \cup FramesOf(Tail(stack))
        /\ Head(stack) \in FramesOf(stack) /\ Head(stack).kind = "waitClose"
        /\ Tail(stack) \in Seq(Frame) /\ Head(stack).id \in Requests
        /\ fault = "none"
    BY <1>15, <1>18 DEF ReturnWaitClose, FrameKinds
  <2>2. /\ FramesOf(stack') = {[kind |-> "event", id |-> Head(stack).id,
                                event |-> "onClose"]}
                                 \cup FramesOf(Tail(stack))
        /\ hcc'.onResponse = Null /\ hcc'.shutdown = hcc.shutdown
        /\ http' = NoHttp
        /\ UNCHANGED <<conn, ref, gets, answers, alive, fault>>
    <3>1. "event" \in FrameKinds
      BY DEF FrameKinds
    <3>2. stack' = Push("event", Head(stack).id, "onClose", Tail(stack))
      BY <1>18 DEF ReturnWaitClose
    <3>3. FramesOf(stack') = {[kind |-> "event", id |-> Head(stack).id,
                               event |-> "onClose"]}
                                \cup FramesOf(Tail(stack))
      <4>1. "onClose" \in {"onError", "onClose"}
        OBVIOUS
      <4>2. FramesOf(Push("event", Head(stack).id, "onClose", Tail(stack)))
              = {[kind |-> "event", id |-> Head(stack).id,
                  event |-> "onClose"]} \cup FramesOf(Tail(stack))
        BY <2>1, <3>1, <4>1, FramesFollow
      <4>3. QED
        BY <3>2, <4>2
    <3>4. hcc'.onResponse = Null /\ hcc'.shutdown = hcc.shutdown
      BY <1>18 DEF ReturnWaitClose, TypeOK
    <3>5. QED
      BY <1>18, <3>3, <3>4 DEF ReturnWaitClose
  <2>3. /\ hcc.shutdown /\ conn[Head(stack).id] = "closed"
        /\ \A k \in Requests : ~Open(k)
    BY <2>1 DEF EndFrames, ShutdownIsSilent
  <2>4. (OpenConnectionIsHttps /\ ShutdownIsSilent /\ ConnectingIsUnsent)'
    BY <2>2, <2>3 DEF OpenConnectionIsHttps, ShutdownIsSilent,
       ConnectingIsUnsent, Open, Active
  <2>5. (AnsweredAtMostOnce /\ RegisteredIsUnanswered)'
    BY <2>2 DEF AnsweredAtMostOnce, RegisteredIsUnanswered
  <2>6. FutureIsBlank'
    BY <2>2 DEF FutureIsBlank, TypeOK, Ids, Null
  <2>7. (EndFrames /\ ConnectFrames)'
    BY <2>1, <2>2, <2>3 DEF EndFrames, ConnectFrames
  <2>8. (TransportExists /\ TimerGuardsRequest)'
    BY <2>2 DEF TransportExists, TimerGuardsRequest, NoHttp
  <2>9. QED
    BY <2>4, <2>5, <2>6, <2>7, <2>8
<1>19. CASE ReturnException
  <2>1. /\ FramesOf(stack) = {Head(stack)} \cup FramesOf(Tail(stack))
        /\ Head(stack) \in FramesOf(stack) /\ Head(stack).kind = "exception"
        /\ Tail(stack) \in Seq(Frame) /\ Head(stack).id \in Requests
        /\ Head(stack).event \in {"onError", "onClose"}
        /\ fault = "none"
        /\ UNCHANGED <<hcc, http, conn, ref, gets, answers, alive, fault>>
    BY <1>15, <1>19 DEF ReturnException, FrameKinds
  <2>2. FramesOf(stack') = {[kind |-> "event", id |-> Head(stack).id,
                             event |-> Head(stack).event]}
                              \cup FramesOf(Tail(stack))
    <3>1. "event" \in FrameKinds
      BY DEF FrameKinds
    <3>2. stack' = Push("event", Head(stack).id, Head(stack).event,
                        Tail(stack))
      BY <1>19 DEF ReturnException
    <3>3. FramesOf(Push("event", Head(stack).id, Head(stack).event,
                        Tail(stack)))
            = {[kind |-> "event", id |-> Head(stack).id,
                event |-> Head(stack).event]} \cup FramesOf(Tail(stack))
      <4> DEFINE e == Head(stack).event
      <4>1. e \in {"onError", "onClose"}
        BY <2>1
      <4> HIDE DEF e
      <4>2. FramesOf(Push("event", Head(stack).id, e, Tail(stack)))
              = {[kind |-> "event", id |-> Head(stack).id, event |-> e]}
                   \cup FramesOf(Tail(stack))
        BY <2>1, <3>1, <4>1, FramesFollow
      <4>3. QED
        BY <4>2 DEF e
    <3>4. QED
      BY <3>2, <3>3
  <2>3. (OpenConnectionIsHttps /\ ShutdownIsSilent /\ AnsweredAtMostOnce
           /\ FutureIsBlank /\ RegisteredIsUnanswered
           /\ ConnectingIsUnsent /\ TransportExists)'
    BY <2>1 DEF OpenConnectionIsHttps, ShutdownIsSilent,
       AnsweredAtMostOnce, FutureIsBlank, RegisteredIsUnanswered,
       ConnectingIsUnsent, TransportExists, Open, Active
  <2>4. EndFrames'
    BY <2>1, <2>2 DEF EndFrames
  <2>5. ConnectFrames'
    BY <2>1, <2>2 DEF ConnectFrames, Active
  <2>6. TimerGuardsRequest'
    BY <2>1, <2>2 DEF TimerGuardsRequest, Active
  <2>7. QED
    BY <2>3, <2>4, <2>5, <2>6
<1>20. CASE ReturnEvent
  <2>1. /\ FramesOf(stack) = {Head(stack)} \cup FramesOf(stack')
        /\ Head(stack) \in FramesOf(stack) /\ Head(stack).kind = "event"
        /\ ref' = ref \ {Head(stack).id}
        /\ UNCHANGED <<hcc, http, conn, gets, answers, alive, fault>>
    BY <1>15, <1>20 DEF ReturnEvent, FrameKinds
  <2>2. conn[Head(stack).id] = "closed"
    BY <2>1 DEF EndFrames
  <2>3. OpenConnectionIsHttps'
    BY <2>1, <2>2 DEF OpenConnectionIsHttps, Open, Active
  <2>4. (ShutdownIsSilent /\ AnsweredAtMostOnce
           /\ FutureIsBlank /\ RegisteredIsUnanswered
           /\ ConnectingIsUnsent /\ TransportExists)'
    BY <2>1 DEF ShutdownIsSilent,
       AnsweredAtMostOnce, FutureIsBlank, RegisteredIsUnanswered,
       ConnectingIsUnsent, TransportExists, Open, Active
  <2>5. (EndFrames /\ ConnectFrames)'
    BY <2>1 DEF EndFrames, ConnectFrames, Active
  <2>6. TimerGuardsRequest'
    BY <2>1 DEF TimerGuardsRequest, Active
  <2>7. QED
    BY <2>3, <2>4, <2>5, <2>6
<1>21. CASE ReturnMessage
  <2>1. /\ FramesOf(stack) = {Head(stack)} \cup FramesOf(stack')
        /\ Head(stack).kind = "message"
        /\ UNCHANGED <<hcc, http, conn, ref, gets, answers, alive, fault>>
    BY <1>15, <1>21 DEF ReturnMessage, FrameKinds
  <2>2. (OpenConnectionIsHttps /\ ShutdownIsSilent /\ AnsweredAtMostOnce
           /\ FutureIsBlank /\ RegisteredIsUnanswered
           /\ ConnectingIsUnsent /\ TransportExists)'
    BY <2>1 DEF OpenConnectionIsHttps, ShutdownIsSilent,
       AnsweredAtMostOnce, FutureIsBlank, RegisteredIsUnanswered,
       ConnectingIsUnsent, TransportExists, Open, Active
  <2>3. (EndFrames /\ ConnectFrames)'
    BY <2>1 DEF EndFrames, ConnectFrames, Active
  <2>4. TimerGuardsRequest'
    BY <2>1 DEF TimerGuardsRequest, Active
  <2>5. QED
    BY <2>2, <2>3, <2>4
<1>22. CASE UNCHANGED vars
  BY <1>22 DEF vars, OpenConnectionIsHttps, ShutdownIsSilent,
     AnsweredAtMostOnce, FutureIsBlank, RegisteredIsUnanswered, EndFrames,
     ConnectFrames, ConnectingIsUnsent, TransportExists, TimerGuardsRequest,
     Open, Active
<1>23. QED
  BY <1>1, <1>2, <1>3, <1>4, <1>5, <1>6, <1>7, <1>8, <1>9, <1>10, <1>11,
     <1>12, <1>13, <1>14, <1>16, <1>17, <1>18, <1>19, <1>20, <1>21, <1>22
     DEF Next, Get, ConnectEnds, Return

(* The inductive invariant holds in every reachable state.                 *)
THEOREM InductiveInvariant == Spec => []IInv
<1>1. Init => IInv
  BY FramesEmpty, NoHttpType, MaxGetAssumption
     DEF Init, IInv, OpenConnectionIsHttps, ShutdownIsSilent,
         AnsweredAtMostOnce, FutureIsBlank, RegisteredIsUnanswered,
         EndFrames, ConnectFrames, ConnectingIsUnsent, TransportExists,
         TimerGuardsRequest, Open, Active, NoHttp, Null
<1>2. TypeOK /\ IInv /\ [Next]_vars => IInv'
  BY NextKeepsIInv
<1>3. QED
  BY <1>1, <1>2, TypeCorrect, PTL DEF Spec

(* No response callback runs twice: a second answer would need an open     *)
(* connection after shutdown, and there is none.                           *)
THEOREM AnsweredOnce == Spec => []AnsweredAtMostOnce
<1>1. IInv => AnsweredAtMostOnce
  BY DEF IInv
<1>2. QED
  BY <1>1, InductiveInvariant, PTL

(* Every handler of the transport finds the object, its reference and the  *)
(* http of its own connection.                                             *)
THEOREM HandlersAreSafe == Spec => []HandlersFindTheirObject
<1>1. IInv => HandlersFindTheirObject
  BY NoHttpType DEF IInv, OpenConnectionIsHttps, HandlersFindTheirObject
<1>2. QED
  BY <1>1, InductiveInvariant, PTL

(* A pending request timer belongs to a request that waits on a connection *)
(* that is open, or whose onClose is delivering its response.              *)
THEOREM TimersAreSafe == Spec => []TimerGuardsRequest
<1>1. IInv => TimerGuardsRequest
  BY DEF IInv
<1>2. QED
  BY <1>1, InductiveInvariant, PTL

(* Once a request ended with its connection nothing is open any more.      *)
THEOREM DeadObjectIsSilent == Spec => []ShutdownIsSilent
<1>1. IInv => ShutdownIsSilent
  BY DEF IInv
<1>2. QED
  BY <1>1, InductiveInvariant, PTL
-----------------------------------------------------------------------------
(* What the process can die on.                                            *)

(* Without a script that acts in onConnect, nothing but the return of that *)
(* callback happens while it runs.                                         *)
LEMMA NoConnectBelow ==
    ASSUME TypeOK, ConnectRunsAlone, "callInOnConnect" \notin Env,
           ~Running("connect")
    PROVE  \A f \in FramesOf(stack) : f.kind # "connect"
<1>1. CASE stack = <<>>
  BY <1>1, FramesEmpty
<1>2. CASE stack # <<>>
  <2>1. FramesOf(stack) = {Head(stack)} \cup FramesOf(Tail(stack))
    BY <1>2, FramesPop DEF TypeOK
  <2>2. Head(stack).kind # "connect"
    BY <1>2 DEF Running
  <2>3. SUFFICES ASSUME NEW f \in FramesOf(Tail(stack)), f.kind = "connect"
                 PROVE  FALSE
    BY <2>1, <2>2
  <2>4. Tail(stack) = <<>>
    BY <2>1, <2>3 DEF ConnectRunsAlone
  <2>5. QED
    BY <2>3, <2>4, FramesEmpty
<1>3. QED
  BY <1>1, <1>2

LEMMA ConnectStaysAlone ==
    ASSUME TypeOK, ConnectRunsAlone,
           "callInOnConnect" \in Env \/ ~Running("connect"),
           \A f \in FramesOf(stack') :
              f.kind = "connect" => f \in FramesOf(stack)
    PROVE  ConnectRunsAlone'
BY NoConnectBelow DEF ConnectRunsAlone

(* The frames after a push, and after a return.                            *)
LEMMA PushedFrames ==
    ASSUME NEW kind \in FrameKinds, kind # "connect", NEW g \in Requests,
           NEW event \in {"onError", "onClose"}, NEW below \in Seq(Frame),
           FramesOf(below) \subseteq FramesOf(stack),
           stack' = Push(kind, g, event, below)
    PROVE  \A f \in FramesOf(stack') :
              f.kind = "connect" => f \in FramesOf(stack)
<1>1. FramesOf(stack') = {[kind |-> kind, id |-> g, event |-> event]}
                            \cup FramesOf(below)
  BY FramesPush
<1>2. QED
  BY <1>1

LEMMA ExecuteCallbackFrames ==
    ASSUME NEW event \in {"onError", "onClose"}, NEW g \in Requests,
           NEW below \in Seq(Frame), NEW timedOut \in BOOLEAN,
           FramesOf(below) \subseteq FramesOf(stack),
           ExecuteCallback(event, g, below, timedOut)
    PROVE  \A f \in FramesOf(stack') :
              f.kind = "connect" => f \in FramesOf(stack)
<1>1. /\ "event" \in FrameKinds /\ "exception" \in FrameKinds
      /\ "event" # "connect" /\ "exception" # "connect"
  BY DEF FrameKinds
<1>2. \/ stack' = Push("event", g, event, below)
      \/ stack' = Push("exception", g, event, below)
  BY DEF ExecuteCallback
<1>3. QED
  BY <1>1, <1>2, PushedFrames

(* The connection of http ends.                                            *)
LEMMA ClientCloseKeepsCauses ==
    ASSUME TypeOK, IInv, CausesInv, fault = "none", NEW g \in Requests,
           NEW below \in Seq(Frame), NEW timedOut \in BOOLEAN,
           "callInOnConnect" \in Env \/ ~Running("connect"),
           FramesOf(below) \subseteq FramesOf(stack),
           Active(g) \/ (http.cli /\ http.id = g /\ conn[g] # "closed"),
           ClientClose(g, below, timedOut),
           UNCHANGED <<ref, owes, gets, alive>>
    PROVE  CausesInv'
<1> USE DEF CausesInv
<1>1. http.cli /\ http.id = g
  BY DEF IInv, OpenConnectionIsHttps, Open
<1>2. /\ conn' = [conn EXCEPT ![g] = "closed"]
      /\ conn \in [Requests -> Phases]
  BY DEF ClientClose, TypeOK
<1>3. \A k \in Requests : ~Open(k)'
  BY <1>1, <1>2 DEF IInv, OpenConnectionIsHttps, Open, Active
<1>4. FutureOwesNothing' /\ ServerOwesTheWaiting'
  BY <1>3 DEF FutureOwesNothing, ServerOwesTheWaiting
<1>5. CASE ~Active(g)
  <2>1. stack' = below /\ UNCHANGED <<http, fault>>
    BY <1>5 DEF ClientClose
  <2>2. QED
    BY <1>4, <2>1, ConnectStaysAlone DEF FaultNeedsACause, TransportIsThere
<1>6. CASE Active(g) /\ http.state = "WAIT_CLOSE" /\ hcc.onResponse # Null
  <2>1. /\ stack' = Push("waitClose", g, "onClose", below)
        /\ UNCHANGED <<http, fault>>
    BY <1>6 DEF ClientClose
  <2>2. \A f \in FramesOf(stack') :
           f.kind = "connect" => f \in FramesOf(stack)
    BY <2>1, PushedFrames DEF FrameKinds
  <2>3. QED
    BY <1>4, <2>1, <2>2, ConnectStaysAlone
       DEF FaultNeedsACause, TransportIsThere
<1>7. CASE Active(g) /\ http.state = "WAIT_CLOSE" /\ hcc.onResponse = Null
  <2>1. /\ stack' = below /\ fault' = "onClose" /\ UNCHANGED http
    BY <1>7 DEF ClientClose
  <2>2. "unsolicited" \in Env
    BY <1>7 DEF ServerOwesTheWaiting, Open
  <2>3. QED
    BY <1>4, <2>1, <2>2, ConnectStaysAlone
       DEF FaultNeedsACause, TransportIsThere
<1>8. CASE Active(g) /\ http.state # "WAIT_CLOSE"
  <2>1. /\ http' = NoHttp
        /\ ExecuteCallback("onClose", g, below, timedOut)
        /\ UNCHANGED fault
    BY <1>8 DEF ClientClose
  <2>2. \A f \in FramesOf(stack') :
           f.kind = "connect" => f \in FramesOf(stack)
    BY <2>1, ExecuteCallbackFrames
  <2>3. QED
    BY <1>4, <2>1, <2>2, ConnectStaysAlone
       DEF FaultNeedsACause, TransportIsThere
<1>9. QED
  BY <1>5, <1>6, <1>7, <1>8

LEMMA CloseMethodKeepsCauses ==
    ASSUME TypeOK, IInv, CausesInv, fault = "none", NEW below \in Seq(Frame),
           NEW timedOut \in BOOLEAN,
           "callInOnConnect" \in Env \/ ~Running("connect"),
           FramesOf(below) \subseteq FramesOf(stack),
           http.cli, conn[http.id] # "closed", CloseMethod(below, timedOut),
           UNCHANGED <<ref, owes, gets, alive>>
    PROVE  CausesInv'
<1>1. http.id \in Requests
  BY DEF TypeOK
<1>2. ClientClose(http.id, below, timedOut)
  BY DEF CloseMethod
<1>3. QED
  BY <1>1, <1>2, ClientCloseKeepsCauses
LEMMA NextKeepsCauses ==
    ASSUME TypeOK, IInv, CausesInv, [Next]_vars
    PROVE  CausesInv'
<1> USE DEF CausesInv
<1>0. \A k \in Requests : Open(k) =>
         /\ http.cli /\ http.id = k /\ k <= gets /\ alive
         /\ k \in Nat /\ gets \in Nat
  BY DEF IInv, OpenConnectionIsHttps, FutureIsBlank, Open, Active, TypeOK,
         Requests, Ids
<1>a. ASSUME ScriptRuns
      PROVE  "callInOnConnect" \in Env \/ ~Running("connect")
  BY <1>a DEF ScriptRuns
<1>b. ASSUME UNCHANGED stack PROVE \A f \in FramesOf(stack') :
         f.kind = "connect" => f \in FramesOf(stack)
  BY <1>b
<1>1. ASSUME NEW r \in Requests, NEW keepAlive \in BOOLEAN,
             NEW timeout \in BOOLEAN, GetConnecting(r, keepAlive, timeout)
      PROVE  CausesInv'
  <2>1. /\ Accept(r) /\ http = NoHttp /\ UNCHANGED <<owes, stack>>
        /\ http' = NewHttp(r, TRUE, keepAlive, timeout)
        /\ conn' = [conn EXCEPT ![r] = "connecting"]
        /\ conn \in [Requests -> Phases]
    BY <1>1 DEF GetConnecting, TypeOK
  <2>2. http'.cli = TRUE /\ http'.state = "READY" /\ http'.completed = FALSE
    BY <2>1 DEF NewHttp, NoHttp
  <2>3. \A k \in Requests : Open(k)' => k = r
    BY <2>1, AcceptIsFresh, WithoutHttp DEF Open, Active
  <2>4. owes[r] = <<>> /\ FutureOwesNothing'
    BY <2>1, AcceptIsFresh DEF FutureOwesNothing, TypeOK, Ids, Requests
  <2>5. ServerOwesTheWaiting'
    BY <2>1, <2>2, <2>3, <2>4 DEF ServerOwesTheWaiting
  <2>6. ConnectRunsAlone'
    BY <1>a, <1>b, <2>1, ConnectStaysAlone DEF Accept
  <2>7. QED
    BY <2>1, <2>2, <2>4, <2>5, <2>6, AcceptIsFresh
       DEF FaultNeedsACause, TransportIsThere
<1>2. ASSUME NEW r \in Requests, GetRefused(r)
      PROVE  CausesInv'
  <2>1. /\ Accept(r) /\ http = NoHttp /\ UNCHANGED <<owes, http>>
        /\ stack' = Push("exception", r, "onError", stack)
        /\ conn' = [conn EXCEPT ![r] = "closed"]
        /\ conn \in [Requests -> Phases] /\ stack \in Seq(Frame)
    BY <1>2 DEF GetRefused, TypeOK
  <2>2. \A k \in Requests : ~Open(k)'
    BY <2>1, AcceptIsFresh, WithoutHttp DEF Open, Active
  <2>3. FutureOwesNothing'
    BY <2>1, AcceptIsFresh DEF FutureOwesNothing, TypeOK, Ids, Requests
  <2>4. ConnectRunsAlone'
    BY <1>a, <2>1, PushedFrames, ConnectStaysAlone DEF Accept, FrameKinds
  <2>5. QED
    BY <2>1, <2>2, <2>3, <2>4, AcceptIsFresh
       DEF FaultNeedsACause, TransportIsThere, ServerOwesTheWaiting
<1>3. ASSUME NEW r \in Requests, NEW held \in BOOLEAN, GetAborted(r, held)
      PROVE  CausesInv'
  <2>1. /\ Accept(r) /\ http = NoHttp /\ UNCHANGED <<owes, stack>>
        /\ http' = NewHttp(r, TRUE, TRUE, TRUE)
        /\ conn' = [conn EXCEPT ![r] = "idle"]
        /\ conn \in [Requests -> Phases]
    BY <1>3 DEF GetAborted, TypeOK
  <2>2. \A k \in Requests : ~Open(k)'
    BY <2>1, AcceptIsFresh, WithoutHttp DEF Open, Active
  <2>3. http'.cli
    BY <2>1, NewHttpFields
  <2>4. FutureOwesNothing'
    BY <2>1, AcceptIsFresh DEF FutureOwesNothing, TypeOK, Ids, Requests
  <2>5. ConnectRunsAlone'
    BY <1>a, <1>b, <2>1, ConnectStaysAlone DEF Accept
  <2>6. QED
    BY <2>1, <2>2, <2>3, <2>4, <2>5, AcceptIsFresh
       DEF FaultNeedsACause, TransportIsThere, ServerOwesTheWaiting
<1>4. ASSUME NEW r \in Requests, GetWithoutFile(r)
      PROVE  CausesInv'
  <2>1. /\ Accept(r) /\ "downloadFails" \in Env
        /\ hcc'.onResponse = r
        /\ UNCHANGED <<conn, owes, stack>>
    BY <1>4 DEF GetWithoutFile, Registered, TypeOK
  <2>2. FutureOwesNothing'
    BY <2>1, AcceptIsFresh DEF FutureOwesNothing, TypeOK, Ids, Requests
  <2>3. ConnectRunsAlone'
    BY <1>a, <1>b, <2>1, ConnectStaysAlone DEF Accept
  <2>4. ServerOwesTheWaiting'
    <3>1. CASE http = NoHttp
      BY <2>1, <3>1, AcceptIsFresh, WithoutHttp
         DEF ServerOwesTheWaiting, Open, Active
    <3>2. CASE Ready /\ UNCHANGED http
      <4>1. \A k \in Requests : Open(k) => http.state = "READY"
        BY <3>2 DEF Ready
      <4>2. QED
        BY <2>1, <3>2, <4>1 DEF ServerOwesTheWaiting, Open, Active
    <3>3. QED
      BY <1>4, <3>1, <3>2 DEF GetWithoutFile
  <2>5. QED
    BY <2>1, <2>2, <2>3, <2>4, AcceptIsFresh
       DEF FaultNeedsACause, TransportIsThere
<1>5. ASSUME NEW r \in Requests, NEW ok \in BOOLEAN, GetReusing(r, ok)
      PROVE  CausesInv'
  <2>1. /\ Accept(r) /\ Ready /\ hcc'.onResponse = r
        /\ http' = Sent(ok)
        /\ owes' = IF ok THEN [owes EXCEPT ![http.id] = Append(@, r)]
                         ELSE owes
        /\ owes \in [Requests -> Seq(Ids)] /\ http \in HttpType
        /\ http.id \in Requests
        /\ UNCHANGED <<conn, stack>>
    BY <1>5 DEF GetReusing, Registered, TypeOK, Ready
  <2>2. /\ http'.cli = http.cli /\ http'.state = "BUSY"
        /\ http'.completed = http.completed
    BY <2>1 DEF Sent, HttpType
  <2>3. /\ Open(http.id) /\ http.id <= gets
        /\ \A k \in Requests : Open(k)' => k = http.id
    BY <1>0, <2>1 DEF Ready, Open, Active
  <2>4. FutureOwesNothing'
    BY <1>0, <2>1, <2>3, AcceptIsFresh
       DEF FutureOwesNothing, TypeOK, Ids, Requests
  <2>5. ConnectRunsAlone'
    <3>1. http' # NoHttp
      BY <2>2 DEF NoHttp
    <3>2. QED
      BY <1>a, <1>b, <2>1, <3>1, ConnectStaysAlone DEF Accept
  <2>6. ServerOwesTheWaiting'
    <3>1. SUFFICES ASSUME "unsolicited" \notin Env
                   PROVE  /\ ~http'.completed
                          /\ owes'[http.id] # <<>> =>
                                owes'[http.id] = <<r>>
      BY <2>1, <2>2, <2>3, AcceptIsFresh DEF ServerOwesTheWaiting
    <3>2. ~http.completed /\ owes[http.id] = <<>>
      BY <2>1, <2>3, <3>1 DEF ServerOwesTheWaiting, Ready
    <3>3. Append(owes[http.id], r) = <<r>>
      BY <3>2
    <3>4. QED
      BY <2>1, <2>2, <3>2, <3>3
  <2>7. QED
    BY <2>1, <2>2, <2>4, <2>5, <2>6, AcceptIsFresh
       DEF FaultNeedsACause, TransportIsThere, Ready
<1>6. CASE GetOnNullCli
  <2>1. "downloadFails" \in Env
    BY <1>6 DEF GetOnNullCli, TransportIsThere
  <2>2. QED
    BY <1>6, <2>1 DEF GetOnNullCli, FaultNeedsACause, TransportIsThere,
       ConnectRunsAlone, FutureOwesNothing, ServerOwesTheWaiting, Open, Active
<1>7. CASE Close
  BY <1>a, <1>7, CloseMethodKeepsCauses DEF Close, ScriptRuns, TypeOK
<1>8. CASE Destruct
  <2>1. /\ fault = "none" /\ stack = <<>> /\ ref = {}
        /\ conn \in [Requests -> Phases]
        /\ UNCHANGED <<http, owes, stack, gets, fault>>
        /\ conn' = IF http.cli THEN [conn EXCEPT ![http.id] = "closed"]
                   ELSE conn
    BY <1>8 DEF Destruct, AtReactor, TypeOK
  <2>2. \A k \in Requests : ~Open(k)'
    BY <2>1 DEF IInv, OpenConnectionIsHttps, Open, Active
  <2>3. QED
    BY <2>1, <2>2, FramesEmpty
       DEF FaultNeedsACause, TransportIsThere, ConnectRunsAlone,
           FutureOwesNothing, ServerOwesTheWaiting
<1>9. ASSUME NEW g \in Requests, OnConnect(g)
      PROVE  CausesInv'
  <2>1. /\ conn[g] = "connecting" /\ conn \in [Requests -> Phases]
        /\ conn' = [conn EXCEPT ![g] = "connected"]
        /\ stack' = Push("connect", g, "onError", <<>>)
        /\ UNCHANGED <<hcc, http, owes, gets, fault>>
    BY <1>9 DEF OnConnect, TypeOK
  <2>2. \A k \in Requests : Open(k)' => Open(k)
    BY <2>1 DEF Open, Active
  <2>3. Tail(stack') = <<>>
    BY <2>1 DEF Push
  <2>4. http # NoHttp
    BY <1>0, <2>1, NoHttpType DEF Open
  <2>5. QED
    BY <2>1, <2>2, <2>3, <2>4
       DEF FaultNeedsACause, TransportIsThere, ConnectRunsAlone,
           FutureOwesNothing, ServerOwesTheWaiting
<1>10. ASSUME NEW g \in Requests, OnError(g)
       PROVE  CausesInv'
  <2>1. /\ stack = <<>> /\ conn[g] = "connecting"
        /\ conn \in [Requests -> Phases]
        /\ conn' = [conn EXCEPT ![g] = "closed"] /\ http' = NoHttp
        /\ ExecuteCallback("onError", g, <<>>, hcc.timedOut)
        /\ UNCHANGED <<owes, gets, fault>>
        /\ hcc.timedOut \in BOOLEAN
    BY <1>10 DEF OnError, AtReactor, TypeOK
  <2>2. \A k \in Requests : ~Open(k)'
    BY <1>0, <2>1 DEF Open, Active
  <2>3. \A f \in FramesOf(stack') :
           f.kind = "connect" => f \in FramesOf(stack)
    BY <2>1, EmptyType, ExecuteCallbackFrames
  <2>4. ConnectRunsAlone'
    BY <2>1, <2>3, ConnectStaysAlone DEF Running
  <2>5. QED
    BY <2>1, <2>2, <2>4
       DEF FaultNeedsACause, TransportIsThere, FutureOwesNothing,
           ServerOwesTheWaiting
<1>11. ASSUME NEW g \in Requests, OnClose(g)
       PROVE  CausesInv'
  <2>1. /\ hcc.timedOut \in BOOLEAN /\ ~Running("connect")
        /\ FramesOf(<<>>) \subseteq FramesOf(stack)
    BY <1>11, FramesEmpty DEF OnClose, AtReactor, Running, TypeOK
  <2>2. QED
    BY <1>11, <2>1, EmptyType, ClientCloseKeepsCauses DEF OnClose, AtReactor
<1>12. CASE OnRequestTimeout
  <2>1. /\ ~Running("connect") /\ FramesOf(<<>>) \subseteq FramesOf(stack)
    BY <1>12, FramesEmpty DEF OnRequestTimeout, AtReactor, Running
  <2>2. fault = "none" /\ http.cli /\ conn[http.id] # "closed"
    BY <1>12, FramesEmpty
       DEF OnRequestTimeout, AtReactor, IInv, TransportExists,
           TimerGuardsRequest, Active
  <2>3. QED
    BY <1>12, <2>1, <2>2, EmptyType, CloseMethodKeepsCauses
       DEF OnRequestTimeout
<1>13. ASSUME NEW g \in Requests, NEW kind \in Kinds, NEW fin \in BOOLEAN,
              OnReceive(g, kind, fin)
       PROVE  CausesInv'
  <2>1. /\ stack = <<>> /\ conn[g] = "connected" /\ Open(g)
        /\ conn \in [Requests -> Phases] /\ owes \in [Requests -> Seq(Ids)]
        /\ http.cli /\ http.id = g /\ g <= gets
        /\ owes[g] # <<>> \/ "unsolicited" \in Env
        /\ owes' = IF fin /\ owes[g] # <<>> THEN [owes EXCEPT ![g] = Tail(@)]
                                            ELSE owes
        /\ UNCHANGED <<gets, fault>>
    BY <1>0, <1>13 DEF OnReceive, AtReactor, Open, Active, TypeOK
  <2>2. FutureOwesNothing'
    BY <1>0, <2>1 DEF FutureOwesNothing, TypeOK, Ids, Requests
  <2>3. /\ Parsed(kind) \in HttpType /\ Parsed(kind).cli = http.cli
        /\ Parsed(kind).completed = http.completed
        /\ Parsed(kind).state \in {http.state, "WAIT_CLOSE"}
    <3>1. http \in HttpType /\ StateAfter(kind) \in {http.state, "WAIT_CLOSE"}
      BY DEF StateAfter, TypeOK
    <3>2. /\ Parsed(kind).completed = http.completed
          /\ Parsed(kind).state = StateAfter(kind)
      BY <3>1 DEF Parsed, HttpType
    <3>3. QED
      BY <3>1, <3>2, ParsedType
  <2>4. http' \in {Parsed(kind), Rearmed(Parsed(kind)),
                   [Parsed(kind) EXCEPT !.completed = TRUE]}
    BY <1>13 DEF OnReceive
  <2>5. http'.cli = TRUE
    BY <2>1, <2>3, <2>4, MessageKeeps
  <2>6. \A k \in Requests : Open(k)' => k = g
    <3>1. conn' = conn \/ conn' = [conn EXCEPT ![g] = "upgraded"]
      BY <1>13 DEF OnReceive
    <3>2. QED
      BY <1>0, <2>1, <3>1 DEF Open, Active
  <2>7. ConnectRunsAlone'
    <3>1. stack' = stack \/ stack' = Push("response", g, "onClose", <<>>)
      BY <1>13 DEF OnReceive
    <3>2. /\ "response" \in FrameKinds
          /\ FramesOf(<<>>) \subseteq FramesOf(stack)
          /\ ~Running("connect")
      BY <2>1, FramesEmpty DEF FrameKinds, Running
    <3>3. \A f \in FramesOf(stack') :
             f.kind = "connect" => f \in FramesOf(stack)
      BY <1>b, <3>1, <3>2, EmptyType, PushedFrames
    <3>4. QED
      BY <3>2, <3>3, ConnectStaysAlone
  <2>8. ServerOwesTheWaiting'
    <3>1. SUFFICES ASSUME "unsolicited" \notin Env
                   PROVE  /\ ~http'.completed
                          /\ http'.state = "WAIT_CLOSE" => owes'[g] # <<>>
                          /\ owes'[g] # <<>> =>
                                /\ http'.state # "READY"
                                /\ hcc'.onResponse # Null
                                /\ owes'[g] = <<hcc'.onResponse>>
      BY <2>6 DEF ServerOwesTheWaiting
    <3>2. /\ ~http.completed /\ http.state # "READY"
          /\ hcc.onResponse # Null /\ owes[g] = <<hcc.onResponse>>
      BY <2>1, <3>1 DEF ServerOwesTheWaiting
    <3>3. CASE fin
      <4>1. /\ http' = Rearmed(Parsed(kind))
            /\ owes' = [owes EXCEPT ![g] = Tail(@)]
        BY <1>13, <2>1, <3>2, <3>3 DEF OnReceive
      <4>2. http'.state = "READY" /\ http'.completed = FALSE
        BY <2>3, <4>1 DEF Rearmed, HttpType
      <4>3. Tail(owes[g]) = <<>>
        BY <3>2
      <4>4. owes'[g] = <<>>
        BY <2>1, <4>1, <4>3
      <4>5. QED
        BY <4>2, <4>4
    <3>4. CASE ~fin
      <4>1. http' = Parsed(kind) /\ UNCHANGED <<hcc, owes>>
        BY <1>13, <2>1, <3>2, <3>4 DEF OnReceive
      <4>2. http'.state # "READY" /\ ~http'.completed
        BY <2>3, <3>2, <4>1
      <4>3. QED
        BY <3>2, <4>1, <4>2
    <3>5. QED
      BY <3>3, <3>4
  <2>9. QED
    BY <2>1, <2>2, <2>5, <2>7, <2>8
       DEF FaultNeedsACause, TransportIsThere
<1>14. ASSUME NEW g \in Requests, OnMessage(g)
       PROVE  CausesInv'
  <2>1. /\ stack = <<>>
        /\ stack' = Push("message", g, "onClose", <<>>)
        /\ UNCHANGED <<hcc, http, conn, owes, gets, fault>>
    BY <1>14 DEF OnMessage, AtReactor
  <2>2. /\ "message" \in FrameKinds /\ ~Running("connect")
        /\ FramesOf(<<>>) \subseteq FramesOf(stack)
    BY <2>1, FramesEmpty DEF FrameKinds, Running
  <2>3. ConnectRunsAlone'
    BY <2>1, <2>2, EmptyType, PushedFrames, ConnectStaysAlone
  <2>4. QED
    BY <2>1, <2>3
       DEF FaultNeedsACause, TransportIsThere, FutureOwesNothing,
           ServerOwesTheWaiting, Open, Active
<1>15. ASSUME NEW kind \in FrameKinds, Returns(kind)
       PROVE  /\ FramesOf(stack) = {Head(stack)} \cup FramesOf(Tail(stack))
              /\ Tail(stack) \in Seq(Frame)
              /\ Head(stack).id \in Requests
              /\ Head(stack).event \in {"onError", "onClose"}
              /\ Head(stack).kind = kind /\ stack # <<>>
              /\ kind # "connect" => ~Running("connect")
              /\ fault = "none"
  BY <1>15, PopType, FramesPop DEF Returns, Running, TypeOK
<1>16. ASSUME NEW ok \in BOOLEAN, ReturnConnect(ok)
       PROVE  CausesInv'
  <2>1. /\ FramesOf(stack) = {Head(stack)} \cup FramesOf(stack')
        /\ Head(stack).kind = "connect" /\ stack' = Tail(stack)
        /\ fault = "none"
        /\ UNCHANGED <<hcc, conn, gets>>
    BY <1>15, <1>16 DEF ReturnConnect, FrameKinds
  <2>2. "callInOnConnect" \notin Env => stack' = <<>> /\ http # NoHttp
    BY <2>1 DEF ConnectRunsAlone
  <2>3. ConnectRunsAlone'
    BY <2>2, FramesEmpty DEF ConnectRunsAlone
  <2>4. CASE UNCHANGED <<http, owes>>
    <3>1. \/ UNCHANGED fault
          \/ http = NoHttp /\ fault' = "onConnect"
      BY <1>16 DEF ReturnConnect
    <3>2. FaultNeedsACause'
      BY <2>2, <3>1 DEF FaultNeedsACause
    <3>3. QED
      BY <2>1, <2>3, <2>4, <3>2
         DEF TransportIsThere, FutureOwesNothing, ServerOwesTheWaiting,
             Open, Active
  <2>5. CASE /\ http # NoHttp /\ http.state = "READY" /\ http' = Sent(ok)
             /\ owes' = IF ok THEN [owes EXCEPT ![http.id] =
                                       Append(@, hcc.onResponse)]
                              ELSE owes
             /\ UNCHANGED fault
    <3>1. /\ http.cli /\ Active(http.id) /\ hcc.onResponse # Null
          /\ http.id \in Requests /\ owes \in [Requests -> Seq(Ids)]
          /\ http \in HttpType /\ hcc.onResponse \in Ids
      BY <2>1, <2>5 DEF IInv, ConnectFrames, TypeOK
    <3>2. /\ http'.cli = http.cli /\ http'.state = "BUSY"
          /\ http'.completed = http.completed
      BY <2>5, <3>1 DEF Sent, HttpType
    <3>3. /\ Open(http.id) /\ http.id <= gets
          /\ \A k \in Requests : Open(k)' => k = http.id
      BY <1>0, <2>1, <3>1 DEF Open, Active
    <3>4. FutureOwesNothing'
      BY <1>0, <2>1, <2>5, <3>1, <3>3
         DEF FutureOwesNothing, TypeOK, Ids, Requests
    <3>5. ServerOwesTheWaiting'
      <4>1. SUFFICES ASSUME "unsolicited" \notin Env
                     PROVE  /\ ~http'.completed
                            /\ owes'[http.id] # <<>> =>
                                  owes'[http.id] = <<hcc.onResponse>>
        BY <2>1, <3>1, <3>2, <3>3 DEF ServerOwesTheWaiting
      <4>2. ~http.completed /\ owes[http.id] = <<>>
        BY <2>5, <3>3, <3>1, <4>1 DEF ServerOwesTheWaiting
      <4>3. Append(owes[http.id], hcc.onResponse) = <<hcc.onResponse>>
        BY <4>2
      <4>4. QED
        BY <2>5, <3>1, <3>2, <4>2, <4>3
    <3>6. QED
      BY <2>3, <2>5, <3>1, <3>2, <3>4, <3>5
         DEF FaultNeedsACause, TransportIsThere
  <2>6. QED
    BY <1>16, <2>4, <2>5 DEF ReturnConnect
<1>17. CASE ReturnResponse
  <2>1. /\ FramesOf(Tail(stack)) \subseteq FramesOf(stack)
        /\ Tail(stack) \in Seq(Frame) /\ Head(stack).id \in Requests
        /\ ~Running("connect") /\ fault = "none"
        /\ UNCHANGED <<ref, owes, gets, alive>>
    BY <1>15, <1>17 DEF ReturnResponse, FrameKinds
  <2>2. CASE /\ Active(Head(stack).id)
             /\ CloseMethod(Tail(stack), hcc.timedOut)
    <3>1. http.cli /\ conn[http.id] # "closed" /\ hcc.timedOut \in BOOLEAN
      BY <1>0, <2>1, <2>2 DEF Open, Active, TypeOK
    <3>2. QED
      BY <2>1, <2>2, <3>1, CloseMethodKeepsCauses
  <2>3. CASE /\ \/ stack' = Tail(stack)
                \/ stack' = Push("message", Head(stack).id, "onClose",
                                 Tail(stack))
             /\ UNCHANGED <<hcc, http, conn, answers, status, fault>>
    <3>1. "message" \in FrameKinds
      BY DEF FrameKinds
    <3>2. \A f \in FramesOf(stack') :
             f.kind = "connect" => f \in FramesOf(stack)
      <4> DEFINE g == Head(stack).id
                 below == Tail(stack)
      <4>1. /\ g \in Requests /\ below \in Seq(Frame)
            /\ FramesOf(below) \subseteq FramesOf(stack)
            /\ stack' = below \/ stack' = Push("message", g, "onClose", below)
        BY <2>1, <2>3
      <4> HIDE DEF g, below
      <4>2. CASE stack' = below
        BY <4>1, <4>2
      <4>3. CASE stack' = Push("message", g, "onClose", below)
        BY <3>1, <4>1, <4>3, PushedFrames
      <4>4. QED
        BY <4>1, <4>2, <4>3
    <3>3. ConnectRunsAlone'
      BY <2>1, <3>2, ConnectStaysAlone
    <3>4. QED
      BY <2>1, <2>3, <3>3
         DEF FaultNeedsACause, TransportIsThere, FutureOwesNothing,
             ServerOwesTheWaiting, Open, Active
  <2>4. QED
    BY <1>17, <2>2, <2>3 DEF ReturnResponse
<1>18. ASSUME ReturnWaitClose \/ ReturnException
       PROVE  ConnectRunsAlone'
  <2> DEFINE g == Head(stack).id
             e == Head(stack).event
             below == Tail(stack)
  <2>1. /\ g \in Requests /\ below \in Seq(Frame)
        /\ e \in {"onError", "onClose"}
        /\ FramesOf(below) \subseteq FramesOf(stack)
        /\ ~Running("connect")
        /\ \/ stack' = Push("event", g, "onClose", below)
           \/ stack' = Push("event", g, e, below)
    BY <1>15, <1>18 DEF ReturnWaitClose, ReturnException, FrameKinds
  <2> HIDE DEF g, e, below
  <2>2. "event" \in FrameKinds
    BY DEF FrameKinds
  <2>3. \A f \in FramesOf(stack') :
           f.kind = "connect" => f \in FramesOf(stack)
    BY <2>1, <2>2, PushedFrames
  <2>4. QED
    BY <2>1, <2>3, ConnectStaysAlone
<1>19. CASE ReturnWaitClose
  <2>1. /\ Head(stack) \in FramesOf(stack) /\ Head(stack).kind = "waitClose"
    BY <1>15, <1>19 DEF ReturnWaitClose, FrameKinds
  <2>2. \A k \in Requests : ~Open(k)
    BY <2>1 DEF IInv, EndFrames, ShutdownIsSilent
  <2>3. http' = NoHttp /\ UNCHANGED <<conn, owes, gets, fault>>
    BY <1>19 DEF ReturnWaitClose
  <2>4. QED
    BY <1>18, <1>19, <2>2, <2>3
       DEF FaultNeedsACause, TransportIsThere, FutureOwesNothing,
           ServerOwesTheWaiting, Open, Active
<1>20. CASE ReturnException
  <2>1. UNCHANGED <<hcc, http, conn, owes, gets, fault>>
    BY <1>20 DEF ReturnException
  <2>2. QED
    BY <1>18, <1>20, <2>1
       DEF FaultNeedsACause, TransportIsThere, FutureOwesNothing,
           ServerOwesTheWaiting, Open, Active
<1>21. CASE ReturnEvent \/ ReturnMessage
  <2>1. /\ UNCHANGED <<hcc, http, conn, owes, gets, fault>>
        /\ stack' = Tail(stack)
    BY <1>21 DEF ReturnEvent, ReturnMessage
  <2>2. /\ FramesOf(stack') \subseteq FramesOf(stack)
        /\ ~Running("connect")
    BY <1>15, <1>21, <2>1 DEF ReturnEvent, ReturnMessage, FrameKinds
  <2>3. ConnectRunsAlone'
    BY <2>2, ConnectStaysAlone
  <2>4. QED
    BY <2>1, <2>3
       DEF FaultNeedsACause, TransportIsThere, FutureOwesNothing,
           ServerOwesTheWaiting, Open, Active
<1>22. CASE UNCHANGED vars
  BY <1>22 DEF vars, FaultNeedsACause, TransportIsThere, ConnectRunsAlone,
     FutureOwesNothing, ServerOwesTheWaiting, Open, Active
<1>23. QED
  BY <1>1, <1>2, <1>3, <1>4, <1>5, <1>6, <1>7, <1>8, <1>9, <1>10, <1>11,
     <1>12, <1>13, <1>14, <1>16, <1>17, <1>19, <1>20, <1>21, <1>22
     DEF Next, Get, ConnectEnds, Return

THEOREM CausesInvariant == Spec => []CausesInv
<1>1. Init => CausesInv
  BY FramesEmpty
     DEF Init, CausesInv, FaultNeedsACause, TransportIsThere,
         ConnectRunsAlone, FutureOwesNothing, ServerOwesTheWaiting, Open,
         Active
<1>2. TypeOK /\ IInv /\ CausesInv /\ [Next]_vars => CausesInv'
  BY NextKeepsCauses
<1>3. QED
  BY <1>1, <1>2, TypeCorrect, InductiveInvariant, PTL DEF Spec

(* The process dies on a null pointer only if the file of a download could *)
(* not be opened, the script used the object in onConnect or the server    *)
(* sent what nobody asked for: each fault has its own cause.               *)
THEOREM FaultsHaveACause == Spec => []FaultNeedsACause
<1>1. CausesInv => FaultNeedsACause
  BY DEF CausesInv
<1>2. QED
  BY <1>1, CausesInvariant, PTL

(* With a server that only answers, the response that arrives is given to  *)
(* the request it answers, whatever the script and the system do.          *)
THEOREM ResponsesMatch ==
    ASSUME "unsolicited" \notin Env
    PROVE  Spec => ResponseMatchesRequest
<1>1. ASSUME TypeOK, IInv, CausesInv, [Next]_vars, NEW g \in Requests,
             NEW r \in Requests, owes'[g] # owes[g], answers'[r] # answers[r]
      PROVE  r = Head(owes[g])
  <2>1. PICK k \in Requests, kind \in Kinds, fin \in BOOLEAN :
           OnReceive(k, kind, fin)
    BY <1>1 DEF Next, Get, GetConnecting, GetRefused, GetAborted,
       GetWithoutFile, GetReusing, GetOnNullCli, Close, Destruct,
       ConnectEnds, OnConnect, OnError, OnClose, OnRequestTimeout,
       OnMessage, Return, ReturnConnect, ReturnResponse, ReturnWaitClose,
       ReturnException, ReturnEvent, ReturnMessage, vars
  <2>2. /\ owes[k] # <<>> /\ Open(k) /\ k = g
        /\ answers' = [answers EXCEPT ![hcc.onResponse] = @ + 1]
        /\ answers \in [Requests -> Nat]
    BY <1>1, <2>1 DEF OnReceive, Answer, TypeOK, Open, Active
  <2>3. owes[g] = <<hcc.onResponse>>
    BY <1>1, <2>2 DEF CausesInv, ServerOwesTheWaiting
  <2>4. r = hcc.onResponse
    BY <1>1, <2>2
  <2>5. QED
    BY <2>3, <2>4
<1>2. TypeOK /\ IInv /\ CausesInv /\ [Next]_vars =>
         [\A g \in Requests, r \in Requests :
             owes'[g] # owes[g] /\ answers'[r] # answers[r]
                => r = Head(owes[g])]_vars
  BY <1>1
<1>3. QED
  BY <1>2, TypeCorrect, InductiveInvariant, CausesInvariant, PTL
     DEF Spec, ResponseMatchesRequest
-----------------------------------------------------------------------------
(* No request takes the place of one that waits.                           *)

(* A script that leaves the object alone in onConnect, download files that *)
(* open, and a connect() that reports its result.                          *)
ConnectsAreReported ==
    Env \cap {"callInOnConnect", "downloadFails", "connectAborts"} = {}

LEMMA AnswerCounts ==
    ASSUME TypeOK, hcc.onResponse # Null, NEW code,
           Answer(hcc.onResponse, code)
    PROVE  answers'[hcc.onResponse] > 0
<1>1. /\ answers \in [Requests -> Nat] /\ hcc.onResponse \in Requests
      /\ answers' = [answers EXCEPT ![hcc.onResponse] = @ + 1]
  BY WaitingType DEF TypeOK, Answer
<1>2. answers[hcc.onResponse] \in Nat
  BY <1>1
<1>3. QED
  BY <1>1, <1>2

LEMMA ExecuteCallbackKeepsWaiting ==
    ASSUME TypeOK, ShutdownAnswered, NEW event \in {"onError", "onClose"},
           NEW g \in Requests, NEW below \in Seq(Frame),
           NEW timedOut \in BOOLEAN, http' = NoHttp,
           ExecuteCallback(event, g, below, timedOut)
    PROVE  WaitingInv'
<1>1. ~http'.cli
  BY NoHttpType
<1>2. CASE hcc.onResponse = Null
  <2>1. hcc'.onResponse = Null
    BY <1>2 DEF ExecuteCallback, TypeOK
  <2>2. QED
    BY <1>1, <2>1 DEF WaitingInv, ShutdownAnswered, WaitingHasHttp,
       ReadyIsFree, HttpIsReferenced, Ready
<1>3. CASE hcc.onResponse # Null
  <2>1. /\ hcc'.onResponse = hcc.onResponse /\ hcc'.shutdown
        /\ \E code : Answer(hcc.onResponse, code)
    BY <1>3 DEF ExecuteCallback, TypeOK
  <2>2. answers'[hcc'.onResponse] > 0
    BY <1>3, <2>1, AnswerCounts
  <2>3. QED
    BY <1>1, <2>1, <2>2 DEF WaitingInv, ShutdownAnswered, WaitingHasHttp,
       ReadyIsFree, HttpIsReferenced, Ready
<1>4. QED
  BY <1>2, <1>3

LEMMA ClientCloseKeepsWaiting ==
    ASSUME TypeOK, IInv, WaitingInv, NEW g \in Requests,
           NEW below \in Seq(Frame), NEW timedOut \in BOOLEAN,
           FramesOf(below) \subseteq FramesOf(stack),
           Active(g) \/ (http.cli /\ http.id = g /\ conn[g] # "closed"),
           ClientClose(g, below, timedOut),
           UNCHANGED <<ref, owes, gets, alive>>
    PROVE  WaitingInv'
<1> USE DEF WaitingInv
<1>1. /\ http.cli /\ http.id = g
      /\ conn' = [conn EXCEPT ![g] = "closed"] /\ conn \in [Requests -> Phases]
  BY DEF IInv, OpenConnectionIsHttps, Open, ClientClose, TypeOK
<1>2. ASSUME UNCHANGED http PROVE ~Ready'
  BY <1>1, <1>2 DEF Ready, Active
<1>3. CASE ~Active(g)
  <2>1. /\ stack' = below /\ UNCHANGED <<http, answers>>
        /\ hcc'.onResponse = hcc.onResponse /\ hcc'.shutdown = hcc.shutdown
    BY <1>3 DEF ClientClose, TypeOK
  <2>2. QED
    BY <1>2, <2>1
       DEF ShutdownAnswered, WaitingHasHttp, ReadyIsFree, HttpIsReferenced
<1>4. CASE Active(g) /\ http.state = "WAIT_CLOSE" /\ hcc.onResponse # Null
  <2>1. /\ stack' = Push("waitClose", g, "onClose", below)
        /\ hcc'.onResponse = hcc.onResponse /\ hcc'.shutdown
        /\ Answer(hcc.onResponse, "ok")
        /\ UNCHANGED http
    BY <1>4 DEF ClientClose, TypeOK
  <2>2. answers'[hcc.onResponse] > 0
    BY <1>4, <2>1, AnswerCounts
  <2>3. FramesOf(stack') = {[kind |-> "waitClose", id |-> g,
                             event |-> "onClose"]} \cup FramesOf(below)
    BY <2>1, FramesPush DEF FrameKinds
  <2>4. HttpIsReferenced'
    BY <2>1, <2>3 DEF HttpIsReferenced
  <2>5. QED
    BY <1>2, <2>1, <2>2, <2>4
       DEF ShutdownAnswered, WaitingHasHttp, ReadyIsFree
<1>5. CASE Active(g) /\ http.state = "WAIT_CLOSE" /\ hcc.onResponse = Null
  <2>1. stack' = below /\ UNCHANGED <<hcc, http, answers>>
    BY <1>5 DEF ClientClose
  <2>2. QED
    BY <1>2, <2>1
       DEF ShutdownAnswered, WaitingHasHttp, ReadyIsFree, HttpIsReferenced
<1>6. CASE Active(g) /\ http.state # "WAIT_CLOSE"
  <2>1. /\ http' = NoHttp
        /\ ExecuteCallback("onClose", g, below, timedOut)
    BY <1>6 DEF ClientClose
  <2>2. QED
    BY <2>1, ExecuteCallbackKeepsWaiting
<1>7. QED
  BY <1>3, <1>4, <1>5, <1>6

LEMMA CloseMethodKeepsWaiting ==
    ASSUME TypeOK, IInv, WaitingInv, NEW below \in Seq(Frame),
           NEW timedOut \in BOOLEAN,
           FramesOf(below) \subseteq FramesOf(stack),
           http.cli, conn[http.id] # "closed", CloseMethod(below, timedOut),
           UNCHANGED <<ref, owes, gets, alive>>
    PROVE  WaitingInv'
<1>1. http.id \in Requests
  BY DEF TypeOK
<1>2. ClientClose(http.id, below, timedOut)
  BY DEF CloseMethod
<1>3. QED
  BY <1>1, <1>2, ClientCloseKeepsWaiting

(* Steps after which other callbacks run and nothing else changed.         *)
LEMMA CallbacksKeepWaiting ==
    ASSUME WaitingInv, UNCHANGED <<hcc, http, conn, ref, answers, alive>>,
           ~Running("connect"),
           \A f \in FramesOf(stack') : f.kind \in {"exception", "event"} =>
              \E e \in FramesOf(stack) :
                 e.kind \in {"exception", "event"} /\ e.id = f.id
    PROVE  WaitingInv'
<1> USE DEF WaitingInv
<1>1. (ShutdownAnswered /\ WaitingHasHttp /\ ReadyIsFree)'
  BY DEF ShutdownAnswered, WaitingHasHttp, ReadyIsFree, Ready, Active
<1>2. HttpIsReferenced'
  BY DEF HttpIsReferenced
<1>3. QED
  BY <1>1, <1>2

LEMMA NextKeepsWaiting ==
    ASSUME ConnectsAreReported, TypeOK, IInv, CausesInv, WaitingInv,
           [Next]_vars
    PROVE  WaitingInv'
<1> USE DEF WaitingInv
<1>0. \A k \in Requests : Open(k) => http.cli /\ http.id = k /\ ~hcc.shutdown
  BY DEF IInv, OpenConnectionIsHttps, ShutdownIsSilent
<1>1. ASSUME NEW r \in Requests, NEW keepAlive \in BOOLEAN,
             NEW timeout \in BOOLEAN, GetConnecting(r, keepAlive, timeout)
      PROVE  WaitingInv'
  <2>1. /\ Accept(r) /\ hcc'.onResponse = r /\ hcc'.shutdown = hcc.shutdown
        /\ http' = NewHttp(r, TRUE, keepAlive, timeout)
        /\ conn' = [conn EXCEPT ![r] = "connecting"]
        /\ conn \in [Requests -> Phases]
        /\ ref' = ref \cup {r} /\ UNCHANGED stack
    BY <1>1 DEF GetConnecting, Registered, Referenced, TypeOK
  <2>2. http'.cli = TRUE /\ http'.id = r
    BY <2>1 DEF NewHttp, NoHttp
  <2>3. ~Ready' /\ http' # NoHttp
    BY <2>1, <2>2, NoHttpType DEF Ready, Active
  <2>4. HttpIsReferenced'
    BY <2>1, <2>2, AcceptIsFresh DEF HttpIsReferenced
  <2>5. QED
    BY <2>1, <2>3, <2>4, AcceptIsFresh
       DEF ShutdownAnswered, WaitingHasHttp, ReadyIsFree
<1>2. ASSUME NEW r \in Requests, GetRefused(r)
      PROVE  WaitingInv'
  <2>1. /\ Accept(r) /\ http = NoHttp /\ UNCHANGED http
        /\ hcc'.onResponse = r /\ hcc'.shutdown
        /\ answers' = [answers EXCEPT ![r] = @ + 1]
        /\ answers \in [Requests -> Nat]
    BY <1>2 DEF GetRefused, Answer, TypeOK
  <2>2. answers'[r] = 1
    BY <2>1, AcceptIsFresh
  <2>3. QED
    BY <2>1, <2>2, NoHttpType
       DEF ShutdownAnswered, WaitingHasHttp, ReadyIsFree, HttpIsReferenced,
           Ready
<1>3. ASSUME NEW r \in Requests,
             (\E held \in BOOLEAN : GetAborted(r, held)) \/ GetWithoutFile(r)
      PROVE  FALSE
  BY <1>3 DEF GetAborted, GetWithoutFile, ConnectsAreReported
<1>5. ASSUME NEW r \in Requests, NEW ok \in BOOLEAN, GetReusing(r, ok)
      PROVE  WaitingInv'
  <2>1. /\ Accept(r) /\ Ready
        /\ hcc'.onResponse = r /\ hcc'.shutdown = hcc.shutdown
        /\ http' = Sent(ok) /\ http \in HttpType
        /\ UNCHANGED <<ref, stack>>
    BY <1>5 DEF GetReusing, Registered, TypeOK
  <2>2. /\ http'.cli = TRUE /\ http'.state = "BUSY" /\ http'.id = http.id
    BY <2>1 DEF Sent, HttpType, Ready
  <2>3. ~Ready' /\ http' # NoHttp
    BY <2>2, NoHttpType DEF Ready
  <2>4. HttpIsReferenced'
    BY <2>1, <2>2, AcceptIsFresh DEF HttpIsReferenced, Ready
  <2>5. QED
    BY <2>1, <2>3, <2>4, AcceptIsFresh
       DEF ShutdownAnswered, WaitingHasHttp, ReadyIsFree
<1>6. CASE GetOnNullCli
  BY <1>6 DEF GetOnNullCli, ShutdownAnswered, WaitingHasHttp, ReadyIsFree,
     HttpIsReferenced, Ready, Active, Running
<1>7. CASE Close
  BY <1>7, CloseMethodKeepsWaiting DEF Close, TypeOK
<1>8. CASE Destruct
  <2>1. /\ hcc'.onResponse = Null /\ ~alive' /\ UNCHANGED <<http, stack>>
    BY <1>8 DEF Destruct, TypeOK
  <2>2. QED
    BY <2>1 DEF ShutdownAnswered, WaitingHasHttp, ReadyIsFree,
       HttpIsReferenced
<1>9. ASSUME NEW g \in Requests, OnConnect(g)
      PROVE  WaitingInv'
  <2>1. /\ stack' = Push("connect", g, "onError", <<>>)
        /\ UNCHANGED <<hcc, http, ref, answers, alive>>
    BY <1>9 DEF OnConnect
  <2>2. FramesOf(stack') =
           {[kind |-> "connect", id |-> g, event |-> "onError"]}
    BY <2>1, FramesSingle DEF FrameKinds
  <2>3. Running("connect")'
    BY <2>1 DEF Running, Push
  <2>4. QED
    BY <2>1, <2>2, <2>3
       DEF ShutdownAnswered, WaitingHasHttp, ReadyIsFree, HttpIsReferenced
<1>10. ASSUME NEW g \in Requests, OnError(g)
       PROVE  WaitingInv'
  <2>1. hcc.timedOut \in BOOLEAN
    BY DEF TypeOK
  <2>2. QED
    BY <1>10, <2>1, EmptyType, ExecuteCallbackKeepsWaiting DEF OnError
<1>11. ASSUME NEW g \in Requests, OnClose(g)
       PROVE  WaitingInv'
  <2>1. hcc.timedOut \in BOOLEAN /\ FramesOf(<<>>) \subseteq FramesOf(stack)
    BY FramesEmpty DEF TypeOK
  <2>2. QED
    BY <1>11, <2>1, EmptyType, ClientCloseKeepsWaiting DEF OnClose
<1>12. CASE OnRequestTimeout
  <2>1. FramesOf(<<>>) \subseteq FramesOf(stack)
    BY FramesEmpty
  <2>2. http.cli /\ conn[http.id] # "closed"
    BY <1>12, FramesEmpty
       DEF OnRequestTimeout, AtReactor, IInv, TransportExists,
           TimerGuardsRequest, Active
  <2>3. QED
    BY <1>12, <2>1, <2>2, EmptyType, CloseMethodKeepsWaiting
       DEF OnRequestTimeout
<1>13. ASSUME NEW g \in Requests, NEW kind \in Kinds, NEW fin \in BOOLEAN,
              OnReceive(g, kind, fin)
       PROVE  WaitingInv'
  <2>1. /\ stack = <<>> /\ conn[g] = "connected"
        /\ http.cli /\ http.id = g /\ ~hcc.shutdown
        /\ UNCHANGED <<ref, alive>>
    BY <1>0, <1>13 DEF OnReceive, AtReactor, Open, Active
  <2>2. /\ Parsed(kind) \in HttpType
        /\ Parsed(kind).cli = http.cli /\ Parsed(kind).id = http.id
        /\ Parsed(kind).state \in {http.state, "WAIT_CLOSE"}
    <3>1. http \in HttpType /\ StateAfter(kind) \in {http.state, "WAIT_CLOSE"}
      BY DEF StateAfter, TypeOK
    <3>2. Parsed(kind).state = StateAfter(kind)
      BY <3>1 DEF Parsed, HttpType
    <3>3. QED
      BY <3>1, <3>2, ParsedType
  <2>3. http' \in {Parsed(kind), Rearmed(Parsed(kind)),
                   [Parsed(kind) EXCEPT !.completed = TRUE]}
    BY <1>13 DEF OnReceive
  <2>4. http'.cli = TRUE /\ http'.id = g
    BY <2>1, <2>2, <2>3, MessageKeeps
  <2>5. http' # NoHttp
    BY <2>4, NoHttpType
  <2>6. \A f \in FramesOf(stack') : f.kind \notin {"exception", "event"}
    <3>1. stack' = stack \/ stack' = Push("response", g, "onClose", <<>>)
      BY <1>13 DEF OnReceive
    <3>2. FramesOf(Push("response", g, "onClose", <<>>)) =
             {[kind |-> "response", id |-> g, event |-> "onClose"]}
      BY FramesSingle DEF FrameKinds
    <3>3. QED
      BY <2>1, <3>1, <3>2, FramesEmpty
  <2>7. HttpIsReferenced'
    BY <2>1, <2>4, <2>6 DEF HttpIsReferenced
  <2>8. hcc'.shutdown = hcc.shutdown
    BY <1>13 DEF OnReceive, Delivered, TypeOK
  <2>9. CASE /\ UNCHANGED <<hcc, conn, stack>>
             /\ http' \in {Parsed(kind),
                           [Parsed(kind) EXCEPT !.completed = TRUE]}
    <3>1. http'.state \in {http.state, "WAIT_CLOSE"}
      BY <2>2, <2>9 DEF HttpType
    <3>2. Ready' => Ready
      BY <2>1, <2>4, <2>9, <3>1 DEF Ready, Active
    <3>3. QED
      BY <2>1, <2>5, <2>7, <2>8, <2>9, <3>2
         DEF ShutdownAnswered, WaitingHasHttp, ReadyIsFree, Running
  <2>10. CASE hcc' = Delivered
    <3>1. hcc'.onResponse = Null
      BY <2>10 DEF Delivered, TypeOK
    <3>2. QED
      BY <2>7, <3>1 DEF ShutdownAnswered, WaitingHasHttp, ReadyIsFree
  <2>11. QED
    BY <1>13, <2>9, <2>10 DEF OnReceive
<1>14. ASSUME NEW g \in Requests, OnMessage(g)
       PROVE  WaitingInv'
  <2>1. /\ stack = <<>> /\ stack' = Push("message", g, "onClose", <<>>)
        /\ UNCHANGED <<hcc, http, conn, ref, answers, alive>>
    BY <1>14 DEF OnMessage, AtReactor
  <2>2. FramesOf(stack') =
           {[kind |-> "message", id |-> g, event |-> "onClose"]}
    BY <2>1, FramesSingle DEF FrameKinds
  <2>3. QED
    BY <2>1, <2>2, CallbacksKeepWaiting DEF Running
<1>15. ASSUME NEW kind \in FrameKinds, Returns(kind)
       PROVE  /\ FramesOf(stack) = {Head(stack)} \cup FramesOf(Tail(stack))
              /\ Tail(stack) \in Seq(Frame)
              /\ Head(stack).id \in Requests
              /\ Head(stack).event \in {"onError", "onClose"}
              /\ Head(stack).kind = kind
              /\ kind # "connect" => ~Running("connect")
  BY <1>15, PopType, FramesPop DEF Returns, Running, TypeOK
<1>16. ASSUME NEW ok \in BOOLEAN, ReturnConnect(ok)
       PROVE  WaitingInv'
  <2>1. /\ FramesOf(stack') \subseteq FramesOf(stack)
        /\ UNCHANGED <<hcc, conn, ref, answers, alive>>
    BY <1>15, <1>16 DEF ReturnConnect, FrameKinds
  <2>2. CASE UNCHANGED http /\ (http = NoHttp \/ http.state # "READY")
    <3>1. ~Ready'
      BY <2>2, NoHttpType DEF Ready
    <3>2. QED
      BY <2>1, <2>2, <3>1
         DEF ShutdownAnswered, WaitingHasHttp, ReadyIsFree, HttpIsReferenced
  <2>3. CASE http # NoHttp /\ http' = Sent(ok)
    <3>1. http \in HttpType /\ http.cli
      BY <2>3 DEF TypeOK, CausesInv, TransportIsThere, ConnectsAreReported
    <3>2. http'.cli = TRUE /\ http'.id = http.id /\ http'.state = "BUSY"
      BY <2>3, <3>1 DEF Sent, HttpType
    <3>3. ~Ready' /\ http' # NoHttp
      BY <3>2, NoHttpType DEF Ready
    <3>4. QED
      BY <2>1, <2>3, <3>1, <3>2, <3>3
         DEF ShutdownAnswered, WaitingHasHttp, ReadyIsFree, HttpIsReferenced
  <2>4. QED
    BY <1>16, <2>2, <2>3 DEF ReturnConnect
<1>17. CASE ReturnResponse
  <2>1. /\ FramesOf(Tail(stack)) \subseteq FramesOf(stack)
        /\ Tail(stack) \in Seq(Frame) /\ Head(stack).id \in Requests
        /\ ~Running("connect")
        /\ UNCHANGED <<ref, owes, gets, alive>>
    BY <1>15, <1>17 DEF ReturnResponse, FrameKinds
  <2>2. CASE /\ Active(Head(stack).id)
             /\ CloseMethod(Tail(stack), hcc.timedOut)
    <3>1. http.cli /\ conn[http.id] # "closed" /\ hcc.timedOut \in BOOLEAN
      BY <1>0, <2>1, <2>2 DEF Open, Active, TypeOK
    <3>2. QED
      BY <2>1, <2>2, <3>1, CloseMethodKeepsWaiting
  <2>3. CASE /\ \/ stack' = Tail(stack)
                \/ stack' = Push("message", Head(stack).id, "onClose",
                                 Tail(stack))
             /\ UNCHANGED <<hcc, http, conn, answers, status, fault>>
    <3>1. FramesOf(Push("message", Head(stack).id, "onClose", Tail(stack)))
             = {[kind |-> "message", id |-> Head(stack).id,
                 event |-> "onClose"]} \cup FramesOf(Tail(stack))
      BY <2>1, FramesFollow DEF FrameKinds
    <3>2. \A f \in FramesOf(stack') :
             f.kind \in {"exception", "event"} => f \in FramesOf(stack)
      <4>1. CASE stack' = Tail(stack)
        BY <2>1, <4>1
      <4>2. CASE stack' = Push("message", Head(stack).id, "onClose",
                               Tail(stack))
        BY <2>1, <3>1, <4>2
      <4>3. QED
        BY <2>3, <4>1, <4>2
    <3>3. QED
      BY <2>1, <2>3, <3>2, CallbacksKeepWaiting
  <2>4. QED
    BY <1>17, <2>2, <2>3 DEF ReturnResponse
<1>18. CASE ReturnWaitClose
  <2>1. hcc'.onResponse = Null /\ http' = NoHttp
    BY <1>18 DEF ReturnWaitClose, TypeOK
  <2>2. QED
    BY <2>1, NoHttpType DEF ShutdownAnswered, WaitingHasHttp, ReadyIsFree,
       HttpIsReferenced
<1>19. CASE ReturnException
  <2>1. /\ Head(stack) \in FramesOf(stack) /\ Head(stack).kind = "exception"
        /\ FramesOf(Tail(stack)) \subseteq FramesOf(stack)
        /\ ~Running("connect")
        /\ UNCHANGED <<hcc, http, conn, ref, answers, alive>>
    BY <1>15, <1>19 DEF ReturnException, FrameKinds
  <2>2. FramesOf(stack') = {[kind |-> "event", id |-> Head(stack).id,
                             event |-> Head(stack).event]}
                              \cup FramesOf(Tail(stack))
    <3> DEFINE e == Head(stack).event
    <3>1. /\ e \in {"onError", "onClose"} /\ Head(stack).id \in Requests
          /\ Tail(stack) \in Seq(Frame)
          /\ stack' = Push("event", Head(stack).id, e, Tail(stack))
      BY <1>15, <1>19 DEF ReturnException, FrameKinds
    <3> HIDE DEF e
    <3>2. FramesOf(stack') = {[kind |-> "event", id |-> Head(stack).id,
                               event |-> e]} \cup FramesOf(Tail(stack))
      BY <3>1, FramesFollow DEF FrameKinds
    <3>3. QED
      BY <3>2 DEF e
  <2>3. QED
    BY <2>1, <2>2, CallbacksKeepWaiting
<1>20. CASE ReturnEvent
  <2>1. /\ Head(stack) \in FramesOf(stack) /\ Head(stack).kind = "event"
        /\ FramesOf(stack') \subseteq FramesOf(stack)
        /\ ~Running("connect")
        /\ ref' = ref \ {Head(stack).id}
        /\ UNCHANGED <<hcc, http, conn, answers, alive>>
    BY <1>15, <1>20 DEF ReturnEvent, FrameKinds
  <2>2. HttpIsReferenced'
    BY <2>1 DEF HttpIsReferenced
  <2>3. QED
    BY <2>1, <2>2 DEF ShutdownAnswered, WaitingHasHttp, ReadyIsFree, Ready,
       Active
<1>21. CASE ReturnMessage
  <2>1. /\ FramesOf(stack') \subseteq FramesOf(stack)
        /\ ~Running("connect")
        /\ UNCHANGED <<hcc, http, conn, ref, answers, alive>>
    BY <1>15, <1>21 DEF ReturnMessage, FrameKinds
  <2>2. QED
    BY <2>1, CallbacksKeepWaiting
<1>22. CASE UNCHANGED vars
  BY <1>22 DEF vars, ShutdownAnswered, WaitingHasHttp, ReadyIsFree,
     HttpIsReferenced, Ready, Active, Running
<1>23. QED
  BY <1>1, <1>2, <1>3, <1>5, <1>6, <1>7, <1>8, <1>9, <1>10, <1>11,
     <1>12, <1>13, <1>14, <1>16, <1>17, <1>18, <1>19, <1>20, <1>21, <1>22
     DEF Next, Get, ConnectEnds, Return

LEMMA WaitingInvariant ==
    ASSUME ConnectsAreReported
    PROVE  Spec => []WaitingInv
<1>1. Init => WaitingInv
  BY FramesEmpty, NoHttpType
     DEF Init, WaitingInv, ShutdownAnswered, WaitingHasHttp, ReadyIsFree,
         HttpIsReferenced, Ready
<1>2. TypeOK /\ IInv /\ CausesInv /\ WaitingInv /\ [Next]_vars => WaitingInv'
  BY NextKeepsWaiting
<1>3. QED
  BY <1>1, <1>2, TypeCorrect, InductiveInvariant, CausesInvariant, PTL
     DEF Spec

(* A request leaves hcc->onResponse only when its callback runs or ran, if *)
(* the script leaves the object alone in onConnect and every connect() and *)
(* download() of the system reports its result.                            *)
THEOREM RequestsAreKept ==
    ASSUME ConnectsAreReported
    PROVE  Spec => NoRequestOverwritten
<1>1. ASSUME TypeOK, IInv, CausesInv, WaitingInv, [Next]_vars,
             hcc'.onResponse # hcc.onResponse, hcc.onResponse # Null
      PROVE  answers'[hcc.onResponse] > 0
  <2> DEFINE changes == \/ \E r \in Requests :
                              \/ \E k, t \in BOOLEAN : GetConnecting(r, k, t)
                              \/ GetRefused(r)
                              \/ \E h \in BOOLEAN : GetAborted(r, h)
                              \/ GetWithoutFile(r)
                              \/ \E ok \in BOOLEAN : GetReusing(r, ok)
                        \/ Destruct
                        \/ \E g \in Requests, kind \in Kinds,
                              fin \in BOOLEAN : OnReceive(g, kind, fin)
                        \/ ReturnWaitClose
  <2>1. changes
    <3>1. \A event, g, below, timedOut :
             ExecuteCallback(event, g, below, timedOut)
                => hcc'.onResponse = hcc.onResponse
      BY <1>1 DEF ExecuteCallback, TypeOK
    <3>2. \A g, below, timedOut :
             ClientClose(g, below, timedOut)
                => hcc'.onResponse = hcc.onResponse
      BY <1>1, <3>1 DEF ClientClose, TypeOK
    <3>3. \A below, timedOut :
             CloseMethod(below, timedOut)
                => hcc'.onResponse = hcc.onResponse
      BY <1>1, <3>2 DEF CloseMethod, TypeOK
    <3>4. ~UNCHANGED hcc
      BY <1>1
    <3>5. QED
      BY <1>1, <3>1, <3>2, <3>3, <3>4
         DEF Next, Get, GetOnNullCli, Close, ConnectEnds, OnConnect, OnError,
             OnClose, OnRequestTimeout, OnMessage, Return, ReturnConnect,
             ReturnResponse, ReturnException, ReturnEvent, ReturnMessage,
             vars
  <2>2. ASSUME NEW r \in Requests, Accept(r), http = NoHttp \/ Ready
        PROVE  FALSE
    <3>1. ~hcc.shutdown /\ ~Running("connect")
      BY <2>2 DEF Accept, ScriptRuns, ConnectsAreReported
    <3>2. QED
      BY <1>1, <2>2, <3>1 DEF WaitingInv, WaitingHasHttp, ReadyIsFree
  <2>3. CASE Destruct
    <3>1. alive /\ ref = {} /\ UNCHANGED answers
      BY <2>3 DEF Destruct
    <3>2. hcc.shutdown
      BY <1>1, <3>1 DEF WaitingInv, WaitingHasHttp, HttpIsReferenced,
         CausesInv, TransportIsThere, ConnectsAreReported
    <3>3. QED
      BY <1>1, <3>1, <3>2 DEF WaitingInv, ShutdownAnswered
  <2>4. ASSUME NEW g \in Requests, NEW kind \in Kinds, NEW fin \in BOOLEAN,
               OnReceive(g, kind, fin)
        PROVE  answers'[hcc.onResponse] > 0
    <3>1. Answer(hcc.onResponse, "ok")
      BY <1>1, <2>4 DEF OnReceive
    <3>2. QED
      BY <1>1, <3>1, AnswerCounts
  <2>5. CASE ReturnWaitClose
    <3>1. /\ Head(stack) \in FramesOf(stack)
          /\ Head(stack).kind = "waitClose" /\ UNCHANGED answers
      BY <1>1, <2>5, FramesPop DEF ReturnWaitClose, Returns, Running, TypeOK
    <3>2. hcc.shutdown
      BY <1>1, <3>1 DEF IInv, EndFrames
    <3>3. QED
      BY <1>1, <3>1, <3>2 DEF WaitingInv, ShutdownAnswered
  <2>6. QED
    BY <2>1, <2>2, <2>3, <2>4, <2>5
       DEF GetConnecting, GetRefused, GetAborted, GetWithoutFile, GetReusing
<1>2. TypeOK /\ IInv /\ CausesInv /\ WaitingInv /\ [Next]_vars =>
         [hcc'.onResponse # hcc.onResponse /\ hcc.onResponse # Null
             => answers'[hcc.onResponse] > 0]_vars
  BY <1>1
<1>3. QED
  BY <1>2, TypeCorrect, InductiveInvariant, CausesInvariant,
     WaitingInvariant, PTL DEF Spec, NoRequestOverwritten

-----------------------------------------------------------------------------
(* HttpClient implements HttpRequest.                                      *)

(* A dead object's registered callback ran: what onClose clears behind a   *)
(* delivered response, and what no handler looks at again, is not pending. *)
ShutdownIsAnswered ==
    hcc.shutdown /\ hcc.onResponse # Null => answers[hcc.onResponse] > 0

RInv == TypeOK /\ IInv /\ ShutdownIsAnswered

-----------------------------------------------------------------------------
(* The steps of the object as the script sees them.                        *)

(* Nothing the script sees changes.                                        *)
Unseen == UNCHANGED <<gets, answers, alive>>
          /\ hcc'.onResponse = hcc.onResponse
          /\ hcc'.shutdown = hcc.shutdown

LEMMA UnseenStutters ==
    ASSUME RInv, Unseen
    PROVE  ShutdownIsAnswered' /\ UNCHANGED Promise!vars
BY DEF RInv, Unseen, ShutdownIsAnswered, Promise!vars, Pending, Dead

(* The registered callback runs, on an object that is not dead.            *)
LEMMA PendingIsRegistered ==
    ASSUME RInv, ~hcc.shutdown, hcc.onResponse # Null
    PROVE  /\ hcc.onResponse \in Requests
           /\ answers[hcc.onResponse] = 0
           /\ Pending = hcc.onResponse
BY WaitingType DEF RInv, IInv, RegisteredIsUnanswered, Pending

LEMMA AnswerAndShutdown ==
    ASSUME RInv, ~hcc.shutdown, hcc.onResponse # Null, NEW code,
           Answer(hcc.onResponse, code), UNCHANGED gets,
           hcc'.shutdown, hcc'.onResponse = hcc.onResponse
    PROVE  ShutdownIsAnswered' /\ Promise!Finish
<1>1. /\ hcc.onResponse \in Requests /\ answers[hcc.onResponse] = 0
      /\ Pending = hcc.onResponse
  BY PendingIsRegistered
<1>2. answers' = [answers EXCEPT ![hcc.onResponse] = 1]
  BY <1>1 DEF Answer
<1>3. answers'[hcc.onResponse] = 1
  BY <1>1, <1>2 DEF RInv, TypeOK
<1>4. Pending' = 0 /\ Dead'
  BY <1>3 DEF Pending, Dead, Null
<1>5. ShutdownIsAnswered'
  BY <1>3 DEF ShutdownIsAnswered
<1>6. QED
  BY <1>1, <1>2, <1>4, <1>5 DEF Promise!Finish, Null

LEMMA ExecuteCallbackRefines ==
    ASSUME RInv, ~hcc.shutdown, NEW g \in Requests,
           NEW event \in {"onError", "onClose"}, NEW below \in Seq(Frame),
           NEW timedOut \in BOOLEAN,
           ExecuteCallback(event, g, below, timedOut),
           UNCHANGED <<gets, alive>>
    PROVE  ShutdownIsAnswered' /\ (Promise!Finish \/ UNCHANGED Promise!vars)
<1>1. CASE hcc.onResponse = Null
  <2>1. Unseen
    BY <1>1 DEF ExecuteCallback, Unseen, RInv, TypeOK
  <2>2. QED
    BY <2>1, UnseenStutters
<1>2. CASE hcc.onResponse # Null
  <2>1. hcc'.shutdown /\ hcc'.onResponse = hcc.onResponse
    BY <1>2 DEF ExecuteCallback, RInv, TypeOK
  <2>2. PICK code : Answer(hcc.onResponse, code)
    BY <1>2 DEF ExecuteCallback
  <2>3. QED
    BY <1>2, <2>1, <2>2, AnswerAndShutdown
<1>3. QED
  BY <1>1, <1>2

LEMMA ClientCloseRefines ==
    ASSUME RInv, NEW g \in Requests, NEW below \in Seq(Frame),
           NEW timedOut \in BOOLEAN, ClientClose(g, below, timedOut),
           UNCHANGED <<gets, alive>>
    PROVE  ShutdownIsAnswered' /\ (Promise!Finish \/ UNCHANGED Promise!vars)
<1>1. CASE ~Active(g)
  <2>1. Unseen
    BY <1>1 DEF ClientClose, Unseen, RInv, TypeOK
  <2>2. QED
    BY <2>1, UnseenStutters
<1>2. CASE Active(g)
  <2>1. ~hcc.shutdown
    BY <1>2 DEF RInv, IInv, ShutdownIsSilent, Open
  <2>2. CASE http.state = "WAIT_CLOSE" /\ hcc.onResponse # Null
    <3>1. /\ hcc'.shutdown /\ hcc'.onResponse = hcc.onResponse
          /\ Answer(hcc.onResponse, "ok")
      BY <1>2, <2>2 DEF ClientClose, RInv, TypeOK
    <3>2. QED
      BY <2>1, <2>2, <3>1, AnswerAndShutdown
  <2>3. CASE http.state = "WAIT_CLOSE" /\ hcc.onResponse = Null
    <3>1. Unseen
      BY <1>2, <2>3 DEF ClientClose, Unseen
    <3>2. QED
      BY <3>1, UnseenStutters
  <2>4. CASE http.state # "WAIT_CLOSE"
    <3>1. ExecuteCallback("onClose", g, below, timedOut)
      BY <1>2, <2>4 DEF ClientClose
    <3>2. QED
      BY <2>1, <3>1, ExecuteCallbackRefines
  <2>5. QED
    BY <2>2, <2>3, <2>4
<1>3. QED
  BY <1>1, <1>2

LEMMA CloseMethodRefines ==
    ASSUME RInv, NEW below \in Seq(Frame), NEW timedOut \in BOOLEAN,
           CloseMethod(below, timedOut), UNCHANGED <<gets, alive>>
    PROVE  ShutdownIsAnswered' /\ (Promise!Finish \/ UNCHANGED Promise!vars)
<1>1. CASE http.cli /\ conn[http.id] # "closed"
  <2>1. http.id \in Requests /\ ClientClose(http.id, below, timedOut)
    BY <1>1 DEF CloseMethod, RInv, TypeOK
  <2>2. QED
    BY <2>1, ClientCloseRefines
<1>2. CASE ~(http.cli /\ conn[http.id] # "closed")
  <2>1. Unseen
    BY <1>2 DEF CloseMethod, Unseen, RInv, TypeOK
  <2>2. QED
    BY <2>1, UnseenStutters
<1>3. QED
  BY <1>1, <1>2

(* A request that waits for its answer after get() returned.               *)
LEMMA RegisterRefines ==
    ASSUME RInv, NEW r \in Requests, Accept(r), Registered(r),
           UNCHANGED answers
    PROVE  ShutdownIsAnswered' /\ Promise!Issue
<1>1. /\ answers[r] = 0 /\ r = gets + 1 /\ gets' = r /\ r # Null
      /\ ~hcc.shutdown /\ alive /\ alive'
  BY AcceptIsFresh DEF RInv
<1>2. hcc'.onResponse = r /\ hcc'.shutdown = hcc.shutdown
  BY DEF Registered, RInv, TypeOK
<1>3. Pending' = r
  BY <1>1, <1>2 DEF Pending
<1>4. ~Dead /\ UNCHANGED Dead
  BY <1>1, <1>2 DEF Dead, Accept
<1>5. gets < MaxGet
  BY DEF Accept
<1>6. ShutdownIsAnswered'
  BY <1>1, <1>2 DEF ShutdownIsAnswered
<1>7. Promise!Issue
  BY <1>1, <1>3, <1>4, <1>5 DEF Promise!Issue
<1>8. QED
  BY <1>6, <1>7

LEMMA NextRefines ==
    ASSUME RInv, [Next]_vars
    PROVE  ShutdownIsAnswered' /\ [Promise!Next]_(Promise!vars)
<1> USE DEF Promise!Next
<1>1. ASSUME NEW r \in Requests, NEW keepAlive \in BOOLEAN,
             NEW timeout \in BOOLEAN, GetConnecting(r, keepAlive, timeout)
      PROVE  ShutdownIsAnswered' /\ Promise!Issue
  BY <1>1, RegisterRefines DEF GetConnecting
<1>2. ASSUME NEW r \in Requests, GetRefused(r)
      PROVE  ShutdownIsAnswered' /\ Promise!IssueAndFail
  <2>1. /\ answers[r] = 0 /\ r = gets + 1 /\ gets' = r /\ r # Null
        /\ ~hcc.shutdown /\ alive
    BY <1>2, AcceptIsFresh DEF GetRefused, RInv
  <2>2. /\ hcc'.onResponse = r /\ hcc'.shutdown
        /\ answers' = [answers EXCEPT ![r] = 1]
    BY <1>2, <2>1 DEF GetRefused, Answer
  <2>3. answers'[r] = 1
    BY <2>2 DEF RInv, TypeOK
  <2>4. Pending' = 0 /\ ~Dead /\ Dead'
    BY <2>1, <2>2, <2>3 DEF Pending, Dead, Null
  <2>5. gets < MaxGet
    BY <1>2 DEF GetRefused, Accept
  <2>6. QED
    BY <2>1, <2>2, <2>3, <2>4, <2>5
       DEF ShutdownIsAnswered, Promise!IssueAndFail
<1>3. ASSUME NEW r \in Requests, NEW held \in BOOLEAN, GetAborted(r, held)
      PROVE  ShutdownIsAnswered' /\ Promise!Issue
  BY <1>3, RegisterRefines DEF GetAborted
<1>4. ASSUME NEW r \in Requests, GetWithoutFile(r)
      PROVE  ShutdownIsAnswered' /\ Promise!Issue
  BY <1>4, RegisterRefines DEF GetWithoutFile
<1>5. ASSUME NEW r \in Requests, NEW ok \in BOOLEAN, GetReusing(r, ok)
      PROVE  ShutdownIsAnswered' /\ Promise!Issue
  BY <1>5, RegisterRefines DEF GetReusing
<1>6. CASE GetOnNullCli
  BY <1>6, UnseenStutters DEF GetOnNullCli, Unseen
<1>7. CASE Close
  BY <1>7, CloseMethodRefines DEF Close, RInv, TypeOK
<1>8. CASE Destruct
  <2>1. /\ hcc'.onResponse = Null /\ ~alive'
        /\ UNCHANGED <<gets, answers>>
    BY <1>8 DEF Destruct, RInv, TypeOK
  <2>2. Pending' = 0 /\ Dead'
    BY <2>1 DEF Pending, Dead, Null
  <2>3. QED
    BY <2>1, <2>2 DEF ShutdownIsAnswered, Promise!Drop
<1>9. ASSUME NEW g \in Requests, OnConnect(g)
      PROVE  ShutdownIsAnswered' /\ UNCHANGED Promise!vars
  BY <1>9, UnseenStutters DEF OnConnect, Unseen
<1>10. ASSUME NEW g \in Requests, OnError(g)
       PROVE  ShutdownIsAnswered' /\ [Promise!Next]_(Promise!vars)
  <2>1. ~hcc.shutdown
    BY <1>10 DEF OnError, RInv, IInv, ShutdownIsSilent, Open
  <2>2. hcc.timedOut \in BOOLEAN
    BY DEF RInv, TypeOK
  <2>3. QED
    BY <1>10, <2>1, <2>2, EmptyType, ExecuteCallbackRefines DEF OnError
<1>11. ASSUME NEW g \in Requests, OnClose(g)
       PROVE  ShutdownIsAnswered' /\ [Promise!Next]_(Promise!vars)
  <2>1. hcc.timedOut \in BOOLEAN
    BY DEF RInv, TypeOK
  <2>2. QED
    BY <1>11, <2>1, EmptyType, ClientCloseRefines DEF OnClose
<1>12. CASE OnRequestTimeout
  BY <1>12, EmptyType, CloseMethodRefines DEF OnRequestTimeout
<1>13. ASSUME NEW g \in Requests, NEW kind \in Kinds, NEW fin \in BOOLEAN,
              OnReceive(g, kind, fin)
       PROVE  ShutdownIsAnswered' /\ [Promise!Next]_(Promise!vars)
  <2>1. UNCHANGED <<gets, alive>>
    BY <1>13 DEF OnReceive
  <2>2. CASE UNCHANGED <<hcc, answers>>
    BY <2>1, <2>2, UnseenStutters DEF Unseen
  <2>3. CASE /\ hcc.onResponse # Null /\ hcc' = Delivered
             /\ Answer(hcc.onResponse, "ok")
    <3>1. ~hcc.shutdown
      BY <1>13 DEF OnReceive, RInv, IInv, ShutdownIsSilent, Open, Active
    <3>2. /\ hcc.onResponse \in Requests /\ answers[hcc.onResponse] = 0
          /\ Pending = hcc.onResponse
      BY <2>3, <3>1, PendingIsRegistered
    <3>3. hcc'.onResponse = Null /\ hcc'.shutdown = hcc.shutdown
      BY <2>3 DEF Delivered, RInv, TypeOK
    <3>4. answers' = [answers EXCEPT ![hcc.onResponse] = 1]
      BY <2>3, <3>2 DEF Answer
    <3>5. Pending' = 0 /\ UNCHANGED Dead
      BY <2>1, <3>3 DEF Pending, Dead, Null
    <3>6. Promise!Respond
      BY <2>1, <2>3, <3>2, <3>4, <3>5 DEF Promise!Respond, Null
    <3>7. QED
      BY <3>3, <3>6 DEF ShutdownIsAnswered
  <2>4. QED
    BY <1>13, <2>2, <2>3 DEF OnReceive
<1>14. ASSUME NEW g \in Requests, OnMessage(g)
       PROVE  ShutdownIsAnswered' /\ UNCHANGED Promise!vars
  BY <1>14, UnseenStutters DEF OnMessage, Unseen
<1>15. ASSUME NEW ok \in BOOLEAN, ReturnConnect(ok)
       PROVE  ShutdownIsAnswered' /\ UNCHANGED Promise!vars
  BY <1>15, UnseenStutters DEF ReturnConnect, Unseen
<1>16. CASE ReturnResponse
  <2>1. UNCHANGED <<gets, alive>>
    BY <1>16 DEF ReturnResponse
  <2>2. Tail(stack) \in Seq(Frame) /\ hcc.timedOut \in BOOLEAN
    BY <1>16, PopType DEF ReturnResponse, Returns, Running, RInv, TypeOK
  <2>3. CASE CloseMethod(Tail(stack), hcc.timedOut)
    BY <2>1, <2>2, <2>3, CloseMethodRefines
  <2>4. CASE UNCHANGED <<hcc, answers>>
    BY <2>1, <2>4, UnseenStutters DEF Unseen
  <2>5. QED
    BY <1>16, <2>3, <2>4 DEF ReturnResponse
<1>17. CASE ReturnWaitClose
  <2>1. Head(stack) \in FramesOf(stack) /\ Head(stack).kind = "waitClose"
    BY <1>17, PopType, FramesPop
       DEF ReturnWaitClose, Returns, Running, RInv, TypeOK
  <2>2. hcc.shutdown
    BY <2>1 DEF RInv, IInv, EndFrames
  <2>3. Pending = Null
    BY <2>2 DEF RInv, ShutdownIsAnswered, Pending
  <2>4. /\ hcc'.onResponse = Null /\ hcc'.shutdown = hcc.shutdown
        /\ UNCHANGED <<gets, answers, alive>>
    BY <1>17 DEF ReturnWaitClose, RInv, TypeOK
  <2>5. Pending' = Null /\ UNCHANGED Dead
    BY <2>4 DEF Pending, Dead
  <2>6. QED
    BY <2>3, <2>4, <2>5 DEF ShutdownIsAnswered, Promise!vars
<1>18. CASE ReturnException
  BY <1>18, UnseenStutters DEF ReturnException, Unseen
<1>19. CASE ReturnEvent
  BY <1>19, UnseenStutters DEF ReturnEvent, Unseen
<1>20. CASE ReturnMessage
  BY <1>20, UnseenStutters DEF ReturnMessage, Unseen
<1>21. CASE UNCHANGED vars
  BY <1>21, UnseenStutters DEF vars, Unseen
<1>22. QED
  BY <1>1, <1>2, <1>3, <1>4, <1>5, <1>6, <1>7, <1>8, <1>9, <1>10, <1>11,
     <1>12, <1>13, <1>14, <1>15, <1>16, <1>17, <1>18, <1>19, <1>20, <1>21
     DEF Next, Get, ConnectEnds, Return

(* The object keeps the promise of HttpRequest: one answer per request,    *)
(* one request at a time, and silence once a request ended with its        *)
(* connection, however connections, timers and callbacks interleave.       *)
THEOREM Refinement == Spec => KeepsPromise
<1>1. Init => ShutdownIsAnswered /\ Promise!Init
  BY DEF Init, ShutdownIsAnswered, Promise!Init, Pending, Dead, Null,
         Requests, Promise!Requests
<1>2. TypeOK /\ IInv /\ ShutdownIsAnswered /\ [Next]_vars
        => ShutdownIsAnswered' /\ [Promise!Next]_(Promise!vars)
  BY NextRefines DEF RInv
<1>3. QED
  BY <1>1, <1>2, TypeCorrect, InductiveInvariant, PTL
     DEF Spec, KeepsPromise, Promise!Spec
=============================================================================

-------------------------- MODULE AsyncClientProofs --------------------------
(***************************************************************************)
(* Theorems about AsyncClient, for any number of connections and any       *)
(* behaviour of the script and the system.                                 *)
(***************************************************************************)
EXTENDS AsyncClient, SequenceTheorems, TLAPS

USE MaxConnectAssumption DEF Connections, Ids, Null

-----------------------------------------------------------------------------
(* Stacks of callbacks.                                                    *)

EndingIn(s, g) ==
    \E i \in 1..Len(s) : s[i].kind \in Endings /\ s[i].id = g

(* The end of a connection is told once.                                   *)
OnceIn(s) ==
    \A i, j \in 1..Len(s) :
        /\ s[i].kind \in Endings /\ s[j].kind \in Endings
        /\ s[i].id = s[j].id
        => i = j

WithinIn(s) == \E i \in 1..Len(s) : s[i].within

LEMMA EndingIsIn ==
    ASSUME stack \in Seq(Frame), NEW g
    PROVE  Ending(g) <=> EndingIn(stack, g)
BY DEF Ending, EndingIn

LEMMA EmptyStack ==
    /\ \A g : ~EndingIn(<<>>, g)
    /\ OnceIn(<<>>)
    /\ ~WithinIn(<<>>)
BY DEF EndingIn, OnceIn, WithinIn

LEMMA PushedFrames ==
    ASSUME NEW s \in Seq(Frame), NEW f \in Frame
    PROVE  /\ <<f>> \o s \in Seq(Frame)
           /\ Len(<<f>> \o s) = Len(s) + 1
           /\ Len(s) \in Nat
           /\ (<<f>> \o s)[1] = f
           /\ \A i \in 1..Len(s) : (<<f>> \o s)[i + 1] = s[i]
           /\ \A i \in 1..Len(s) + 1 : i # 1 =>
                 i - 1 \in 1..Len(s) /\ (<<f>> \o s)[i] = s[i - 1]
BY DEF Frame

LEMMA PushFrame ==
    ASSUME NEW s \in Seq(Frame), NEW f \in Frame
    PROVE  /\ \A g : EndingIn(<<f>> \o s, g) <=>
                 EndingIn(s, g) \/ (f.kind \in Endings /\ f.id = g)
           /\ OnceIn(s) /\ (f.kind \in Endings => ~EndingIn(s, f.id))
                 => OnceIn(<<f>> \o s)
           /\ WithinIn(<<f>> \o s) <=> WithinIn(s) \/ f.within
<1> DEFINE t == <<f>> \o s
<1>1. /\ Len(t) = Len(s) + 1 /\ Len(s) \in Nat /\ t[1] = f
      /\ \A i \in 1..Len(s) : t[i + 1] = s[i]
      /\ \A i \in 1..Len(s) + 1 : i # 1 =>
            i - 1 \in 1..Len(s) /\ t[i] = s[i - 1]
  BY PushedFrames
<1> HIDE DEF t
<1>2. \A i \in 1..Len(s) : i + 1 \in 1..Len(t)
  BY <1>1
<1>3. 1 \in 1..Len(t)
  BY <1>1
<1>4. ASSUME NEW g
      PROVE  EndingIn(t, g) <=>
                 EndingIn(s, g) \/ (f.kind \in Endings /\ f.id = g)
  <2>1. EndingIn(t, g) => EndingIn(s, g) \/ (f.kind \in Endings /\ f.id = g)
    BY <1>1 DEF EndingIn
  <2>2. EndingIn(s, g) => EndingIn(t, g)
    BY <1>1, <1>2 DEF EndingIn
  <2>3. f.kind \in Endings /\ f.id = g => EndingIn(t, g)
    BY <1>1, <1>3 DEF EndingIn
  <2> QED BY <2>1, <2>2, <2>3
<1>5. ASSUME OnceIn(s), f.kind \in Endings => ~EndingIn(s, f.id),
             NEW i \in 1..Len(t), NEW j \in 1..Len(t),
             t[i].kind \in Endings, t[j].kind \in Endings, t[i].id = t[j].id
      PROVE  i = j
  <2>1. CASE i = 1 /\ j = 1
    BY <2>1
  <2>2. CASE i # 1 /\ j # 1
    BY <1>1, <1>5, <2>2 DEF OnceIn
  <2>3. CASE i = 1 /\ j # 1
    BY <1>1, <1>5, <2>3 DEF EndingIn
  <2>4. CASE i # 1 /\ j = 1
    BY <1>1, <1>5, <2>4 DEF EndingIn
  <2> QED BY <2>1, <2>2, <2>3, <2>4
<1>6. WithinIn(t) <=> WithinIn(s) \/ f.within
  <2>1. WithinIn(t) => WithinIn(s) \/ f.within
    BY <1>1 DEF WithinIn
  <2>2. WithinIn(s) => WithinIn(t)
    BY <1>1, <1>2 DEF WithinIn
  <2>3. f.within => WithinIn(t)
    BY <1>1, <1>3 DEF WithinIn
  <2> QED BY <2>1, <2>2, <2>3
<1>7. OnceIn(s) /\ (f.kind \in Endings => ~EndingIn(s, f.id)) => OnceIn(t)
  BY <1>5 DEF OnceIn
<1> QED BY <1>4, <1>6, <1>7 DEF t

LEMMA PopFrame ==
    ASSUME NEW s \in Seq(Frame), s # <<>>, OnceIn(s)
    PROVE  /\ Head(s) \in Frame /\ Tail(s) \in Seq(Frame)
           /\ \A g : EndingIn(Tail(s), g) <=>
                 EndingIn(s, g) /\ ~(Head(s).kind \in Endings /\ Head(s).id = g)
           /\ OnceIn(Tail(s))
           /\ WithinIn(Tail(s)) \/ Head(s).within => WithinIn(s)
<1> DEFINE t == Tail(s)
<1>1. /\ Len(s) \in Nat /\ Len(s) > 0
      /\ Len(t) = Len(s) - 1 /\ t \in Seq(Frame)
      /\ \A i \in 1..Len(t) : t[i] = s[i + 1]
      /\ Head(s) = s[1] /\ s[1] \in Frame
  BY HeadTailProperties, EmptySeq, LenProperties
<1> HIDE DEF t
<1>2. /\ \A i \in 1..Len(t) : i + 1 \in 1..Len(s)
      /\ \A i \in 1..Len(s) : i # 1 => i - 1 \in 1..Len(t) /\ s[i] = t[i - 1]
      /\ 1 \in 1..Len(s)
  BY <1>1
<1>3. ASSUME NEW g
      PROVE  EndingIn(t, g) <=>
                 EndingIn(s, g) /\ ~(Head(s).kind \in Endings /\ Head(s).id = g)
  <2>1. ASSUME EndingIn(t, g)
        PROVE  EndingIn(s, g) /\ ~(Head(s).kind \in Endings /\ Head(s).id = g)
    <3> PICK i \in 1..Len(t) : t[i].kind \in Endings /\ t[i].id = g
      BY <2>1 DEF EndingIn
    <3>1. i + 1 \in 1..Len(s) /\ s[i + 1].kind \in Endings /\ s[i + 1].id = g
      BY <1>1, <1>2
    <3>2. i + 1 # 1
      BY <1>1
    <3> QED BY <1>1, <1>2, <3>1, <3>2 DEF EndingIn, OnceIn
  <2>2. ASSUME EndingIn(s, g), ~(Head(s).kind \in Endings /\ Head(s).id = g)
        PROVE  EndingIn(t, g)
    BY <1>1, <1>2, <2>2 DEF EndingIn
  <2> QED BY <2>1, <2>2
<1>4. OnceIn(t)
  <2> SUFFICES ASSUME NEW i \in 1..Len(t), NEW j \in 1..Len(t),
                      t[i].kind \in Endings, t[j].kind \in Endings,
                      t[i].id = t[j].id
               PROVE  i = j
    BY DEF OnceIn
  <2>1. i + 1 = j + 1
    BY <1>1, <1>2 DEF OnceIn
  <2> QED BY <1>1, <2>1
<1>5. WithinIn(t) \/ Head(s).within => WithinIn(s)
  BY <1>1, <1>2 DEF WithinIn
<1> QED BY <1>1, <1>3, <1>4, <1>5 DEF t

-----------------------------------------------------------------------------
(* The inductive invariant.                                                *)

(* ReferencesBalance, for the stack as a sequence.                         *)
Balance ==
    fault # "fatal" => \A g \in Connections :
        held[g] = IF \/ conn[g] = "idle" \/ Open(g)
                     \/ EndingIn(stack, g) \/ Leaks(g) THEN 1 ELSE 0

(* The connections before the object's own are over.                       *)
OneClient ==
    /\ cli.id = Null => cli = NoCli
    /\ cli.id <= connects
    /\ \A g \in Connections :
          /\ conn[g] = "none" <=> g > connects
          /\ g # cli.id => conn[g] \in {"none", "closed"}

(* connect() installs a handler, and sendto() none.                        *)
WhoseHandlers ==
    \A g \in Connections :
        /\ conn[g] = "unconnected" => cli.on = {}
        /\ Open(g) => cli.on # {}
        /\ conn[g] = "idle" /\ fault # "fatal" => cli.on # {}

(* The end of a connection is being told once, and the object is free of   *)
(* it; behind a connect() that fails, a client that is not from sendto()   *)
(* has an onError.                                                         *)
FramesAreRight ==
    /\ \A g \in Connections :
          EndingIn(stack, g) => conn[g] = "closed" /\ g # cli.id
    /\ OnceIn(stack)
    /\ WithinIn(stack) => /\ "onError" \in cb
                          /\ cli.on = {} \/ "onError" \in cli.on

IInv ==
    /\ TypeOK
    /\ HandlersFindTheirObject
    /\ Balance
    /\ SocketIsCurrent
    /\ OneClient
    /\ WhoseHandlers
    /\ FramesAreRight

LEMMA InitInvariant == Init => IInv
<1> SUFFICES ASSUME Init PROVE IInv
  OBVIOUS
<1>1. TypeOK
  BY DEF Init, TypeOK, CliType, NoCli, Phases, Faults, Callbacks, Events
<1>2. HandlersFindTheirObject /\ SocketIsCurrent /\ OneClient
  BY DEF Init, HandlersFindTheirObject, SocketIsCurrent, OneClient, Open, NoCli
<1>3. Balance /\ WhoseHandlers /\ FramesAreRight
  BY EmptyStack
     DEF Init, Balance, WhoseHandlers, FramesAreRight, Open, Leaks, NoCli
<1> QED BY <1>1, <1>2, <1>3 DEF IInv

(* A step that tells no end: at most another callback runs.                *)
Quiet ==
    /\ stack' \in Seq(Frame)
    /\ told' \in [Connections -> {"nothing"} \cup Callbacks]
    /\ \A g \in Connections : EndingIn(stack', g) <=> EndingIn(stack, g)
    /\ OnceIn(stack')
    /\ WithinIn(stack') <=> WithinIn(stack)

LEMMA UnchangedIsQuiet ==
    ASSUME IInv, UNCHANGED <<stack, told>>
    PROVE  Quiet
BY DEF IInv, TypeOK, FramesAreRight, Quiet

LEMMA CallIsQuiet ==
    ASSUME IInv, NEW kind \in Callbacks \ Endings, NEW g \in Connections,
           stack' = Called(kind, g, stack), Tell(g, kind)
    PROVE  Quiet
<1> DEFINE f == [kind |-> kind, id |-> g, within |-> FALSE]
<1>1. f \in Frame /\ f.kind \notin Endings /\ ~f.within
  BY DEF Frame
<1>2. stack \in Seq(Frame) /\ OnceIn(stack) /\ stack' = <<f>> \o stack
  BY DEF IInv, TypeOK, FramesAreRight, Called
<1>3. told' \in [Connections -> {"nothing"} \cup Callbacks]
  BY DEF IInv, TypeOK, Tell
<1> HIDE DEF f
<1> QED BY <1>1, <1>2, <1>3, PushedFrames, PushFrame DEF Quiet

(* A step that leaves the object its client and its connections theirs.    *)
LEMMA SameClient ==
    ASSUME IInv, Quiet,
           UNCHANGED <<stream, held, script, connects, alive, fault>>,
           cb \subseteq cb', cb' \in SUBSET Events,
           cli' \in CliType, cli'.id = cli.id, cli'.on = cli.on,
           cli'.id = Null => cli' = NoCli,
           zsocket' \in {zsocket, cli.id},
           conn' \in [Connections -> Phases],
           \A g \in Connections :
              conn'[g] = conn[g] \/ (Open(g) /\ conn'[g] = "connected")
    PROVE  IInv'
<1>1. TypeOK'
  BY DEF IInv, TypeOK, Quiet, CliType
<1>2. \A g \in Connections : Open(g)' <=> Open(g)
  BY DEF Open
<1>3. HandlersFindTheirObject'
  BY <1>2 DEF IInv, HandlersFindTheirObject
<1>4. SocketIsCurrent' /\ OneClient'
  BY DEF IInv, SocketIsCurrent, OneClient, Open
<1>5. WhoseHandlers'
  BY <1>2 DEF IInv, WhoseHandlers, Open
<1>6. Balance'
  BY <1>2 DEF IInv, Balance, Leaks, Quiet, Open
<1>7. FramesAreRight'
  BY DEF IInv, FramesAreRight, Quiet, Open
<1> QED BY <1>1, <1>3, <1>4, <1>5, <1>6, <1>7 DEF IInv

(* A client is created: for a connection, with handlers and a reference,   *)
(* or for sendto() or a connect() that is fatal, with neither.             *)
LEMMA CreatesClient ==
    ASSUME IInv, Quiet, NEW g \in Connections, Creates(g),
           NEW on \in SUBSET cb, cli' = NewCli(g, on),
           "onError" \in cb => on = {} \/ "onError" \in on,
           NEW p \in {"idle", "connecting", "connected", "unconnected"},
           conn' = [conn EXCEPT ![g] = p],
           UNCHANGED zsocket,
           \/ /\ on # {} /\ p # "unconnected"
              /\ held' = AddRef(g) /\ UNCHANGED fault
           \/ /\ on = {} /\ p = "unconnected"
              /\ UNCHANGED <<held, fault>>
           \/ /\ on = {} /\ p = "idle"
              /\ fault' = "fatal" /\ UNCHANGED held
    PROVE  IInv'
<1> USE DEF IInv
<1>1. /\ cli = NoCli /\ cli.id = 0 /\ g # 0
      /\ connects \in Nat /\ g = connects + 1 /\ connects' = g
      /\ alive /\ fault = "none"
      /\ UNCHANGED <<stream, cb, script, alive>>
  BY DEF Creates, ScriptRuns, TypeOK, NoCli
<1>2. conn[g] = "none" /\ \A h \in Connections : conn[h] \in {"none", "closed"}
  BY <1>1 DEF OneClient
<1>3. held[g] = 0
  BY <1>1, <1>2 DEF Balance, Open, Leaks, FramesAreRight
<1>4. cli'.id = g /\ cli'.on = on /\ cli' \in CliType
  <2>1. cli' = [id |-> g, on |-> on, tls |-> "off", full |-> FALSE,
                asleep |-> FALSE]
    BY DEF NewCli, NoCli
  <2>2. on \in SUBSET Events
    BY DEF TypeOK
  <2> QED BY <2>1, <2>2 DEF CliType
<1>5. conn' \in [Connections -> Phases] /\ conn'[g] = p
      /\ \A h \in Connections : h # g => conn'[h] = conn[h]
  BY DEF TypeOK, Phases
<1>6. held' \in [Connections -> Nat]
      /\ held'[g] = (IF on # {} THEN 1 ELSE 0)
      /\ \A h \in Connections : h # g => held'[h] = held[h]
  BY <1>3 DEF TypeOK, AddRef
<1>7. \A h \in Connections : Open(h)' <=> h = g /\ p \in {"connecting", "connected"}
  BY <1>2, <1>5 DEF Open
<1>8. TypeOK'
  BY <1>1, <1>4, <1>5, <1>6 DEF TypeOK, Quiet, Faults
<1>9. HandlersFindTheirObject'
  BY <1>1, <1>4, <1>6, <1>7 DEF HandlersFindTheirObject
<1>10. SocketIsCurrent' /\ OneClient'
  BY <1>1, <1>2, <1>4, <1>5 DEF SocketIsCurrent, OneClient
<1>11. WhoseHandlers'
  BY <1>1, <1>2, <1>4, <1>5, <1>7 DEF WhoseHandlers
<1>12. FramesAreRight'
  BY <1>1, <1>2, <1>4, <1>5 DEF FramesAreRight, Quiet
<1>13. Balance'
  <2> SUFFICES ASSUME fault' # "fatal", NEW h \in Connections
               PROVE  held'[h] = IF \/ conn'[h] = "idle" \/ Open(h)'
                                    \/ EndingIn(stack', h) \/ Leaks(h)'
                                 THEN 1 ELSE 0
    BY DEF Balance
  <2>0. fault' # "fatal"
    OBVIOUS
  <2>1. CASE h = g
    <3>1. ~EndingIn(stack', h)
      BY <1>2, <2>1 DEF FramesAreRight, Quiet
    <3>2. ~Leaks(h)'
      BY <1>5, <2>1 DEF Leaks
    <3>3. p = "unconnected" => on = {}
      OBVIOUS
    <3>4. p = "idle" => on # {}
      BY <2>0
    <3> QED BY <1>5, <1>6, <1>7, <2>1, <3>1, <3>2, <3>3, <3>4
  <2>2. CASE h # g
    <3>1. conn'[h] = conn[h] /\ conn[h] \in {"none", "closed"}
      BY <1>2, <1>5, <2>2
    <3>2. ~Open(h) /\ ~Open(h)' /\ ~Leaks(h) /\ ~Leaks(h)'
      BY <3>1 DEF Open, Leaks
    <3>3. held'[h] = held[h] /\ (EndingIn(stack', h) <=> EndingIn(stack, h))
      BY <1>6, <2>2 DEF Quiet
    <3> QED BY <1>1, <3>1, <3>2, <3>3 DEF Balance
  <2> QED BY <2>1, <2>2
<1> QED BY <1>8, <1>9, <1>10, <1>11, <1>12, <1>13

(* The end of a connection: the object is free, and the reference stays    *)
(* until the callback returns.                                             *)
LEMMA EndingIsCalled ==
    ASSUME IInv, NEW g \in Connections, NEW event \in Endings,
           NEW within \in BOOLEAN, CallEnding(g, event, within),
           fault = "none",
           UNCHANGED <<stream, cb, script, alive, fault>>,
           within => event = "onError" /\ "onError" \in cb,
           \/ Open(g) /\ UNCHANGED <<held, connects>>
           \/ Creates(g) /\ held' = AddRef(g)
    PROVE  IInv'
<1> USE DEF IInv
<1> DEFINE f == [kind |-> event, id |-> g, within |-> within]
<1>1. /\ f \in Frame /\ f.kind \in Endings /\ f.id = g /\ f.within = within
      /\ event \in Callbacks
  BY DEF Frame, Endings, Callbacks, Events
<1>2. /\ cli' = NoCli /\ zsocket' = 0 /\ stack' = <<f>> \o stack
      /\ conn' = [conn EXCEPT ![g] = "closed"]
      /\ told' = [told EXCEPT ![g] = event]
  BY DEF CallEnding, AsyncClientFree, Tell
<1>3. NoCli \in CliType /\ NoCli.id = 0 /\ NoCli.on = {}
  BY DEF NoCli, CliType
<1>4. /\ conn[g] # "closed"
      /\ \A h \in Connections : h # g => conn[h] \in {"none", "closed"}
      /\ connects' \in Ids
      /\ \A h \in Connections : h # g => (conn[h] = "none" <=> h > connects')
      /\ ~(g > connects')
  <2>1. CASE Open(g) /\ UNCHANGED <<held, connects>>
    BY <2>1 DEF Open, HandlersFindTheirObject, OneClient, TypeOK
  <2>2. CASE Creates(g) /\ held' = AddRef(g)
    <3>1. cli.id = 0 /\ connects \in Nat /\ g = connects + 1 /\ connects' = g
      BY <2>2 DEF Creates, NoCli, TypeOK
    <3>2. conn[g] = "none"
      BY <3>1 DEF OneClient
    <3>3. \A h \in Connections : conn[h] \in {"none", "closed"}
      BY <3>1 DEF OneClient
    <3>4. \A h \in Connections : h # g => (h > connects <=> h > connects')
      BY <3>1
    <3>5. \A h \in Connections : h # g => (conn[h] = "none" <=> h > connects')
      BY <3>4 DEF OneClient
    <3> QED BY <3>1, <3>2, <3>3, <3>5
  <2> QED BY <2>1, <2>2
<1>5. ~EndingIn(stack, g)
  BY <1>4 DEF FramesAreRight
<1>6. held' \in [Connections -> Nat] /\ held'[g] = 1
      /\ \A h \in Connections : h # g => held'[h] = held[h]
  <2>1. CASE Open(g) /\ UNCHANGED <<held, connects>>
    BY <2>1 DEF Balance, TypeOK
  <2>2. CASE Creates(g) /\ held' = AddRef(g)
    <3>1. conn[g] = "none"
      BY <2>2 DEF Creates, OneClient, NoCli, TypeOK
    <3>2. held[g] = 0
      BY <1>5, <3>1 DEF Balance, Open, Leaks
    <3> QED BY <2>2, <3>2 DEF AddRef, TypeOK
  <2> QED BY <2>1, <2>2
<1>7. /\ conn' \in [Connections -> Phases] /\ conn'[g] = "closed"
      /\ \A h \in Connections : h # g => conn'[h] = conn[h]
  BY <1>2 DEF TypeOK, Phases
<1> HIDE DEF f
<1>8. stack \in Seq(Frame) /\ OnceIn(stack)
  BY DEF TypeOK, FramesAreRight
<1>9. /\ stack' \in Seq(Frame) /\ OnceIn(stack')
      /\ \A h : EndingIn(stack', h) <=> EndingIn(stack, h) \/ h = g
      /\ WithinIn(stack') <=> WithinIn(stack) \/ within
  BY <1>1, <1>2, <1>5, <1>8, PushedFrames, PushFrame
<1>10. \A h \in Connections : conn'[h] \in {"none", "closed"}
  BY <1>4, <1>7
<1>11. TypeOK'
  BY <1>1, <1>2, <1>3, <1>4, <1>6, <1>7, <1>9 DEF TypeOK
<1>12. /\ HandlersFindTheirObject' /\ SocketIsCurrent' /\ WhoseHandlers'
       /\ \A h \in Connections : ~Open(h)'
  BY <1>2, <1>10
     DEF HandlersFindTheirObject, SocketIsCurrent, WhoseHandlers, Open
<1>13. OneClient'
  BY <1>2, <1>3, <1>4, <1>7 DEF OneClient
<1>14. FramesAreRight'
  BY <1>2, <1>3, <1>7, <1>9 DEF FramesAreRight
<1>15. Balance'
  <2> SUFFICES ASSUME NEW h \in Connections
               PROVE  held'[h] = IF \/ conn'[h] = "idle" \/ Open(h)'
                                    \/ EndingIn(stack', h) \/ Leaks(h)'
                                 THEN 1 ELSE 0
    BY DEF Balance
  <2>1. CASE h = g
    BY <1>6, <1>9, <2>1
  <2>2. CASE h # g
    <3>1. conn'[h] = conn[h] /\ conn[h] \in {"none", "closed"}
      BY <1>4, <1>7, <2>2
    <3>2. ~Open(h) /\ ~Open(h)' /\ ~Leaks(h) /\ ~Leaks(h)'
      BY <3>1 DEF Open, Leaks
    <3>3. held'[h] = held[h] /\ (EndingIn(stack', h) <=> EndingIn(stack, h))
      BY <1>6, <1>9, <2>2
    <3> QED BY <3>1, <3>2, <3>3 DEF Balance
  <2> QED BY <2>1, <2>2
<1> QED BY <1>11, <1>12, <1>13, <1>14, <1>15

(* close() where no callback is due.                                       *)
LEMMA CloseInSilence ==
    ASSUME IInv, fault = "none", cli # NoCli, held' = ClosedRefs(cli.id),
           \/ /\ conn[cli.id] \in {"idle", "connecting"}
              /\ conn' = [conn EXCEPT ![cli.id] = "closed"]
           \/ /\ conn[cli.id] \in {"connected", "unconnected"}
              /\ conn' = [conn EXCEPT ![cli.id] = "silent"],
           UNCHANGED <<stream, cb, cli, zsocket, script, stack, told,
                       connects, alive, fault>>
    PROVE  IInv'
<1> USE DEF IInv
<1> DEFINE g == cli.id
<1>1. g \in Connections /\ conn[g] # "none" /\ conn[g] # "closed"
  BY DEF OneClient, TypeOK, CliType
<1>2. ~EndingIn(stack, g)
  BY <1>1 DEF FramesAreRight
<1>3. held[g] = IF conn[g] = "idle" \/ Open(g) THEN 1 ELSE 0
  BY <1>1, <1>2 DEF Balance, Leaks
<1>4. /\ held' \in [Connections -> Nat]
      /\ held'[g] = (IF conn[g] = "connected" THEN 1 ELSE 0)
      /\ \A h \in Connections : h # g => held'[h] = held[h]
  BY <1>1, <1>3 DEF ClosedRefs, DropRef, TypeOK, Open
<1>5. /\ conn' \in [Connections -> Phases]
      /\ conn'[g] = IF conn[g] \in {"connected", "unconnected"}
                    THEN "silent" ELSE "closed"
      /\ \A h \in Connections : h # g => conn'[h] = conn[h]
  BY <1>1 DEF TypeOK, Phases
<1>6. \A h \in Connections : ~Open(h)'
  BY <1>5 DEF OneClient, Open
<1>7. TypeOK'
  BY <1>4, <1>5 DEF TypeOK
<1>8. HandlersFindTheirObject' /\ SocketIsCurrent'
  BY <1>6 DEF HandlersFindTheirObject, SocketIsCurrent
<1>9. OneClient'
  BY <1>1, <1>5 DEF OneClient
<1>10. WhoseHandlers'
  BY <1>5, <1>6 DEF WhoseHandlers
<1>11. FramesAreRight'
  BY <1>1, <1>5 DEF FramesAreRight
<1>12. Balance'
  <2> SUFFICES ASSUME NEW h \in Connections
               PROVE  held'[h] = IF \/ conn'[h] = "idle" \/ Open(h)'
                                    \/ EndingIn(stack, h) \/ Leaks(h)'
                                 THEN 1 ELSE 0
    BY DEF Balance
  <2>1. CASE h = g
    <3>1. conn[g] = "connected" => cli.on # {}
      BY <1>1 DEF WhoseHandlers, Open
    <3>2. conn[g] = "unconnected" => cli.on = {}
      BY <1>1 DEF WhoseHandlers
    <3>3. Leaks(h)' <=> conn[h] = "connected"
      BY <1>1, <1>5, <2>1, <3>1, <3>2 DEF Leaks
    <3>4. conn'[h] # "idle" /\ ~Open(h)'
      BY <1>1, <1>5, <1>6, <2>1
    <3>5. ~EndingIn(stack, h) /\ held'[h] = (IF conn[h] = "connected" THEN 1 ELSE 0)
      BY <1>2, <1>4, <2>1
    <3> QED BY <3>3, <3>4, <3>5
  <2>2. CASE h # g
    <3>1. conn'[h] = conn[h] /\ conn[h] \in {"none", "closed"}
      BY <1>5, <2>2 DEF OneClient
    <3>2. ~Open(h) /\ ~Open(h)' /\ ~Leaks(h) /\ ~Leaks(h)'
      BY <3>1 DEF Open, Leaks
    <3> QED BY <1>4, <2>2, <3>1, <3>2 DEF Balance
  <2> QED BY <2>1, <2>2
<1> QED BY <1>7, <1>8, <1>9, <1>10, <1>11, <1>12

(* A reference is dropped, and the object with the last one.               *)
LEMMA ReferenceIsDropped ==
    ASSUME IInv, fault = "none",
           UNCHANGED <<stream, cli, zsocket, told, connects, fault>>,
           script' \in BOOLEAN,
           stack' \in Seq(Frame), OnceIn(stack'),
           \A g \in Connections : EndingIn(stack', g) => EndingIn(stack, g),
           WithinIn(stack') => WithinIn(stack),
           held' \in [Connections -> Nat],
           \A g \in Connections :
              held'[g] = IF \/ conn[g] = "idle" \/ Open(g)
                            \/ EndingIn(stack', g) \/ Leaks(g) THEN 1 ELSE 0,
           DestructIfLast
    PROVE  IInv'
<1> USE DEF IInv
<1>1. CASE UNCHANGED <<alive, cb, conn>>
  <2>1. \A g \in Connections : (Open(g)' <=> Open(g)) /\ (Leaks(g)' <=> Leaks(g))
    BY <1>1 DEF Open, Leaks
  <2>2. TypeOK'
    BY <1>1 DEF TypeOK
  <2>3. HandlersFindTheirObject'
    BY <1>1, <2>1 DEF HandlersFindTheirObject
  <2>4. SocketIsCurrent' /\ OneClient' /\ WhoseHandlers'
    BY <1>1, <2>1 DEF SocketIsCurrent, OneClient, WhoseHandlers
  <2>5. FramesAreRight'
    BY <1>1 DEF FramesAreRight
  <2>6. Balance'
    BY <1>1, <2>1 DEF Balance
  <2> QED BY <2>2, <2>3, <2>4, <2>5, <2>6
<1>2. CASE LastReference /\ Destruct
  <2>1. stack' = <<>> /\ \A g \in Connections : held'[g] = 0
    BY <1>2 DEF LastReference
  <2>2. \A g \in Connections : ~Open(g) /\ conn[g] # "idle" /\ ~Leaks(g)
    BY <2>1
  <2>3. /\ alive' = FALSE /\ cb' = {}
        /\ conn' = IF cli # NoCli THEN [conn EXCEPT ![cli.id] = "closed"]
                                  ELSE conn
    BY <1>2 DEF Destruct
  <2>4. /\ conn' \in [Connections -> Phases]
        /\ \A g \in Connections : conn'[g] = conn[g]
              \/ (g = cli.id /\ conn[g] # "none" /\ conn'[g] = "closed")
    <3>1. cli # NoCli => cli.id \in Connections /\ conn[cli.id] # "none"
      BY DEF TypeOK, CliType, OneClient
    <3> QED BY <2>3, <3>1 DEF TypeOK, Phases
  <2>5. \A g \in Connections : ~Open(g)' /\ ~Leaks(g)' /\ conn'[g] # "idle"
    BY <2>2, <2>4 DEF Open, Leaks
  <2>6. TypeOK'
    BY <2>3, <2>4 DEF TypeOK
  <2>7. HandlersFindTheirObject' /\ SocketIsCurrent'
    BY <2>5 DEF HandlersFindTheirObject, SocketIsCurrent
  <2>8. OneClient'
    BY <2>4 DEF OneClient
  <2>9. WhoseHandlers'
    BY <2>4, <2>5 DEF WhoseHandlers
  <2>10. FramesAreRight' /\ Balance'
    BY <2>1, <2>5, EmptyStack DEF FramesAreRight, Balance
  <2> QED BY <2>6, <2>7, <2>8, <2>9, <2>10
<1> QED BY <1>1, <1>2 DEF DestructIfLast

(* The innermost callback returns.                                         *)
LEMMA CallbackReturns ==
    ASSUME IInv, fault = "none", stack # <<>>, stack' = Tail(stack),
           held' = ReturnedRefs(Head(stack))
    PROVE  /\ Head(stack) \in Frame
           /\ Head(stack).within => WithinIn(stack)
           /\ stack' \in Seq(Frame) /\ OnceIn(stack')
           /\ \A g \in Connections : EndingIn(stack', g) => EndingIn(stack, g)
           /\ WithinIn(stack') => WithinIn(stack)
           /\ held' \in [Connections -> Nat]
           /\ \A g \in Connections :
                held'[g] = IF \/ conn[g] = "idle" \/ Open(g)
                              \/ EndingIn(stack', g) \/ Leaks(g) THEN 1 ELSE 0
<1> USE DEF IInv
<1> DEFINE f == Head(stack)
<1>1. stack \in Seq(Frame) /\ OnceIn(stack)
  BY DEF TypeOK, FramesAreRight
<1>2. /\ f \in Frame /\ stack' \in Seq(Frame)
      /\ \A g : EndingIn(stack', g) <=>
            EndingIn(stack, g) /\ ~(f.kind \in Endings /\ f.id = g)
      /\ OnceIn(stack')
      /\ WithinIn(stack') \/ f.within => WithinIn(stack)
  BY <1>1, PopFrame
<1>3. held' = IF f.kind \in Endings THEN [held EXCEPT ![f.id] = @ - 1] ELSE held
  BY DEF ReturnedRefs, DropRef
<1>4. f.id \in Connections
  BY <1>2 DEF Frame
<1>5. f.kind \in Endings => EndingIn(stack, f.id)
  <2>1. stack[1] = f /\ 1 \in 1..Len(stack)
    BY <1>1, HeadTailProperties, EmptySeq, LenProperties
  <2> QED BY <2>1 DEF EndingIn
<1> HIDE DEF f
<1>6. f.kind \in Endings =>
         conn[f.id] = "closed" /\ f.id # cli.id /\ held[f.id] = 1
  BY <1>4, <1>5 DEF FramesAreRight, Balance
<1>7. held' \in [Connections -> Nat]
  <2>1. CASE f.kind \in Endings
    <3>1. [held EXCEPT ![f.id] = 0] \in [Connections -> Nat]
      BY <1>4 DEF TypeOK
    <3>2. held' = [held EXCEPT ![f.id] = 0]
      BY <1>3, <1>6, <2>1
    <3> QED BY <3>1, <3>2
  <2>2. CASE f.kind \notin Endings
    BY <1>3, <2>2 DEF TypeOK
  <2> QED BY <2>1, <2>2
<1>8. ASSUME NEW g \in Connections
      PROVE  held'[g] = IF \/ conn[g] = "idle" \/ Open(g)
                           \/ EndingIn(stack', g) \/ Leaks(g) THEN 1 ELSE 0
  <2>1. CASE f.kind \in Endings /\ f.id = g
    <3>1. held'[g] = 0
      BY <1>3, <1>4, <1>6, <2>1 DEF TypeOK
    <3>2. conn[g] = "closed" /\ ~EndingIn(stack', g)
      BY <1>2, <1>6, <2>1
    <3> QED BY <3>1, <3>2 DEF Open, Leaks
  <2>2. CASE ~(f.kind \in Endings /\ f.id = g)
    <3>1. held'[g] = held[g]
      BY <1>3, <1>4, <2>2 DEF TypeOK
    <3>2. EndingIn(stack', g) <=> EndingIn(stack, g)
      BY <1>2, <2>2
    <3> QED BY <3>1, <3>2 DEF Balance
  <2> QED BY <2>1, <2>2
<1> QED BY <1>2, <1>7, <1>8 DEF f

LEMMA ReturnMistakenInvariant ==
    ASSUME IInv, ReturnMistaken
    PROVE  IInv'
<1> USE DEF IInv
<1> DEFINE f == Head(stack)
           g == cli.id
<1>1. /\ fault = "none" /\ stack # <<>> /\ stack' = Tail(stack)
      /\ f.within /\ cli # NoCli /\ "onError" \notin cli.on
      /\ cli' = NoCli /\ zsocket' = 0 /\ fault' = "released"
      /\ conn' = [conn EXCEPT ![g] = "closed"]
      /\ held' = DropRef(f.id)
      /\ UNCHANGED <<stream, cb, script, told, connects, alive>>
  BY DEF ReturnMistaken, Mistaken, AsyncClientFree
<1>2. Head(stack) \in Frame
  BY <1>1, PopFrame DEF TypeOK, FramesAreRight
<1>3. held' = ReturnedRefs(Head(stack))
  BY <1>1, <1>2 DEF ReturnedRefs, Frame, Endings
<1>4. /\ f.within => WithinIn(stack)
      /\ stack' \in Seq(Frame) /\ OnceIn(stack')
      /\ \A h \in Connections : EndingIn(stack', h) => EndingIn(stack, h)
      /\ WithinIn(stack') => WithinIn(stack)
      /\ held' \in [Connections -> Nat]
      /\ \A h \in Connections :
           held'[h] = IF \/ conn[h] = "idle" \/ Open(h)
                         \/ EndingIn(stack', h) \/ Leaks(h) THEN 1 ELSE 0
  BY <1>1, <1>3, CallbackReturns
<1>5. g \in Connections /\ conn[g] # "none"
  BY <1>1 DEF OneClient, TypeOK, CliType
<1>6. cli.on = {} /\ "onError" \in cb
  BY <1>1, <1>4 DEF FramesAreRight
<1>7. ~Open(g) /\ conn[g] # "idle" /\ ~Leaks(g)
  BY <1>1, <1>5, <1>6 DEF WhoseHandlers, Leaks
<1>8. /\ conn' \in [Connections -> Phases] /\ conn'[g] = "closed"
      /\ \A h \in Connections : h # g => conn'[h] = conn[h]
  BY <1>1, <1>5 DEF TypeOK, Phases
<1>9. \A h \in Connections : h # g => conn[h] \in {"none", "closed"}
  BY DEF OneClient
<1>10. \A h \in Connections : conn'[h] \in {"none", "closed"}
  BY <1>8, <1>9
<1>11. NoCli \in CliType /\ NoCli.id = 0 /\ NoCli.on = {}
  BY DEF NoCli, CliType
<1>12. TypeOK'
  BY <1>1, <1>4, <1>8, <1>11 DEF TypeOK, Faults
<1>13. HandlersFindTheirObject' /\ SocketIsCurrent' /\ WhoseHandlers'
  BY <1>1, <1>10
     DEF HandlersFindTheirObject, SocketIsCurrent, WhoseHandlers, Open
<1>14. OneClient'
  BY <1>1, <1>5, <1>8, <1>9, <1>11 DEF OneClient, TypeOK
<1>15. FramesAreRight'
  BY <1>1, <1>4, <1>6, <1>8, <1>11 DEF FramesAreRight
<1>16. Balance'
  <2> SUFFICES ASSUME NEW h \in Connections
               PROVE  held'[h] = IF \/ conn'[h] = "idle" \/ Open(h)'
                                    \/ EndingIn(stack', h) \/ Leaks(h)'
                                 THEN 1 ELSE 0
    BY DEF Balance
  <2>1. conn'[h] # "idle" /\ ~Open(h)' /\ ~Leaks(h)'
    BY <1>10 DEF Open, Leaks
  <2>2. conn[h] # "idle" /\ ~Open(h) /\ ~Leaks(h)
    BY <1>7, <1>9 DEF Open, Leaks
  <2> QED BY <1>4, <2>1, <2>2
<1> QED BY <1>12, <1>13, <1>14, <1>15, <1>16

-----------------------------------------------------------------------------
(* Every step preserves the invariant.                                     *)

(* A client that changes keeps its connection and its handlers.            *)
LEMMA ClientKept ==
    ASSUME IInv, NEW tls \in {"off", "wait", "ready"}, NEW full \in BOOLEAN,
           NEW asleep \in BOOLEAN, cli # NoCli,
           cli' = [id |-> cli.id, on |-> cli.on, tls |-> tls, full |-> full,
                   asleep |-> asleep]
    PROVE  /\ cli' \in CliType /\ cli'.id = cli.id /\ cli'.on = cli.on
           /\ cli'.id = Null => cli' = NoCli
<1>1. cli.id # Null
  BY DEF IInv, OneClient
<1> QED BY <1>1 DEF IInv, TypeOK, CliType

LEMMA ScriptInvariant ==
    ASSUME IInv,
           \/ \E event \in Events : On(event)
           \/ Send
           \/ \E asleep \in BOOLEAN : Sleep(asleep)
           \/ GetSocket
           \/ EnableSSL
    PROVE  IInv'
<1> DEFINE Kept ==
      /\ UNCHANGED <<stream, held, script, conn, connects, alive, fault>>
      /\ cb \subseteq cb' /\ cb' \in SUBSET Events
      /\ cli' \in CliType /\ cli'.id = cli.id /\ cli'.on = cli.on
      /\ cli'.id = Null => cli' = NoCli
      /\ zsocket' \in {zsocket, cli.id}
      /\ Quiet
<1>0. /\ TypeOK /\ (cli.id = Null => cli = NoCli)
      /\ cli = [id |-> cli.id, on |-> cli.on, tls |-> cli.tls,
                full |-> cli.full, asleep |-> cli.asleep]
  BY DEF IInv, OneClient, TypeOK, CliType
<1>1. ASSUME NEW event \in Events, On(event)
      PROVE  Kept
  BY <1>0, <1>1, UnchangedIsQuiet DEF On, TypeOK
<1>2. ASSUME Send
      PROVE  Kept
  <2>1. cli # NoCli /\ cli.id \in Connections
    BY <1>0, <1>2 DEF Send, Usable, TypeOK, CliType
  <2>2. cli' = [id |-> cli.id, on |-> cli.on, tls |-> cli.tls,
                full |-> TRUE, asleep |-> cli.asleep]
    BY <1>0, <1>2 DEF Send
  <2>3. /\ cli' \in CliType /\ cli'.id = cli.id /\ cli'.on = cli.on
        /\ cli'.id = Null => cli' = NoCli
    BY <1>0, <2>1, <2>2, ClientKept DEF TypeOK, CliType
  <2>4. Quiet
    <3>1. CASE UNCHANGED <<stack, told>>
      BY <3>1, UnchangedIsQuiet
    <3>2. CASE /\ stack' = Called("onBufferFull", cli.id, stack)
               /\ Tell(cli.id, "onBufferFull")
      <4> DEFINE g == cli.id
      <4>1. /\ g \in Connections /\ stack' = Called("onBufferFull", g, stack)
            /\ Tell(g, "onBufferFull")
        BY <2>1, <3>2
      <4>2. "onBufferFull" \in Callbacks \ Endings
        BY DEF Callbacks, Events, Endings
      <4> HIDE DEF g
      <4> QED BY <4>1, <4>2, CallIsQuiet
    <3> QED BY <1>2, <3>1, <3>2 DEF Send
  <2> QED BY <1>0, <1>2, <2>3, <2>4 DEF Send, TypeOK
<1>3. ASSUME NEW asleep \in BOOLEAN, Sleep(asleep)
      PROVE  Kept
  <2>1. cli # NoCli
    BY <1>3 DEF Sleep, Usable
  <2>2. cli' = [id |-> cli.id, on |-> cli.on, tls |-> cli.tls,
                full |-> cli.full, asleep |-> asleep]
    BY <1>0, <1>3 DEF Sleep
  <2>3. /\ cli' \in CliType /\ cli'.id = cli.id /\ cli'.on = cli.on
        /\ cli'.id = Null => cli' = NoCli
    BY <1>0, <2>1, <2>2, ClientKept DEF TypeOK, CliType
  <2> QED BY <1>0, <1>3, <2>3, UnchangedIsQuiet DEF Sleep, TypeOK
<1>4. ASSUME GetSocket
      PROVE  Kept
  BY <1>0, <1>4, UnchangedIsQuiet DEF GetSocket, TypeOK
<1>5. ASSUME EnableSSL
      PROVE  Kept
  <2>1. cli # NoCli
    BY <1>5 DEF EnableSSL
  <2>2. cli' = [id |-> cli.id, on |-> cli.on, tls |-> "wait",
                full |-> cli.full, asleep |-> cli.asleep]
    BY <1>0, <1>5 DEF EnableSSL
  <2>3. /\ cli' \in CliType /\ cli'.id = cli.id /\ cli'.on = cli.on
        /\ cli'.id = Null => cli' = NoCli
    BY <1>0, <2>1, <2>2, ClientKept DEF TypeOK, CliType
  <2> QED BY <1>0, <1>5, <2>3, UnchangedIsQuiet DEF EnableSSL, TypeOK
<1>6. Kept
  <2> HIDE DEF Kept
  <2> QED BY <1>1, <1>2, <1>3, <1>4, <1>5
<1> QED BY <1>0, <1>6, SameClient DEF TypeOK

LEMMA ReactorInvariant ==
    ASSUME IInv, NEW g \in Connections,
           OnConnect(g) \/ OnSSLReady(g) \/ OnReceive(g) \/ OnBufferEmpty(g)
    PROVE  IInv'
<1>0. /\ TypeOK /\ Open(g) /\ cli # NoCli
      /\ cli = [id |-> cli.id, on |-> cli.on, tls |-> cli.tls,
                full |-> cli.full, asleep |-> cli.asleep]
  <2>1. Open(g)
    BY DEF OnConnect, OnSSLReady, OnReceive, OnBufferEmpty, Open
  <2>2. cli.id = g
    BY <2>1 DEF IInv, HandlersFindTheirObject
  <2> QED BY <2>1, <2>2 DEF IInv, TypeOK, CliType, NoCli
<1>1. PICK event \in {"onConnect", "onSSLReady", "onReceive", "onBufferEmpty"},
           tls \in {"off", "wait", "ready"}, full \in BOOLEAN :
        Calls(g, event, [id |-> cli.id, on |-> cli.on, tls |-> tls,
                         full |-> full, asleep |-> cli.asleep])
  <2>1. cli.tls \in {"off", "wait", "ready"} /\ cli.full \in BOOLEAN
    BY <1>0 DEF TypeOK, CliType
  <2>2. CASE OnConnect(g)
    BY <1>0, <2>1, <2>2 DEF OnConnect
  <2>3. CASE OnSSLReady(g)
    <3>1. [cli EXCEPT !.tls = "ready"] =
            [id |-> cli.id, on |-> cli.on, tls |-> "ready",
             full |-> cli.full, asleep |-> cli.asleep]
      BY <1>0
    <3> QED BY <2>1, <2>3, <3>1 DEF OnSSLReady
  <2>4. CASE OnReceive(g)
    BY <1>0, <2>1, <2>4 DEF OnReceive
  <2>5. CASE OnBufferEmpty(g)
    <3>1. \A b \in BOOLEAN :
            [cli EXCEPT !.full = b] =
              [id |-> cli.id, on |-> cli.on, tls |-> cli.tls,
               full |-> b, asleep |-> cli.asleep]
      BY <1>0
    <3>2. [cli EXCEPT !.full = FALSE] =
            [id |-> cli.id, on |-> cli.on, tls |-> cli.tls,
             full |-> FALSE, asleep |-> cli.asleep]
      BY <3>1
    <3> QED BY <2>1, <2>5, <3>2 DEF OnBufferEmpty
  <2> QED BY <2>2, <2>3, <2>4, <2>5
<1>2. /\ stack' = Called(event, g, stack) /\ Tell(g, event)
      /\ UNCHANGED <<stream, cb, zsocket, held, script, connects, alive, fault>>
      /\ cli' = [id |-> cli.id, on |-> cli.on, tls |-> tls,
                 full |-> full, asleep |-> cli.asleep]
  BY <1>1 DEF Calls, AtReactor
<1>3. Quiet
  <2>1. event \in Callbacks \ Endings
    BY DEF Callbacks, Events, Endings
  <2> QED BY <1>2, <2>1, CallIsQuiet
<1>4. /\ cli' \in CliType /\ cli'.id = cli.id /\ cli'.on = cli.on
      /\ cli'.id = Null => cli' = NoCli
  BY <1>0, <1>2, ClientKept DEF TypeOK, CliType
<1>5. /\ conn' \in [Connections -> Phases]
      /\ \A h \in Connections :
            conn'[h] = conn[h] \/ (Open(h) /\ conn'[h] = "connected")
  BY <1>0 DEF OnConnect, OnSSLReady, OnReceive, OnBufferEmpty, TypeOK, Phases
<1> QED BY <1>0, <1>2, <1>3, <1>4, <1>5, SameClient DEF TypeOK

LEMMA EndInvariant ==
    ASSUME IInv, NEW g \in Connections, OnError(g) \/ OnClose(g)
    PROVE  IInv'
<1>1. /\ Open(g) /\ fault = "none"
      /\ UNCHANGED <<stream, cb, held, script, connects, alive, fault>>
  BY DEF OnError, OnClose, Open, AtReactor
<1>2. PICK event \in Endings : CallEnding(g, event, FALSE)
  BY DEF OnError, OnClose, Endings
<1> QED BY <1>1, <1>2, EndingIsCalled

LEMMA CloseInvariant ==
    ASSUME IInv, Close
    PROVE  IInv'
<1> DEFINE g == cli.id
<1>1. /\ fault = "none" /\ cli # NoCli /\ held' = ClosedRefs(g)
      /\ UNCHANGED <<stream, cb, script, connects, alive, fault>>
  BY DEF Close, ScriptRuns
<1>2. g \in Connections
  BY <1>1 DEF IInv, OneClient, TypeOK, CliType
<1>3. CASE conn[g] = "connected" /\ CallEnding(g, "onClose", FALSE)
  <2>1. Open(g) /\ UNCHANGED held
    BY <1>1, <1>3 DEF Open, ClosedRefs
  <2>2. "onClose" \in Endings
    BY DEF Endings
  <2> HIDE DEF g
  <2> QED BY <1>1, <1>2, <1>3, <2>1, <2>2, EndingIsCalled
<1>4. CASE ~(conn[g] = "connected" /\ CallEnding(g, "onClose", FALSE))
  <2>1. /\ UNCHANGED <<cli, zsocket, stack, told>>
        /\ \/ /\ conn[g] \in {"idle", "connecting"}
              /\ conn' = [conn EXCEPT ![g] = "closed"]
           \/ /\ conn[g] \in {"connected", "unconnected"}
              /\ conn' = [conn EXCEPT ![g] = "silent"]
    BY <1>4 DEF Close, Usable
  <2> QED BY <1>1, <2>1, CloseInSilence
<1> QED BY <1>3, <1>4

LEMMA InstalledHandlers ==
    ASSUME IInv, Required \subseteq cb
    PROVE  /\ Installed \in SUBSET cb /\ Installed # {}
           /\ "onError" \in cb => "onError" \in Installed
<1>1. "onReceive" \in Installed
  BY DEF Required, Installed
<1> QED BY <1>1 DEF Installed

LEMMA ConnectInvariant ==
    ASSUME IInv, NEW g \in Connections, Connect(g) \/ Sendto(g)
    PROVE  IInv'
<1>0. /\ Creates(g) /\ fault = "none"
      /\ UNCHANGED <<stream, cb, script, alive>>
      /\ {} \in SUBSET cb
  BY DEF Connect, ConnectWithoutCallback, ConnectStarts, ConnectAtOnce,
         ConnectFails, ConnectFailsSilently, ConnectAborts, Connects, Sendto,
         Creates, ScriptRuns
<1>1. CASE ConnectWithoutCallback(g)
  <2>1. Quiet
    BY <1>1, UnchangedIsQuiet DEF ConnectWithoutCallback
  <2> QED BY <1>0, <1>1, <2>1, CreatesClient DEF ConnectWithoutCallback
<1>2. CASE Sendto(g)
  <2>1. Quiet
    BY <1>2, UnchangedIsQuiet DEF Sendto
  <2> QED BY <1>0, <1>2, <2>1, CreatesClient DEF Sendto
<1>3. CASE ConnectStarts(g) \/ ConnectAborts(g)
  <2>1. Quiet
    BY <1>3, UnchangedIsQuiet DEF ConnectStarts, ConnectAborts
  <2>2. /\ Required \subseteq cb /\ UNCHANGED <<fault, zsocket>>
        /\ cli' = NewCli(g, Installed) /\ held' = AddRef(g)
    BY <1>3 DEF ConnectStarts, ConnectAborts, Connects
  <2>3. PICK p \in {"idle", "connecting"} : conn' = [conn EXCEPT ![g] = p]
    BY <1>3 DEF ConnectStarts, ConnectAborts
  <2> QED BY <1>0, <2>1, <2>2, <2>3, InstalledHandlers, CreatesClient
<1>4. CASE ConnectAtOnce(g)
  <2>1. Quiet
    <3>1. CASE UNCHANGED <<stack, told>>
      BY <3>1, UnchangedIsQuiet
    <3>2. CASE stack' = Called("onConnect", g, stack) /\ Tell(g, "onConnect")
      <4>1. "onConnect" \in Callbacks \ Endings
        BY DEF Callbacks, Events, Endings
      <4> QED BY <3>2, <4>1, CallIsQuiet
    <3> QED BY <1>4, <3>1, <3>2 DEF ConnectAtOnce
  <2>2. /\ Required \subseteq cb /\ UNCHANGED <<fault, zsocket>>
        /\ cli' = NewCli(g, Installed) /\ held' = AddRef(g)
        /\ conn' = [conn EXCEPT ![g] = "connected"]
    BY <1>4 DEF ConnectAtOnce, Connects
  <2> QED BY <1>0, <2>1, <2>2, InstalledHandlers, CreatesClient
<1>5. CASE ConnectFails(g)
  <2>1. /\ CallEnding(g, "onError", TRUE) /\ held' = AddRef(g)
        /\ UNCHANGED fault /\ "onError" \in cb
    BY <1>5, InstalledHandlers DEF ConnectFails, Connects
  <2>2. "onError" \in Endings /\ TRUE \in BOOLEAN
    BY DEF Endings
  <2> QED BY <1>0, <2>1, <2>2, EndingIsCalled
<1>6. CASE ConnectFailsSilently(g)
  <2> USE DEF IInv
  <2>1. /\ UNCHANGED <<stream, cb, cli, zsocket, held, script, stack, told,
                       alive, fault>>
        /\ conn' = [conn EXCEPT ![g] = "closed"]
        /\ cli = NoCli /\ cli.id = 0
        /\ connects \in Nat /\ g = connects + 1 /\ connects' = g
    BY <1>0, <1>6 DEF ConnectFailsSilently, Connects, Creates, NoCli, TypeOK
  <2>2. /\ conn' \in [Connections -> Phases] /\ conn'[g] = "closed"
        /\ conn[g] = "none"
        /\ \A h \in Connections : h # g => conn'[h] = conn[h]
        /\ \A h \in Connections : conn[h] \in {"none", "closed"}
    BY <2>1 DEF TypeOK, Phases, OneClient
  <2>3. \A h \in Connections :
           /\ ~Open(h) /\ ~Open(h)' /\ ~Leaks(h) /\ ~Leaks(h)'
           /\ conn[h] # "idle" /\ conn'[h] # "idle"
    BY <2>2 DEF Open, Leaks
  <2>4. TypeOK'
    BY <2>1, <2>2 DEF TypeOK
  <2>5. HandlersFindTheirObject' /\ SocketIsCurrent' /\ Balance'
    BY <2>1, <2>3 DEF HandlersFindTheirObject, SocketIsCurrent, Balance
  <2>6. OneClient'
    BY <2>1, <2>2 DEF OneClient
  <2>7. WhoseHandlers'
    BY <2>2, <2>3 DEF WhoseHandlers
  <2>8. FramesAreRight'
    BY <2>1, <2>2 DEF FramesAreRight
  <2> QED BY <2>4, <2>5, <2>6, <2>7, <2>8
<1> QED BY <1>1, <1>2, <1>3, <1>4, <1>5, <1>6 DEF Connect

LEMMA NextInvariant == IInv /\ [Next]_vars => IInv'
<1> SUFFICES ASSUME IInv, [Next]_vars PROVE IInv'
  OBVIOUS
<1>1. CASE UNCHANGED vars
  <2>1. UNCHANGED <<stream, cb, cli, zsocket, conn, held, script, stack, told,
                    connects, alive, fault>>
    BY <1>1 DEF vars
  <2>2. Quiet
    BY <2>1, UnchangedIsQuiet
  <2>3. TypeOK /\ (cli.id = Null => cli = NoCli)
    BY DEF IInv, OneClient
  <2> QED BY <2>1, <2>2, <2>3, SameClient DEF TypeOK
<1>2. CASE \/ \E event \in Events : On(event)
           \/ Send
           \/ \E asleep \in BOOLEAN : Sleep(asleep)
           \/ GetSocket
           \/ EnableSSL
  BY <1>2, ScriptInvariant
<1>3. CASE \E g \in Connections : Connect(g) \/ Sendto(g)
  BY <1>3, ConnectInvariant
<1>4. CASE Close
  BY <1>4, CloseInvariant
<1>5. CASE Forget
  <2>1. /\ fault = "none" /\ script' = FALSE
        /\ UNCHANGED <<stream, cli, zsocket, held, stack, told, connects, fault>>
        /\ DestructIfLast
    BY <1>5 DEF Forget, ScriptRuns
  <2>2. /\ stack' \in Seq(Frame) /\ OnceIn(stack') /\ script' \in BOOLEAN
        /\ \A g \in Connections : EndingIn(stack', g) => EndingIn(stack, g)
        /\ WithinIn(stack') => WithinIn(stack)
        /\ held' \in [Connections -> Nat]
        /\ \A g \in Connections :
             held'[g] = IF \/ conn[g] = "idle" \/ Open(g)
                           \/ EndingIn(stack', g) \/ Leaks(g) THEN 1 ELSE 0
    BY <2>1 DEF IInv, TypeOK, FramesAreRight, Balance
  <2> QED BY <2>1, <2>2, ReferenceIsDropped
<1>6. CASE ReturnMistaken
  BY <1>6, ReturnMistakenInvariant
<1>7. CASE Return
  <2>1. /\ fault = "none" /\ stack # <<>> /\ stack' = Tail(stack)
        /\ held' = ReturnedRefs(Head(stack))
        /\ UNCHANGED <<stream, cli, zsocket, script, told, connects, fault>>
        /\ DestructIfLast
    BY <1>7 DEF Return
  <2>2. script' \in BOOLEAN
    BY <2>1 DEF IInv, TypeOK
  <2> QED BY <2>1, <2>2, CallbackReturns, ReferenceIsDropped
<1>8. CASE ConnectEnds
  BY <1>8, ReactorInvariant, EndInvariant DEF ConnectEnds
<1>9. CASE \E g \in Connections :
              OnSSLReady(g) \/ OnReceive(g) \/ OnBufferEmpty(g) \/ OnClose(g)
  BY <1>9, ReactorInvariant, EndInvariant
<1> QED BY <1>1, <1>2, <1>3, <1>4, <1>5, <1>6, <1>7, <1>8, <1>9 DEF Next

LEMMA Invariance == Spec => []IInv
BY InitInvariant, NextInvariant, PTL DEF Spec

(* Every variable keeps its type: above all, no connection ever gives back *)
(* a reference it does not hold.                                           *)
THEOREM TypeCorrect == Spec => []TypeOK
<1>1. IInv => TypeOK
  BY DEF IInv
<1> QED BY <1>1, Invariance, PTL

(* The handlers of a connection that can produce events find the object    *)
(* alive, with this very client and every function they may call.          *)
THEOREM HandlersAreSafe == Spec => []HandlersFindTheirObject
<1>1. IInv => HandlersFindTheirObject
  BY DEF IInv
<1> QED BY <1>1, Invariance, PTL

(* The references a connection holds are exactly those it is due.          *)
THEOREM ReferencesAreRight == Spec => []ReferencesBalance
<1>1. IInv => ReferencesBalance
  BY EndingIsIn DEF IInv, TypeOK, Balance, ReferencesBalance
<1> QED BY <1>1, Invariance, PTL

(* getSocket() never keeps the socket of a client that was freed.          *)
THEOREM SocketIsRight == Spec => []SocketIsCurrent
<1>1. IInv => SocketIsCurrent
  BY DEF IInv
<1> QED BY <1>1, Invariance, PTL

-----------------------------------------------------------------------------
(* The promise made to the script.                                         *)

(* What the callbacks of a connection were, in each phase of it.           *)
Heard ==
    /\ \A g \in Connections :
          /\ conn[g] = "none" => told[g] = "nothing"
          /\ conn[g] = "connecting" => stream /\ told[g] = "nothing"
          /\ conn[g] = "connected" /\ stream =>
                told[g] \in {"onConnect"} \cup Promise!Traffic
    /\ cli.tls = "wait" => stream

Current == IF alive THEN cli.id ELSE Null

OpenOnes == {g \in Connections : Open(g)}

PromiseStep == [Promise!Next]_(Promise!vars)

LEMMA ScriptHearsNothing ==
    ASSUME UNCHANGED <<stream, connects, told>>, Current' = Current,
           OpenOnes' = OpenOnes
    PROVE  PromiseStep
BY DEF PromiseStep, Promise!vars, Current, OpenOnes

(* A step that leaves the connections as they are and may call a callback  *)
(* of one that is established.                                             *)
LEMMA ScriptHearsTraffic ==
    ASSUME IInv, Heard, UNCHANGED <<stream, connects, conn, alive>>,
           cli'.id = cli.id, cli'.tls = "wait" => stream,
           \/ UNCHANGED told
           \/ \E g \in Connections, event \in Promise!Traffic :
                 conn[g] = "connected" /\ Tell(g, event)
    PROVE  PromiseStep /\ Heard'
<1>1. Current' = Current /\ OpenOnes' = OpenOnes
  BY DEF Current, OpenOnes, Open
<1>2. CASE UNCHANGED told
  BY <1>1, <1>2, ScriptHearsNothing DEF Heard
<1>3. ASSUME NEW g \in Connections, NEW event \in Promise!Traffic,
             conn[g] = "connected", Tell(g, event)
      PROVE  PromiseStep /\ Heard'
  <2>1. told' = [told EXCEPT ![g] = event] /\ DOMAIN told = Connections
    BY <1>3 DEF Tell, IInv, TypeOK
  <2>2. g \in OpenOnes
    BY <1>3 DEF OpenOnes, Open
  <2>3. Promise!Established(g)
    BY <1>3 DEF Heard, Promise!Established
  <2>4. Promise!Report(g, event)
    BY <1>1, <2>1, <2>2, <2>3
       DEF Promise!Report, Promise!Tell, Current, OpenOnes
  <2>5. Promise!Next
    BY <1>3, <2>4 DEF Promise!Next, Promise!Connections
  <2>6. Heard'
    BY <1>3, <2>1 DEF Heard
  <2> QED BY <2>5, <2>6 DEF PromiseStep
<1> QED BY <1>2, <1>3

LEMMA ScriptStep ==
    ASSUME IInv, Heard,
           \/ \E event \in Events : On(event)
           \/ Send
           \/ \E asleep \in BOOLEAN : Sleep(asleep)
           \/ GetSocket
           \/ EnableSSL
    PROVE  PromiseStep /\ Heard'
<1>0. cli \in CliType /\ (cli.tls = "wait" => stream)
  BY DEF IInv, TypeOK, Heard
<1>1. UNCHANGED <<stream, connects, conn, alive>> /\ cli'.id = cli.id
  BY <1>0 DEF On, Send, Sleep, GetSocket, EnableSSL, CliType
<1>2. cli'.tls = "wait" => stream
  BY <1>0 DEF On, Send, Sleep, GetSocket, EnableSSL, CliType
<1>3. \/ UNCHANGED told
      \/ \E g \in Connections, event \in Promise!Traffic :
            conn[g] = "connected" /\ Tell(g, event)
  <2>1. CASE Send
    <3>1. cli.id \in Connections
      BY <2>1, <1>0 DEF Send, Usable, IInv, OneClient, CliType
    <3>2. cli.on # {} => conn[cli.id] = "connected"
      BY <2>1, <3>1 DEF Send, Usable, IInv, WhoseHandlers
    <3>3. "onBufferFull" \in Promise!Traffic
      BY DEF Promise!Traffic
    <3> QED BY <2>1, <3>1, <3>2, <3>3 DEF Send
  <2>2. CASE ~Send
    BY <2>2 DEF On, Sleep, GetSocket, EnableSSL
  <2> QED BY <2>1, <2>2
<1> QED BY <1>1, <1>2, <1>3, ScriptHearsTraffic

LEMMA ReactorStep ==
    ASSUME IInv, Heard, NEW g \in Connections,
           OnConnect(g) \/ OnSSLReady(g) \/ OnReceive(g) \/ OnBufferEmpty(g)
    PROVE  PromiseStep /\ Heard'
<1>0. cli \in CliType /\ (cli.tls = "wait" => stream)
  BY DEF IInv, TypeOK, Heard
<1>1. CASE OnConnect(g)
  <2>1. /\ UNCHANGED <<stream, connects, alive, cli>> /\ conn[g] = "connecting"
        /\ conn' = [conn EXCEPT ![g] = "connected"]
        /\ told' = [told EXCEPT ![g] = "onConnect"]
    BY <1>1 DEF OnConnect, Calls, Tell
  <2>2. DOMAIN conn = Connections /\ DOMAIN told = Connections
    BY DEF IInv, TypeOK
  <2>3. Current' = Current /\ OpenOnes' = OpenOnes /\ g \in OpenOnes
    BY <2>1, <2>2 DEF Current, OpenOnes, Open
  <2>4. Promise!Establish(g)
    BY <2>1, <2>3 DEF Heard, Promise!Establish, Promise!Tell, Current, OpenOnes
  <2>5. Promise!Next
    BY <2>4 DEF Promise!Next, Promise!Connections
  <2>6. Heard'
    BY <2>1, <2>2 DEF Heard
  <2> QED BY <2>5, <2>6 DEF PromiseStep
<1>2. CASE OnSSLReady(g) \/ OnReceive(g) \/ OnBufferEmpty(g)
  <2>1. PICK event \in {"onSSLReady", "onReceive", "onBufferEmpty"} :
           Tell(g, event)
    BY <1>2 DEF OnSSLReady, OnReceive, OnBufferEmpty, Calls
  <2>2. UNCHANGED <<stream, connects, conn, alive>> /\ conn[g] = "connected"
    BY <1>2 DEF OnSSLReady, OnReceive, OnBufferEmpty, Calls
  <2>3. cli'.id = cli.id /\ (cli'.tls = "wait" => stream)
    BY <1>0, <1>2 DEF OnSSLReady, OnReceive, OnBufferEmpty, Calls, CliType
  <2>4. event \in Promise!Traffic
    BY DEF Promise!Traffic
  <2> QED BY <2>1, <2>2, <2>3, <2>4, ScriptHearsTraffic
<1> QED BY <1>1, <1>2

LEMMA EndIsTold ==
    ASSUME IInv, Heard, NEW g \in Connections, Open(g), NEW event \in Endings,
           CallEnding(g, event, FALSE),
           UNCHANGED <<stream, connects, alive>>,
           event = "onClose" => conn[g] = "connected",
           event = "onError" => stream
    PROVE  PromiseStep /\ Heard'
<1>1. /\ conn' = [conn EXCEPT ![g] = "closed"]
      /\ told' = [told EXCEPT ![g] = event] /\ cli' = NoCli
  BY DEF CallEnding, AsyncClientFree, Tell
<1>2. DOMAIN conn = Connections /\ DOMAIN told = Connections
  BY DEF IInv, TypeOK
<1>3. g \in OpenOnes /\ OpenOnes' = OpenOnes \ {g}
  BY <1>1, <1>2 DEF OpenOnes, Open
<1>4. Current' = 0
  BY <1>1 DEF Current, NoCli
<1>5. event = "onClose" => Promise!Established(g)
  BY DEF Heard, Promise!Established
<1>6. Promise!End(g, event)
  BY <1>1, <1>3, <1>4, <1>5 DEF Promise!End, Promise!Tell, Current, OpenOnes
<1>7. event \in {"onClose", "onError"}
  BY DEF Endings
<1>8. Promise!Next
  BY <1>6, <1>7 DEF Promise!Next, Promise!Connections
<1>9. Heard'
  BY <1>1, <1>2 DEF Heard, NoCli
<1> QED BY <1>8, <1>9 DEF PromiseStep

LEMMA EndStep ==
    ASSUME IInv, Heard, NEW g \in Connections, OnError(g) \/ OnClose(g)
    PROVE  PromiseStep /\ Heard'
<1>1. Open(g) /\ UNCHANGED <<stream, connects, alive>>
  BY DEF OnError, OnClose, Open
<1>2. CASE OnError(g)
  <2>1. stream /\ CallEnding(g, "onError", FALSE)
    BY <1>2 DEF OnError, Heard
  <2>2. "onError" \in Endings
    BY DEF Endings
  <2> QED BY <1>1, <2>1, <2>2, EndIsTold
<1>3. CASE OnClose(g)
  <2>1. conn[g] = "connected" /\ CallEnding(g, "onClose", FALSE)
    BY <1>3 DEF OnClose
  <2>2. "onClose" \in Endings
    BY DEF Endings
  <2> QED BY <1>1, <2>1, <2>2, EndIsTold
<1> QED BY <1>2, <1>3

LEMMA CloseStep ==
    ASSUME IInv, Heard, Close
    PROVE  PromiseStep /\ Heard'
<1> DEFINE g == cli.id
<1>1. /\ cli # NoCli /\ conn[g] \notin {"silent", "closed"}
      /\ UNCHANGED <<stream, connects, alive>>
  BY DEF Close
<1>2. g \in Connections
  BY <1>1 DEF IInv, OneClient, TypeOK, CliType
<1>3. CASE conn[g] = "connected" /\ CallEnding(g, "onClose", FALSE)
  <2>1. Open(g) /\ "onClose" \in Endings
    BY <1>3 DEF Open, Endings
  <2> HIDE DEF g
  <2> QED BY <1>1, <1>2, <1>3, <2>1, EndIsTold
<1>4. CASE ~(conn[g] = "connected" /\ CallEnding(g, "onClose", FALSE))
  <2>1. /\ UNCHANGED <<cli, told>>
        /\ \E p \in {"closed", "silent"} : conn' = [conn EXCEPT ![g] = p]
    BY <1>4 DEF Close, Usable
  <2>2. DOMAIN conn = Connections /\ \A h \in Connections : Open(h) => h = g
    BY DEF IInv, TypeOK, HandlersFindTheirObject
  <2>3. OpenOnes' = {} /\ OpenOnes \subseteq {g} /\ Current' = Current
    BY <1>1, <1>2, <2>1, <2>2 DEF OpenOnes, Open, Current
  <2>4. Heard'
    BY <1>1, <1>2, <2>1, <2>2 DEF Heard
  <2>5. CASE OpenOnes = {}
    BY <1>1, <2>1, <2>3, <2>4, <2>5, ScriptHearsNothing
  <2>6. CASE OpenOnes # {}
    <3>1. g \in OpenOnes /\ OpenOnes' = OpenOnes \ {g}
      BY <2>3, <2>6
    <3> DEFINE h == g
    <3>2. h \in Connections /\ h \in OpenOnes /\ OpenOnes' = OpenOnes \ {h}
      BY <1>2, <3>1
    <3> HIDE DEF h, g
    <3>3. Promise!Abandon(h)
      BY <1>1, <2>1, <2>3, <3>2 DEF Promise!Abandon, Current, OpenOnes
    <3>4. Promise!Next
      BY <3>2, <3>3 DEF Promise!Next, Promise!Connections
    <3> QED BY <2>4, <3>4 DEF PromiseStep
  <2> QED BY <2>5, <2>6
<1> QED BY <1>3, <1>4

LEMMA ConnectStep ==
    ASSUME IInv, Heard, NEW g \in Connections, Connect(g) \/ Sendto(g)
    PROVE  PromiseStep /\ Heard'
<1>0. /\ Creates(g) /\ cli = NoCli /\ cli.id = 0 /\ alive
      /\ connects \in Nat /\ g = connects + 1 /\ connects' = g
      /\ UNCHANGED <<stream, alive>>
  <2>1. Creates(g)
    BY DEF Connect, ConnectWithoutCallback, ConnectStarts, ConnectAtOnce,
           ConnectFails, ConnectFailsSilently, ConnectAborts, Connects, Sendto
  <2> QED BY <2>1 DEF Creates, ScriptRuns, NoCli, IInv, TypeOK
<1>1. /\ DOMAIN conn = Connections /\ DOMAIN told = Connections
      /\ conn[g] = "none" /\ told[g] = "nothing"
      /\ \A h \in Connections : conn[h] \in {"none", "closed"}
  BY <1>0 DEF IInv, TypeOK, OneClient, Heard
<1>2. OpenOnes = {} /\ Current = 0
  BY <1>0, <1>1 DEF OpenOnes, Open, Current
<1>3. PICK p \in {"idle", "connecting", "connected", "unconnected", "closed"} :
        conn' = [conn EXCEPT ![g] = p]
  BY DEF Connect, ConnectWithoutCallback, ConnectStarts, ConnectAtOnce,
         ConnectFails, ConnectFailsSilently, ConnectAborts, Sendto, CallEnding
<1>4. OpenOnes' = IF p \in {"connecting", "connected"} THEN {g} ELSE {}
  BY <1>1, <1>3 DEF OpenOnes, Open
<1>5. \A on : NewCli(g, on).id = g /\ NewCli(g, on).tls = "off"
  BY DEF NewCli, NoCli
<1>6. CASE ConnectStarts(g)
  <2>1. p = "connecting" /\ stream /\ UNCHANGED told
    BY <1>1, <1>3, <1>6 DEF ConnectStarts
  <2>2. Current' = g /\ cli'.tls = "off"
    BY <1>0, <1>5, <1>6 DEF ConnectStarts, Current
  <2>3. Promise!Start(g)
    BY <1>0, <1>2, <1>4, <2>1, <2>2
       DEF Promise!Start, Promise!New, Current, OpenOnes
  <2>4. Heard'
    BY <1>0, <1>1, <1>3, <2>1, <2>2 DEF Heard
  <2> QED BY <2>3, <2>4 DEF PromiseStep, Promise!Next, Promise!Connections
<1>7. CASE ConnectAtOnce(g)
  <2>1. /\ p = "connected" /\ ~stream
        /\ UNCHANGED told \/ told' = [told EXCEPT ![g] = "onConnect"]
    BY <1>1, <1>3, <1>7 DEF ConnectAtOnce, Tell
  <2>2. Current' = g /\ cli'.tls = "off"
    BY <1>0, <1>5, <1>7 DEF ConnectAtOnce, Current
  <2>3. Promise!Start(g)
    BY <1>0, <1>2, <1>4, <2>1, <2>2
       DEF Promise!Start, Promise!New, Promise!Tell, Current, OpenOnes
  <2>4. Heard'
    BY <1>0, <1>1, <1>3, <2>1, <2>2 DEF Heard
  <2> QED BY <2>3, <2>4 DEF PromiseStep, Promise!Next, Promise!Connections
<1>8. CASE ConnectFails(g) \/ ConnectFailsSilently(g)
  <2>1. /\ p = "closed"
        /\ UNCHANGED told \/ told' = [told EXCEPT ![g] = "onError"]
        /\ cli' = NoCli
    BY <1>0, <1>1, <1>3, <1>8
       DEF ConnectFails, ConnectFailsSilently, CallEnding, AsyncClientFree, Tell
  <2>2. Current' = 0 /\ cli'.tls = "off"
    BY <2>1 DEF Current, NoCli
  <2>3. Promise!Fail(g)
    BY <1>0, <1>2, <1>4, <2>1, <2>2
       DEF Promise!Fail, Promise!New, Promise!Tell, Current, OpenOnes
  <2>4. Heard'
    BY <1>0, <1>1, <1>3, <2>1, <2>2 DEF Heard
  <2> QED BY <2>3, <2>4 DEF PromiseStep, Promise!Next, Promise!Connections
<1>9. CASE ConnectWithoutCallback(g) \/ ConnectAborts(g) \/ Sendto(g)
  <2>1. /\ p \in {"idle", "unconnected"}
        /\ UNCHANGED told
    BY <1>1, <1>3, <1>9 DEF ConnectWithoutCallback, ConnectAborts, Sendto
  <2>2. Current' = g /\ cli'.tls = "off"
    BY <1>0, <1>5, <1>9 DEF ConnectWithoutCallback, ConnectAborts, Sendto, Current
  <2>3. Promise!Occupy(g)
    BY <1>0, <1>2, <1>4, <2>1, <2>2
       DEF Promise!Occupy, Promise!New, Current, OpenOnes
  <2>4. Heard'
    BY <1>0, <1>1, <1>3, <2>1, <2>2 DEF Heard
  <2> QED BY <2>3, <2>4 DEF PromiseStep, Promise!Next, Promise!Connections
<1> QED BY <1>6, <1>7, <1>8, <1>9 DEF Connect

(* The object may be destroyed: then nothing can be heard of it.           *)
LEMMA ReleaseStep ==
    ASSUME IInv, Heard,
           UNCHANGED <<stream, cli, told, connects>>, DestructIfLast,
           LastReference => OpenOnes = {}
    PROVE  PromiseStep /\ Heard'
<1>1. CASE UNCHANGED <<alive, cb, conn>>
  <2>1. Current' = Current /\ OpenOnes' = OpenOnes
    BY <1>1 DEF Current, OpenOnes, Open
  <2> QED BY <1>1, <2>1, ScriptHearsNothing DEF Heard
<1>2. CASE LastReference /\ Destruct
  <2>1. /\ alive' = FALSE
        /\ cli # NoCli => cli.id \in Connections
        /\ DOMAIN conn = Connections
        /\ conn' = IF cli # NoCli THEN [conn EXCEPT ![cli.id] = "closed"]
                                  ELSE conn
    BY <1>2 DEF Destruct, IInv, TypeOK, CliType, OneClient
  <2>2. OpenOnes' = {} /\ Current' = 0
    <3>1. OpenOnes = {}
      BY <1>2
    <3>2. \A g \in Connections : conn'[g] = conn[g] \/ conn'[g] = "closed"
      BY <2>1
    <3> QED BY <2>1, <3>1, <3>2 DEF Current, OpenOnes, Open
  <2>3. Heard'
    BY <2>1 DEF Heard
  <2>4. OpenOnes = {}
    BY <1>2
  <2>5. Promise!Destroy
    BY <2>2, <2>4 DEF Promise!Destroy, Current, OpenOnes
  <2> QED BY <2>3, <2>5 DEF PromiseStep, Promise!Next
<1> QED BY <1>1, <1>2 DEF DestructIfLast

LEMMA ReturnStep ==
    ASSUME IInv, Heard, Forget \/ Return
    PROVE  PromiseStep /\ Heard'
<1>1. \A g \in Connections : Open(g) => held'[g] # 0
  <2>1. CASE Forget
    <3>1. held' = held /\ fault = "none"
      BY <2>1 DEF Forget, ScriptRuns
    <3> QED BY <3>1 DEF IInv, HandlersFindTheirObject, TypeOK
  <2>2. CASE Return
    <3>1. /\ fault = "none" /\ stack # <<>> /\ stack' = Tail(stack)
          /\ held' = ReturnedRefs(Head(stack))
      BY <2>2 DEF Return
    <3> QED BY <3>1, CallbackReturns
  <2> QED BY <2>1, <2>2
<1>2. LastReference => OpenOnes = {}
  BY <1>1 DEF LastReference, OpenOnes
<1> QED BY <1>2, ReleaseStep DEF Forget, Return

LEMMA MistakenStep ==
    ASSUME IInv, Heard, ReturnMistaken
    PROVE  PromiseStep /\ Heard'
<1>1. /\ fault = "none" /\ stack # <<>> /\ stack' = Tail(stack)
      /\ Head(stack).within /\ cli # NoCli /\ "onError" \notin cli.on
      /\ cli' = NoCli
      /\ conn' = [conn EXCEPT ![cli.id] = "closed"]
      /\ held' = DropRef(Head(stack).id)
      /\ UNCHANGED <<stream, told, connects>>
  BY DEF ReturnMistaken, Mistaken, AsyncClientFree
<1>2. Head(stack).within => WithinIn(stack)
  BY <1>1, PopFrame DEF IInv, TypeOK, FramesAreRight
<1>3. cli.on = {}
  BY <1>1, <1>2 DEF IInv, FramesAreRight
<1>4. OpenOnes = {}
  BY <1>3 DEF OpenOnes, IInv, WhoseHandlers
<1>5. cli.id \in Connections /\ DOMAIN conn = Connections
  BY <1>1 DEF IInv, TypeOK, CliType, OneClient
<1>6. OpenOnes' = {}
  BY <1>1, <1>4, <1>5 DEF OpenOnes, Open
<1>7. Current' = 0
  BY <1>1 DEF Current, NoCli
<1>8. Promise!Destroy
  BY <1>1, <1>4, <1>6, <1>7 DEF Promise!Destroy, Current, OpenOnes
<1>9. Heard'
  BY <1>1, <1>5 DEF Heard, NoCli
<1> QED BY <1>8, <1>9 DEF PromiseStep, Promise!Next

LEMMA NextStep == IInv /\ Heard /\ [Next]_vars => PromiseStep /\ Heard'
<1> SUFFICES ASSUME IInv, Heard, [Next]_vars PROVE PromiseStep /\ Heard'
  OBVIOUS
<1>1. CASE UNCHANGED vars
  <2>1. UNCHANGED <<stream, cli, conn, told, connects, alive>>
    BY <1>1 DEF vars
  <2> QED BY <2>1, ScriptHearsTraffic DEF Heard
<1>2. CASE \/ \E event \in Events : On(event)
           \/ Send
           \/ \E asleep \in BOOLEAN : Sleep(asleep)
           \/ GetSocket
           \/ EnableSSL
  BY <1>2, ScriptStep
<1>3. CASE \E g \in Connections : Connect(g) \/ Sendto(g)
  BY <1>3, ConnectStep
<1>4. CASE Close
  BY <1>4, CloseStep
<1>5. CASE Forget \/ Return
  BY <1>5, ReturnStep
<1>6. CASE ReturnMistaken
  BY <1>6, MistakenStep
<1>7. CASE ConnectEnds
  BY <1>7, ReactorStep, EndStep DEF ConnectEnds
<1>8. CASE \E g \in Connections :
              OnSSLReady(g) \/ OnReceive(g) \/ OnBufferEmpty(g) \/ OnClose(g)
  BY <1>8, ReactorStep, EndStep
<1> QED BY <1>1, <1>2, <1>3, <1>4, <1>5, <1>6, <1>7, <1>8 DEF Next

(* What the script hears of its connections is a behaviour of              *)
(* ClientEvents: in order, one connection at a time, each end told once    *)
(* and the object free for another connection when it is.                  *)
THEOREM PromiseIsKept == Spec => KeepsPromise
<1>1. Init => Promise!Init /\ Heard
  <2> SUFFICES ASSUME Init PROVE Promise!Init /\ Heard
    OBVIOUS
  <2>1. Promise!Init
    BY DEF Init, Promise!Init, Promise!Connections, Open, NoCli
  <2>2. Heard
    BY DEF Init, Heard, NoCli
  <2> QED BY <2>1, <2>2
<1>2. IInv /\ Heard /\ [Next]_vars => [Promise!Next]_(Promise!vars) /\ Heard'
  BY NextStep DEF PromiseStep
<1> QED BY <1>1, <1>2, Invariance, PTL DEF Spec, KeepsPromise, Promise!Spec
=============================================================================

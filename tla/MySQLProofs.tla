----------------------------- MODULE MySQLProofs -----------------------------
(***************************************************************************)
(* Theorems about MySQL, for any number of connections and queries and any *)
(* behaviour of the script, the server and the network.                    *)
(***************************************************************************)
EXTENDS MySQL, SequenceTheorems, WellFoundedInduction, TLAPS

USE MySQLAssumption DEF Conns, Queries, None

-----------------------------------------------------------------------------
(* Values of the client.                                                   *)

(* d is c at another point of the handshake.                               *)
Keeps(c, d) ==
    /\ d \in ClientType
    /\ d.cli = c.cli /\ d.connected = c.connected
    /\ d.state = c.state /\ d.callback = c.callback
    /\ d.transaction = c.transaction

LEMMA ClientAny ==
    ASSUME NEW c \in ClientType, NEW h \in HandshakeStates, NEW b \in BOOLEAN
    PROVE  /\ Keeps(c, [c EXCEPT !.handshake = h])
           /\ Keeps(c, [c EXCEPT !.switchCheck = b])
           /\ Keeps(c, [c EXCEPT !.error = b])
           /\ [c EXCEPT !.error = b].error = b
<1>1. Keeps(c, [c EXCEPT !.handshake = h])
  BY DEF ClientType, Keeps
<1>2. Keeps(c, [c EXCEPT !.switchCheck = b])
  BY DEF ClientType, Keeps
<1>3. Keeps(c, [c EXCEPT !.error = b])
  BY DEF ClientType, Keeps
<1>4. [c EXCEPT !.error = b].error = b
  BY DEF ClientType
<1> QED BY <1>1, <1>2, <1>3, <1>4

LEMMA ClientKept ==
    ASSUME NEW c \in ClientType, NEW h \in HandshakeStates
    PROVE  /\ Keeps(c, [c EXCEPT !.handshake = h])
           /\ Keeps(c, [c EXCEPT !.switchCheck = TRUE])
           /\ Keeps(c, [c EXCEPT !.switchCheck = FALSE])
           /\ Keeps(c, [c EXCEPT !.error = TRUE])
           /\ Keeps(c, [c EXCEPT !.error = FALSE])
<1>1. \A b \in BOOLEAN : /\ Keeps(c, [c EXCEPT !.handshake = h])
                         /\ Keeps(c, [c EXCEPT !.switchCheck = b])
                         /\ Keeps(c, [c EXCEPT !.error = b])
  BY ClientAny
<1> QED BY <1>1

LEMMA KeepsTransitive ==
    ASSUME NEW c, NEW d, NEW e, Keeps(c, d), Keeps(d, e)
    PROVE  Keeps(c, e)
BY DEF Keeps

LEMMA FreedClient ==
    ASSUME NEW c \in ClientType
    PROVE  /\ Freed(c) \in ClientType
           /\ Freed(c).cli = None /\ ~Freed(c).connected
           /\ Freed(c).state = c.state /\ Freed(c).callback = c.callback
           /\ Freed(c).error = c.error
BY DEF ClientType, Freed

LEMMA ReportedClient ==
    ASSUME NEW c \in ClientType
    PROVE  /\ Reported(c) \in ClientType
           /\ Reported(c).cli = c.cli
           /\ Reported(c).connected => c.connected \/ ~c.error
           /\ Reported(c).state = c.state /\ Reported(c).callback = c.callback
<1> DEFINE b == c.connected \/ ~c.error
<1>1. b \in BOOLEAN
  OBVIOUS
<1>2. Reported(c) = [c EXCEPT !.connected = b]
  BY DEF Reported
<1> HIDE DEF b
<1>3. /\ Reported(c) \in ClientType
      /\ Reported(c).cli = c.cli /\ Reported(c).connected = b
      /\ Reported(c).state = c.state /\ Reported(c).callback = c.callback
  BY <1>1, <1>2 DEF ClientType
<1> QED BY <1>3 DEF b

-----------------------------------------------------------------------------
(* Packets.                                                                *)

Reply(kinds, q) == [i \in 1..Len(kinds) |-> [kind |-> kinds[i], query |-> q]]

LEMMA ReplyIsPackets ==
    ASSUME NEW kinds \in Seq(PacketKinds), NEW q \in {None} \cup Queries
    PROVE  Reply(kinds, q) \in Seq(Packet)
<1>1. \A i \in 1..Len(kinds) : [kind |-> kinds[i], query |-> q] \in Packet
  BY DEF Packet
<1>2. Len(kinds) \in Nat
  OBVIOUS
<1> QED BY <1>1, <1>2, IsASeq DEF Reply

LEMMA PlainIsPackets ==
    ASSUME NEW kinds \in Seq(PacketKinds)
    PROVE  Plain(kinds) \in Seq(Packet)
<1>1. Plain(kinds) = Reply(kinds, None)
  BY DEF Plain, Reply
<1> QED BY <1>1, ReplyIsPackets

LEMMA ServersKinds ==
    /\ Greeted \subseteq Seq(PacketKinds)
    /\ \A next : Verdicts(next) \subseteq Seq(PacketKinds)
    /\ \A greeted : Switched(greeted) \subseteq Seq(PacketKinds)
    /\ \A command : Results(command) \subseteq Seq(PacketKinds)
    /\ \A kinds : Opinion(kinds) \in {"pending", "done", "refused"}
<1> DEFINE K == {"greetNative", "greetSha2", "switchNative", "switchSha2",
                 "signature", "full", "key", "ok", "err", "count", "fields",
                 "row", "eof"}
<1>1. PacketKinds = K
  BY DEF PacketKinds, Greetings, Switches
<1>2. \A x \in K : <<x>> \in Seq(K)
  OBVIOUS
<1>3. <<"signature", "ok">> \in Seq(K)
  OBVIOUS
<1>4. <<"count", "fields", "row", "eof">> \in Seq(K)
  OBVIOUS
<1>5. <<"count", "fields", "err">> \in Seq(K)
  OBVIOUS
<1> HIDE DEF K
<1>6. {"greetNative", "greetSha2", "switchNative", "switchSha2", "full",
       "key", "ok", "err"} \subseteq K
  BY DEF K
<1>7. Greeted \subseteq Seq(K)
  BY <1>2, <1>6 DEF Greeted
<1>8. \A next : Verdicts(next) \subseteq Seq(K)
  BY <1>2, <1>3, <1>6 DEF Verdicts
<1>9. \A greeted : Switched(greeted) \subseteq Seq(K)
  BY <1>2, <1>6 DEF Switched
<1>10. \A command : Results(command) \subseteq Seq(K)
  BY <1>2, <1>4, <1>5, <1>6 DEF Results
<1>11. \A kinds : Opinion(kinds) \in {"pending", "done", "refused"}
  BY DEF Opinion
<1> QED BY <1>1, <1>7, <1>8, <1>9, <1>10, <1>11

(* What a query makes the server do keeps the types.                       *)
LEMMA ServerReadsTypes ==
    ASSUME TypeOK, NEW g \in Conns, NEW command \in Commands, NEW q \in Queries,
           ServerReads(g, command, q)
    PROVE  /\ wire' \in [Conns -> Seq(Packet)]
           /\ auth' \in [Conns -> {"pending", "done", "refused"}]
           /\ serverTx' \in [Conns -> BOOLEAN]
<1>1. \A kinds \in Seq(PacketKinds) :
         [wire EXCEPT ![g] = @ \o Reply(kinds, q)] \in [Conns -> Seq(Packet)]
  <2> TAKE kinds \in Seq(PacketKinds)
  <2>1. Reply(kinds, q) \in Seq(Packet) /\ wire[g] \in Seq(Packet)
    BY ReplyIsPackets DEF TypeOK
  <2>2. wire[g] \o Reply(kinds, q) \in Seq(Packet)
    BY <2>1, ConcatProperties
  <2> QED BY <2>2 DEF TypeOK
<1>2. CASE auth[g] = "done"
  <2>1. PICK kinds \in Results(command) :
          /\ wire' = [wire EXCEPT ![g] = @ \o Reply(kinds, q)]
          /\ serverTx' = [serverTx EXCEPT ![g] = TxAfter(g, command, kinds)]
    BY <1>2 DEF ServerReads, Reply
  <2>2. TxAfter(g, command, kinds) \in BOOLEAN
    BY DEF TxAfter, TypeOK
  <2>3. kinds \in Seq(PacketKinds)
    BY ServersKinds
  <2>4. serverTx' \in [Conns -> BOOLEAN]
    BY <2>1, <2>2 DEF TypeOK
  <2>5. UNCHANGED auth
    BY <1>2 DEF ServerReads
  <2> QED BY <1>1, <2>1, <2>3, <2>4, <2>5 DEF TypeOK
<1>3. CASE auth[g] = "pending"
  <2>1. <<"err">> \in Seq(PacketKinds)
    BY DEF PacketKinds
  <2>2. /\ wire' = [wire EXCEPT ![g] = @ \o Reply(<<"err">>, q)]
        /\ auth' = [auth EXCEPT ![g] = "refused"] /\ UNCHANGED serverTx
    BY <1>3 DEF ServerReads, Reply
  <2> QED BY <1>1, <2>1, <2>2 DEF TypeOK
<1>4. CASE auth[g] = "refused"
  BY <1>4 DEF ServerReads, TypeOK
<1> QED BY <1>2, <1>3, <1>4 DEF TypeOK

-----------------------------------------------------------------------------
(* The handshake, from a client c: the client waits for more, or the       *)
(* callback of connect() is told.                                          *)

Shaken(g, c) ==
    /\ wire' \in [Conns -> Seq(Packet)]
    /\ buffer' \in [Conns -> Seq(Packet)]
    /\ auth' \in [Conns -> {"pending", "done", "refused"}]
    /\ \/ Keeps(c, client') /\ UNCHANGED <<stack, told>>
       \/ \E d \in ClientType : Keeps(c, d) /\ Tell(g, d, FALSE, <<>>)

LEMMA ShakenFrom ==
    ASSUME NEW g, NEW c, NEW d, Keeps(c, d), Shaken(g, d)
    PROVE  Shaken(g, c)
BY KeepsTransitive DEF Shaken

LEMMA WaitShakes ==
    ASSUME TypeOK, NEW g \in Conns, NEW c \in ClientType,
           NEW read \in Seq(Packet), NEW rest \in Seq(Packet),
           Wait(g, c, read, rest)
    PROVE  Shaken(g, c)
<1>1. /\ wire' \in [Conns -> Seq(Packet)]
      /\ buffer' \in [Conns -> Seq(Packet)]
      /\ auth' \in [Conns -> {"pending", "done", "refused"}]
  BY DEF Wait, Keep, TypeOK
<1>2. Keeps(c, client') /\ UNCHANGED <<stack, told>>
  BY DEF Wait, Keeps
<1> QED BY <1>1, <1>2 DEF Shaken

LEMMA FinishShakes ==
    ASSUME TypeOK, NEW g \in Conns, NEW c \in ClientType,
           NEW read \in Seq(Packet), NEW rest \in Seq(Packet),
           Finish(g, c, read, rest)
    PROVE  Shaken(g, c)
<1>1. /\ wire' \in [Conns -> Seq(Packet)]
      /\ buffer' \in [Conns -> Seq(Packet)]
      /\ auth' \in [Conns -> {"pending", "done", "refused"}]
  BY DEF Finish, Keep, TypeOK
<1>2. Keeps(c, c) /\ Tell(g, c, FALSE, <<>>)
  BY DEF Finish, Keeps
<1> QED BY <1>1, <1>2 DEF Shaken

LEMMA SendShakes ==
    ASSUME TypeOK, NEW g \in Conns, NEW c \in ClientType,
           NEW next \in HandshakeStates, NEW greeted,
           NEW read \in Seq(Packet), NEW rest \in Seq(Packet),
           Send(g, c, next, greeted, read, rest)
    PROVE  Shaken(g, c)
<1>1. CASE /\ client' = [c EXCEPT !.handshake = next]
           /\ buffer' = [buffer EXCEPT ![g] = <<>>]
           /\ \/ /\ auth[g] = "pending"
                 /\ \E kinds \in Verdicts(next) \cup Switched(greeted) :
                       /\ wire' = [wire EXCEPT ![g] = rest \o Plain(kinds)]
                       /\ auth' = [auth EXCEPT ![g] = Opinion(kinds)]
              \/ /\ auth[g] = "refused"
                 /\ wire' = [wire EXCEPT ![g] = rest]
                 /\ UNCHANGED auth
           /\ UNCHANGED <<stack, told>>
  <2>1. Keeps(c, client')
    BY <1>1, ClientKept
  <2>2. buffer' \in [Conns -> Seq(Packet)]
    BY <1>1 DEF TypeOK
  <2>3. /\ wire' \in [Conns -> Seq(Packet)]
        /\ auth' \in [Conns -> {"pending", "done", "refused"}]
    <3>1. ASSUME NEW kinds \in Verdicts(next) \cup Switched(greeted),
                 wire' = [wire EXCEPT ![g] = rest \o Plain(kinds)],
                 auth' = [auth EXCEPT ![g] = Opinion(kinds)]
          PROVE  /\ wire' \in [Conns -> Seq(Packet)]
                 /\ auth' \in [Conns -> {"pending", "done", "refused"}]
      <4>1. kinds \in Seq(PacketKinds)
        BY ServersKinds
      <4>2. Plain(kinds) \in Seq(Packet)
        BY <4>1, PlainIsPackets
      <4>3. rest \o Plain(kinds) \in Seq(Packet)
        BY <4>2, ConcatProperties
      <4>4. Opinion(kinds) \in {"pending", "done", "refused"}
        BY ServersKinds
      <4> QED BY <3>1, <4>3, <4>4 DEF TypeOK
    <3>2. CASE wire' = [wire EXCEPT ![g] = rest] /\ UNCHANGED auth
      BY <3>2 DEF TypeOK
    <3> QED BY <1>1, <3>1, <3>2
  <2> QED BY <1>1, <2>1, <2>2, <2>3 DEF Shaken
<1>2. CASE Finish(g, [c EXCEPT !.error = TRUE], read, rest)
  <2> DEFINE d == [c EXCEPT !.error = TRUE]
  <2>1. Keeps(c, d) /\ d \in ClientType
    BY ClientKept DEF Keeps, HandshakeStates
  <2>2. Shaken(g, d)
    <3> HIDE DEF d
    <3>1. Finish(g, d, read, rest)
      BY <1>2 DEF d
    <3> QED BY <2>1, <3>1, FinishShakes
  <2> HIDE DEF d
  <2> QED BY <2>1, <2>2, ShakenFrom
<1> QED BY <1>1, <1>2 DEF Send

LEMMA ErrorShakes ==
    ASSUME TypeOK, NEW g \in Conns, NEW c \in ClientType,
           NEW read \in Seq(Packet), NEW rest \in Seq(Packet),
           NEW b \in {TRUE, FALSE}, Finish(g, [c EXCEPT !.error = b], read, rest)
    PROVE  Shaken(g, c)
<1> DEFINE d == [c EXCEPT !.error = b]
<1>1. Keeps(c, d) /\ d \in ClientType /\ Finish(g, d, read, rest)
  <2>1. b \in BOOLEAN /\ "COMPLETED" \in HandshakeStates
    BY DEF HandshakeStates
  <2>2. Keeps(c, d)
    BY <2>1, ClientAny
  <2> QED BY <2>2 DEF Keeps
<1> HIDE DEF d
<1>2. Shaken(g, d)
  BY <1>1, FinishShakes
<1> QED BY <1>1, <1>2, ShakenFrom

LEMMA ResultShakes ==
    ASSUME TypeOK, NEW g \in Conns, NEW c \in ClientType,
           NEW read \in Seq(Packet), NEW rest \in Seq(Packet),
           ShakeResult(g, c, read, rest)
    PROVE  Shaken(g, c)
<1>1. CASE Finish(g, [c EXCEPT !.error = TRUE], read, rest)
  BY <1>1, ErrorShakes
<1>2. CASE Finish(g, Completed(c), <<>>, rest)
  <2> DEFINE d == Completed(c)
  <2>1. Keeps(c, d) /\ d \in ClientType
    BY ClientKept DEF Keeps, HandshakeStates, Completed
  <2>2. <<>> \in Seq(Packet) /\ Finish(g, d, <<>>, rest)
    BY <1>2
  <2> HIDE DEF d
  <2>3. Shaken(g, d)
    BY <2>1, <2>2, FinishShakes
  <2> QED BY <2>1, <2>3, ShakenFrom
<1>3. CASE Wait(g, c, read, rest)
  BY <1>3, WaitShakes
<1> QED BY <1>1, <1>2, <1>3 DEF ShakeResult

LEMMA SignatureShakes ==
    ASSUME TypeOK, NEW g \in Conns, NEW c \in ClientType,
           NEW read \in Seq(Packet), NEW rest \in Seq(Packet),
           ShakeSignature(g, c, read, rest)
    PROVE  Shaken(g, c)
<1> DEFINE d == [c EXCEPT !.handshake = "WAIT_RESULT"]
<1>1. Keeps(c, d) /\ d \in ClientType
  BY ClientKept DEF Keeps, HandshakeStates
<1>2. \/ Wait(g, d, <<>>, rest)
      \/ read # <<>> /\ ShakeResult(g, d, Tail(read), rest)
      \/ Send(g, c, "WAIT_RSA", FALSE, read, rest)
      \/ Finish(g, c, read, rest)
  BY DEF ShakeSignature
<1> HIDE DEF d
<1>3. <<>> \in Seq(Packet) /\ "WAIT_RSA" \in HandshakeStates
  BY DEF HandshakeStates
<1>4. CASE Wait(g, d, <<>>, rest)
  BY <1>1, <1>3, <1>4, WaitShakes, ShakenFrom
<1>5. CASE read # <<>> /\ ShakeResult(g, d, Tail(read), rest)
  <2>1. Tail(read) \in Seq(Packet)
    BY <1>5, HeadTailProperties
  <2> QED BY <1>1, <1>5, <2>1, ResultShakes, ShakenFrom
<1>6. CASE Send(g, c, "WAIT_RSA", FALSE, read, rest)
  BY <1>3, <1>6, SendShakes
<1>7. CASE Finish(g, c, read, rest)
  BY <1>7, FinishShakes
<1> QED BY <1>2, <1>4, <1>5, <1>6, <1>7

LEMMA RequestShakes ==
    ASSUME TypeOK, NEW g \in Conns, NEW c \in ClientType,
           NEW read \in Seq(Packet), NEW rest \in Seq(Packet),
           ShakeRequest(g, c, read, rest)
    PROVE  Shaken(g, c)
<1> DEFINE d == [c EXCEPT !.switchCheck = TRUE]
<1>1. Keeps(c, d) /\ d \in ClientType
  BY ClientKept DEF Keeps, HandshakeStates
<1>2. \/ Send(g, d, Authenticated(Head(read).kind), TRUE, read, rest)
      \/ Finish(g, [d EXCEPT !.error = TRUE], read, rest)
      \/ Wait(g, d, read, rest)
  BY DEF ShakeRequest
<1> HIDE DEF d
<1>3. Authenticated(Head(read).kind) \in HandshakeStates
  BY DEF Authenticated, HandshakeStates
<1>4. CASE Send(g, d, Authenticated(Head(read).kind), TRUE, read, rest)
  BY <1>1, <1>3, <1>4, SendShakes, ShakenFrom
<1>5. CASE Finish(g, [d EXCEPT !.error = TRUE], read, rest)
  BY <1>1, <1>5, ErrorShakes, ShakenFrom
<1>6. CASE Wait(g, d, read, rest)
  BY <1>1, <1>6, WaitShakes, ShakenFrom
<1> QED BY <1>2, <1>4, <1>5, <1>6

LEMMA RsaShakes ==
    ASSUME TypeOK, NEW g \in Conns, NEW c \in ClientType,
           NEW read \in Seq(Packet), NEW rest \in Seq(Packet),
           ShakeRsa(g, c, read, rest)
    PROVE  Shaken(g, c)
<1>1. CASE Finish(g, [c EXCEPT !.error = TRUE], read, rest)
  BY <1>1, ErrorShakes
<1>2. CASE Finish(g, c, read, rest)
  BY <1>2, FinishShakes
<1>3. CASE Send(g, c, "WAIT_RESULT", FALSE, read, rest)
  BY <1>3, SendShakes DEF HandshakeStates
<1>4. CASE Wait(g, c, read, rest)
  BY <1>4, WaitShakes
<1> QED BY <1>1, <1>2, <1>3, <1>4 DEF ShakeRsa

LEMMA HandShakes ==
    ASSUME TypeOK, NEW g \in Conns,
           NEW read \in Seq(Packet), NEW rest \in Seq(Packet),
           OnHandShake(g, read, rest)
    PROVE  Shaken(g, client)
<1> DEFINE c == [client EXCEPT !.switchCheck = FALSE]
           next == Authenticated(Head(read \o rest).kind)
<1>1. Keeps(client, c) /\ c \in ClientType
  BY ClientKept DEF Keeps, HandshakeStates, TypeOK
<1>2. \/ Send(g, c, next, FALSE, read, rest)
      \/ Wait(g, c, read, rest)
      \/ ShakeRequest(g, c, read, rest)
      \/ ShakeSignature(g, c, read, rest)
      \/ ShakeRsa(g, c, read, rest)
      \/ ShakeResult(g, c, read, rest)
  BY DEF OnHandShake
<1>3. next \in HandshakeStates
  BY DEF Authenticated, HandshakeStates
<1> HIDE DEF c, next
<1>4. Shaken(g, c)
  <2>1. CASE Send(g, c, next, FALSE, read, rest)
    BY <1>1, <1>3, <2>1, SendShakes
  <2>2. CASE Wait(g, c, read, rest)
    BY <1>1, <2>2, WaitShakes
  <2>3. CASE ShakeRequest(g, c, read, rest)
    BY <1>1, <2>3, RequestShakes
  <2>4. CASE ShakeSignature(g, c, read, rest)
    BY <1>1, <2>4, SignatureShakes
  <2>5. CASE ShakeRsa(g, c, read, rest)
    BY <1>1, <2>5, RsaShakes
  <2>6. CASE ShakeResult(g, c, read, rest)
    BY <1>1, <2>6, ResultShakes
  <2> QED BY <1>2, <2>1, <2>2, <2>3, <2>4, <2>5, <2>6
<1> QED BY <1>1, <1>4, ShakenFrom

-----------------------------------------------------------------------------
(* The inductive invariant.                                                *)

(* A callback that drops a reference does it for a closed connection.      *)
FramesDrop(s, phase) ==
    \A i \in 1..Len(s) : s[i].drops => phase[s[i].conn] = "closed"

(* The connections before the client's own are over.                       *)
OneClient ==
    /\ client.cli # None => client.cli <= connects
    /\ \A g \in Conns :
          /\ conn[g] = "none" <=> g > connects
          /\ g # client.cli => conn[g] \in {"none", "closed"}

ConnInv ==
    /\ HandlersFindTheirClient
    /\ ConnectedIsEstablished
    /\ OneClient
    /\ FramesDrop(stack, conn)

(* A query was sent on a connection that was established, and a client     *)
(* that waits does so for a query that has no answer yet.                  *)
QueryInv ==
    /\ \A q \in 1..Len(queries) :
          /\ q \in Queries
          /\ queries[q] # None => conn[queries[q]] \in {"connected", "closed"}
    /\ \A q \in Queries : q > Len(queries) => answers[q] = 0
    /\ client.state # "QUERY" => /\ client.callback \in 1..Len(queries)
                                 /\ answers[client.callback] = 0
    /\ AnsweredAtMostOnce
    /\ NoQueryIsForgotten

IInv == TypeOK /\ ConnInv /\ QueryInv

LEMMA InitInvariant == Init => IInv
<1> SUFFICES ASSUME Init PROVE IInv
  OBVIOUS
<1>1. client \in ClientType
  <2>1. \A b \in BOOLEAN :
           [cli |-> None, connected |-> b, state |-> "QUERY",
            handshake |-> "WAIT_REQUEST", switchCheck |-> b,
            transaction |-> b, error |-> b, callback |-> None] \in ClientType
    BY DEF ClientType, ReadStates, HandshakeStates
  <2> QED BY <2>1 DEF Init
<1>2. /\ wire \in [Conns -> Seq(Packet)] /\ buffer \in [Conns -> Seq(Packet)]
      /\ stack \in Seq(FrameType) /\ queries \in Seq({None} \cup Conns)
      /\ told \in [Conns -> Seq(BOOLEAN)]
  BY DEF Init
<1>3. /\ cut \in [Conns -> BOOLEAN] /\ serverTx \in [Conns -> BOOLEAN]
      /\ alive \in BOOLEAN /\ fault \in BOOLEAN
  BY DEF Init
<1>4. rsa \in BOOLEAN
  BY DEF Init
<1>5. TypeOK
  BY <1>1, <1>2, <1>3, <1>4 DEF Init, TypeOK, Phases
<1>6. ConnInv
  BY DEF Init, ConnInv, HandlersFindTheirClient, ConnectedIsEstablished,
         OneClient, FramesDrop, Open
<1>7. QueryInv
  BY DEF Init, QueryInv, AnsweredAtMostOnce, NoQueryIsForgotten
<1> QED BY <1>5, <1>6, <1>7 DEF IInv

LEMMA PushFrame ==
    ASSUME NEW below \in Seq(FrameType), NEW g \in Conns, NEW phase,
           NEW kind \in {"connect", "result", "close"}, NEW drops \in BOOLEAN,
           FramesDrop(below, phase), drops => phase[g] = "closed"
    PROVE  /\ Push(kind, g, drops, below) \in Seq(FrameType)
           /\ FramesDrop(Push(kind, g, drops, below), phase)
<1> DEFINE f == [kind |-> kind, conn |-> g, drops |-> drops]
<1>1. f \in FrameType /\ f.drops = drops /\ f.conn = g
  BY DEF FrameType
<1>2. Push(kind, g, drops, below) = <<f>> \o below
  BY DEF Push
<1> HIDE DEF f
<1>3. /\ <<f>> \o below \in Seq(FrameType)
      /\ Len(<<f>> \o below) = Len(below) + 1 /\ Len(below) \in Nat
      /\ (<<f>> \o below)[1] = f
      /\ \A i \in 1..Len(below) + 1 : i # 1 =>
            i - 1 \in 1..Len(below) /\ (<<f>> \o below)[i] = below[i - 1]
  BY <1>1
<1>4. FramesDrop(<<f>> \o below, phase)
  BY <1>1, <1>3 DEF FramesDrop
<1> QED BY <1>2, <1>3, <1>4

LEMMA PopFrame ==
    ASSUME NEW s \in Seq(FrameType), s # <<>>, NEW phase, FramesDrop(s, phase)
    PROVE  /\ Head(s) \in FrameType
           /\ Head(s).drops => phase[Head(s).conn] = "closed"
           /\ Tail(s) \in Seq(FrameType)
           /\ FramesDrop(Tail(s), phase)
<1>1. /\ Len(s) \in Nat /\ Len(s) > 0
      /\ Len(Tail(s)) = Len(s) - 1 /\ Tail(s) \in Seq(FrameType)
      /\ \A i \in 1..Len(Tail(s)) : Tail(s)[i] = s[i + 1]
      /\ Head(s) = s[1] /\ s[1] \in FrameType
  BY HeadTailProperties, EmptySeq, LenProperties
<1>2. /\ \A i \in 1..Len(Tail(s)) : i + 1 \in 1..Len(s)
      /\ 1 \in 1..Len(s)
  BY <1>1
<1> QED BY <1>1, <1>2 DEF FramesDrop

-----------------------------------------------------------------------------
(* Kinds of steps.                                                         *)

(* The queries stay, and no connection becomes one they were sent on.      *)
LEMMA QueriesKept ==
    ASSUME TypeOK, QueryInv, UNCHANGED <<queries, answers>>,
           client'.state = client.state, client'.callback = client.callback,
           \A g \in Conns : \/ conn'[g] = conn[g]
                            \/ conn'[g] = "closed"
                            \/ conn[g] \notin {"connected", "closed"}
    PROVE  QueryInv'
<1>1. \A q \in 1..Len(queries) : queries[q] \in {None} \cup Conns
  BY DEF TypeOK
<1>2. ASSUME NEW q \in 1..Len(queries), queries[q] # None
      PROVE  /\ conn'[queries[q]] \in {"connected", "closed"}
             /\ conn'[queries[q]] = "connected" => conn[queries[q]] = "connected"
  BY <1>1, <1>2 DEF QueryInv
<1>3. /\ \A q \in 1..Len(queries) :
           /\ q \in Queries
           /\ queries[q] # None => conn'[queries[q]] \in {"connected", "closed"}
      /\ \A q \in Queries : q > Len(queries) => answers[q] = 0
      /\ client'.state # "QUERY" => /\ client'.callback \in 1..Len(queries)
                                    /\ answers[client'.callback] = 0
  BY <1>2 DEF QueryInv
<1>4. AnsweredAtMostOnce'
  BY DEF QueryInv, AnsweredAtMostOnce
<1>5. NoQueryIsForgotten'
  BY <1>2 DEF QueryInv, NoQueryIsForgotten
<1> QED BY <1>3, <1>4, <1>5 DEF QueryInv

(* The connections stay, and the client's is established if it becomes     *)
(* connected.                                                              *)
LEMMA ConnectionsKept ==
    ASSUME ConnInv, UNCHANGED <<conn, connects, alive, ref>>,
           client'.cli = client.cli,
           client'.connected => client.connected \/ \E g \in Conns :
                client.cli = g /\ conn[g] = "connected",
           FramesDrop(stack', conn)
    PROVE  ConnInv'
<1>1. HandlersFindTheirClient'
  BY DEF ConnInv, HandlersFindTheirClient, Open
<1>2. ConnectedIsEstablished'
  BY DEF ConnInv, ConnectedIsEstablished
<1>3. OneClient' /\ FramesDrop(stack, conn)'
  BY DEF ConnInv, OneClient, FramesDrop
<1> QED BY <1>1, <1>2, <1>3 DEF ConnInv

(* A connection is closed.                                                 *)
LEMMA ConnectionCloses ==
    ASSUME TypeOK, ConnInv, NEW g \in Conns, client.cli = g,
           conn[g] # "closed", NEW below \in Seq(FrameType),
           FramesDrop(below, conn), CloseConnection(g, below), UNCHANGED connects
    PROVE  /\ ConnInv'
           /\ conn' \in [Conns -> Phases] /\ client' \in ClientType
           /\ stack' \in Seq(FrameType)
           /\ client'.state = client.state /\ client'.callback = client.callback
           /\ \A h \in Conns : conn'[h] = conn[h] \/ conn'[h] = "closed"
<1>1. conn' = [conn EXCEPT ![g] = "closed"]
  BY DEF CloseConnection
<1>2. /\ conn' \in [Conns -> Phases] /\ conn'[g] = "closed"
      /\ \A h \in Conns : h # g => conn'[h] = conn[h]
  BY <1>1 DEF TypeOK, Phases
<1>3. conn[g] # "none" /\ \A h \in Conns : conn'[h] \in {"none", "closed"}
  <2>1. connects \in Nat /\ g \in Nat /\ g # 0
    BY DEF TypeOK
  <2>2. ~(g > connects)
    BY <2>1 DEF ConnInv, OneClient
  <2>3. conn[g] # "none"
    BY <2>2 DEF ConnInv, OneClient
  <2>4. \A h \in Conns : h # g => conn'[h] \in {"none", "closed"}
    BY <1>2 DEF ConnInv, OneClient
  <2> QED BY <1>2, <2>3, <2>4
<1>4. FramesDrop(below, conn')
  <2>1. \A i \in 1..Len(below) : below[i] \in FrameType
    BY ElementOfSeq
  <2>2. \A i \in 1..Len(below) : below[i].conn \in Conns
    BY <2>1 DEF FrameType
  <2> QED BY <1>2, <2>2 DEF FramesDrop
<1>5. /\ client' \in ClientType /\ ~client'.connected
      /\ client'.cli \in {None, g}
      /\ client'.state = client.state /\ client'.callback = client.callback
      /\ stack' \in Seq(FrameType) /\ FramesDrop(stack', conn')
  <2>1. CASE conn[g] = "connected"
    <3>1. client' = Freed(client) /\ stack' = Push("close", g, TRUE, below)
      BY <2>1 DEF CloseConnection
    <3>2. client \in ClientType /\ TRUE \in BOOLEAN
      BY DEF TypeOK
    <3>3. /\ Push("close", g, TRUE, below) \in Seq(FrameType)
          /\ FramesDrop(Push("close", g, TRUE, below), conn')
      BY <1>2, <1>4, <3>2, PushFrame
    <3> QED BY <3>1, <3>2, <3>3, FreedClient
  <2>2. CASE conn[g] # "connected"
    <3>1. UNCHANGED client /\ stack' = below
      BY <2>2 DEF CloseConnection
    <3> QED BY <1>4, <2>2, <3>1 DEF ConnInv, ConnectedIsEstablished, TypeOK
  <2> QED BY <2>1, <2>2
<1>6. HandlersFindTheirClient' /\ ConnectedIsEstablished'
  BY <1>3, <1>5 DEF HandlersFindTheirClient, ConnectedIsEstablished, Open
<1>7. OneClient'
  <2>1. \A h \in Conns : conn'[h] = "none" <=> conn[h] = "none"
    BY <1>2, <1>3
  <2>2. \A h \in Conns : conn'[h] = "none" <=> h > connects'
    BY <2>1 DEF ConnInv, OneClient
  <2>3. client'.cli # None => client'.cli <= connects'
    BY <1>5 DEF ConnInv, OneClient
  <2> QED BY <1>3, <2>2, <2>3 DEF OneClient
<1>8. FramesDrop(stack, conn)'
  BY <1>5
<1> QED BY <1>2, <1>5, <1>6, <1>7, <1>8 DEF ConnInv

(* The method close(), where the object and its references may go.         *)
LEMMA CloseMethodCloses ==
    ASSUME TypeOK, ConnInv, NEW below \in Seq(FrameType),
           FramesDrop(below, conn), CloseMethod(below), UNCHANGED connects,
           \A g \in Conns : Open(g) => alive' /\ g \in ref'
    PROVE  /\ ConnInv'
           /\ conn' \in [Conns -> Phases] /\ client' \in ClientType
           /\ stack' \in Seq(FrameType)
           /\ client'.state = client.state /\ client'.callback = client.callback
           /\ \A h \in Conns : conn'[h] = conn[h] \/ conn'[h] = "closed"
<1>1. CASE Closable
  <2> DEFINE g == client.cli
  <2>1. g \in Conns /\ conn[g] # "closed" /\ CloseConnection(g, below)
    BY <1>1 DEF Closable, CloseMethod, TypeOK, ClientType
  <2> HIDE DEF g
  <2>2. client.cli = g
    BY DEF g
  <2> QED BY <2>1, <2>2, ConnectionCloses
<1>2. CASE ~Closable
  <2>1. UNCHANGED <<client, conn>> /\ stack' = below
    BY <1>2 DEF CloseMethod
  <2>2. HandlersFindTheirClient'
    BY <2>1 DEF ConnInv, HandlersFindTheirClient, Open
  <2>3. ConnectedIsEstablished' /\ OneClient'
    BY <2>1 DEF ConnInv, ConnectedIsEstablished, OneClient
  <2>4. FramesDrop(stack, conn)'
    BY <2>1 DEF FramesDrop
  <2> QED BY <2>1, <2>2, <2>3, <2>4 DEF ConnInv, TypeOK
<1> QED BY <1>1, <1>2

-----------------------------------------------------------------------------
(* Every step preserves the invariant.                                     *)

(* The callback of connect() is told.                                      *)
LEMMA TellTypes ==
    ASSUME TypeOK, NEW g \in Conns, NEW c \in ClientType,
           NEW drops \in BOOLEAN, NEW below \in Seq(FrameType), NEW phase,
           FramesDrop(below, phase), drops => phase[g] = "closed",
           Tell(g, c, drops, below)
    PROVE  /\ told' \in [Conns -> Seq(BOOLEAN)]
           /\ stack' \in Seq(FrameType) /\ FramesDrop(stack', phase)
           /\ client' \in ClientType /\ client'.cli = c.cli
           /\ client'.connected => c.connected \/ ~c.error
           /\ client'.state = c.state /\ client'.callback = c.callback
<1> DEFINE b == ~c.error
<1>1. b \in BOOLEAN /\ told' = [told EXCEPT ![g] = Append(@, b)]
  BY DEF Tell
<1> HIDE DEF b
<1>2. told[g] \in Seq(BOOLEAN)
  BY DEF TypeOK
<1>3. Append(told[g], b) \in Seq(BOOLEAN)
  BY <1>1, <1>2, AppendProperties
<1>4. told' \in [Conns -> Seq(BOOLEAN)]
  BY <1>1, <1>3 DEF TypeOK
<1>5. /\ stack' = Push("connect", g, drops, below)
      /\ client' = Reported(c)
  BY DEF Tell
<1>6. stack' \in Seq(FrameType) /\ FramesDrop(stack', phase)
  BY <1>5, PushFrame
<1> QED BY <1>4, <1>5, <1>6, ReportedClient

(* The client with an error, when its connection is freed.                 *)
LEMMA FailedClient ==
    ASSUME NEW c \in ClientType
    PROVE  /\ Freed([c EXCEPT !.error = TRUE]) \in ClientType
           /\ Freed([c EXCEPT !.error = TRUE]).cli = None
           /\ ~Freed([c EXCEPT !.error = TRUE]).connected
           /\ Freed([c EXCEPT !.error = TRUE]).error
           /\ Freed([c EXCEPT !.error = TRUE]).state = c.state
           /\ Freed([c EXCEPT !.error = TRUE]).callback = c.callback
<1> DEFINE d == [c EXCEPT !.error = TRUE]
<1>1. Keeps(c, d)
  BY ClientKept DEF HandshakeStates
<1>2. d.error
  BY DEF ClientType
<1> HIDE DEF d
<1>3. d \in ClientType /\ d.state = c.state /\ d.callback = c.callback
  BY <1>1 DEF Keeps
<1>4. /\ Freed(d) \in ClientType /\ Freed(d).cli = None /\ ~Freed(d).connected
      /\ Freed(d).state = d.state /\ Freed(d).callback = d.callback
      /\ Freed(d).error = d.error
  BY <1>3, FreedClient
<1>5. /\ Freed(d) \in ClientType /\ Freed(d).cli = None /\ ~Freed(d).connected
      /\ Freed(d).error /\ Freed(d).state = c.state
      /\ Freed(d).callback = c.callback
  BY <1>2, <1>3, <1>4
<1> QED BY <1>5 DEF d

LEMMA ConnectInvariant ==
    ASSUME IInv, NEW g \in Conns, Connect(g)
    PROVE  IInv'
<1> USE DEF IInv
<1>1. /\ client.cli = None /\ g = connects + 1 /\ connects' = g
      /\ connects \in Nat /\ alive /\ ref' = ref \cup {g}
      /\ UNCHANGED <<wire, cut, buffer, auth, serverTx, queries, answers,
                     alive, rsa, fault>>
      /\ ~client.connected /\ client \in ClientType
  BY DEF Connect, ScriptRuns, Referenced, TypeOK, external, script,
         ConnInv, ConnectedIsEstablished
<1>2. conn[g] = "none" /\ \A h \in Conns : conn[h] \in {"none", "closed"}
  BY <1>1 DEF ConnInv, OneClient, TypeOK
<1>3. PICK p \in {"connecting", "idle", "closed"} :
        /\ conn' = [conn EXCEPT ![g] = p]
        /\ \/ /\ p # "closed" /\ client' = [client EXCEPT !.cli = g]
              /\ UNCHANGED <<stack, told>>
           \/ /\ p = "closed"
              /\ Tell(g, Freed([client EXCEPT !.error = TRUE]), TRUE, stack)
  BY DEF Connect
<1>4. /\ conn' \in [Conns -> Phases] /\ conn'[g] = p
      /\ \A h \in Conns : h # g => conn'[h] = conn[h]
  BY <1>3 DEF TypeOK, Phases
<1>5. FramesDrop(stack, conn')
  <2>1. \A i \in 1..Len(stack) : stack[i] \in FrameType
    BY ElementOfSeq DEF TypeOK
  <2>2. \A i \in 1..Len(stack) : stack[i].conn \in Conns
    BY <2>1 DEF FrameType
  <2> QED BY <1>2, <1>4, <2>2 DEF FramesDrop, ConnInv
<1>6. /\ client' \in ClientType /\ ~client'.connected
      /\ client'.cli = (IF p = "closed" THEN None ELSE g)
      /\ client'.state = client.state /\ client'.callback = client.callback
      /\ told' \in [Conns -> Seq(BOOLEAN)]
      /\ stack' \in Seq(FrameType) /\ FramesDrop(stack', conn')
  <2>1. CASE p # "closed"
    BY <1>1, <1>3, <1>5, <2>1 DEF ClientType, TypeOK
  <2>2. CASE p = "closed"
    <3> DEFINE c == Freed([client EXCEPT !.error = TRUE])
    <3>1. /\ c \in ClientType /\ c.cli = None /\ ~c.connected /\ c.error
          /\ c.state = client.state /\ c.callback = client.callback
          /\ Tell(g, c, TRUE, stack)
      BY <1>1, <1>3, <2>2, FailedClient
    <3> HIDE DEF c
    <3>2. stack \in Seq(FrameType) /\ TRUE \in BOOLEAN
      BY DEF TypeOK
    <3> QED BY <1>4, <1>5, <2>2, <3>1, <3>2, TellTypes
  <2> QED BY <2>1, <2>2
<1>7. TypeOK'
  BY <1>1, <1>4, <1>6 DEF TypeOK
<1>8. HandlersFindTheirClient' /\ ConnectedIsEstablished'
  BY <1>1, <1>2, <1>4, <1>6
     DEF HandlersFindTheirClient, ConnectedIsEstablished, Open
<1>9. OneClient'
  <2>1. \A h \in Conns : h # g => (conn'[h] = "none" <=> h > connects')
    BY <1>1, <1>4 DEF ConnInv, OneClient
  <2>2. conn'[g] # "none" /\ ~(g > connects')
    BY <1>1, <1>4
  <2>3. client'.cli # None => client'.cli <= connects'
    BY <1>1, <1>6
  <2>4. \A h \in Conns : h # client'.cli => conn'[h] \in {"none", "closed"}
    BY <1>2, <1>4, <1>6
  <2> QED BY <2>1, <2>2, <2>3, <2>4 DEF OneClient
<1>10. ConnInv'
  BY <1>6, <1>8, <1>9 DEF ConnInv
<1>11. QueryInv'
  BY <1>1, <1>2, <1>4, <1>6, QueriesKept
<1> QED BY <1>7, <1>10, <1>11

LEMMA QueryInvariant ==
    ASSUME IInv, NEW command \in Commands, Query(command)
    PROVE  IInv'
<1> USE DEF IInv
<1> DEFINE q == Len(queries) + 1
           h == client.cli
<1>1. /\ q \in Queries /\ Len(queries) \in Nat
      /\ client.connected /\ client.state = "QUERY"
      /\ UNCHANGED <<cut, buffer, conn, ref, stack, connects, answers, told,
                     alive, rsa, fault>>
      /\ client \in ClientType
  BY DEF Query, Idle, TypeOK
<1>2. h \in Conns /\ conn[h] = "connected"
  BY <1>1 DEF ConnInv, ConnectedIsEstablished, ClientType
<1>3. TransactionAfter(command) \in BOOLEAN
  BY <1>1 DEF TransactionAfter, ClientType
<1>4. PICK to \in {None, h} :
        /\ queries' = Append(queries, to)
        /\ client' \in ClientType /\ client'.cli = client.cli
        /\ client'.connected = client.connected
        /\ client'.callback = q
        /\ client'.state = (IF to = None THEN "QUERY" ELSE "READ_START")
        /\ wire' \in [Conns -> Seq(Packet)]
        /\ auth' \in [Conns -> {"pending", "done", "refused"}]
        /\ serverTx' \in [Conns -> BOOLEAN]
  <2>1. CASE /\ client' = [client EXCEPT
                    !.callback = Registered(q), !.state = "READ_START",
                    !.transaction = TransactionAfter(command)]
             /\ ServerReads(client.cli, command, q)
             /\ queries' = Append(queries, client.cli)
    <3>1. /\ client' \in ClientType /\ client'.cli = client.cli
          /\ client'.connected = client.connected /\ client'.callback = q
          /\ client'.state = "READ_START"
      BY <1>1, <1>3, <2>1 DEF ClientType, ReadStates, Registered
    <3>2. /\ wire' \in [Conns -> Seq(Packet)]
          /\ auth' \in [Conns -> {"pending", "done", "refused"}]
          /\ serverTx' \in [Conns -> BOOLEAN]
      BY <1>1, <1>2, <2>1, ServerReadsTypes
    <3> QED BY <1>2, <2>1, <3>1, <3>2
  <2>2. CASE /\ client' = [client EXCEPT !.callback = Registered(q)]
             /\ queries' = Append(queries, None)
             /\ UNCHANGED <<wire, auth, serverTx>>
    <3>1. /\ client' \in ClientType /\ client'.cli = client.cli
          /\ client'.connected = client.connected /\ client'.callback = q
          /\ client'.state = "QUERY"
      BY <1>1, <2>2 DEF ClientType, Registered
    <3> QED BY <2>2, <3>1 DEF TypeOK
  <2> QED BY <2>1, <2>2 DEF Query
<1> HIDE DEF h
<1>5. /\ queries' \in Seq({None} \cup Conns) /\ Len(queries') = q
      /\ \A i \in 1..Len(queries) : queries'[i] = queries[i]
      /\ queries'[q] = to
  <2>1. to \in {None} \cup Conns /\ queries \in Seq({None} \cup Conns)
    BY <1>2, <1>4 DEF TypeOK
  <2> QED BY <1>4, <2>1, AppendProperties
<1>6. TypeOK'
  BY <1>1, <1>4, <1>5 DEF TypeOK
<1>7. ConnInv'
  BY <1>1, <1>4, ConnectionsKept DEF ConnInv
<1>8. \A i \in 1..Len(queries') : i = q \/ i \in 1..Len(queries)
  BY <1>1, <1>5
<1>9. q \in 1..Len(queries') /\ answers[q] = 0
  <2>1. q > Len(queries)
    BY <1>1
  <2> QED BY <1>1, <1>5, <2>1 DEF QueryInv
<1>10. AnsweredAtMostOnce'
  BY <1>1 DEF QueryInv, AnsweredAtMostOnce
<1>11. NoQueryIsForgotten'
  <2> SUFFICES ASSUME NEW i \in 1..Len(queries'), queries'[i] # None,
                      answers[i] = 0, conn[queries'[i]] = "connected"
               PROVE  client'.callback = i /\ client'.state # "QUERY"
    BY <1>1 DEF NoQueryIsForgotten
  <2>1. i \notin 1..Len(queries)
    BY <1>1, <1>5 DEF QueryInv, NoQueryIsForgotten
  <2>2. i = q /\ to # None
    BY <1>5, <1>8, <2>1
  <2> QED BY <1>4, <2>2
<1>12. \A i \in 1..Len(queries') :
          /\ i \in Queries
          /\ queries'[i] # None => conn'[queries'[i]] \in {"connected", "closed"}
  <2> SUFFICES ASSUME NEW i \in 1..Len(queries')
               PROVE  /\ i \in Queries
                      /\ queries'[i] # None =>
                            conn[queries'[i]] \in {"connected", "closed"}
    BY <1>1
  <2>1. CASE i = q
    BY <1>1, <1>2, <1>4, <1>5, <2>1
  <2>2. CASE i \in 1..Len(queries)
    BY <1>5, <2>2 DEF QueryInv
  <2> QED BY <1>8, <2>1, <2>2
<1>13. \A i \in Queries : i > Len(queries') => answers'[i] = 0
  BY <1>1, <1>5 DEF QueryInv
<1>14. client'.state # "QUERY" => /\ client'.callback \in 1..Len(queries')
                                  /\ answers'[client'.callback] = 0
  BY <1>1, <1>4, <1>9
<1>15. QueryInv'
  BY <1>10, <1>11, <1>12, <1>13, <1>14 DEF QueryInv
<1> QED BY <1>6, <1>7, <1>15

LEMMA OnConnectInvariant ==
    ASSUME IInv, NEW g \in Conns, OnConnect(g)
    PROVE  IInv'
<1> USE DEF IInv
<1>1. /\ conn[g] = "connecting" /\ conn' = [conn EXCEPT ![g] = "connected"]
      /\ UNCHANGED <<cut, buffer, serverTx, ref, stack, connects, queries,
                     answers, told, alive, rsa, fault>>
      /\ client \in ClientType
  BY DEF OnConnect, TypeOK, script
<1>2. Keeps(client, client')
  <2>1. "WAIT_REQUEST" \in HandshakeStates
    BY DEF HandshakeStates
  <2> QED BY <1>1, <2>1, ClientKept DEF OnConnect
<1>3. /\ conn' \in [Conns -> Phases] /\ conn'[g] = "connected"
      /\ \A h \in Conns : h # g => conn'[h] = conn[h]
  BY <1>1 DEF TypeOK, Phases
<1>4. /\ wire' \in [Conns -> Seq(Packet)]
      /\ auth' \in [Conns -> {"pending", "done", "refused"}]
  <2>1. PICK kinds \in Greeted :
          /\ wire' = [wire EXCEPT ![g] = Plain(kinds)]
          /\ auth' = [auth EXCEPT ![g] = Opinion(kinds)]
    BY DEF OnConnect
  <2>2. Plain(kinds) \in Seq(Packet)
    BY ServersKinds, PlainIsPackets
  <2>3. Opinion(kinds) \in {"pending", "done", "refused"}
    BY ServersKinds
  <2> QED BY <2>1, <2>2, <2>3 DEF TypeOK
<1>5. TypeOK'
  BY <1>1, <1>2, <1>3, <1>4 DEF TypeOK, Keeps
<1>6. client.cli = g /\ ~client.connected
  BY <1>1 DEF ConnInv, HandlersFindTheirClient, ConnectedIsEstablished, Open
<1>7. \A h \in Conns : Open(h)' <=> Open(h)
  BY <1>1, <1>3 DEF Open
<1>8. HandlersFindTheirClient' /\ ConnectedIsEstablished'
  BY <1>1, <1>2, <1>6, <1>7
     DEF ConnInv, HandlersFindTheirClient, ConnectedIsEstablished, Keeps
<1>9. OneClient'
  BY <1>1, <1>2, <1>3, <1>6 DEF ConnInv, OneClient, Keeps
<1>10. FramesDrop(stack, conn)'
  <2>1. \A i \in 1..Len(stack) : stack[i] \in FrameType
    BY ElementOfSeq DEF TypeOK
  <2>2. \A i \in 1..Len(stack) : stack[i].conn \in Conns
    BY <2>1 DEF FrameType
  <2> QED BY <1>1, <1>3, <2>2 DEF FramesDrop, ConnInv
<1>11. QueryInv'
  BY <1>1, <1>2, <1>3, QueriesKept DEF Keeps
<1> QED BY <1>5, <1>8, <1>9, <1>10, <1>11 DEF ConnInv

LEMMA OnErrorInvariant ==
    ASSUME IInv, NEW g \in Conns, OnError(g)
    PROVE  IInv'
<1> USE DEF IInv
<1> DEFINE c == Freed([client EXCEPT !.error = TRUE])
<1>1. /\ conn[g] = "connecting" /\ conn' = [conn EXCEPT ![g] = "closed"]
      /\ UNCHANGED <<wire, cut, buffer, auth, serverTx, ref, connects, queries,
                     answers, alive, rsa, fault>>
      /\ Tell(g, c, TRUE, <<>>)
      /\ client \in ClientType /\ <<>> \in Seq(FrameType) /\ TRUE \in BOOLEAN
  <2>1. conn[g] = "connecting" /\ conn' = [conn EXCEPT ![g] = "closed"]
    BY DEF OnError
  <2>2. UNCHANGED <<wire, cut, buffer, auth, serverTx, ref, connects, queries,
                    answers, alive, rsa, fault>>
    BY DEF OnError, script, external
  <2>3. Tell(g, c, TRUE, <<>>)
    BY DEF OnError
  <2>4. client \in ClientType
    BY DEF TypeOK
  <2>5. <<>> \in Seq(FrameType)
    OBVIOUS
  <2> HIDE DEF c
  <2> QED BY <2>1, <2>2, <2>3, <2>4, <2>5
<1>2. /\ conn' \in [Conns -> Phases] /\ conn'[g] = "closed"
      /\ \A h \in Conns : h # g => conn'[h] = conn[h]
  BY <1>1 DEF TypeOK, Phases
<1>3. /\ c \in ClientType /\ c.cli = None /\ ~c.connected /\ c.error
      /\ c.state = client.state /\ c.callback = client.callback
  BY <1>1, FailedClient
<1> HIDE DEF c
<1>4. FramesDrop(<<>>, conn')
  BY DEF FramesDrop
<1>5. /\ told' \in [Conns -> Seq(BOOLEAN)]
      /\ stack' \in Seq(FrameType) /\ FramesDrop(stack', conn')
      /\ client' \in ClientType /\ client'.cli = c.cli
      /\ client'.connected => c.connected \/ ~c.error
      /\ client'.state = c.state /\ client'.callback = c.callback
  BY <1>1, <1>2, <1>3, <1>4, TellTypes
<1>6. TypeOK'
  BY <1>1, <1>2, <1>5 DEF TypeOK
<1>7. client.cli = g
  BY <1>1 DEF ConnInv, HandlersFindTheirClient, Open
<1>8. \A h \in Conns : conn'[h] \in {"none", "closed"}
  BY <1>2, <1>7 DEF ConnInv, OneClient
<1>9. HandlersFindTheirClient' /\ ConnectedIsEstablished'
  BY <1>3, <1>5, <1>8 DEF HandlersFindTheirClient, ConnectedIsEstablished, Open
<1>10. OneClient'
  BY <1>1, <1>2, <1>3, <1>5, <1>8 DEF ConnInv, OneClient
<1>11. FramesDrop(stack, conn)'
  BY <1>5
<1>12. QueryInv'
  BY <1>1, <1>2, <1>3, <1>5, QueriesKept
<1> QED BY <1>6, <1>9, <1>10, <1>11, <1>12 DEF ConnInv

(* A step that closes and touches no packet.                               *)
LEMMA CloseStep ==
    ASSUME IInv, ConnInv',
           conn' \in [Conns -> Phases], client' \in ClientType,
           stack' \in Seq(FrameType),
           client'.state = client.state, client'.callback = client.callback,
           \A h \in Conns : conn'[h] = conn[h] \/ conn'[h] = "closed",
           alive' \in BOOLEAN, fault' \in BOOLEAN, ref' \in SUBSET Conns,
           UNCHANGED <<wire, cut, buffer, auth, serverTx, connects, queries,
                       answers, told, rsa>>
    PROVE  IInv'
<1>1. TypeOK'
  BY DEF IInv, TypeOK
<1>2. QueryInv'
  BY QueriesKept DEF IInv
<1> QED BY <1>1, <1>2 DEF IInv

LEMMA OnCloseInvariant ==
    ASSUME IInv, NEW g \in Conns, OnClose(g)
    PROVE  IInv'
<1>1. /\ conn[g] = "connected" /\ CloseConnection(g, <<>>)
      /\ UNCHANGED <<wire, cut, buffer, auth, serverTx, ref, connects, queries,
                     answers, told, alive, rsa, fault>>
  BY DEF OnClose, external, script
<1>2. client.cli = g /\ TypeOK /\ ConnInv
  BY <1>1 DEF IInv, ConnInv, HandlersFindTheirClient, Open
<1>3. <<>> \in Seq(FrameType) /\ FramesDrop(<<>>, conn)
  BY DEF FramesDrop
<1>4. alive' \in BOOLEAN /\ fault' \in BOOLEAN /\ ref' \in SUBSET Conns
  BY <1>1, <1>2 DEF TypeOK
<1> QED BY <1>1, <1>2, <1>3, <1>4, ConnectionCloses, CloseStep

LEMMA CloseInvariant ==
    ASSUME IInv, Close \/ Destruct
    PROVE  IInv'
<1>1. /\ CloseMethod(stack)
      /\ UNCHANGED <<wire, cut, buffer, auth, serverTx, ref, connects, queries,
                     answers, told, rsa, fault>>
  BY DEF Close, Destruct, external, script
<1>2. TypeOK /\ ConnInv /\ stack \in Seq(FrameType) /\ FramesDrop(stack, conn)
  BY DEF IInv, ConnInv, TypeOK
<1>3. \A g \in Conns : Open(g) => alive' /\ g \in ref'
  <2>1. \A g \in Conns : Open(g) => alive /\ g \in ref
    BY <1>2 DEF ConnInv, HandlersFindTheirClient
  <2>2. CASE Close
    BY <2>1, <2>2 DEF Close
  <2>3. CASE Destruct
    BY <2>1, <2>3 DEF Destruct
  <2> QED BY <2>2, <2>3
<1>4. alive' \in BOOLEAN /\ fault' \in BOOLEAN /\ ref' \in SUBSET Conns
  <2>1. CASE Close
    BY <1>1, <1>2, <2>1 DEF Close, TypeOK
  <2>2. CASE Destruct
    <3>1. alive' = FALSE
      BY <2>2 DEF Destruct
    <3> QED BY <1>1, <1>2, <3>1 DEF TypeOK
  <2> QED BY <2>1, <2>2
<1> QED BY <1>1, <1>2, <1>3, <1>4, CloseMethodCloses, CloseStep

LEMMA DestructInvariant ==
    ASSUME IInv, DestructInCallback
    PROVE  IInv'
<1>1. /\ CloseMethod(Tail(stack)) /\ alive' = FALSE /\ ref = {}
      /\ fault' \in BOOLEAN
      /\ UNCHANGED <<wire, cut, buffer, auth, serverTx, ref, connects, queries,
                     answers, told, rsa>>
  BY DEF DestructInCallback, external, script
<1>2. /\ TypeOK /\ ConnInv /\ stack \in Seq(FrameType) /\ stack # <<>>
      /\ FramesDrop(stack, conn)
  BY DEF IInv, ConnInv, TypeOK, DestructInCallback
<1>3. Tail(stack) \in Seq(FrameType) /\ FramesDrop(Tail(stack), conn)
  BY <1>2, PopFrame
<1>4. \A g \in Conns : ~Open(g)
  BY <1>1, <1>2 DEF ConnInv, HandlersFindTheirClient
<1>5. alive' \in BOOLEAN /\ ref' \in SUBSET Conns
  BY <1>1, <1>2 DEF TypeOK
<1> QED BY <1>1, <1>2, <1>3, <1>4, <1>5, CloseMethodCloses, CloseStep

LEMMA ReturnInvariant ==
    ASSUME IInv, Return
    PROVE  IInv'
<1>1. /\ TypeOK /\ ConnInv /\ stack \in Seq(FrameType) /\ stack # <<>>
      /\ FramesDrop(stack, conn)
  BY DEF IInv, ConnInv, TypeOK, Return, ReturnConnect, ReturnResult,
         ReturnClose, Returns
<1>2. /\ Head(stack) \in FrameType
      /\ Head(stack).drops => conn[Head(stack).conn] = "closed"
      /\ Tail(stack) \in Seq(FrameType)
      /\ FramesDrop(Tail(stack), conn)
  BY <1>1, PopFrame
<1>3. /\ Dropped \in SUBSET Conns
      /\ \A g \in Conns : Open(g) => alive /\ g \in Dropped
  <2>1. \A g \in Conns : Open(g) => alive /\ g \in ref /\ conn[g] # "closed"
    BY <1>1 DEF ConnInv, HandlersFindTheirClient, Open
  <2> QED BY <1>1, <1>2, <2>1 DEF Dropped, TypeOK
<1>4. CASE ReturnConnect
  <2>1. /\ ref' = Dropped
        /\ UNCHANGED <<wire, cut, buffer, auth, serverTx, connects, queries,
                       answers, told, alive, rsa, fault>>
    BY <1>4 DEF ReturnConnect, external, script
  <2>2. /\ alive' \in BOOLEAN /\ fault' \in BOOLEAN /\ ref' \in SUBSET Conns
        /\ \A g \in Conns : Open(g) => alive' /\ g \in ref'
    BY <1>1, <1>3, <2>1 DEF TypeOK
  <2>3. CASE CloseMethod(Tail(stack))
    BY <1>1, <1>2, <2>1, <2>2, <2>3, CloseMethodCloses, CloseStep
  <2>4. CASE stack' = Tail(stack) /\ UNCHANGED <<client, conn>>
    <3>1. HandlersFindTheirClient'
      BY <1>1, <2>2, <2>4 DEF ConnInv, HandlersFindTheirClient, Open
    <3>2. ConnectedIsEstablished' /\ OneClient' /\ FramesDrop(stack, conn)'
      BY <1>1, <1>2, <2>1, <2>4
         DEF ConnInv, ConnectedIsEstablished, OneClient, FramesDrop
    <3>3. ConnInv'
      BY <3>1, <3>2 DEF ConnInv
    <3>4. /\ conn' \in [Conns -> Phases] /\ client' \in ClientType
          /\ stack' \in Seq(FrameType)
          /\ client'.state = client.state
          /\ client'.callback = client.callback
          /\ \A h \in Conns : conn'[h] = conn[h] \/ conn'[h] = "closed"
      BY <1>1, <1>2, <2>4 DEF TypeOK
    <3> QED BY <2>1, <2>2, <3>3, <3>4, CloseStep
  <2> QED BY <1>4, <2>3, <2>4 DEF ReturnConnect
<1>5. CASE ReturnResult
  <2>1. /\ stack' = Tail(stack)
        /\ UNCHANGED <<client, conn, wire, cut, auth, serverTx, ref, connects,
                       queries, answers, told, alive, rsa, fault>>
    BY <1>5 DEF ReturnResult, script
  <2>2. buffer' \in [Conns -> Seq(Packet)]
    <3>1. CASE UNCHANGED buffer
      BY <1>1, <3>1 DEF TypeOK
    <3>2. CASE buffer' = [buffer EXCEPT ![client.cli] = <<>>]
      <4>1. <<>> \in Seq(Packet) /\ buffer \in [Conns -> Seq(Packet)]
        BY <1>1 DEF TypeOK
      <4> QED BY <3>2, <4>1
    <3> QED BY <1>5, <3>1, <3>2 DEF ReturnResult
  <2>3. TypeOK'
    BY <1>1, <1>2, <2>1, <2>2 DEF TypeOK
  <2>4. ConnInv'
    BY <1>1, <1>2, <2>1, ConnectionsKept
  <2>5. QueryInv'
    BY <1>1, <2>1, QueriesKept DEF IInv
  <2> QED BY <2>3, <2>4, <2>5 DEF IInv
<1>6. CASE ReturnClose
  <2>1. /\ stack' = Tail(stack) /\ ref' = Dropped
        /\ UNCHANGED <<client, conn, wire, cut, buffer, auth, serverTx,
                       connects, queries, answers, told, alive, rsa, fault>>
    BY <1>6 DEF ReturnClose, external, script
  <2>2. HandlersFindTheirClient'
    BY <1>1, <1>3, <2>1 DEF ConnInv, HandlersFindTheirClient, Open
  <2>3. ConnectedIsEstablished' /\ OneClient' /\ FramesDrop(stack, conn)'
    BY <1>1, <1>2, <2>1
       DEF ConnInv, ConnectedIsEstablished, OneClient, FramesDrop
  <2>4. ConnInv'
    BY <2>2, <2>3 DEF ConnInv
  <2>5. /\ conn' \in [Conns -> Phases] /\ client' \in ClientType
        /\ stack' \in Seq(FrameType)
        /\ client'.state = client.state /\ client'.callback = client.callback
        /\ \A h \in Conns : conn'[h] = conn[h] \/ conn'[h] = "closed"
        /\ alive' \in BOOLEAN /\ fault' \in BOOLEAN /\ ref' \in SUBSET Conns
    BY <1>1, <1>2, <1>3, <2>1 DEF TypeOK
  <2> QED BY <2>1, <2>4, <2>5, CloseStep
<1> QED BY <1>4, <1>5, <1>6 DEF Return


(* What arrives leaves the connections alone; only the handshake talks to  *)
(* the callback of connect().                                              *)
LEMMA HandShakeInvariant ==
    ASSUME IInv, NEW g \in Conns, conn[g] = "connected", client.cli = g,
           Shaken(g, client), cut' \in [Conns -> BOOLEAN],
           UNCHANGED <<conn, serverTx, ref, connects, queries, answers, alive,
                       rsa, fault>>
    PROVE  IInv'
<1>1. /\ TypeOK /\ ConnInv /\ QueryInv /\ FramesDrop(stack, conn)
      /\ <<>> \in Seq(FrameType) /\ FramesDrop(<<>>, conn)
      /\ stack \in Seq(FrameType) /\ told \in [Conns -> Seq(BOOLEAN)]
  <2>1. <<>> \in Seq(FrameType) /\ FramesDrop(<<>>, conn)
    BY DEF FramesDrop
  <2> QED BY <2>1 DEF IInv, ConnInv, TypeOK
<1>2. /\ told' \in [Conns -> Seq(BOOLEAN)]
      /\ stack' \in Seq(FrameType) /\ FramesDrop(stack', conn)
      /\ client' \in ClientType /\ client'.cli = client.cli
      /\ client'.state = client.state /\ client'.callback = client.callback
  <2>1. CASE Keeps(client, client') /\ UNCHANGED <<stack, told>>
    BY <1>1, <2>1 DEF Keeps
  <2>2. ASSUME NEW d \in ClientType, Keeps(client, d), Tell(g, d, FALSE, <<>>)
        PROVE  /\ told' \in [Conns -> Seq(BOOLEAN)]
               /\ stack' \in Seq(FrameType) /\ FramesDrop(stack', conn)
               /\ client' \in ClientType /\ client'.cli = client.cli
               /\ client'.state = client.state
               /\ client'.callback = client.callback
    <3>1. FALSE \in BOOLEAN
      OBVIOUS
    <3>2. /\ told' \in [Conns -> Seq(BOOLEAN)]
          /\ stack' \in Seq(FrameType) /\ FramesDrop(stack', conn)
          /\ client' \in ClientType /\ client'.cli = d.cli
          /\ client'.state = d.state /\ client'.callback = d.callback
      BY <1>1, <2>2, <3>1, TellTypes
    <3> QED BY <2>2, <3>2 DEF Keeps
  <2> QED BY <2>1, <2>2 DEF Shaken
<1>3. TypeOK'
  BY <1>1, <1>2 DEF TypeOK, Shaken
<1>4. ConnInv'
  BY <1>1, <1>2, ConnectionsKept
<1>5. QueryInv'
  BY <1>1, <1>2, QueriesKept
<1> QED BY <1>3, <1>4, <1>5 DEF IInv

(* A response ends, and the callback of its query runs for the first time. *)
LEMMA AnswerKeepsQueries ==
    ASSUME TypeOK, QueryInv, client.state # "QUERY",
           client' = Answered("QUERY"), UNCHANGED <<queries, conn>>,
           answers' = [answers EXCEPT ![client.callback] = @ + 1]
    PROVE  QueryInv' /\ answers' \in [Queries -> Nat]
<1> DEFINE q == client.callback
<1>1. /\ q \in 1..Len(queries) /\ q \in Queries /\ answers[q] = 0
      /\ Len(queries) \in Nat /\ answers \in [Queries -> Nat]
      /\ client'.state = "QUERY"
  BY DEF QueryInv, TypeOK, Answered, ClientType
<1> HIDE DEF q
<1>2. /\ answers' \in [Queries -> Nat] /\ answers'[q] = 1
      /\ \A r \in Queries : r # q => answers'[r] = answers[r]
  BY <1>1 DEF q
<1>3. \A r \in 1..Len(queries) :
         /\ r \in Queries
         /\ queries[r] # None => conn[queries[r]] \in {"connected", "closed"}
  BY DEF QueryInv
<1>4. \A r \in Queries : r > Len(queries) => answers'[r] = 0
  <2>1. \A r \in Queries : r > Len(queries) => r # q
    BY <1>1
  <2> QED BY <1>2, <2>1 DEF QueryInv
<1>5. AnsweredAtMostOnce'
  <2>1. \A r \in Queries : answers[r] <= 1
    BY DEF QueryInv, AnsweredAtMostOnce
  <2>2. \A r \in Queries : answers'[r] <= 1
    BY <1>2, <2>1
  <2> QED BY <2>2 DEF AnsweredAtMostOnce
<1>6. NoQueryIsForgotten'
  <2> SUFFICES ASSUME NEW r \in 1..Len(queries), queries[r] # None,
                      answers'[r] = 0, conn[queries[r]] = "connected"
               PROVE  FALSE
    BY DEF NoQueryIsForgotten
  <2>1. r # q /\ answers[r] = 0
    BY <1>2, <1>3
  <2>2. client.callback = r
    BY <2>1 DEF QueryInv, NoQueryIsForgotten
  <2> QED BY <2>1, <2>2 DEF q
<1> QED BY <1>1, <1>2, <1>3, <1>4, <1>5, <1>6 DEF QueryInv

LEMMA ResponseInvariant ==
    ASSUME IInv, NEW g \in Conns, conn[g] = "connected", client.cli = g,
           NEW piece \in Seq(Packet), NEW rest \in Seq(Packet),
           OnResponse(g, piece, rest), cut' \in [Conns -> BOOLEAN],
           UNCHANGED <<conn, serverTx, ref, connects, queries, alive, rsa,
                       fault>>
    PROVE  IInv'
<1>1. /\ TypeOK /\ ConnInv /\ QueryInv /\ FramesDrop(stack, conn)
      /\ <<>> \in Seq(FrameType) /\ FramesDrop(<<>>, conn)
      /\ client \in ClientType
  <2>1. TypeOK /\ ConnInv /\ QueryInv
    BY DEF IInv
  <2>2. <<>> \in Seq(FrameType)
    OBVIOUS
  <2>3. FramesDrop(<<>>, conn)
    BY DEF FramesDrop
  <2>4. FramesDrop(stack, conn) /\ client \in ClientType
    BY <2>1 DEF ConnInv, TypeOK
  <2> QED BY <2>1, <2>2, <2>3, <2>4
<1>2. /\ wire' \in [Conns -> Seq(Packet)] /\ buffer' \in [Conns -> Seq(Packet)]
      /\ UNCHANGED <<auth, told>>
  <2>1. wire' = [wire EXCEPT ![g] = rest] /\ UNCHANGED <<auth, told>>
    BY DEF OnResponse
  <2>2. \/ buffer' = [buffer EXCEPT ![g] = piece]
        \/ buffer' = [buffer EXCEPT ![g] = <<>>]
    BY DEF OnResponse, ResponseToNobody, ResponseToQuery
  <2>3. <<>> \in Seq(Packet)
    OBVIOUS
  <2>4. wire \in [Conns -> Seq(Packet)] /\ buffer \in [Conns -> Seq(Packet)]
    BY <1>1 DEF TypeOK
  <2>5. wire' \in [Conns -> Seq(Packet)]
    BY <2>1, <2>4
  <2>6. buffer' \in [Conns -> Seq(Packet)]
    BY <2>2, <2>3, <2>4
  <2> QED BY <2>1, <2>5, <2>6
<1>3. ASSUME client' \in ClientType, client'.cli = client.cli,
             client'.connected = client.connected,
             stack' \in Seq(FrameType), FramesDrop(stack', conn),
             answers' \in [Queries -> Nat]
      PROVE  TypeOK' /\ ConnInv'
  <2>1. TypeOK'
    BY <1>1, <1>2, <1>3 DEF TypeOK
  <2>2. ConnInv'
    BY <1>1, <1>3, ConnectionsKept
  <2> QED BY <2>1, <2>2
<1>4. CASE ResponseToNobody(g, piece)
  <2>1. UNCHANGED <<client, stack, answers>>
    BY <1>4 DEF ResponseToNobody
  <2>2. stack \in Seq(FrameType) /\ answers \in [Queries -> Nat]
    BY <1>1 DEF TypeOK
  <2>3. QueryInv'
    BY <1>1, <2>1, QueriesKept
  <2> QED BY <1>1, <1>3, <2>1, <2>2, <2>3 DEF IInv
<1>5. CASE ResponseToQuery(g, piece)
  <2>1. PICK run \in [0..Len(piece) -> ReadStates] :
          \/ /\ run[Len(piece)] # "QUERY"
             /\ client' = [client EXCEPT !.state = run[Len(piece)]]
             /\ UNCHANGED <<stack, answers>>
          \/ /\ run[Len(piece)] = "QUERY"
             /\ client' = Answered("QUERY")
             /\ answers' = [answers EXCEPT ![client.callback] = @ + 1]
             /\ stack' = Push("result", g, FALSE, <<>>)
    BY <1>5 DEF ResponseToQuery
  <2>2. run[Len(piece)] \in ReadStates
    <3>1. Len(piece) \in 0..Len(piece)
      BY LenProperties
    <3> QED BY <3>1
  <2>3. client.state # "QUERY"
    BY <1>5 DEF ResponseToQuery
  <2>4. CASE /\ client' = [client EXCEPT !.state = run[Len(piece)]]
             /\ run[Len(piece)] # "QUERY"
             /\ UNCHANGED <<stack, answers>>
    <3>1. /\ client' \in ClientType /\ client'.cli = client.cli
          /\ client'.connected = client.connected
          /\ client'.callback = client.callback
          /\ client'.state # "QUERY"
      BY <1>1, <2>2, <2>4 DEF ClientType
    <3>2. stack \in Seq(FrameType) /\ answers \in [Queries -> Nat]
      BY <1>1 DEF TypeOK
    <3>3. TypeOK' /\ ConnInv'
      BY <1>1, <1>3, <2>4, <3>1, <3>2
    <3>4. AnsweredAtMostOnce' /\ NoQueryIsForgotten'
      BY <1>1, <2>4, <3>1
         DEF QueryInv, AnsweredAtMostOnce, NoQueryIsForgotten
    <3>5. QueryInv'
      BY <1>1, <2>3, <2>4, <3>1, <3>4 DEF QueryInv
    <3> QED BY <3>3, <3>5 DEF IInv
  <2>5. CASE /\ client' = Answered("QUERY")
             /\ answers' = [answers EXCEPT ![client.callback] = @ + 1]
             /\ stack' = Push("result", g, FALSE, <<>>)
    <3>1. /\ client' \in ClientType /\ client'.cli = client.cli
          /\ client'.connected = client.connected
      BY <1>1, <2>5 DEF ClientType, Answered, ReadStates
    <3>2. stack' \in Seq(FrameType) /\ FramesDrop(stack', conn)
      <4>1. FALSE \in BOOLEAN
        OBVIOUS
      <4> QED BY <1>1, <2>5, <4>1, PushFrame
    <3>3. QueryInv' /\ answers' \in [Queries -> Nat]
      BY <1>1, <2>3, <2>5, AnswerKeepsQueries
    <3> QED BY <1>3, <3>1, <3>2, <3>3 DEF IInv
  <2> QED BY <2>1, <2>4, <2>5
<1> QED BY <1>4, <1>5 DEF OnResponse

LEMMA ReceiveInvariant ==
    ASSUME IInv, NEW g \in Conns, NEW part \in BOOLEAN,
           NEW n \in 0..Len(wire[g]), OnReceive(g, n, part)
    PROVE  IInv'
<1> DEFINE piece == SubSeq(wire[g], 1, n)
           rest == SubSeq(wire[g], n + 1, Len(wire[g]))
           read == buffer[g] \o piece
<1>1. TypeOK /\ wire[g] \in Seq(Packet) /\ buffer[g] \in Seq(Packet)
  BY DEF IInv, TypeOK
<1>2. /\ conn[g] = "connected" /\ cut' = [cut EXCEPT ![g] = part]
      /\ UNCHANGED <<conn, serverTx, ref, connects, queries, alive, rsa, fault>>
      /\ \/ OnHandShake(g, read, rest) /\ UNCHANGED answers
         \/ OnResponse(g, read, rest)
  BY DEF OnReceive
<1>3. piece \in Seq(Packet) /\ rest \in Seq(Packet)
  <2>1. n \in Nat /\ Len(wire[g]) \in Nat /\ n <= Len(wire[g])
    BY <1>1
  <2> QED BY <1>1, <2>1, SubSeqProperties
<1> HIDE DEF piece, rest
<1>4. read \in Seq(Packet)
  BY <1>1, <1>3, ConcatProperties
<1> HIDE DEF read
<1>5. cut' \in [Conns -> BOOLEAN]
  BY <1>1, <1>2 DEF TypeOK
<1>6. client.cli = g
  BY <1>2 DEF IInv, ConnInv, HandlersFindTheirClient, Open
<1>7. CASE OnHandShake(g, read, rest) /\ UNCHANGED answers
  BY <1>1, <1>2, <1>3, <1>4, <1>5, <1>6, <1>7, HandShakes, HandShakeInvariant
<1>8. CASE OnResponse(g, read, rest)
  BY <1>2, <1>3, <1>4, <1>5, <1>6, <1>8, ResponseInvariant
<1> QED BY <1>2, <1>7, <1>8


LEMMA QueryOnNullCliInvariant ==
    ASSUME IInv, QueryOnNullCli
    PROVE  IInv'
<1>1. /\ fault' = TRUE
      /\ UNCHANGED <<client, conn, wire, cut, buffer, auth, serverTx, ref,
                     stack, connects, queries, answers, told, alive, rsa>>
  BY DEF QueryOnNullCli, external, script
<1>2. TypeOK /\ ConnInv /\ QueryInv
  BY DEF IInv
<1>3. TypeOK'
  <2>1. fault' \in BOOLEAN
    BY <1>1
  <2>2. alive' \in BOOLEAN /\ rsa' \in BOOLEAN
    BY <1>1, <1>2 DEF TypeOK
  <2> QED BY <1>1, <1>2, <2>1, <2>2 DEF TypeOK
<1>4. ConnInv'
  BY <1>1, <1>2, ConnectionsKept DEF ConnInv
<1>5. QueryInv'
  BY <1>1, <1>2, QueriesKept
<1> QED BY <1>3, <1>4, <1>5 DEF IInv

LEMMA StutterInvariant ==
    ASSUME IInv, UNCHANGED vars
    PROVE  IInv'
<1>1. /\ TypeOK /\ ConnInv /\ QueryInv
      /\ UNCHANGED <<client, conn, wire, cut, buffer, auth, serverTx, ref,
                     stack, connects, queries, answers, told, alive, rsa,
                     fault>>
  BY DEF IInv, vars, external, script
<1>2. TypeOK'
  BY <1>1 DEF TypeOK
<1>3. ConnInv'
  BY <1>1, ConnectionsKept DEF ConnInv
<1>4. QueryInv'
  BY <1>1, QueriesKept
<1> QED BY <1>2, <1>3, <1>4 DEF IInv

LEMMA NextInvariant == IInv /\ [Next]_vars => IInv'
<1> SUFFICES ASSUME IInv, [Next]_vars PROVE IInv'
  OBVIOUS
<1>1. ASSUME NEW g \in Conns, Connect(g) PROVE IInv'
  BY <1>1, ConnectInvariant
<1>2. ASSUME NEW command \in Commands, Query(command) PROVE IInv'
  BY <1>2, QueryInvariant
<1>3. CASE QueryOnNullCli
  BY <1>3, QueryOnNullCliInvariant
<1>4. CASE Close \/ Destruct
  BY <1>4, CloseInvariant
<1>5. CASE ConnectEnds
  BY <1>5, OnConnectInvariant, OnErrorInvariant DEF ConnectEnds
<1>6. ASSUME NEW g \in Conns, OnClose(g) PROVE IInv'
  BY <1>6, OnCloseInvariant
<1>7. CASE Receive
  BY <1>7, ReceiveInvariant DEF Receive
<1>8. CASE Return
  BY <1>8, ReturnInvariant
<1>9. CASE UNCHANGED vars
  BY <1>9, StutterInvariant
<1>10. CASE DestructInCallback
  BY <1>10, DestructInvariant
<1> QED BY <1>1, <1>2, <1>3, <1>4, <1>5, <1>6, <1>7, <1>8, <1>9, <1>10 DEF Next

LEMMA Invariance == Spec => []IInv
BY InitInvariant, NextInvariant, PTL DEF Spec

-----------------------------------------------------------------------------
(* What is on its way to the client.                                       *)

Ends == {"ok", "err", "eof"}

(* The packets of a connection that the client did not read: first what    *)
(* is left of the handshake, then what is left of one response, which is   *)
(* the one the client waits for and ends with its last packet.             *)
InOrder(g) ==
    \A i \in 1..Len(wire[g]) :
        LET p == wire[g][i] IN
        /\ p.query # None => /\ client.state # "QUERY"
                             /\ p.query = client.callback
                             /\ p.kind \in Ends => i = Len(wire[g])
        /\ p.query = None =>
              /\ client.handshake # "COMPLETED" /\ buffer[g] = <<>>
              /\ i # 1 => /\ i = 2 /\ wire[g][1].kind = "signature"
                          /\ client.handshake = "WAIT_SIGNATURE"
        /\ auth[g] = "pending" => p.query = None

WireInv ==
    /\ \A g \in Conns : conn[g] \in {"none", "connecting"} => buffer[g] = <<>>
    /\ \A g \in Conns : conn[g] = "connected" => InOrder(g)

(* Behind the handshake the buffer is empty whenever no callback of a      *)
(* query runs; one that runs is told of the connection that is open.       *)
ResultRuns == \E i \in 1..Len(stack) : stack[i].kind = "result"

BufferInv ==
    \A g \in Conns : conn[g] = "connected" =>
        /\ \A i \in 1..Len(stack) : stack[i].kind = "result" => stack[i].conn = g
        /\ client.handshake = "COMPLETED" /\ ~ResultRuns => buffer[g] = <<>>

(* The callback of connect() runs, and an error will close the connection  *)
(* behind it.                                                              *)
Closing ==
    client.error /\ \E i \in 1..Len(stack) : stack[i].kind = "connect"

(* swoole_mysql_onHandShake, as far as it moves packets: it keeps what it  *)
(* read, answers it, is done with a signature, or with the handshake.      *)
(* Only a packet that goes astray fails without an error.                  *)
Astray(kind) ==
    /\ ~(client.switchCheck /\ kind \in Switches)
    /\ \/ client.handshake = "WAIT_SIGNATURE" /\ kind \notin {"signature", "full"}
       \/ client.handshake = "WAIT_RSA" /\ kind # "key"

Stays(g, read, rest) ==
    /\ Keep(g, read, rest)
    /\ client'.handshake = client.handshake
    /\ client.handshake = "WAIT_SIGNATURE" /\ read # <<>>
          => Head(read).kind # "signature"
    /\ read # <<>> => Closing' \/ Astray(Head(read).kind)

Asks == Greetings \cup Switches \cup {"full", "key"}

Sends(g, read, rest) ==
    /\ read # <<>> /\ Head(read).kind \in Asks
    /\ buffer' = [buffer EXCEPT ![g] = <<>>]
    /\ UNCHANGED told /\ client'.connected = client.connected
    /\ client'.handshake \in {"WAIT_SIGNATURE", "WAIT_RSA", "WAIT_RESULT"}
    /\ \/ /\ auth[g] = "pending"
          /\ \E kinds \in Verdicts(client'.handshake)
                          \cup Switched(client'.switchCheck) :
                /\ wire' = [wire EXCEPT ![g] = rest \o Plain(kinds)]
                /\ auth' = [auth EXCEPT ![g] = Opinion(kinds)]
       \/ /\ auth[g] = "refused"
          /\ wire' = [wire EXCEPT ![g] = rest]
          /\ UNCHANGED auth

Signed(g, read, rest) ==
    /\ client.handshake = "WAIT_SIGNATURE"
    /\ read # <<>> /\ Head(read).kind = "signature"
    /\ client'.handshake = "WAIT_RESULT"
    /\ \/ /\ Len(read) = 1 /\ Keep(g, <<>>, rest)
          /\ UNCHANGED told /\ client'.connected = client.connected
       \/ /\ Len(read) > 1 /\ Keep(g, Tail(read), rest)
          /\ Head(Tail(read)).kind = "err"

Completes(g, read, rest) ==
    /\ read # <<>> /\ Keep(g, <<>>, rest)
    /\ client'.handshake = "COMPLETED"
    /\ \/ /\ client.handshake = "WAIT_RESULT" /\ Head(read).kind # "err"
          /\ ~(client.switchCheck /\ Head(read).kind \in Switches)
       \/ /\ client.handshake = "WAIT_SIGNATURE" /\ Len(read) > 1
          /\ Head(read).kind = "signature"

Moves(g, read, rest) ==
    \/ Stays(g, read, rest)
    \/ Sends(g, read, rest)
    \/ Signed(g, read, rest)
    \/ Completes(g, read, rest)

LEMMA ReportedHandshake ==
    ASSUME NEW c \in ClientType
    PROVE  /\ Reported(c).handshake = c.handshake
           /\ Reported(c).switchCheck = c.switchCheck
           /\ Reported(c).error = c.error
           /\ Reported(c).transaction = c.transaction
           /\ Reported(c).connected = (c.connected \/ ~c.error)
BY DEF ClientType, Reported

LEMMA FinishMoves ==
    ASSUME NEW g, NEW c \in ClientType, NEW read, NEW rest,
           NEW b \in BOOLEAN, Finish(g, [c EXCEPT !.error = b], read, rest)
    PROVE  /\ Keep(g, read, rest) /\ client'.handshake = c.handshake
           /\ b => Closing'
<1> DEFINE d == [c EXCEPT !.error = b]
<1>1. d \in ClientType /\ d.handshake = c.handshake /\ d.error = b
  BY DEF ClientType
<1>2. /\ client' = Reported(d) /\ Keep(g, read, rest)
      /\ stack' = Push("connect", g, FALSE, <<>>)
  BY DEF Finish, Tell
<1> HIDE DEF d
<1>3. /\ Keep(g, read, rest) /\ client'.handshake = c.handshake
      /\ client'.error = b
  BY <1>1, <1>2, ReportedHandshake
<1>4. Len(stack') = 1 /\ stack'[1].kind = "connect"
  BY <1>2 DEF Push
<1>5. 1 \in 1..Len(stack')
  BY <1>4
<1> QED BY <1>3, <1>4, <1>5 DEF Closing

LEMMA FinishKeepsHandshake ==
    ASSUME NEW g, NEW c \in ClientType, NEW read, NEW rest,
           Finish(g, c, read, rest)
    PROVE  Keep(g, read, rest) /\ client'.handshake = c.handshake
<1>1. client' = Reported(c) /\ Keep(g, read, rest)
  BY DEF Finish, Tell
<1> QED BY <1>1, ReportedHandshake

LEMMA SendMoves ==
    ASSUME NEW g, NEW c \in ClientType, NEW greeted, NEW read, NEW rest,
           NEW next \in {"WAIT_SIGNATURE", "WAIT_RSA", "WAIT_RESULT"},
           Send(g, c, next, greeted, read, rest), greeted = c.switchCheck,
           c.handshake = client.handshake, c.connected = client.connected,
           read # <<>>, Head(read).kind \in Asks
    PROVE  Stays(g, read, rest) \/ Sends(g, read, rest)
<1>1. CASE Finish(g, [c EXCEPT !.error = TRUE], read, rest)
  <2>1. Keep(g, read, rest) /\ client'.handshake = c.handshake /\ Closing'
    BY <1>1, FinishMoves
  <2>2. Head(read).kind # "signature"
    BY DEF Asks, Greetings, Switches
  <2> QED BY <2>1, <2>2 DEF Stays
<1>2. CASE client' = [c EXCEPT !.handshake = next]
  <2>1. /\ client'.handshake = next /\ client'.switchCheck = greeted
        /\ client'.connected = client.connected
    BY <1>2 DEF ClientType
  <2>2. CASE Finish(g, [c EXCEPT !.error = TRUE], read, rest)
    BY <1>1, <2>2
  <2>3. CASE ~ Finish(g, [c EXCEPT !.error = TRUE], read, rest)
    BY <2>1, <2>3, Zenon DEF Send, Sends
  <2> QED BY <2>2, <2>3
<1> QED BY <1>1, <1>2 DEF Send

LEMMA ResultMoves ==
    ASSUME NEW g, NEW c \in ClientType, NEW read, NEW rest,
           ShakeResult(g, c, read, rest)
    PROVE  /\ c.handshake = "WAIT_RESULT"
           /\ \/ /\ Keep(g, read, rest) /\ client'.handshake = "WAIT_RESULT"
                 /\ read # <<>> => Head(read).kind = "err" /\ Closing'
              \/ /\ read # <<>> /\ Head(read).kind # "err"
                 /\ Keep(g, <<>>, rest) /\ client'.handshake = "COMPLETED"
<1>1. c.handshake = "WAIT_RESULT"
  BY DEF ShakeResult
<1>2. CASE /\ Head(read).kind = "err"
           /\ Finish(g, [c EXCEPT !.error = TRUE], read, rest)
  BY <1>1, <1>2, FinishMoves
<1>3. CASE /\ read # <<>> /\ Head(read).kind # "err"
           /\ Finish(g, Completed(c), <<>>, rest)
  <2> DEFINE d == Completed(c)
  <2>1. d \in ClientType /\ d.handshake = "COMPLETED"
    BY DEF ClientType, HandshakeStates, Completed
  <2>2. Finish(g, d, <<>>, rest)
    BY <1>3
  <2> HIDE DEF d
  <2> QED BY <1>1, <1>3, <2>1, <2>2, FinishKeepsHandshake
<1>4. CASE read = <<>> /\ Wait(g, c, read, rest)
  BY <1>1, <1>4 DEF Wait
<1> QED BY <1>2, <1>3, <1>4 DEF ShakeResult

LEMMA HandShakeMoves ==
    ASSUME TypeOK, NEW g \in Conns, NEW read \in Seq(Packet), NEW rest,
           OnHandShake(g, read, rest), read = <<>> \/ Head(read \o rest) = Head(read)
    PROVE  Moves(g, read, rest)
<1> DEFINE c == [client EXCEPT !.switchCheck = FALSE]
           first == Head(read \o rest).kind
           next == Authenticated(first)
           switch == client.switchCheck /\ first \in Switches
<1>1. /\ c \in ClientType /\ c.handshake = client.handshake
      /\ c.connected = client.connected /\ ~c.switchCheck
  BY DEF ClientType, TypeOK
<1>2. \A k : Authenticated(k) \in {"WAIT_SIGNATURE", "WAIT_RSA", "WAIT_RESULT"}
  BY DEF Authenticated
<1>3. /\ switch => \/ read # <<>> /\ Send(g, c, next, FALSE, read, rest)
                   \/ read = <<>> /\ Wait(g, c, read, rest)
      /\ ~switch => \/ ShakeRequest(g, c, read, rest)
                    \/ ShakeSignature(g, c, read, rest)
                    \/ ShakeRsa(g, c, read, rest)
                    \/ ShakeResult(g, c, read, rest)
  BY DEF OnHandShake
<1>4. read # <<>> => first = Head(read).kind
  OBVIOUS
<1> HIDE DEF c
<1>5. ASSUME Wait(g, c, read, rest), read = <<>> PROVE Moves(g, read, rest)
  BY <1>1, <1>5 DEF Wait, Stays, Moves
<1>6. CASE switch
  <2>1. CASE read # <<>> /\ Send(g, c, next, FALSE, read, rest)
    <3>1. Head(read).kind \in Asks
      BY <1>4, <1>6, <2>1 DEF Asks
    <3>2. next \in {"WAIT_SIGNATURE", "WAIT_RSA", "WAIT_RESULT"}
      BY <1>2
    <3> HIDE DEF next
    <3>3. FALSE = c.switchCheck
      BY <1>1 DEF ClientType
    <3> QED BY <1>1, <2>1, <3>1, <3>2, <3>3, SendMoves DEF Moves
  <2> QED BY <1>3, <1>5, <1>6, <2>1
<1>7. CASE ~switch /\ ShakeRequest(g, c, read, rest)
  <2> DEFINE d == [c EXCEPT !.switchCheck = TRUE]
             to == Authenticated(Head(read).kind)
  <2>1. /\ d \in ClientType /\ d.handshake = client.handshake
        /\ d.connected = client.connected /\ d.switchCheck = TRUE
    BY <1>1 DEF ClientType
  <2>2. /\ c.handshake = "WAIT_REQUEST"
        /\ \/ /\ read # <<>> /\ Head(read).kind \in Greetings
              /\ Send(g, d, to, TRUE, read, rest)
           \/ Finish(g, [d EXCEPT !.error = TRUE], read, rest)
           \/ read = <<>> /\ Wait(g, d, read, rest)
    BY <1>7 DEF ShakeRequest
  <2>3. to \in {"WAIT_SIGNATURE", "WAIT_RSA", "WAIT_RESULT"}
    BY <1>2
  <2> HIDE DEF d, to
  <2>4. CASE read # <<>> /\ Head(read).kind \in Greetings
             /\ Send(g, d, to, TRUE, read, rest)
    BY <2>1, <2>3, <2>4, SendMoves DEF Moves, Asks
  <2>5. CASE Finish(g, [d EXCEPT !.error = TRUE], read, rest)
    <3>1. Keep(g, read, rest) /\ client'.handshake = d.handshake /\ Closing'
      BY <2>1, <2>5, FinishMoves
    <3> QED BY <1>1, <2>1, <2>2, <3>1 DEF Stays, Moves
  <2>6. CASE read = <<>> /\ Wait(g, d, read, rest)
    BY <1>1, <2>1, <2>2, <2>6 DEF Wait, Stays, Moves
  <2> QED BY <2>2, <2>4, <2>5, <2>6
<1>8. CASE ~switch /\ ShakeSignature(g, c, read, rest)
  <2> DEFINE d == [c EXCEPT !.handshake = "WAIT_RESULT"]
  <2>1. /\ d \in ClientType /\ d.handshake = "WAIT_RESULT"
        /\ d.connected = client.connected
    BY <1>1 DEF ClientType, HandshakeStates
  <2>2. /\ c.handshake = "WAIT_SIGNATURE"
        /\ \/ /\ read # <<>> /\ Head(read).kind = "signature"
              /\ ~MorePackets(read) /\ Wait(g, d, <<>>, rest)
           \/ /\ read # <<>> /\ Head(read).kind = "signature"
              /\ MorePackets(read) /\ ShakeResult(g, d, Tail(read), rest)
           \/ /\ read # <<>> /\ Head(read).kind = "full"
              /\ Send(g, c, "WAIT_RSA", FALSE, read, rest)
           \/ /\ read # <<>> => Head(read).kind \notin {"signature", "full"}
              /\ Finish(g, c, read, rest)
    BY <1>8 DEF ShakeSignature
  <2> HIDE DEF d
  <2>3. Len(read) \in Nat /\ (read # <<>> => Len(read) > 0)
    BY EmptySeq, LenProperties
  <2>4. CASE /\ read # <<>> /\ Head(read).kind = "signature"
             /\ ~MorePackets(read) /\ Wait(g, d, <<>>, rest)
    <3>1. \A k \in Nat : k > 0 /\ ~(k > 1) => k = 1
      OBVIOUS
    <3>2. Len(read) \in Nat /\ Len(read) > 0 /\ ~(Len(read) > 1)
      BY <2>3, <2>4, Zenon DEF MorePackets
    <3>3. Len(read) = 1
      BY <3>1, <3>2, Zenon
    <3> QED BY <1>1, <2>1, <2>2, <2>4, <3>3 DEF Wait, Signed, Moves
  <2>5. CASE /\ read # <<>> /\ Head(read).kind = "signature"
             /\ MorePackets(read) /\ ShakeResult(g, d, Tail(read), rest)
    <3>1. \/ /\ Keep(g, Tail(read), rest) /\ client'.handshake = "WAIT_RESULT"
             /\ Tail(read) # <<>> => Head(Tail(read)).kind = "err"
          \/ Keep(g, <<>>, rest) /\ client'.handshake = "COMPLETED"
      BY <2>1, <2>5, ResultMoves
    <3>2. Tail(read) # <<>>
      <4>1. Len(Tail(read)) = Len(read) - 1 /\ Len(read) > 1
        BY <2>3, <2>5, HeadTailProperties DEF MorePackets
      <4>2. PICK k \in Nat : k = Len(read)
        BY <2>3
      <4>3. k - 1 # 0
        BY <4>1, <4>2
      <4>4. Len(Tail(read)) # 0
        BY <4>1, <4>2, <4>3
      <4> QED BY <4>4, EmptySeq
    <3> QED BY <1>1, <2>2, <2>5, <3>1, <3>2
            DEF MorePackets, Signed, Completes, Moves
  <2>6. CASE /\ read # <<>> /\ Head(read).kind = "full"
             /\ Send(g, c, "WAIT_RSA", FALSE, read, rest)
    <3>1. FALSE = c.switchCheck
      BY <1>1 DEF ClientType
    <3> QED BY <1>1, <2>6, <3>1, SendMoves DEF Moves, Asks
  <2>7. CASE /\ read # <<>> => Head(read).kind \notin {"signature", "full"}
             /\ Finish(g, c, read, rest)
    BY <1>1, <1>4, <1>8, <2>2, <2>7, FinishKeepsHandshake
       DEF Stays, Moves, Astray
  <2> QED BY <2>2, <2>4, <2>5, <2>6, <2>7
<1>9. CASE ~switch /\ ShakeRsa(g, c, read, rest)
  <2>1. /\ c.handshake = "WAIT_RSA"
        /\ \/ Finish(g, [c EXCEPT !.error = TRUE], read, rest)
           \/ /\ read # <<>> => Head(read).kind # "key"
              /\ Finish(g, c, read, rest)
           \/ /\ read # <<>> /\ Head(read).kind = "key"
              /\ Send(g, c, "WAIT_RESULT", FALSE, read, rest)
           \/ read = <<>> /\ Wait(g, c, read, rest)
    BY <1>9 DEF ShakeRsa
  <2>2. CASE Finish(g, [c EXCEPT !.error = TRUE], read, rest)
    <3>1. Keep(g, read, rest) /\ client'.handshake = c.handshake /\ Closing'
      BY <1>1, <2>2, FinishMoves
    <3> QED BY <1>1, <2>1, <3>1 DEF Stays, Moves
  <2>3. CASE /\ read # <<>> => Head(read).kind # "key"
             /\ Finish(g, c, read, rest)
    BY <1>1, <1>4, <1>9, <2>1, <2>3, FinishKeepsHandshake
       DEF Stays, Moves, Astray
  <2>4. CASE /\ read # <<>> /\ Head(read).kind = "key"
             /\ Send(g, c, "WAIT_RESULT", FALSE, read, rest)
    <3>1. FALSE = c.switchCheck
      BY <1>1 DEF ClientType
    <3> QED BY <1>1, <2>4, <3>1, SendMoves DEF Moves, Asks
  <2>5. CASE read = <<>> /\ Wait(g, c, read, rest)
    BY <1>5, <2>5
  <2> QED BY <2>1, <2>2, <2>3, <2>4, <2>5
<1>10. CASE ~switch /\ ShakeResult(g, c, read, rest)
  <2>1. /\ c.handshake = "WAIT_RESULT"
        /\ \/ /\ Keep(g, read, rest) /\ client'.handshake = "WAIT_RESULT"
              /\ read # <<>> => Head(read).kind = "err" /\ Closing'
           \/ /\ read # <<>> /\ Head(read).kind # "err"
              /\ Keep(g, <<>>, rest) /\ client'.handshake = "COMPLETED"
    BY <1>1, <1>10, ResultMoves
  <2>2. CASE /\ Keep(g, read, rest) /\ client'.handshake = "WAIT_RESULT"
             /\ read # <<>> => Head(read).kind = "err" /\ Closing'
    BY <1>1, <2>1, <2>2 DEF Stays, Moves
  <2>3. CASE /\ read # <<>> /\ Head(read).kind # "err"
             /\ Keep(g, <<>>, rest) /\ client'.handshake = "COMPLETED"
    BY <1>1, <1>4, <1>10, <2>1, <2>3 DEF Completes, Moves
  <2> QED BY <2>1, <2>2, <2>3
<1> QED BY <1>3, <1>6, <1>7, <1>8, <1>9, <1>10

(* read is what the buffer b holds with n packets of w behind it, and rest *)
(* is what w keeps.                                                        *)
Taken(w, b, n, read, rest) ==
    /\ Len(rest) = Len(w) - n
    /\ \A i \in 1..Len(rest) : n + i \in 1..Len(w) /\ rest[i] = w[n + i]
    /\ rest \in Seq(Packet) /\ read \in Seq(Packet)
    /\ b = <<>> => Len(read) = n /\ \A i \in 1..n : read[i] = w[i]
    /\ read = <<>> <=> b = <<>> /\ n = 0
    /\ b = <<>> /\ n > 0 => Head(read) = w[1]
    /\ b # <<>> => Head(read) = Head(b)
    /\ read # <<>> => Head(read \o rest) = Head(read)

LEMMA PieceOfWire ==
    ASSUME NEW w \in Seq(Packet), NEW b \in Seq(Packet), NEW n \in 0..Len(w)
    PROVE  Taken(w, b, n, b \o SubSeq(w, 1, n), SubSeq(w, n + 1, Len(w)))
<1> DEFINE piece == SubSeq(w, 1, n)
           rest == SubSeq(w, n + 1, Len(w))
<1>1. n \in Nat /\ Len(w) \in Nat /\ n <= Len(w)
  OBVIOUS
<1>2. /\ piece \in Seq(Packet) /\ Len(piece) = n
      /\ \A i \in 1..n : piece[i] = w[i]
  BY <1>1, SubSeqProperties
<1>3. /\ rest \in Seq(Packet) /\ Len(rest) = Len(w) - n
      /\ \A i \in 1..Len(rest) : n + i \in 1..Len(w) /\ rest[i] = w[n + i]
  <2>1. PICK from, to \in Int : from = n + 1 /\ to = Len(w)
    BY <1>1
  <2>2. \A i \in from..to : w[i] \in Packet
    BY <1>1, <2>1
  <2>3. /\ SubSeq(w, from, to) \in Seq(Packet)
        /\ Len(SubSeq(w, from, to)) =
               IF from <= to THEN to - from + 1 ELSE 0
        /\ \A i \in 1..to - from + 1 : SubSeq(w, from, to)[i] = w[from + i - 1]
    BY <2>2, SubSeqProperties
  <2>4. rest = SubSeq(w, from, to)
    BY <2>1
  <2> HIDE DEF rest
  <2>5. Len(rest) = Len(w) - n
    BY <1>1, <2>1, <2>3, <2>4
  <2>6. ASSUME NEW i \in 1..Len(rest)
        PROVE  n + i \in 1..Len(w) /\ rest[i] = w[n + i]
    <3>1. /\ i \in 1..to - from + 1 /\ from + i - 1 = n + i
          /\ n + i \in 1..Len(w)
      BY <1>1, <2>1, <2>5
    <3> QED BY <2>3, <2>4, <3>1, Zenon
  <2> QED BY <2>3, <2>4, <2>5, <2>6
<1> HIDE DEF piece, rest
<1> DEFINE r == b \o piece
<1>4. /\ r \in Seq(Packet) /\ Len(r) = Len(b) + n /\ Len(b) \in Nat
      /\ Len(b) > 0 => r[1] = b[1]
      /\ Len(b) = 0 /\ n > 0 => r[1] = piece[1]
  <2>1. /\ r \in Seq(Packet) /\ Len(r) = Len(b) + Len(piece)
        /\ \A i \in 1..Len(b) + Len(piece) :
              r[i] = IF i <= Len(b) THEN b[i] ELSE piece[i - Len(b)]
    BY <1>2, ConcatProperties
  <2>2. Len(b) \in Nat
    BY LenProperties
  <2> HIDE DEF r, piece
  <2>3. ASSUME Len(b) = 0, n > 0 PROVE r[1] = piece[1]
    <3>1. /\ 1 \in 1..Len(b) + Len(piece) /\ 1 - Len(b) = 1
          /\ ~(1 <= Len(b))
      BY <1>1, <1>2, <2>3
    <3> QED BY <2>1, <3>1
  <2>4. ASSUME Len(b) > 0 PROVE r[1] = b[1]
    <3>1. 1 \in 1..Len(b) + Len(piece) /\ 1 <= Len(b)
      BY <1>1, <1>2, <2>2, <2>4
    <3> QED BY <2>1, <3>1
  <2> QED BY <1>1, <1>2, <2>1, <2>2, <2>3, <2>4
<1>5. b = <<>> <=> Len(b) = 0
  BY EmptySeq
<1>6. r = <<>> <=> Len(r) = 0
  BY <1>4, EmptySeq
<1>7. b = <<>> => r = piece
  BY <1>2, ConcatEmptySeq
<1>8. b # <<>> => Head(b) = b[1] /\ Len(b) > 0
  BY <1>4, <1>5, HeadTailProperties
<1>9. r # <<>> => Head(r) = r[1] /\ Head(r \o rest) = r[1]
  <2> SUFFICES ASSUME r # <<>> PROVE Head(r) = r[1] /\ Head(r \o rest) = r[1]
    OBVIOUS
  <2>1. Len(r) \in Nat /\ Len(r) > 0
    BY <1>1, <1>4, <1>6
  <2> HIDE DEF r
  <2>2. /\ r \o rest \in Seq(Packet) /\ Len(r \o rest) = Len(r) + Len(rest)
        /\ (r \o rest)[1] = r[1]
    <3>1. r \in Seq(Packet) /\ 1 \in 1..Len(r)
      BY <1>4, <2>1 DEF r
    <3> HIDE DEF r
    <3>2. /\ r \o rest \in Seq(Packet)
          /\ Len(r \o rest) = Len(r) + Len(rest)
          /\ \A i \in 1..Len(r) + Len(rest) :
                (r \o rest)[i] = IF i <= Len(r) THEN r[i] ELSE rest[i - Len(r)]
      BY <1>3, <3>1, ConcatProperties
    <3>3. 1 \in 1..Len(r) + Len(rest) /\ 1 <= Len(r)
      BY <1>1, <1>3, <2>1, <3>1
    <3> QED BY <3>2, <3>3
  <2>3. r \o rest # <<>>
    BY <1>1, <1>3, <2>1, <2>2, EmptySeq
  <2> QED BY <1>4, <2>2, <2>3, HeadTailProperties
<1>10. r = <<>> <=> b = <<>> /\ n = 0
  <2>1. Len(r) = 0 <=> Len(b) = 0 /\ n = 0
    BY <1>1, <1>4
  <2> HIDE DEF r
  <2> QED BY <1>5, <1>6, <2>1
<1>11. b = <<>> /\ n > 0 => Head(r) = w[1]
  BY <1>1, <1>2, <1>4, <1>5, <1>9, <1>10
<1>12. b # <<>> => Head(r) = Head(b)
  BY <1>4, <1>8, <1>9, <1>10
<1>13. b = <<>> => Len(r) = n /\ \A i \in 1..n : r[i] = w[i]
  BY <1>2, <1>7
<1> HIDE DEF r
<1>14. Taken(w, b, n, r, rest)
  BY <1>3, <1>4, <1>9, <1>10, <1>11, <1>12, <1>13 DEF Taken
<1> QED BY <1>14 DEF r, piece, rest

(* What the server sends in a handshake.                                   *)
LEMMA HandshakeKinds ==
    ASSUME NEW next, NEW greeted, NEW kinds \in Verdicts(next) \cup Switched(greeted)
    PROVE  /\ kinds \in Seq(PacketKinds)
           /\ \/ Len(kinds) = 1
              \/ /\ next = "WAIT_SIGNATURE"
                 /\ kinds = <<"signature", "ok">>
<1>1. kinds \in Seq(PacketKinds)
  BY ServersKinds
<1>2. \/ Len(kinds) = 1
      \/ next = "WAIT_SIGNATURE" /\ kinds = <<"signature", "ok">>
  <2> DEFINE single == {<<"ok">>, <<"full">>, <<"key">>, <<"err">>,
                        <<"switchNative">>, <<"switchSha2">>}
  <2>1. \/ kinds \in single
        \/ next = "WAIT_SIGNATURE" /\ kinds = <<"signature", "ok">>
    BY DEF Verdicts, Switched
  <2>2. kinds \in single => Len(kinds) = 1
    OBVIOUS
  <2> HIDE DEF single
  <2> QED BY <2>1, <2>2
<1> QED BY <1>1, <1>2

LEMMA PlainPackets ==
    ASSUME NEW kinds \in Seq(PacketKinds)
    PROVE  /\ Plain(kinds) \in Seq(Packet) /\ Len(Plain(kinds)) = Len(kinds)
           /\ \A i \in 1..Len(kinds) : /\ Plain(kinds)[i].query = None
                                       /\ Plain(kinds)[i].kind = kinds[i]
<1>1. Len(kinds) \in Nat
  OBVIOUS
<1>2. /\ DOMAIN Plain(kinds) = 1..Len(kinds)
      /\ \A i \in 1..Len(kinds) : /\ Plain(kinds)[i].query = None
                                  /\ Plain(kinds)[i].kind = kinds[i]
  BY DEF Plain
<1>3. Plain(kinds) \in Seq(Packet)
  BY PlainIsPackets
<1>4. DOMAIN Plain(kinds) = 1..Len(Plain(kinds)) /\ Len(Plain(kinds)) \in Nat
  BY <1>3, LenProperties
<1>5. Len(Plain(kinds)) = Len(kinds)
  BY <1>1, <1>2, <1>4
<1> QED BY <1>2, <1>3, <1>5

(* The i-th packet behind what was read: the one packet of a handshake, or *)
(* the one behind a signature.                                             *)
LeftBehind(g, n, i, read, rest) ==
    /\ buffer[g] = <<>> /\ client.handshake # "COMPLETED"
    /\ \/ n = 0 /\ i = 1
       \/ /\ n = 0 /\ i = 2 /\ rest[1].kind = "signature"
          /\ client.handshake = "WAIT_SIGNATURE"
       \/ /\ n = 1 /\ i = 1 /\ Len(read) = 1 /\ read # <<>>
          /\ Head(read).kind = "signature"
          /\ client.handshake = "WAIT_SIGNATURE"

(* A packet of the handshake that is left behind what was read is the one  *)
(* behind a signature.                                                     *)
LEMMA LeftOver ==
    ASSUME TypeOK, NEW g \in Conns, InOrder(g),
           NEW n \in 0..Len(wire[g]), NEW rest, NEW read,
           Taken(wire[g], buffer[g], n, read, rest),
           NEW i \in 1..Len(rest), rest[i].query = None
    PROVE  LeftBehind(g, n, i, read, rest)
<1> USE DEF LeftBehind
<1> DEFINE w == wire[g]
           b == buffer[g]
<1>1. w \in Seq(Packet) /\ b \in Seq(Packet)
  BY DEF TypeOK
<1>2. /\ n \in Nat /\ Len(w) \in Nat
      /\ rest \in Seq(Packet) /\ Len(rest) = Len(w) - n
      /\ \A k \in 1..Len(rest) : n + k \in 1..Len(w) /\ rest[k] = w[n + k]
      /\ b = <<>> => Len(read) = n
      /\ read = <<>> <=> b = <<>> /\ n = 0
      /\ b = <<>> /\ n > 0 => Head(read) = w[1]
  BY <1>1 DEF Taken
<1>3. n + i \in 1..Len(w) /\ w[n + i].query = None
  BY <1>2
<1>4. /\ client.handshake # "COMPLETED" /\ b = <<>>
      /\ n + i # 1 => /\ n + i = 2 /\ w[1].kind = "signature"
                      /\ client.handshake = "WAIT_SIGNATURE"
  BY <1>3 DEF InOrder
<1>5. CASE n + i = 1
  BY <1>2, <1>4, <1>5
<1>6. CASE n + i = 2 /\ n = 0
  <2>1. i = 2 /\ rest[1] = w[1]
    BY <1>2, <1>6
  <2> QED BY <1>4, <1>6, <2>1
<1>7. CASE n + i = 2 /\ n = 1
  <2>1. i = 1 /\ Len(read) = 1 /\ read # <<>> /\ Head(read) = w[1]
    BY <1>2, <1>4, <1>7
  <2> QED BY <1>4, <1>7, <2>1
<1> QED BY <1>2, <1>4, <1>5, <1>6, <1>7

LEMMA MovesKeepOrder ==
    ASSUME TypeOK, NEW g \in Conns, conn[g] = "connected", InOrder(g),
           client.handshake # "COMPLETED",
           NEW n \in 0..Len(wire[g]), NEW rest, NEW read,
           Taken(wire[g], buffer[g], n, read, rest),
           Moves(g, read, rest),
           client'.state = client.state, client'.callback = client.callback
    PROVE  InOrder(g)'
<1> DEFINE w == wire[g]
           b == buffer[g]
<1>1. w \in Seq(Packet) /\ b \in Seq(Packet)
  BY DEF TypeOK
<1>2. /\ n \in Nat /\ Len(w) \in Nat
      /\ rest \in Seq(Packet) /\ Len(rest) = Len(w) - n
      /\ \A i \in 1..Len(rest) : n + i \in 1..Len(w) /\ rest[i] = w[n + i]
      /\ b = <<>> => Len(read) = n
      /\ read = <<>> <=> b = <<>> /\ n = 0
      /\ b = <<>> /\ n > 0 => Head(read) = w[1]
  BY <1>1 DEF Taken
<1>3. ASSUME NEW i \in 1..Len(rest), rest[i].query = None
      PROVE  /\ b = <<>> /\ client.handshake # "COMPLETED"
             /\ \/ n = 0 /\ i = 1
                \/ /\ n = 0 /\ i = 2 /\ rest[1].kind = "signature"
                   /\ client.handshake = "WAIT_SIGNATURE"
                \/ /\ n = 1 /\ i = 1 /\ Len(read) = 1 /\ read # <<>>
                   /\ Head(read).kind = "signature"
                   /\ client.handshake = "WAIT_SIGNATURE"
  <2>1. LeftBehind(g, n, i, read, rest)
    BY <1>3, LeftOver, Zenon
  <2> QED BY <2>1 DEF LeftBehind
(* The packets of a response only move up.                                 *)
<1>4. ASSUME NEW i \in 1..Len(rest), rest[i].query # None
      PROVE  /\ client.state # "QUERY" /\ rest[i].query = client.callback
             /\ rest[i].kind \in Ends => i = Len(rest)
             /\ auth[g] # "pending"
  <2>1. n + i \in 1..Len(w) /\ rest[i] = w[n + i]
    BY <1>2
  <2>2. /\ client.state # "QUERY" /\ w[n + i].query = client.callback
        /\ w[n + i].kind \in Ends => n + i = Len(w)
        /\ auth[g] # "pending"
    BY <1>4, <2>1 DEF InOrder
  <2> QED BY <1>2, <2>1, <2>2
<1> HIDE DEF w, b
(* What is enough for the packets behind a step that sends nothing.        *)
<1>5. ASSUME wire' = [wire EXCEPT ![g] = rest], auth'[g] = auth[g],
             \A i \in 1..Len(rest) : rest[i].query = None =>
                /\ client'.handshake # "COMPLETED" /\ buffer'[g] = <<>>
                /\ i # 1 => /\ i = 2 /\ rest[1].kind = "signature"
                            /\ client'.handshake = "WAIT_SIGNATURE"
      PROVE  InOrder(g)'
  <2>1. wire'[g] = rest
    BY <1>5 DEF TypeOK
  <2> SUFFICES ASSUME NEW i \in 1..Len(rest)
               PROVE  /\ rest[i].query # None =>
                           /\ client'.state # "QUERY"
                           /\ rest[i].query = client'.callback
                           /\ rest[i].kind \in Ends => i = Len(rest)
                      /\ rest[i].query = None =>
                           /\ client'.handshake # "COMPLETED"
                           /\ buffer'[g] = <<>>
                           /\ i # 1 => /\ i = 2 /\ rest[1].kind = "signature"
                                       /\ client'.handshake = "WAIT_SIGNATURE"
                      /\ auth'[g] = "pending" => rest[i].query = None
    BY <2>1 DEF InOrder
  <2> QED BY <1>4, <1>5
<1>6. CASE Stays(g, read, rest)
  <2>1. buffer'[g] = read
    BY <1>6 DEF Stays, Keep, TypeOK
  <2>2. wire' = [wire EXCEPT ![g] = rest] /\ auth'[g] = auth[g]
    BY <1>6 DEF Stays, Keep
  <2>3. ASSUME NEW i \in 1..Len(rest), rest[i].query = None
        PROVE  /\ client'.handshake # "COMPLETED" /\ buffer'[g] = <<>>
               /\ i # 1 => /\ i = 2 /\ rest[1].kind = "signature"
                           /\ client'.handshake = "WAIT_SIGNATURE"
    BY <1>2, <1>3, <1>6, <2>1, <2>3 DEF Stays
  <2> QED BY <1>5, <2>2, <2>3
<1>7. CASE Signed(g, read, rest)
  <2>1. wire' = [wire EXCEPT ![g] = rest] /\ auth'[g] = auth[g]
    BY <1>7 DEF Signed, Keep
  <2>2. ASSUME NEW i \in 1..Len(rest), rest[i].query = None
        PROVE  /\ client'.handshake # "COMPLETED" /\ buffer'[g] = <<>>
               /\ i = 1
    <3>1. Len(read) = 1 /\ i = 1
      BY <1>2, <1>3, <1>7, <2>2 DEF Signed
    <3>2. Keep(g, <<>>, rest)
      <4>1. ~(1 > 1)
        OBVIOUS
      <4> QED BY <1>7, <3>1, <4>1, Zenon DEF Signed
    <3> QED BY <1>7, <3>1, <3>2 DEF Signed, Keep, TypeOK
  <2> QED BY <1>5, <2>1, <2>2
<1>8. CASE Completes(g, read, rest)
  <2>1. wire' = [wire EXCEPT ![g] = rest] /\ auth'[g] = auth[g]
    BY <1>8 DEF Completes, Keep
  <2>2. ASSUME NEW i \in 1..Len(rest), rest[i].query = None PROVE FALSE
    <3>1. n = 1 /\ Len(read) = 1 /\ client.handshake = "WAIT_SIGNATURE"
      BY <1>2, <1>3, <1>8, <2>2 DEF Completes
    <3> QED BY <1>8, <3>1 DEF Completes
  <2> QED BY <1>5, <2>1, <2>2
<1>9. CASE Sends(g, read, rest)
  <2>1. ASSUME NEW i \in 1..Len(rest), rest[i].query = None PROVE FALSE
    <3>1. Head(read).kind = "signature"
      BY <1>2, <1>3, <1>9, <2>1 DEF Sends
    <3> QED BY <1>9, <3>1 DEF Sends, Asks, Greetings, Switches
  <2>2. CASE /\ auth[g] = "refused" /\ wire' = [wire EXCEPT ![g] = rest]
             /\ UNCHANGED auth
    BY <1>5, <2>1, <2>2
  <2>3. CASE auth[g] = "pending"
    <3>1. PICK kinds \in Verdicts(client'.handshake)
                         \cup Switched(client'.switchCheck) :
            wire' = [wire EXCEPT ![g] = rest \o Plain(kinds)]
      BY <1>9, <2>3 DEF Sends
    <3>2. rest = <<>>
      <4>1. Len(rest) \in Nat /\ ~(Len(rest) > 0)
        <5>1. Len(rest) \in Nat
          BY <1>2
        <5>2. ASSUME Len(rest) > 0 PROVE FALSE
          <6>1. 1 \in 1..Len(rest)
            BY <5>1, <5>2
          <6> QED BY <1>4, <2>1, <2>3, <6>1
        <5> QED BY <5>1, <5>2
      <4>2. \A k \in Nat : ~(k > 0) => k = 0
        OBVIOUS
      <4>3. Len(rest) = 0
        BY <4>1, <4>2, Zenon
      <4> QED BY <1>2, <4>3, EmptySeq
    <3>3. /\ kinds \in Seq(PacketKinds)
          /\ \/ Len(kinds) = 1
             \/ /\ client'.handshake = "WAIT_SIGNATURE"
                /\ kinds = <<"signature", "ok">>
      BY HandshakeKinds
    <3>4. /\ Plain(kinds) \in Seq(Packet) /\ Len(Plain(kinds)) = Len(kinds)
          /\ \A i \in 1..Len(kinds) : /\ Plain(kinds)[i].query = None
                                      /\ Plain(kinds)[i].kind = kinds[i]
      BY <3>3, PlainPackets
    <3>5. rest \o Plain(kinds) = Plain(kinds)
      BY <3>2, <3>4, ConcatEmptySeq
    <3>6. wire'[g] = Plain(kinds) /\ buffer'[g] = <<>>
      BY <1>9, <3>1, <3>5 DEF Sends, TypeOK
    <3>7. client'.handshake # "COMPLETED"
      BY <1>9 DEF Sends
    <3>8. ASSUME NEW i \in 1..Len(kinds), i # 1
          PROVE  /\ i = 2 /\ client'.handshake = "WAIT_SIGNATURE"
                 /\ Plain(kinds)[1].kind = "signature"
      <4>1. kinds = <<"signature", "ok">> /\ client'.handshake = "WAIT_SIGNATURE"
        <5>1. ASSUME Len(kinds) = 1 PROVE FALSE
          BY <3>8, <5>1
        <5> QED BY <3>3, <5>1, Zenon
      <4>2. Len(kinds) = 2 /\ kinds[1] = "signature"
        BY <4>1
      <4>3. i = 2 /\ 1 \in 1..Len(kinds)
        BY <3>8, <4>2
      <4> QED BY <3>4, <4>1, <4>2, <4>3
    <3> QED BY <3>4, <3>6, <3>7, <3>8 DEF InOrder
  <2> QED BY <1>9, <2>2, <2>3 DEF Sends
<1> QED BY <1>6, <1>7, <1>8, <1>9 DEF Moves

LEMMA LeastOf ==
    ASSUME NEW S \in SUBSET Nat, S # {}
    PROVE  \E i \in S : \A j \in S : ~(j < i)
<1>1. PICK i \in S : \A j \in S : ~ (<<j, i>> \in OpToRel(<, Nat))
  BY NatLessThanWellFounded, WFMin, Zenon
<1>2. ASSUME NEW j \in S, j < i PROVE FALSE
  <2>1. <<j, i>> \in Nat \X Nat
    OBVIOUS
  <2>2. <<j, i>>[1] < <<j, i>>[2]
    BY <1>2
  <2>3. <<j, i>> \in OpToRel(<, Nat)
    BY <2>1, <2>2, Zenon DEF OpToRel
  <2> QED BY <1>1, <2>3, Zenon
<1> QED BY <1>2

(* A response goes on until its last packet.                               *)
LEMMA RunGoesOn ==
    ASSUME NEW s \in Seq(Packet), NEW run \in [0..Len(s) -> ReadStates],
           run[0] # "QUERY", \A i \in 1..Len(s) : s[i].kind \notin Ends,
           \A i \in 1..Len(s) : run[i] = StateAfter(run[i - 1], s[i])
    PROVE  run[Len(s)] # "QUERY"
<1> DEFINE T == {i \in 0..Len(s) : run[i] = "QUERY"}
<1>1. Len(s) \in Nat
  OBVIOUS
<1>2. SUFFICES ASSUME T # {} PROVE FALSE
  BY <1>1
<1>3. PICK i \in T : \A j \in T : ~(j < i)
  <2>1. T \in SUBSET Nat
    BY <1>1
  <2> HIDE DEF T
  <2> QED BY <1>2, <2>1, LeastOf
<1>4. /\ i \in 1..Len(s) /\ i - 1 \in 0..Len(s) /\ run[i] = "QUERY"
      /\ i - 1 < i
  BY <1>1
<1>5. run[i - 1] # "QUERY"
  BY <1>3, <1>4
<1>6. run[i] # "QUERY"
  <2>1. run[i] = StateAfter(run[i - 1], s[i]) /\ s[i].kind \notin Ends
    BY <1>4
  <2>2. s[i].kind \notin {"ok", "err", "eof"}
    BY <2>1 DEF Ends
  <2> QED BY <1>5, <2>1, <2>2 DEF StateAfter
<1> QED BY <1>4, <1>6

(* A step that sends nothing, and takes nothing off the wire.              *)
LEMMA WireKept ==
    ASSUME IInv, WireInv, UNCHANGED <<wire, auth>>,
           client'.state = client.state, client'.callback = client.callback,
           client'.handshake = client.handshake,
           \A g \in Conns : buffer'[g] = buffer[g] \/ buffer'[g] = <<>>,
           \A g \in Conns : conn'[g] = conn[g] \/ conn[g] = "none"
                                               \/ conn'[g] = "closed",
           \A g \in Conns : conn[g] = "none" => conn'[g] # "connected"
    PROVE  WireInv'
<1>1. ASSUME NEW g \in Conns, conn'[g] \in {"none", "connecting"}
      PROVE  buffer'[g] = <<>>
  BY <1>1 DEF WireInv
<1>2. ASSUME NEW g \in Conns, conn'[g] = "connected"
      PROVE  InOrder(g)'
  <2>1. conn[g] = "connected"
    BY <1>2
  <2>2. InOrder(g)
    BY <2>1 DEF WireInv
  <2> QED BY <2>2 DEF InOrder
<1> QED BY <1>1, <1>2 DEF WireInv

LEMMA FreedHandshake ==
    ASSUME NEW c \in ClientType
    PROVE  /\ Freed(c).handshake = c.handshake
           /\ Freed(c).switchCheck = c.switchCheck
           /\ Freed(c).error = c.error
           /\ Freed(c).transaction = c.transaction
BY DEF ClientType, Freed

(* What a client that fails or is closed keeps.                            *)
LEMMA FailedHandshake ==
    ASSUME NEW c \in ClientType
    PROVE  /\ Freed([c EXCEPT !.error = TRUE]) \in ClientType
           /\ Freed([c EXCEPT !.error = TRUE]).handshake = c.handshake
           /\ Freed([c EXCEPT !.error = TRUE]).transaction = c.transaction
           /\ Freed([c EXCEPT !.error = TRUE]).state = c.state
           /\ Freed([c EXCEPT !.error = TRUE]).callback = c.callback
<1> DEFINE d == [c EXCEPT !.error = TRUE]
<1>1. d \in ClientType /\ d.handshake = c.handshake
      /\ d.transaction = c.transaction /\ d.state = c.state
      /\ d.callback = c.callback
  BY DEF ClientType
<1> HIDE DEF d
<1>2. /\ Freed(d) \in ClientType /\ Freed(d).handshake = d.handshake
      /\ Freed(d).transaction = d.transaction
      /\ Freed(d).state = d.state /\ Freed(d).callback = d.callback
  BY <1>1, FreedClient, FreedHandshake
<1>3. /\ Freed(d) \in ClientType /\ Freed(d).handshake = c.handshake
      /\ Freed(d).transaction = c.transaction
      /\ Freed(d).state = c.state /\ Freed(d).callback = c.callback
  BY <1>1, <1>2
<1> QED BY <1>3 DEF d

(* Every field of the client but those of the connection stays when it     *)
(* closes.                                                                 *)
LEMMA CloseMethodKeeps ==
    ASSUME TypeOK, NEW below, CloseMethod(below)
    PROVE  /\ client'.state = client.state
           /\ client'.callback = client.callback
           /\ client'.handshake = client.handshake
           /\ client'.transaction = client.transaction
           /\ client'.error = client.error
           /\ client'.switchCheck = client.switchCheck
           /\ client'.connected => client.connected
           /\ \A g \in Conns : conn'[g] = conn[g] \/ conn'[g] = "closed"
<1>1. client \in ClientType /\ conn \in [Conns -> Phases]
  BY DEF TypeOK
<1>2. \/ client' = client
      \/ client' = Freed(client)
  BY DEF CloseMethod, CloseConnection
<1>3. \/ conn' = conn
      \/ conn' = [conn EXCEPT ![client.cli] = "closed"]
  BY DEF CloseMethod, CloseConnection
<1>4. \A g \in Conns : conn'[g] = conn[g] \/ conn'[g] = "closed"
  BY <1>1, <1>3
<1>5. /\ client'.state = client.state /\ client'.callback = client.callback
      /\ client'.connected => client.connected
  BY <1>1, <1>2, FreedClient
<1>6. /\ client'.handshake = client.handshake
      /\ client'.transaction = client.transaction
      /\ client'.error = client.error
      /\ client'.switchCheck = client.switchCheck
  BY <1>1, <1>2, FreedHandshake
<1> QED BY <1>4, <1>5, <1>6

(* The steps that send, read or connect nothing.                           *)
Quiet ==
    \/ QueryOnNullCli \/ Close \/ Destruct \/ DestructInCallback \/ Return
    \/ UNCHANGED vars

LEMMA QuietKeeps ==
    ASSUME TypeOK, Quiet
    PROVE  /\ UNCHANGED <<wire, auth, serverTx, connects, queries, answers, told,
                          rsa, cut>>
           /\ client'.state = client.state
           /\ client'.callback = client.callback
           /\ client'.handshake = client.handshake
           /\ client'.transaction = client.transaction
           /\ client'.error = client.error
           /\ client'.switchCheck = client.switchCheck
           /\ client'.connected => client.connected
           /\ \A g \in Conns : conn'[g] = conn[g] \/ conn'[g] = "closed"
           /\ \A g \in Conns : buffer'[g] = buffer[g] \/ buffer'[g] = <<>>
<1>1. ASSUME UNCHANGED <<wire, cut, buffer, auth, serverTx, connects, queries,
                         answers, told, rsa>>,
             UNCHANGED <<client, conn>> \/ \E below : CloseMethod(below)
      PROVE  /\ UNCHANGED <<wire, auth, serverTx, connects, queries, answers,
                            told, rsa, cut>>
             /\ client'.state = client.state
             /\ client'.callback = client.callback
             /\ client'.handshake = client.handshake
             /\ client'.transaction = client.transaction
             /\ client'.error = client.error
             /\ client'.switchCheck = client.switchCheck
             /\ client'.connected => client.connected
             /\ \A g \in Conns : conn'[g] = conn[g] \/ conn'[g] = "closed"
             /\ \A g \in Conns : buffer'[g] = buffer[g] \/ buffer'[g] = <<>>
  <2>1. CASE UNCHANGED <<client, conn>>
    BY <1>1, <2>1
  <2>2. CASE \E below : CloseMethod(below)
    BY <1>1, <2>2, CloseMethodKeeps
  <2> QED BY <1>1, <2>1, <2>2
<1>2. CASE QueryOnNullCli
  <2>1. UNCHANGED <<wire, cut, buffer, auth, serverTx, connects, queries,
                    answers, told, rsa, client, conn>>
    BY <1>2 DEF QueryOnNullCli, external, script
  <2> QED BY <1>1, <2>1
<1>3. CASE Close \/ Destruct
  <2>1. CloseMethod(stack)
    BY <1>3 DEF Close, Destruct
  <2>2. UNCHANGED <<wire, cut, buffer, auth, serverTx, connects, queries,
                    answers, told, rsa>>
    BY <1>3 DEF Close, Destruct, external, script
  <2> QED BY <1>1, <2>1, <2>2
<1>4. CASE ReturnConnect
  <2>1. UNCHANGED <<client, conn>> \/ CloseMethod(Tail(stack))
    BY <1>4 DEF ReturnConnect
  <2>2. UNCHANGED <<wire, cut, buffer, auth, serverTx, connects, queries,
                    answers, told, rsa>>
    BY <1>4 DEF ReturnConnect, external, script
  <2> QED BY <1>1, <2>1, <2>2
<1>5. CASE ReturnResult
  <2>1. UNCHANGED <<client, conn, wire, cut, auth, serverTx, ref, connects,
                    queries, answers, told, alive, rsa, fault>>
    BY <1>5 DEF ReturnResult, script
  <2>2. buffer' = buffer \/ buffer' = [buffer EXCEPT ![client.cli] = <<>>]
    BY <1>5 DEF ReturnResult
  <2>3. \A g \in Conns : buffer'[g] = buffer[g] \/ buffer'[g] = <<>>
    BY <2>2 DEF TypeOK
  <2> QED BY <2>1, <2>3
<1>6. CASE ReturnClose
  <2>1. UNCHANGED <<wire, cut, buffer, auth, serverTx, connects, queries,
                    answers, told, rsa, client, conn>>
    BY <1>6 DEF ReturnClose, external, script
  <2> QED BY <1>1, <2>1
<1>7. CASE UNCHANGED vars
  <2>1. UNCHANGED <<wire, cut, buffer, auth, serverTx, connects, queries,
                    answers, told, rsa, client, conn>>
    BY <1>7 DEF vars, external, script
  <2> QED BY <1>1, <2>1
<1>8. CASE DestructInCallback
  <2>1. CloseMethod(Tail(stack))
    BY <1>8 DEF DestructInCallback
  <2>2. UNCHANGED <<wire, cut, buffer, auth, serverTx, connects, queries,
                    answers, told, rsa>>
    BY <1>8 DEF DestructInCallback, external, script
  <2> QED BY <1>1, <2>1, <2>2
<1> QED BY <1>2, <1>3, <1>4, <1>5, <1>6, <1>7, <1>8 DEF Quiet, Return

LEMMA ConnectKeepsWire ==
    ASSUME IInv, WireInv, NEW g \in Conns, Connect(g)
    PROVE  WireInv'
<1>1. /\ client \in ClientType /\ conn \in [Conns -> Phases]
      /\ UNCHANGED <<wire, cut, buffer, auth, serverTx>>
  BY DEF IInv, TypeOK, Connect, external
<1>2. conn[g] = "none"
  BY DEF Connect, IInv, ConnInv, OneClient, TypeOK
<1>3. PICK p \in {"connecting", "idle", "closed"} : conn' = [conn EXCEPT ![g] = p]
  BY DEF Connect
<1>4. /\ client'.state = client.state /\ client'.callback = client.callback
      /\ client'.handshake = client.handshake
  <2>1. CASE client' = [client EXCEPT !.cli = g]
    BY <1>1, <2>1 DEF ClientType
  <2>2. CASE \E drops, below : Tell(g, Freed([client EXCEPT !.error = TRUE]), drops, below)
    <3> DEFINE c == Freed([client EXCEPT !.error = TRUE])
    <3>1. client' = Reported(c)
      BY <2>2 DEF Tell
    <3>2. /\ c \in ClientType /\ c.handshake = client.handshake
          /\ c.state = client.state /\ c.callback = client.callback
      BY <1>1, FailedHandshake
    <3> HIDE DEF c
    <3> QED BY <3>1, <3>2, ReportedClient, ReportedHandshake
  <2> QED BY <2>1, <2>2 DEF Connect
<1>5. \A h \in Conns : h # g => conn'[h] = conn[h]
  BY <1>1, <1>3
<1>6. conn'[g] # "connected"
  BY <1>1, <1>3
<1>7. \A h \in Conns : conn'[h] = conn[h] \/ conn[h] = "none"
  BY <1>2, <1>5
<1>8. \A h \in Conns : conn[h] = "none" => conn'[h] # "connected"
  BY <1>5, <1>6
<1> QED BY <1>1, <1>4, <1>7, <1>8, WireKept

LEMMA OnErrorKeepsWire ==
    ASSUME IInv, WireInv, NEW g \in Conns, OnError(g)
    PROVE  WireInv'
<1> DEFINE c == Freed([client EXCEPT !.error = TRUE])
<1>1. /\ client \in ClientType /\ conn \in [Conns -> Phases]
      /\ conn' = [conn EXCEPT ![g] = "closed"] /\ conn[g] = "connecting"
      /\ UNCHANGED <<wire, cut, buffer, auth, serverTx>>
      /\ client' = Reported(c)
  BY DEF IInv, TypeOK, OnError, external, Tell
<1>2. /\ c \in ClientType /\ c.handshake = client.handshake
      /\ c.state = client.state /\ c.callback = client.callback
  BY <1>1, FailedHandshake
<1> HIDE DEF c
<1>3. /\ client'.state = client.state /\ client'.callback = client.callback
      /\ client'.handshake = client.handshake
  BY <1>1, <1>2, ReportedClient, ReportedHandshake
<1>4. \A h \in Conns : conn'[h] = conn[h] \/ conn'[h] = "closed"
  BY <1>1
<1>5. \A h \in Conns : conn[h] = "none" => conn'[h] # "connected"
  BY <1>1, <1>4
<1> QED BY <1>1, <1>3, <1>4, <1>5, WireKept

LEMMA OnCloseKeepsWire ==
    ASSUME IInv, WireInv, NEW g \in Conns, OnClose(g)
    PROVE  WireInv'
<1>1. /\ client \in ClientType /\ conn \in [Conns -> Phases]
      /\ conn' = [conn EXCEPT ![g] = "closed"] /\ conn[g] = "connected"
      /\ UNCHANGED <<wire, cut, buffer, auth, serverTx>>
      /\ client' = Freed(client)
  BY DEF IInv, TypeOK, OnClose, external, CloseConnection
<1>2. /\ client'.state = client.state /\ client'.callback = client.callback
      /\ client'.handshake = client.handshake
  BY <1>1, FreedClient, FreedHandshake
<1>3. \A h \in Conns : conn'[h] = conn[h] \/ conn'[h] = "closed"
  BY <1>1
<1>4. \A h \in Conns : conn[h] = "none" => conn'[h] # "connected"
  BY <1>1, <1>3
<1> QED BY <1>1, <1>2, <1>3, <1>4, WireKept

LEMMA QuietKeepsWire ==
    ASSUME IInv, WireInv, Quiet
    PROVE  WireInv'
<1>1. TypeOK
  BY DEF IInv
<1>2. \A h \in Conns : conn[h] = "none" => conn'[h] # "connected"
  BY <1>1, QuietKeeps
<1> QED BY <1>1, <1>2, QuietKeeps, WireKept

(* One client: a connection that is established is the client's.           *)
LEMMA OnlyConnection ==
    ASSUME IInv, NEW g \in Conns, NEW h \in Conns, Open(g), Open(h)
    PROVE  g = h /\ client.cli = g
BY DEF IInv, ConnInv, HandlersFindTheirClient

LEMMA OnConnectKeepsWire ==
    ASSUME IInv, WireInv, NEW g \in Conns, OnConnect(g)
    PROVE  WireInv'
<1>1. PICK kinds \in Greeted : /\ wire' = [wire EXCEPT ![g] = Plain(kinds)]
                               /\ auth' = [auth EXCEPT ![g] = Opinion(kinds)]
  BY DEF OnConnect
<1>2. /\ conn \in [Conns -> Phases] /\ wire \in [Conns -> Seq(Packet)]
      /\ conn[g] = "connecting" /\ conn' = [conn EXCEPT ![g] = "connected"]
      /\ client \in ClientType
      /\ client' = [client EXCEPT !.handshake = "WAIT_REQUEST"]
      /\ UNCHANGED buffer
  BY DEF OnConnect, IInv, TypeOK
<1>3. kinds \in Seq(PacketKinds) /\ Len(kinds) = 1
  <2> DEFINE greetings == {<<"greetNative">>, <<"greetSha2">>, <<"err">>}
  <2>1. kinds \in greetings
    BY DEF Greeted
  <2>2. kinds \in greetings => Len(kinds) = 1
    OBVIOUS
  <2> HIDE DEF greetings
  <2> QED BY <2>1, <2>2, ServersKinds
<1>4. /\ Plain(kinds) \in Seq(Packet) /\ Len(Plain(kinds)) = 1
      /\ Plain(kinds)[1].query = None
  BY <1>3, PlainPackets
<1>5. \A h \in Conns : conn'[h] \in {"none", "connecting"} => buffer'[h] = <<>>
  BY <1>2 DEF WireInv
<1>6. ASSUME NEW h \in Conns, conn'[h] = "connected" PROVE InOrder(h)'
  <2>1. h = g
    BY <1>2, <1>6, OnlyConnection DEF Open
  <2>2. wire'[g] = Plain(kinds) /\ buffer'[g] = <<>>
    BY <1>1, <1>2 DEF WireInv
  <2>3. client'.handshake # "COMPLETED"
    BY <1>2 DEF ClientType
  <2>4. \A i \in 1..Len(wire'[g]) : i = 1 /\ wire'[g][i].query = None
    <3>1. \A i \in 1..1 : i = 1
      OBVIOUS
    <3>2. Len(wire'[g]) = 1 /\ wire'[g][1].query = None
      BY <1>4, <2>2
    <3> QED BY <3>1, <3>2, Zenon
  <2> QED BY <2>1, <2>2, <2>3, <2>4 DEF InOrder
<1> QED BY <1>5, <1>6 DEF WireInv

(* A response ends with its last packet.                                   *)
LEMMA ResultsEnd ==
    ASSUME NEW command, NEW kinds \in Results(command) \cup {<<"err">>}
    PROVE  /\ kinds \in Seq(PacketKinds)
           /\ \A i \in 1..Len(kinds) : kinds[i] \in Ends => i = Len(kinds)
<1> DEFINE answer == {<<"ok">>, <<"err">>, <<"count", "fields", "row", "eof">>,
                      <<"count", "fields", "err">>}
<1>1. kinds \in answer
  BY DEF Results
<1>2. ASSUME Len(kinds) = 1
      PROVE  \A i \in 1..Len(kinds) : kinds[i] \in Ends => i = Len(kinds)
  <2>1. \A i \in 1..1 : i = 1
    OBVIOUS
  <2> QED BY <1>2, <2>1, Zenon
<1>3. ASSUME kinds = <<"count", "fields", "row", "eof">>
      PROVE  \A i \in 1..Len(kinds) : kinds[i] \in Ends => i = Len(kinds)
  BY <1>3 DEF Ends
<1>4. ASSUME kinds = <<"count", "fields", "err">>
      PROVE  \A i \in 1..Len(kinds) : kinds[i] \in Ends => i = Len(kinds)
  BY <1>4 DEF Ends
<1>5. kinds = <<"ok">> \/ kinds = <<"err">> => Len(kinds) = 1
  OBVIOUS
<1>6. kinds \in Seq(PacketKinds)
  <2>1. <<"err">> \in Seq(PacketKinds)
    BY DEF PacketKinds
  <2> QED BY <2>1, ServersKinds
<1> QED BY <1>1, <1>2, <1>3, <1>4, <1>5, <1>6

LEMMA ReplyPackets ==
    ASSUME NEW kinds \in Seq(PacketKinds), NEW q \in Queries
    PROVE  /\ Reply(kinds, q) \in Seq(Packet)
           /\ Len(Reply(kinds, q)) = Len(kinds)
           /\ \A i \in 1..Len(kinds) : /\ Reply(kinds, q)[i].query = q
                                       /\ Reply(kinds, q)[i].kind = kinds[i]
<1>1. Len(kinds) \in Nat
  OBVIOUS
<1>2. /\ DOMAIN Reply(kinds, q) = 1..Len(kinds)
      /\ \A i \in 1..Len(kinds) : /\ Reply(kinds, q)[i].query = q
                                  /\ Reply(kinds, q)[i].kind = kinds[i]
  BY DEF Reply
<1>3. Reply(kinds, q) \in Seq(Packet)
  BY ReplyIsPackets
<1>4. /\ DOMAIN Reply(kinds, q) = 1..Len(Reply(kinds, q))
      /\ Len(Reply(kinds, q)) \in Nat
  BY <1>3, LenProperties
<1>5. Len(Reply(kinds, q)) = Len(kinds)
  BY <1>1, <1>2, <1>4
<1> QED BY <1>2, <1>3, <1>5

LEMMA QueryKeepsWire ==
    ASSUME IInv, WireInv, NEW command \in Commands, Query(command)
    PROVE  WireInv'
<1> DEFINE q == Len(queries) + 1
<1>1. /\ q \in Queries /\ q # None
      /\ client.state = "QUERY" /\ client \in ClientType
      /\ UNCHANGED <<buffer, conn>>
  BY DEF Query, Idle, IInv, TypeOK
<1>2. PICK g \in Conns : g = client.cli /\ conn[g] = "connected"
  BY DEF Query, Idle, IInv, ConnInv, ConnectedIsEstablished, ClientType, TypeOK
<1> DEFINE w == wire[g]
<1>3. wire \in [Conns -> Seq(Packet)] /\ w \in Seq(Packet)
  BY <1>2 DEF IInv, TypeOK
<1>4. /\ client'.handshake = client.handshake
      /\ \/ /\ client'.callback = q /\ client'.state = "READ_START"
            /\ ServerReads(g, command, q)
         \/ client'.state = "QUERY" /\ UNCHANGED <<wire, auth, serverTx>>
  <2>1. CASE /\ client' = [client EXCEPT
                    !.callback = Registered(q), !.state = "READ_START",
                    !.transaction = TransactionAfter(command)]
             /\ ServerReads(client.cli, command, q)
    BY <1>1, <1>2, <2>1 DEF ClientType, Registered
  <2>2. CASE /\ client' = [client EXCEPT !.callback = Registered(q)]
             /\ UNCHANGED <<wire, auth, serverTx>>
    BY <1>1, <2>2 DEF ClientType
  <2> QED BY <2>1, <2>2 DEF Query
<1> HIDE DEF q
<1>5. \A i \in 1..Len(w) :
         /\ w[i].query = None
         /\ client.handshake # "COMPLETED" /\ buffer[g] = <<>>
         /\ i # 1 => /\ i = 2 /\ w[1].kind = "signature"
                     /\ client.handshake = "WAIT_SIGNATURE"
  BY <1>1, <1>2 DEF WireInv, InOrder
<1>6. ASSUME NEW kinds \in Results(command) \cup {<<"err">>},
             wire' = [wire EXCEPT ![g] = @ \o Reply(kinds, q)],
             auth'[g] # "pending",
             client'.callback = q, client'.state = "READ_START"
      PROVE  InOrder(g)'
  <2> DEFINE r == Reply(kinds, q)
  <2>7. /\ kinds \in Seq(PacketKinds)
        /\ \A i \in 1..Len(kinds) : kinds[i] \in Ends => i = Len(kinds)
    BY ResultsEnd
  <2>8. /\ r \in Seq(Packet) /\ Len(r) = Len(kinds)
        /\ \A i \in 1..Len(kinds) : r[i].query = q /\ r[i].kind = kinds[i]
    BY <1>1, <2>7, ReplyPackets
  <2>1. /\ r \in Seq(Packet) /\ Len(r) = Len(kinds) /\ Len(kinds) \in Nat
        /\ \A i \in 1..Len(r) : /\ r[i].query = q
                                /\ r[i].kind \in Ends => i = Len(r)
    <3> HIDE DEF r
    <3>1. Len(kinds) \in Nat
      BY <2>7, LenProperties
    <3> QED BY <2>7, <2>8, <3>1
  <2> HIDE DEF r
  <2>2. wire'[g] = w \o r /\ Len(w) \in Nat
    BY <1>3, <1>6 DEF r
  <2> HIDE DEF w
  <2>6. w \in Seq(Packet) /\ r \in Seq(Packet)
    BY <1>3, <2>1
  <2>3. /\ Len(w \o r) = Len(w) + Len(r)
        /\ \A i \in 1..Len(w) + Len(r) :
              (w \o r)[i] = IF i <= Len(w) THEN w[i] ELSE r[i - Len(w)]
    BY <2>6, ConcatProperties
  <2> SUFFICES ASSUME NEW i \in 1..Len(w) + Len(r)
               PROVE  LET p == (w \o r)[i] IN
                      /\ p.query # None =>
                           /\ p.query = q
                           /\ p.kind \in Ends => i = Len(w) + Len(r)
                      /\ p.query = None =>
                           /\ client.handshake # "COMPLETED"
                           /\ buffer[g] = <<>>
                           /\ i # 1 => /\ i = 2 /\ (w \o r)[1].kind = "signature"
                                       /\ client.handshake = "WAIT_SIGNATURE"
    BY <1>1, <1>4, <1>6, <2>2, <2>3 DEF InOrder
  <2>4. CASE i <= Len(w)
    <3>1. i \in 1..Len(w) /\ 1 \in 1..Len(w) + Len(r) /\ 1 <= Len(w)
      BY <2>1, <2>2, <2>4
    <3>2. (w \o r)[i] = w[i] /\ (w \o r)[1] = w[1]
      BY <2>3, <2>4, <3>1
    <3> QED BY <1>5, <3>1, <3>2
  <2>5. CASE ~(i <= Len(w))
    <3>1. i - Len(w) \in 1..Len(r) /\ (w \o r)[i] = r[i - Len(w)]
      BY <2>1, <2>2, <2>3, <2>5
    <3>2. i - Len(w) = Len(r) => i = Len(w) + Len(r)
      BY <2>1, <2>2
    <3> QED BY <1>1, <2>1, <3>1, <3>2
  <2> QED BY <2>4, <2>5
<1>7. ASSUME wire'[g] = w PROVE InOrder(g)'
  BY <1>1, <1>4, <1>5, <1>7 DEF InOrder
<1>8. InOrder(g)'
  <2>1. CASE client'.state = "QUERY" /\ UNCHANGED <<wire, auth, serverTx>>
    BY <1>7, <2>1
  <2>2. CASE /\ client'.callback = q /\ client'.state = "READ_START"
             /\ ServerReads(g, command, q)
    <3>1. CASE auth[g] = "done"
      <4>1. PICK kinds \in Results(command) :
              wire' = [wire EXCEPT ![g] = @ \o Reply(kinds, q)]
        BY <2>2, <3>1 DEF ServerReads, Reply
      <4>2. auth'[g] = "done"
        BY <2>2, <3>1 DEF ServerReads
      <4> QED BY <1>6, <2>2, <4>1, <4>2
    <3>2. CASE auth[g] = "pending"
      <4>1. wire' = [wire EXCEPT ![g] = @ \o Reply(<<"err">>, q)]
        BY <2>2, <3>2 DEF ServerReads, Reply
      <4>2. auth'[g] = "refused"
        BY <1>2, <2>2, <3>2 DEF ServerReads, IInv, TypeOK
      <4>3. <<"err">> \in Results(command) \cup {<<"err">>}
        OBVIOUS
      <4> QED BY <1>6, <2>2, <4>1, <4>2, <4>3
    <3>3. CASE auth[g] = "refused"
      <4>1. UNCHANGED wire
        BY <2>2, <3>3 DEF ServerReads
      <4> QED BY <1>7, <4>1
    <3> QED BY <2>2, <3>1, <3>2, <3>3 DEF ServerReads
  <2> QED BY <1>4, <2>1, <2>2
<1>9. \A h \in Conns : conn'[h] \in {"none", "connecting"} => buffer'[h] = <<>>
  BY <1>1 DEF WireInv
<1>10. ASSUME NEW h \in Conns, conn'[h] = "connected" PROVE InOrder(h)'
  <2>1. h = g
    BY <1>1, <1>2, <1>10, OnlyConnection DEF Open
  <2> QED BY <1>8, <2>1
<1> QED BY <1>9, <1>10 DEF WireInv

(* A response: what is left of it is still to come, or nothing is.         *)
LEMMA ResponseKeepsOrder ==
    ASSUME TypeOK, NEW g \in Conns, conn[g] = "connected", InOrder(g),
           client.handshake = "COMPLETED", buffer[g] = <<>>,
           NEW n \in 1..Len(wire[g]),
           OnResponse(g, buffer[g] \o SubSeq(wire[g], 1, n),
                         SubSeq(wire[g], n + 1, Len(wire[g])))
    PROVE  /\ InOrder(g)'
           /\ client'.handshake = client.handshake
           /\ Head(wire[g]).query = client.callback /\ wire[g] # <<>>
           /\ ResponseToQuery(g, buffer[g] \o SubSeq(wire[g], 1, n))
<1> DEFINE w == wire[g]
           piece == SubSeq(w, 1, n)
           rest == SubSeq(w, n + 1, Len(w))
<1>1. w \in Seq(Packet) /\ Len(w) \in Nat /\ n \in Nat /\ client \in ClientType
  BY DEF TypeOK
<1>2. \A i \in 1..Len(w) :
         /\ w[i].query # None /\ client.state # "QUERY"
         /\ w[i].query = client.callback
         /\ w[i].kind \in Ends => i = Len(w)
  BY DEF InOrder
<1> HIDE DEF w
<1>3. /\ piece \in Seq(Packet) /\ Len(piece) = n
      /\ \A i \in 1..n : piece[i] = w[i]
      /\ rest \in Seq(Packet) /\ Len(rest) = Len(w) - n
      /\ \A i \in 1..Len(rest) : n + i \in 1..Len(w) /\ rest[i] = w[n + i]
  BY <1>1, SubSeqProperties DEF w
<1> HIDE DEF piece, rest
<1>11. buffer[g] \o SubSeq(wire[g], 1, n) = piece
  <2>1. SubSeq(wire[g], 1, n) = piece
    BY DEF w, piece
  <2>2. <<>> \o piece = piece
    BY <1>3, ConcatEmptySeq
  <2> QED BY <2>1, <2>2
<1>4. OnResponse(g, piece, rest)
  BY <1>11 DEF w, rest
<1>5. /\ wire'[g] = rest /\ client.state # "QUERY"
      /\ UNCHANGED auth /\ ResponseToQuery(g, piece)
  <2>1. 1 \in 1..Len(w)
    BY <1>1 DEF w
  <2>2. client.state # "QUERY"
    BY <1>2, <2>1
  <2> QED BY <1>4, <2>2 DEF OnResponse, ResponseToNobody, TypeOK
<1>6. PICK run \in [0..Len(piece) -> ReadStates] :
        /\ run[0] = client.state
        /\ \A i \in 1..Len(piece) : run[i] = StateAfter(run[i - 1], piece[i])
        /\ \/ /\ run[Len(piece)] # "QUERY"
              /\ client' = [client EXCEPT !.state = run[Len(piece)]]
           \/ /\ run[Len(piece)] = "QUERY"
              /\ client' = Answered("QUERY")
  BY <1>5 DEF ResponseToQuery
<1>7. /\ client'.handshake = client.handshake
      /\ client'.callback = client.callback
      /\ client'.state = run[n]
  BY <1>1, <1>3, <1>6 DEF ClientType, Answered
<1>8. Len(rest) > 0 => run[n] # "QUERY"
  <2> SUFFICES ASSUME Len(rest) > 0 PROVE run[n] # "QUERY"
    OBVIOUS
  <2>1. \A i \in 1..Len(piece) : i \in 1..Len(w) /\ i # Len(w)
    BY <1>1, <1>3
  <2>2. \A i \in 1..Len(piece) : piece[i].kind \notin Ends
    BY <1>2, <1>3, <2>1
  <2> QED BY <1>3, <1>5, <1>6, <2>2, RunGoesOn
<1>9. InOrder(g)'
  <2> SUFFICES ASSUME NEW i \in 1..Len(rest)
               PROVE  /\ rest[i].query # None /\ client'.state # "QUERY"
                      /\ rest[i].query = client'.callback
                      /\ rest[i].kind \in Ends => i = Len(rest)
                      /\ auth'[g] # "pending"
    BY <1>5 DEF InOrder
  <2>1. n + i \in 1..Len(w) /\ rest[i] = w[n + i] /\ Len(rest) > 0
    BY <1>3
  <2>2. n + i = Len(w) => i = Len(rest)
    <3>1. \A k, l, m \in Nat : k + l = m => l = m - k
      OBVIOUS
    <3>2. i \in Nat /\ Len(rest) = Len(w) - n
      BY <1>3
    <3> QED BY <1>1, <3>1, <3>2, Zenon
  <2>3. auth[g] # "pending"
    BY <1>2, <2>1 DEF InOrder, w
  <2> QED BY <1>2, <1>5, <1>7, <1>8, <2>1, <2>2, <2>3
<1>10. w # <<>> /\ Head(w).query = client.callback
  <2>1. 1 \in 1..Len(w)
    BY <1>1 DEF w
  <2>2. w # <<>> /\ Head(w) = w[1]
    BY <1>1, <2>1
  <2> QED BY <1>2, <2>1, <2>2
<1> QED BY <1>5, <1>7, <1>9, <1>10, <1>11 DEF w

LEMMA ReceiveKeepsWire ==
    ASSUME IInv, WireInv, BufferInv, NEW g \in Conns, NEW part \in BOOLEAN,
           NEW n \in 0..Len(wire[g]), OnReceive(g, n, part)
    PROVE  /\ WireInv'
           /\ \A h \in Conns : h # g => wire'[h] = wire[h]
           /\ \/ UNCHANGED answers
              \/ /\ answers' = [answers EXCEPT ![client.callback] = @ + 1]
                 /\ Head(wire[g]).query = client.callback
<1> DEFINE piece == SubSeq(wire[g], 1, n)
           rest == SubSeq(wire[g], n + 1, Len(wire[g]))
           read == buffer[g] \o piece
<1>1. /\ TypeOK /\ wire[g] \in Seq(Packet) /\ buffer[g] \in Seq(Packet)
      /\ client \in ClientType
  BY DEF IInv, TypeOK
<1>2. /\ conn[g] = "connected" /\ UNCHANGED conn /\ stack = <<>>
      /\ \/ /\ client.handshake # "COMPLETED"
            /\ OnHandShake(g, read, rest) /\ UNCHANGED answers
         \/ /\ client.handshake = "COMPLETED" /\ n > 0
            /\ OnResponse(g, read, rest)
  BY DEF OnReceive, AtReactor
<1>3. InOrder(g)
  BY <1>2 DEF WireInv
<1>4. Taken(wire[g], buffer[g], n, read, rest)
  BY <1>1, PieceOfWire
<1>5. \A h \in Conns : h # g => buffer'[h] = buffer[h] /\ wire'[h] = wire[h]
  <2>1. CASE OnResponse(g, read, rest)
    <3> HIDE DEF read, rest
    <3>1. /\ \E b : buffer' = [buffer EXCEPT ![g] = b]
          /\ wire' = [wire EXCEPT ![g] = rest]
      BY <2>1 DEF OnResponse, ResponseToNobody, ResponseToQuery
    <3> QED BY <1>1, <3>1 DEF TypeOK
  <2>2. CASE OnHandShake(g, read, rest)
    <3> HIDE DEF read, rest
    <3>1. Moves(g, read, rest)
      BY <1>1, <1>4, <2>2, HandShakeMoves DEF Taken
    <3>2. /\ \E b : buffer' = [buffer EXCEPT ![g] = b]
          /\ \E v : wire' = [wire EXCEPT ![g] = v]
      BY <3>1 DEF Moves, Stays, Sends, Signed, Completes, Keep
    <3> QED BY <1>1, <3>2 DEF TypeOK
  <2> QED BY <1>2, <2>1, <2>2
<1>6. ASSUME NEW h \in Conns, conn'[h] \in {"none", "connecting"}
      PROVE  buffer'[h] = <<>>
  <2>1. conn[h] \in {"none", "connecting"} /\ h # g
    BY <1>2, <1>6
  <2>2. buffer[h] = <<>>
    BY <2>1 DEF WireInv
  <2> QED BY <1>5, <2>1, <2>2
<1>7. CASE /\ client.handshake # "COMPLETED"
           /\ OnHandShake(g, read, rest) /\ UNCHANGED answers
  <2> HIDE DEF read, rest
  <2>1. Moves(g, read, rest)
    BY <1>1, <1>4, <1>7, HandShakeMoves DEF Taken
  <2>2. client'.state = client.state /\ client'.callback = client.callback
    <3>1. Shaken(g, client)
      BY <1>1, <1>4, <1>7, HandShakes DEF Taken
    <3>2. ASSUME NEW d \in ClientType, Keeps(client, d), Tell(g, d, FALSE, <<>>)
          PROVE  client'.state = client.state
                 /\ client'.callback = client.callback
      BY <3>2, ReportedClient DEF Tell, Keeps
    <3> QED BY <3>1, <3>2 DEF Shaken, Keeps
  <2>3. InOrder(g)'
    BY <1>1, <1>2, <1>3, <1>4, <1>7, <2>1, <2>2, MovesKeepOrder
  <2>4. ASSUME NEW h \in Conns, conn'[h] = "connected" PROVE InOrder(h)'
    <3>1. h = g
      BY <1>2, <2>4, OnlyConnection DEF Open
    <3> QED BY <2>3, <3>1
  <2>5. \A h \in Conns : conn'[h] \in {"none", "connecting"} => buffer'[h] = <<>>
    BY <1>6
  <2> QED BY <1>5, <1>7, <2>4, <2>5 DEF WireInv
<1>8. CASE /\ client.handshake = "COMPLETED" /\ n > 0
           /\ OnResponse(g, read, rest)
  <2>0. n \in 1..Len(wire[g]) /\ buffer[g] = <<>>
    BY <1>1, <1>2, <1>8 DEF BufferInv, ResultRuns
  <2>1. /\ InOrder(g)' /\ Head(wire[g]).query = client.callback
    BY <1>1, <1>2, <1>3, <1>8, <2>0, ResponseKeepsOrder
  <2>2. \/ UNCHANGED answers
        \/ answers' = [answers EXCEPT ![client.callback] = @ + 1]
    BY <1>8 DEF OnResponse, ResponseToNobody, ResponseToQuery
  <2>3. ASSUME NEW h \in Conns, conn'[h] = "connected" PROVE InOrder(h)'
    <3>1. h = g
      BY <1>2, <2>3, OnlyConnection DEF Open
    <3> QED BY <2>1, <3>1
  <2>4. \A h \in Conns : conn'[h] \in {"none", "connecting"} => buffer'[h] = <<>>
    BY <1>6
  <2> QED BY <1>5, <2>1, <2>2, <2>3, <2>4 DEF WireInv
<1> QED BY <1>2, <1>5, <1>7, <1>8

LEMMA WireNext == IInv /\ WireInv /\ BufferInv /\ [Next]_vars => WireInv'
<1> SUFFICES ASSUME IInv, WireInv, BufferInv, [Next]_vars PROVE WireInv'
  OBVIOUS
<1>1. ASSUME NEW g \in Conns, Connect(g) PROVE WireInv'
  BY <1>1, ConnectKeepsWire
<1>2. ASSUME NEW command \in Commands, Query(command) PROVE WireInv'
  BY <1>2, QueryKeepsWire
<1>3. CASE Quiet
  BY <1>3, QuietKeepsWire
<1>4. CASE ConnectEnds
  BY <1>4, OnConnectKeepsWire, OnErrorKeepsWire DEF ConnectEnds
<1>5. ASSUME NEW g \in Conns, OnClose(g) PROVE WireInv'
  BY <1>5, OnCloseKeepsWire
<1>6. CASE Receive
  BY <1>6, ReceiveKeepsWire DEF Receive
<1> QED BY <1>1, <1>2, <1>3, <1>4, <1>5, <1>6 DEF Next, Quiet

(* No connection is established then.                                      *)
LEMMA NothingConnected ==
    ASSUME IInv, NEW g \in Conns, NEW h \in Conns,
           Connect(g) \/ OnError(g) \/ OnClose(g)
    PROVE  conn'[h] # "connected"
<1>1. conn \in [Conns -> Phases]
  BY DEF IInv, TypeOK
<1>2. CASE Connect(g)
  <2>1. client.cli = None
    BY <1>2 DEF Connect
  <2>2. \A k \in Conns : conn[k] # "connected"
    BY <2>1 DEF IInv, ConnInv, HandlersFindTheirClient, Open
  <2>3. PICK p \in {"connecting", "idle", "closed"} : conn' = [conn EXCEPT ![g] = p]
    BY <1>2 DEF Connect
  <2> QED BY <1>1, <2>2, <2>3
<1>3. CASE OnError(g) \/ OnClose(g)
  <2>1. Open(g) /\ conn' = [conn EXCEPT ![g] = "closed"]
    BY <1>3 DEF OnError, OnClose, CloseConnection, Open
  <2>2. \A k \in Conns : k # g => conn[k] # "connected"
    BY <2>1, OnlyConnection DEF Open
  <2> QED BY <1>1, <2>1, <2>2
<1> QED BY <1>2, <1>3

(* What a query does to the client, sent or not.                           *)
LEMMA QueryClient ==
    ASSUME TypeOK, NEW command \in Commands, Query(command)
    PROVE  /\ client'.error = client.error
           /\ client'.handshake = client.handshake
           /\ client'.switchCheck = client.switchCheck
           /\ client'.connected = client.connected
           /\ \/ /\ client'.transaction = TransactionAfter(command)
                 /\ client'.state = "READ_START"
                 /\ ServerReads(client.cli, command, Len(queries) + 1)
              \/ /\ client'.transaction = client.transaction
                 /\ client'.state = client.state
                 /\ UNCHANGED <<wire, auth, serverTx>>
<1> DEFINE q == Len(queries) + 1
<1>1. client \in ClientType
  BY DEF TypeOK
<1>2. CASE /\ client' = [client EXCEPT
                  !.callback = Registered(q), !.state = "READ_START",
                  !.transaction = TransactionAfter(command)]
           /\ ServerReads(client.cli, command, q)
  BY <1>1, <1>2 DEF ClientType
<1>3. CASE /\ client' = [client EXCEPT !.callback = Registered(q)]
           /\ UNCHANGED <<wire, auth, serverTx>>
  BY <1>1, <1>3 DEF ClientType
<1> QED BY <1>2, <1>3 DEF Query

(* A handshake that ends leaves an empty buffer.                           *)
LEMMA HandShakeKeepsBuffer ==
    ASSUME IInv, NEW g \in Conns, stack = <<>>,
           client.handshake # "COMPLETED",
           NEW read \in Seq(Packet), NEW rest \in Seq(Packet),
           read # <<>> => Head(read \o rest) = Head(read),
           OnHandShake(g, read, rest)
    PROVE  /\ \A i \in 1..Len(stack') : stack'[i].kind # "result"
           /\ client'.handshake = "COMPLETED" => buffer'[g] = <<>>
<1>1. TypeOK /\ client \in ClientType /\ buffer \in [Conns -> Seq(Packet)]
  BY DEF IInv, TypeOK
<1>2. stack' = <<>> \/ stack' = Push("connect", g, FALSE, <<>>)
  <2>1. Shaken(g, client)
    BY <1>1, HandShakes
  <2> QED BY <2>1 DEF Shaken, Tell
<1>3. \A i \in 1..Len(stack') : stack'[i].kind # "result"
  <2>1. CASE stack' = <<>>
    BY <2>1
  <2>2. CASE stack' = Push("connect", g, FALSE, <<>>)
    <3>1. Len(stack') = 1 /\ stack'[1].kind = "connect"
      BY <2>2 DEF Push
    <3>2. \A i \in 1..1 : i = 1
      OBVIOUS
    <3> QED BY <3>1, <3>2, Zenon
  <2> QED BY <1>2, <2>1, <2>2
<1>4. Moves(g, read, rest)
  BY <1>1, HandShakeMoves
<1>5. client'.handshake = "COMPLETED" => Completes(g, read, rest)
  BY <1>4 DEF Moves, Stays, Sends, Signed
<1>6. Completes(g, read, rest) => buffer'[g] = <<>>
  BY <1>1 DEF Completes, Keep
<1> QED BY <1>3, <1>5, <1>6

LEMMA ReceiveKeepsBuffer ==
    ASSUME IInv, WireInv, BufferInv, NEW g \in Conns, NEW part \in BOOLEAN,
           NEW n \in 0..Len(wire[g]), OnReceive(g, n, part)
    PROVE  BufferInv'
<1> DEFINE piece == SubSeq(wire[g], 1, n)
           rest == SubSeq(wire[g], n + 1, Len(wire[g]))
           read == buffer[g] \o piece
<1>1. /\ TypeOK /\ wire[g] \in Seq(Packet) /\ buffer[g] \in Seq(Packet)
      /\ buffer \in [Conns -> Seq(Packet)]
      /\ client \in ClientType
  BY DEF IInv, TypeOK
<1>2. /\ conn[g] = "connected" /\ UNCHANGED conn /\ stack = <<>>
      /\ \/ /\ client.handshake # "COMPLETED"
            /\ OnHandShake(g, read, rest) /\ UNCHANGED answers
         \/ /\ client.handshake = "COMPLETED" /\ n > 0
            /\ OnResponse(g, read, rest)
  BY DEF OnReceive, AtReactor
<1>3. \A h \in Conns : conn'[h] = "connected" => h = g
  BY <1>2, OnlyConnection DEF Open
<1>4. Taken(wire[g], buffer[g], n, read, rest)
  BY <1>1, PieceOfWire
<1>5. CASE client.handshake # "COMPLETED" /\ OnHandShake(g, read, rest)
  <2> HIDE DEF read, rest
  <2>1. /\ \A i \in 1..Len(stack') : stack'[i].kind # "result"
        /\ client'.handshake = "COMPLETED" => buffer'[g] = <<>>
    BY <1>2, <1>4, <1>5, HandShakeKeepsBuffer DEF Taken
  <2> QED BY <1>3, <2>1 DEF BufferInv
<1>6. CASE /\ client.handshake = "COMPLETED" /\ n > 0
           /\ OnResponse(g, read, rest)
  <2>1. n \in 1..Len(wire[g]) /\ buffer[g] = <<>> /\ InOrder(g)
    BY <1>1, <1>2, <1>6 DEF BufferInv, ResultRuns, WireInv
  <2>2. ResponseToQuery(g, read)
    BY <1>1, <1>2, <1>6, <2>1, ResponseKeepsOrder
  <2> HIDE DEF read
  <2>3. CASE buffer' = [buffer EXCEPT ![g] = <<>>] /\ UNCHANGED stack
    <3>1. buffer'[g] = <<>> /\ stack' = <<>>
      BY <1>1, <1>2, <2>3
    <3> QED BY <1>3, <3>1 DEF BufferInv
  <2>4. CASE stack' = Push("result", g, FALSE, <<>>)
    <3>1. Len(stack') = 1 /\ stack'[1].kind = "result" /\ stack'[1].conn = g
      BY <2>4 DEF Push
    <3>2. \A i \in 1..1 : i = 1
      OBVIOUS
    <3>3. \A i \in 1..Len(stack') : stack'[i].conn = g
      BY <3>1, <3>2, Zenon
    <3>4. 1 \in 1..Len(stack')
      BY <3>1
    <3>5. ResultRuns'
      BY <3>1, <3>4 DEF ResultRuns
    <3> QED BY <1>3, <3>3, <3>5 DEF BufferInv
  <2> QED BY <2>2, <2>3, <2>4 DEF ResponseToQuery
<1> QED BY <1>2, <1>5, <1>6

(* A close leaves no connection, so neither does what closes.              *)
LEMMA CloseDisconnects ==
    ASSUME IInv, NEW below, CloseMethod(below), NEW g \in Conns,
           conn[g] = "connected"
    PROVE  conn'[g] # "connected"
<1>1. client.cli = g /\ conn \in [Conns -> Phases]
  BY DEF IInv, TypeOK, ConnInv, HandlersFindTheirClient, Open
<1>2. CloseConnection(g, below)
  BY <1>1 DEF CloseMethod, Closable
<1>3. conn' = [conn EXCEPT ![g] = "closed"]
  BY <1>2 DEF CloseConnection
<1> QED BY <1>1, <1>3

LEMMA QuietKeepsBuffer ==
    ASSUME IInv, BufferInv, Quiet
    PROVE  BufferInv'
<1> SUFFICES ASSUME NEW g \in Conns, conn'[g] = "connected"
             PROVE  /\ \A i \in 1..Len(stack') :
                          stack'[i].kind = "result" => stack'[i].conn = g
                    /\ client'.handshake = "COMPLETED" /\ ~ResultRuns'
                          => buffer'[g] = <<>>
  BY DEF BufferInv
<1>1. /\ conn[g] = "connected" /\ client'.handshake = client.handshake
      /\ buffer'[g] = buffer[g] \/ buffer'[g] = <<>>
  BY QuietKeeps DEF IInv
<1>2. /\ stack \in Seq(FrameType)
      /\ \A i \in 1..Len(stack) : stack[i].kind = "result" => stack[i].conn = g
      /\ client.handshake = "COMPLETED" /\ ~ResultRuns => buffer[g] = <<>>
  BY <1>1 DEF BufferInv, IInv, TypeOK
<1>3. CASE UNCHANGED stack
  BY <1>1, <1>2, <1>3 DEF ResultRuns
<1>4. ASSUME NEW below, CloseMethod(below) PROVE FALSE
  BY <1>1, <1>4, CloseDisconnects
<1>5. ASSUME stack # <<>>, stack' = Tail(stack)
      PROVE  /\ \A i \in 1..Len(stack') : 
                   stack'[i].kind = "result" => stack'[i].conn = g
             /\ Head(stack).kind # "result" /\ ResultRuns => ResultRuns'
             /\ Head(stack) = stack[1] /\ 1 \in 1..Len(stack)
  <2>1. /\ Len(stack) \in Nat /\ Len(stack) > 0
        /\ Len(stack') = Len(stack) - 1 /\ Head(stack) = stack[1]
        /\ \A j \in 1..Len(stack') : stack'[j] = stack[j + 1]
    BY <1>2, <1>5, HeadTailProperties, EmptySeq, LenProperties
  <2>2. \A j \in 1..Len(stack') : j + 1 \in 1..Len(stack)
    BY <2>1
  <2>3. \A i \in 1..Len(stack') :
           stack'[i].kind = "result" => stack'[i].conn = g
    BY <1>2, <2>1, <2>2
  <2>4. ASSUME Head(stack).kind # "result", ResultRuns PROVE ResultRuns'
    <3>1. PICK i \in 1..Len(stack) : stack[i].kind = "result"
      BY <2>4 DEF ResultRuns
    <3>2. i # 1
      BY <2>1, <2>4, <3>1
    <3>3. i - 1 \in 1..Len(stack') /\ (i - 1) + 1 = i
      BY <2>1, <3>2
    <3>4. stack'[i - 1].kind = "result"
      BY <2>1, <3>1, <3>3
    <3> QED BY <3>3, <3>4 DEF ResultRuns
  <2>5. 1 \in 1..Len(stack)
    BY <2>1
  <2> QED BY <2>1, <2>3, <2>4, <2>5
<1>6. CASE ReturnConnect \/ ReturnClose
  <2>1. stack # <<>> /\ stack' = Tail(stack) /\ Head(stack).kind # "result"
    BY <1>4, <1>6 DEF ReturnConnect, ReturnClose, Returns
  <2> QED BY <1>1, <1>2, <1>5, <2>1
<1>7. CASE ReturnResult
  <2>1. /\ stack # <<>> /\ stack' = Tail(stack) /\ Head(stack).kind = "result"
        /\ buffer' = IF conn[Head(stack).conn] # "closed" /\ client.cli # None
                     THEN [buffer EXCEPT ![client.cli] = <<>>]
                     ELSE buffer
    BY <1>7 DEF ReturnResult, Returns
  <2>2. Head(stack).conn = g
    BY <1>2, <1>5, <2>1
  <2>3. client.cli = g /\ buffer \in [Conns -> Seq(Packet)]
    BY <1>1 DEF IInv, TypeOK, ConnInv, HandlersFindTheirClient, Open
  <2>4. buffer'[g] = <<>>
    BY <1>1, <2>1, <2>2, <2>3
  <2> QED BY <1>5, <2>1, <2>4
<1>8. CASE QueryOnNullCli \/ UNCHANGED vars
  BY <1>3, <1>8 DEF QueryOnNullCli, vars
<1> QED BY <1>4, <1>6, <1>7, <1>8
        DEF Quiet, Close, Destruct, DestructInCallback, Return

LEMMA BufferNext == IInv /\ WireInv /\ BufferInv /\ [Next]_vars => BufferInv'
<1> SUFFICES ASSUME IInv, WireInv, BufferInv, [Next]_vars PROVE BufferInv'
  OBVIOUS
<1>1. ASSUME NEW g \in Conns, Connect(g) \/ OnError(g) \/ OnClose(g)
      PROVE  BufferInv'
  BY <1>1, NothingConnected DEF BufferInv
<1>2. ASSUME NEW command \in Commands, Query(command) PROVE BufferInv'
  <2>1. UNCHANGED <<conn, stack, buffer>>
    BY <1>2 DEF Query
  <2>2. client'.handshake = client.handshake
    BY <1>2, QueryClient DEF IInv
  <2> QED BY <2>1, <2>2 DEF BufferInv, ResultRuns
<1>3. CASE Quiet
  BY <1>3, QuietKeepsBuffer
<1>4. ASSUME NEW g \in Conns, OnConnect(g) PROVE BufferInv'
  <2>1. stack = <<>> /\ UNCHANGED stack
    BY <1>4 DEF OnConnect, AtReactor
  <2>2. client'.handshake # "COMPLETED"
    BY <1>4 DEF OnConnect, IInv, TypeOK, ClientType
  <2> QED BY <2>1, <2>2 DEF BufferInv
<1>5. CASE Receive
  BY <1>5, ReceiveKeepsBuffer DEF Receive
<1> QED BY <1>1, <1>2, <1>3, <1>4, <1>5 DEF Next, Quiet, ConnectEnds

LEMMA WireInvariance == Spec => [](IInv /\ WireInv /\ BufferInv)
<1>1. Init => WireInv /\ BufferInv
  BY DEF Init, WireInv, BufferInv
<1> QED BY <1>1, Invariance, WireNext, BufferNext, PTL DEF Spec

LEMMA AnswerMatches ==
    ASSUME IInv, WireInv, BufferInv, Next, NEW g \in Conns, NEW q \in Queries,
           wire'[g] # wire[g], answers'[q] # answers[q]
    PROVE  Head(wire[g]).query = q
<1>1. ASSUME NEW h \in Conns, Connect(h) \/ OnConnect(h) \/ OnError(h) \/ OnClose(h)
      PROVE  FALSE
  BY <1>1 DEF Connect, OnConnect, OnError, OnClose, script
<1>2. ASSUME NEW command \in Commands, Query(command) PROVE FALSE
  BY <1>2 DEF Query
<1>3. ASSUME Quiet PROVE FALSE
  BY <1>3, QuietKeeps DEF IInv
<1>4. CASE Receive
  <2>1. PICK h \in Conns, part \in BOOLEAN :
          \E n \in 0..Len(wire[h]) : OnReceive(h, n, part)
    BY <1>4 DEF Receive
  <2>2. PICK n \in 0..Len(wire[h]) : OnReceive(h, n, part)
    BY <2>1
  <2>3. /\ answers' = [answers EXCEPT ![client.callback] = @ + 1]
        /\ Head(wire[h]).query = client.callback
    BY <2>2, ReceiveKeepsWire
  <2>4. answers \in [Queries -> Nat] /\ conn[h] = "connected"
    BY <2>2 DEF IInv, TypeOK, OnReceive
  <2>5. q = client.callback
    BY <2>3, <2>4
  <2>6. wire'[g] # wire[g] => g = h
    BY <2>2, ReceiveKeepsWire
  <2> QED BY <2>3, <2>5, <2>6
<1> QED BY <1>1, <1>2, <1>3, <1>4 DEF Next, Quiet, ConnectEnds

-----------------------------------------------------------------------------
(* Clients that the server did not let in.                                 *)

(* No packet that such a client has or gets is one it takes for a success: *)
(* where it waits for the result of its authentication there are only      *)
(* errors, and the request for another authentication, which it notices.   *)
Unadmitted(g) ==
    /\ client.handshake # "COMPLETED"
    /\ \A i \in 1..Len(wire[g]) :
          LET p == wire[g][i] IN
          /\ p.query # None => p.kind = "err"
          /\ p.kind # "signature"
          /\ client.handshake = "WAIT_RESULT" =>
                p.kind = "err" \/ (p.kind \in Switches /\ client.switchCheck)
    /\ buffer[g] # <<>> =>
          /\ Head(buffer[g]).kind # "signature"
          /\ client.handshake = "WAIT_RESULT" => Head(buffer[g]).kind = "err"

AuthInv ==
    \A g \in Conns : conn[g] = "connected" /\ auth[g] # "done" =>
        Closing \/ Unadmitted(g)

(* A connection that outlives such a step does so because the callback     *)
(* that will close it did not return.                                      *)
LEMMA QuietKeepsClosing ==
    ASSUME IInv, Quiet, Closing, NEW g \in Conns, conn'[g] = "connected"
    PROVE  Closing'
<1>1. /\ TypeOK /\ conn[g] = "connected" /\ client'.error = client.error
  BY QuietKeeps DEF IInv
<1>2. client.cli = g
  BY <1>1 DEF IInv, ConnInv, HandlersFindTheirClient, Open
<1>3. ASSUME NEW below, CloseMethod(below) PROVE FALSE
  <2>1. CloseConnection(g, below)
    BY <1>1, <1>2, <1>3 DEF CloseMethod, Closable
  <2>2. conn' = [conn EXCEPT ![g] = "closed"]
    BY <2>1 DEF CloseConnection
  <2> QED BY <1>1, <2>2 DEF TypeOK
<1>4. CASE UNCHANGED stack
  BY <1>1, <1>4 DEF Closing
<1>5. CASE stack # <<>> /\ Head(stack).kind # "connect" /\ stack' = Tail(stack)
  <2>1. PICK i \in 1..Len(stack) : stack[i].kind = "connect"
    BY DEF Closing
  <2>2. /\ stack \in Seq(FrameType) /\ Len(stack) \in Nat
        /\ Len(Tail(stack)) = Len(stack) - 1 /\ Head(stack) = stack[1]
        /\ \A j \in 1..Len(Tail(stack)) : Tail(stack)[j] = stack[j + 1]
    BY <1>1, <1>5, HeadTailProperties DEF TypeOK
  <2>3. i # 1
    BY <1>5, <2>1, <2>2
  <2>4. i - 1 \in 1..Len(Tail(stack)) /\ (i - 1) + 1 = i
    BY <2>2, <2>3
  <2>5. Tail(stack)[i - 1].kind = "connect"
    BY <2>1, <2>2, <2>4
  <2> QED BY <1>1, <1>5, <2>4, <2>5 DEF Closing
<1>6. CASE ReturnConnect
  BY <1>3, <1>6 DEF ReturnConnect, Closing
<1>7. CASE ReturnResult \/ ReturnClose
  BY <1>5, <1>7 DEF ReturnResult, ReturnClose, Returns
<1> QED BY <1>3, <1>4, <1>6, <1>7
        DEF Quiet, Close, Destruct, DestructInCallback, Return,
            QueryOnNullCli, vars

LEMMA QuietKeepsAuth ==
    ASSUME IInv, AuthInv, Quiet
    PROVE  AuthInv'
<1> SUFFICES ASSUME NEW g \in Conns, conn'[g] = "connected", auth'[g] # "done"
             PROVE  Closing' \/ Unadmitted(g)'
  BY DEF AuthInv
<1>1. /\ conn[g] = "connected" /\ UNCHANGED <<wire, auth>>
      /\ client'.handshake = client.handshake
      /\ client'.switchCheck = client.switchCheck
      /\ buffer'[g] = buffer[g] \/ buffer'[g] = <<>>
  BY QuietKeeps DEF IInv
<1>2. Closing \/ Unadmitted(g)
  BY <1>1 DEF AuthInv
<1>3. CASE Closing
  BY <1>3, QuietKeepsClosing
<1>4. CASE Unadmitted(g)
  BY <1>1, <1>4 DEF Unadmitted
<1> QED BY <1>2, <1>3, <1>4

LEMMA OnConnectKeepsAuth ==
    ASSUME IInv, WireInv, NEW g \in Conns, OnConnect(g)
    PROVE  AuthInv'
<1>1. PICK kinds \in Greeted : /\ wire' = [wire EXCEPT ![g] = Plain(kinds)]
                               /\ auth' = [auth EXCEPT ![g] = Opinion(kinds)]
  BY DEF OnConnect
<1>2. /\ conn \in [Conns -> Phases] /\ wire \in [Conns -> Seq(Packet)]
      /\ conn[g] = "connecting" /\ conn' = [conn EXCEPT ![g] = "connected"]
      /\ client'.handshake = "WAIT_REQUEST" /\ UNCHANGED buffer
  BY DEF OnConnect, IInv, TypeOK, ClientType
<1>3. Len(kinds) = 1 /\ kinds[1] # "signature" /\ kinds \in Seq(PacketKinds)
  <2> DEFINE greetings == {<<"greetNative">>, <<"greetSha2">>, <<"err">>}
  <2>1. kinds \in greetings
    BY DEF Greeted
  <2>2. kinds \in greetings => Len(kinds) = 1 /\ kinds[1] # "signature"
    OBVIOUS
  <2> HIDE DEF greetings
  <2> QED BY <2>1, <2>2, ServersKinds
<1>4. /\ Len(Plain(kinds)) = 1 /\ Plain(kinds)[1].query = None
      /\ Plain(kinds)[1].kind # "signature"
  BY <1>3, PlainPackets
<1>5. wire'[g] = Plain(kinds) /\ buffer'[g] = <<>>
  BY <1>1, <1>2 DEF WireInv
<1>6. \A i \in 1..Len(wire'[g]) : i = 1
  <2>1. \A i \in 1..1 : i = 1
    OBVIOUS
  <2> QED BY <1>4, <1>5, <2>1, Zenon
<1>7. \A i \in 1..Len(wire'[g]) : /\ wire'[g][i].query = None
                                  /\ wire'[g][i].kind # "signature"
  BY <1>4, <1>5, <1>6, Zenon
<1>8. Unadmitted(g)'
  BY <1>2, <1>5, <1>7 DEF Unadmitted
<1>9. \A h \in Conns : conn'[h] = "connected" => h = g
  BY <1>2, OnlyConnection DEF Open
<1> QED BY <1>8, <1>9 DEF AuthInv

LEMMA QueryKeepsAuth ==
    ASSUME IInv, AuthInv, NEW command \in Commands, Query(command)
    PROVE  AuthInv'
<1> SUFFICES ASSUME NEW g \in Conns, conn'[g] = "connected", auth'[g] # "done"
             PROVE  Closing' \/ Unadmitted(g)'
  BY DEF AuthInv
<1>1. /\ conn[g] = "connected" /\ UNCHANGED <<buffer, stack>>
      /\ client \in ClientType /\ wire[g] \in Seq(Packet)
      /\ wire \in [Conns -> Seq(Packet)] /\ auth[g] \in {"pending", "done", "refused"}
      /\ Len(queries) + 1 \in Queries
  BY DEF Query, IInv, TypeOK
<1>2. client.cli = g
  BY <1>1, OnlyConnection DEF Open
<1>3. /\ client'.error = client.error /\ client'.handshake = client.handshake
      /\ client'.switchCheck = client.switchCheck
      /\ \/ UNCHANGED <<wire, auth>>
         \/ ServerReads(g, command, Len(queries) + 1)
  BY <1>2, QueryClient DEF IInv
<1>4. CASE UNCHANGED <<wire, auth>>
  <2>1. Closing \/ Unadmitted(g)
    BY <1>1, <1>4 DEF AuthInv
  <2> QED BY <1>1, <1>3, <1>4, <2>1 DEF Closing, Unadmitted
<1>5. CASE ServerReads(g, command, Len(queries) + 1)
  <2>1. auth[g] # "done" /\ (auth[g] = "refused" => UNCHANGED <<wire, auth>>)
    BY <1>5 DEF ServerReads
  <2>2. Closing \/ Unadmitted(g)
    BY <1>1, <2>1 DEF AuthInv
  <2>3. CASE Closing
    BY <1>1, <1>3, <2>3 DEF Closing
  <2>4. CASE Unadmitted(g) /\ auth[g] = "pending"
    <3> DEFINE r == Reply(<<"err">>, Len(queries) + 1)
    <3>1. wire' = [wire EXCEPT ![g] = @ \o r]
      BY <1>5, <2>4 DEF ServerReads, Reply
    <3>2. r \in Seq(Packet) /\ Len(r) = 1 /\ r[1].kind = "err"
      <4> DEFINE q == Len(queries) + 1
      <4> HIDE DEF q
      <4>0. <<"err">> \in Seq(PacketKinds)
        BY DEF PacketKinds
      <4>1. PICK kinds \in Seq(PacketKinds) : kinds = <<"err">>
        BY <4>0, Zenon
      <4>2. Len(kinds) = 1 /\ 1 \in 1..Len(kinds) /\ kinds[1] = "err"
        BY <4>1
      <4>3. q \in Queries
        BY <1>1 DEF q
      <4>4. /\ Reply(kinds, q) \in Seq(Packet)
            /\ Len(Reply(kinds, q)) = 1
            /\ Reply(kinds, q)[1].kind = "err"
        BY <4>2, <4>3, ReplyPackets
      <4> QED BY <4>1, <4>4 DEF q
    <3> HIDE DEF r
    <3>3. wire'[g] = wire[g] \o r
      BY <1>1, <3>1
    <3>4. \A i \in 1..Len(wire'[g]) :
             \/ wire'[g][i].kind = "err"
             \/ i \in 1..Len(wire[g]) /\ wire'[g][i] = wire[g][i]
      <4>1. PICK w \in Seq(Packet) : w = wire[g]
        BY <1>1
      <4>2. /\ Len(w \o r) = Len(w) + 1
            /\ \A i \in 1..Len(w) + 1 :
                  (w \o r)[i] = IF i <= Len(w) THEN w[i] ELSE r[i - Len(w)]
        <5>1. /\ Len(w \o r) = Len(w) + Len(r)
              /\ \A i \in 1..Len(w) + Len(r) :
                    (w \o r)[i] = IF i <= Len(w) THEN w[i] ELSE r[i - Len(w)]
          BY <3>2, ConcatProperties
        <5> QED BY <3>2, <5>1, Zenon
      <4>3. ASSUME NEW i \in 1..Len(w) + 1, ~(i <= Len(w))
            PROVE  (w \o r)[i] = r[1]
        <5>1. i - Len(w) = 1
          BY <4>3
        <5> QED BY <4>2, <4>3, <5>1
      <4>4. \A i \in 1..Len(w) + 1 : i <= Len(w) => i \in 1..Len(w)
        OBVIOUS
      <4> QED BY <3>2, <3>3, <4>1, <4>2, <4>3, <4>4
    <3>5. "err" # "signature"
      OBVIOUS
    <3> QED BY <1>1, <1>3, <2>4, <3>4, <3>5 DEF Unadmitted
  <2>5. CASE Unadmitted(g) /\ auth[g] = "refused"
    BY <1>1, <1>3, <2>1, <2>5 DEF Unadmitted
  <2> QED BY <1>1, <2>1, <2>2, <2>3, <2>4, <2>5
<1> QED BY <1>3, <1>4, <1>5

(* The packets that answer an authentication without letting anyone in.    *)
LEMMA UnadmittedKinds ==
    ASSUME NEW next, NEW greeted, NEW kinds \in Verdicts(next) \cup Switched(greeted),
           Opinion(kinds) # "done"
    PROVE  /\ kinds \in Seq(PacketKinds) /\ Len(kinds) = 1
           /\ kinds[1] # "signature"
           /\ next = "WAIT_RESULT" =>
                 \/ kinds[1] = "err"
                 \/ kinds[1] \in Switches /\ kinds \in Switched(greeted)
<1> DEFINE other == {<<"full">>, <<"key">>, <<"err">>}
           switch == {<<"switchNative">>, <<"switchSha2">>}
<1>1. kinds # <<"ok">> /\ kinds # <<"signature", "ok">>
  <2>1. kinds[Len(kinds)] # "ok"
    BY DEF Opinion, Last
  <2>2. kinds = <<"ok">> => Len(kinds) = 1 /\ kinds[1] = "ok"
    OBVIOUS
  <2>3. kinds = <<"signature", "ok">> => Len(kinds) = 2 /\ kinds[2] = "ok"
    OBVIOUS
  <2> QED BY <2>1, <2>2, <2>3
<1>2. \/ kinds \in other /\ (next = "WAIT_RESULT" => kinds = <<"err">>)
      \/ kinds \in switch /\ kinds \in Switched(greeted)
  BY <1>1 DEF Verdicts, Switched
<1>3. kinds \in other => Len(kinds) = 1 /\ kinds[1] # "signature"
  OBVIOUS
<1>4. kinds \in switch => /\ Len(kinds) = 1 /\ kinds[1] # "signature"
                          /\ kinds[1] \in Switches
  BY DEF Switches
<1>5. kinds = <<"err">> => kinds[1] = "err"
  OBVIOUS
<1> HIDE DEF other, switch
<1> QED BY <1>2, <1>3, <1>4, <1>5, ServersKinds

(* The handshake lets nobody in that the server did not.                   *)
LEMMA MovesKeepAuth ==
    ASSUME TypeOK, NEW g \in Conns, InOrder(g), Unadmitted(g), auth[g] # "done",
           NEW n \in 1..Len(wire[g]), NEW rest, NEW read,
           Taken(wire[g], buffer[g], n, read, rest),
           Moves(g, read, rest), auth'[g] # "done"
    PROVE  Closing' \/ Unadmitted(g)'
<1> DEFINE w == wire[g]
           b == buffer[g]
<1>1. w \in Seq(Packet) /\ b \in Seq(Packet)
  BY DEF TypeOK
<1>2. /\ n \in Nat /\ n > 0 /\ Len(w) \in Nat /\ 1 \in 1..Len(w)
      /\ rest \in Seq(Packet) /\ Len(rest) = Len(w) - n
      /\ \A i \in 1..Len(rest) : n + i \in 1..Len(w) /\ rest[i] = w[n + i]
      /\ read # <<>>
      /\ b = <<>> => Head(read) = w[1]
      /\ b # <<>> => Head(read) = Head(b)
  BY <1>1 DEF Taken
<1>3. /\ Head(read).kind # "signature"
      /\ client.handshake # "COMPLETED"
      /\ client.handshake = "WAIT_RESULT" =>
            \/ Head(read).kind = "err"
            \/ Head(read).kind \in Switches /\ client.switchCheck
  BY <1>2 DEF Unadmitted
<1>4. ASSUME NEW i \in 1..Len(rest)
      PROVE  rest[i].kind = "err" /\ auth[g] # "pending"
  <2>1. rest[i].query # None
    <3>1. ASSUME rest[i].query = None PROVE FALSE
      <4>1. n \in 0..Len(w)
        BY <1>2
      <4>2. n = 0 \/ Head(read).kind = "signature"
        BY <3>1, <4>1, LeftOver DEF LeftBehind
      <4> QED BY <1>2, <1>3, <4>2
    <3> QED BY <3>1
  <2>2. n + i \in 1..Len(w) /\ rest[i] = w[n + i]
    BY <1>2
  <2> QED BY <2>1, <2>2 DEF InOrder, Unadmitted
<1> HIDE DEF w, b
<1>5. "err" # "signature"
  OBVIOUS
<1>6. ASSUME client'.handshake # "COMPLETED", wire'[g] = rest,
             buffer'[g] # <<>> =>
                /\ Head(buffer'[g]).kind # "signature"
                /\ client'.handshake = "WAIT_RESULT" =>
                      Head(buffer'[g]).kind = "err"
      PROVE  Unadmitted(g)'
  BY <1>4, <1>5, <1>6 DEF Unadmitted
<1>7. CASE Stays(g, read, rest)
  <2>1. /\ buffer'[g] = read /\ wire'[g] = rest
        /\ client'.handshake = client.handshake
        /\ client.handshake = "WAIT_RESULT" => Closing'
    BY <1>2, <1>7 DEF Stays, Keep, TypeOK, Astray
  <2> QED BY <1>3, <1>6, <2>1
<1>8. CASE Sends(g, read, rest)
  <2>1. buffer'[g] = <<>> /\ client'.handshake # "COMPLETED"
    BY <1>8 DEF Sends, TypeOK
  <2>2. CASE auth[g] = "refused" /\ wire' = [wire EXCEPT ![g] = rest]
    <3>1. wire'[g] = rest
      BY <2>2 DEF TypeOK
    <3> QED BY <1>6, <2>1, <3>1
  <2>3. CASE auth[g] = "pending"
    <3>1. PICK kinds \in Verdicts(client'.handshake)
                         \cup Switched(client'.switchCheck) :
            /\ wire' = [wire EXCEPT ![g] = rest \o Plain(kinds)]
            /\ auth' = [auth EXCEPT ![g] = Opinion(kinds)]
      BY <1>8, <2>3 DEF Sends
    <3>2. rest = <<>>
      <4>1. Len(rest) \in Nat /\ ~(Len(rest) > 0)
        <5>1. Len(rest) \in Nat
          BY <1>2
        <5>2. ASSUME Len(rest) > 0 PROVE FALSE
          <6>1. 1 \in 1..Len(rest)
            BY <5>1, <5>2
          <6> QED BY <1>4, <2>3, <6>1
        <5> QED BY <5>1, <5>2
      <4>2. \A k \in Nat : ~(k > 0) => k = 0
        OBVIOUS
      <4>3. Len(rest) = 0
        BY <4>1, <4>2, Zenon
      <4> QED BY <1>2, <4>3, EmptySeq
    <3>3. Opinion(kinds) # "done"
      BY <3>1 DEF TypeOK
    <3>4. /\ kinds \in Seq(PacketKinds) /\ Len(kinds) = 1
          /\ kinds[1] # "signature"
          /\ client'.handshake = "WAIT_RESULT" =>
                \/ kinds[1] = "err"
                \/ kinds[1] \in Switches /\ client'.switchCheck
      <4>1. kinds \in Switched(client'.switchCheck) => client'.switchCheck
        BY DEF Switched
      <4>2. /\ kinds \in Seq(PacketKinds) /\ Len(kinds) = 1
            /\ kinds[1] # "signature"
            /\ client'.handshake = "WAIT_RESULT" =>
                  \/ kinds[1] = "err"
                  \/ /\ kinds[1] \in Switches
                     /\ kinds \in Switched(client'.switchCheck)
        BY <3>3, UnadmittedKinds
      <4> QED BY <4>1, <4>2
    <3>5. /\ Plain(kinds) \in Seq(Packet) /\ Len(Plain(kinds)) = Len(kinds)
          /\ \A i \in 1..Len(kinds) : /\ Plain(kinds)[i].query = None
                                      /\ Plain(kinds)[i].kind = kinds[i]
      BY <3>4, PlainPackets
    <3>6. wire'[g] = Plain(kinds)
      <4>1. rest \o Plain(kinds) = Plain(kinds)
        BY <3>2, <3>5, ConcatEmptySeq
      <4> QED BY <3>1, <4>1 DEF TypeOK
    <3>7. \A i \in 1..Len(wire'[g]) : /\ wire'[g][i].query = None
                                      /\ wire'[g][i].kind = kinds[1]
      <4>1. \A i \in 1..1 : i = 1
        OBVIOUS
      <4>2. 1 \in 1..1
        OBVIOUS
      <4> QED BY <3>4, <3>5, <3>6, <4>1, <4>2, Zenon
    <3> QED BY <2>1, <3>4, <3>7 DEF Unadmitted
  <2> QED BY <1>8, <2>2, <2>3 DEF Sends
<1>9. CASE Signed(g, read, rest) \/ Completes(g, read, rest)
  BY <1>3, <1>9 DEF Signed, Completes
<1> QED BY <1>7, <1>8, <1>9 DEF Moves

LEMMA ReceiveKeepsAuth ==
    ASSUME "split" \notin Env, IInv, WireInv, AuthInv,
           NEW g \in Conns, NEW part \in BOOLEAN,
           NEW n \in 0..Len(wire[g]), OnReceive(g, n, part)
    PROVE  AuthInv'
<1> DEFINE piece == SubSeq(wire[g], 1, n)
           rest == SubSeq(wire[g], n + 1, Len(wire[g]))
           read == buffer[g] \o piece
<1>1. /\ TypeOK /\ wire[g] \in Seq(Packet) /\ buffer[g] \in Seq(Packet)
  BY DEF IInv, TypeOK
<1>2. /\ conn[g] = "connected" /\ UNCHANGED conn /\ stack = <<>>
      /\ n > 0
      /\ \/ client.handshake # "COMPLETED" /\ OnHandShake(g, read, rest)
         \/ client.handshake = "COMPLETED" /\ OnResponse(g, read, rest)
  BY DEF OnReceive, AtReactor
<1>3. InOrder(g)
  BY <1>2 DEF WireInv
<1>4. Taken(wire[g], buffer[g], n, read, rest) /\ n \in 1..Len(wire[g])
  BY <1>1, <1>2, PieceOfWire
<1>5. \A h \in Conns : conn'[h] = "connected" => h = g
  BY <1>2, OnlyConnection DEF Open
<1>6. ~Closing
  BY <1>2 DEF Closing
<1> HIDE DEF read, rest
<1>7. SUFFICES ASSUME auth'[g] # "done" PROVE Closing' \/ Unadmitted(g)'
  BY <1>5 DEF AuthInv
<1>8. CASE client.handshake # "COMPLETED" /\ OnHandShake(g, read, rest)
  <2>1. Moves(g, read, rest)
    BY <1>1, <1>4, <1>8, HandShakeMoves DEF Taken
  <2>2. auth[g] # "done"
    BY <1>7, <2>1 DEF Moves, Stays, Sends, Signed, Completes, Keep
  <2>3. Unadmitted(g)
    BY <1>2, <1>6, <2>2 DEF AuthInv
  <2> QED BY <1>1, <1>3, <1>4, <1>7, <2>1, <2>2, <2>3, MovesKeepAuth
<1>9. CASE client.handshake = "COMPLETED" /\ OnResponse(g, read, rest)
  <2>1. auth[g] # "done"
    BY <1>7, <1>9 DEF OnResponse
  <2> QED BY <1>2, <1>6, <1>9, <2>1 DEF AuthInv, Unadmitted
<1> QED BY <1>2, <1>8, <1>9

LEMMA AuthNext ==
    ASSUME "split" \notin Env, IInv, WireInv, AuthInv, [Next]_vars
    PROVE  AuthInv'
<1>1. ASSUME NEW g \in Conns, Connect(g) \/ OnError(g) \/ OnClose(g) PROVE AuthInv'
  BY <1>1, NothingConnected DEF AuthInv
<1>2. ASSUME NEW command \in Commands, Query(command) PROVE AuthInv'
  BY <1>2, QueryKeepsAuth
<1>3. CASE Quiet
  BY <1>3, QuietKeepsAuth
<1>4. ASSUME NEW g \in Conns, OnConnect(g) PROVE AuthInv'
  BY <1>4, OnConnectKeepsAuth
<1>5. CASE Receive
  BY <1>5, ReceiveKeepsAuth DEF Receive
<1> QED BY <1>1, <1>2, <1>3, <1>4, <1>5 DEF Next, Quiet, ConnectEnds

-----------------------------------------------------------------------------
(* Transactions.                                                           *)

(* Before the script was told of its connection it begins no transaction,  *)
(* and after that the two ends agree, unless the connection is lost on a   *)
(* server that let nobody in: the query that waits there is never          *)
(* answered.                                                               *)
TxInv ==
    /\ \A g \in Conns : conn[g] \in {"none", "connecting"} => ~serverTx[g]
    /\ connects = None \/ (\E g \in Conns : conn[g] = "connecting")
          => ~client.transaction /\ client.state = "QUERY"
    /\ \A g \in Conns : conn[g] = "connected" =>
          /\ \/ client.transaction = serverTx[g]
             \/ auth[g] = "refused" /\ client.state # "QUERY"
          /\ auth[g] = "pending" => client.state = "QUERY"

(* No packet is split, the script connects once, and the server refuses no *)
(* command of a transaction.                                               *)
Polite == {"split", "reconnects", "serverErrors"} \cap Env = {}

LEMMA ConnectKeepsTx ==
    ASSUME Polite, IInv, TxInv, NEW g \in Conns, Connect(g)
    PROVE  TxInv'
<1>1. /\ connects = None /\ connects' = g /\ UNCHANGED <<serverTx, auth>>
      /\ client \in ClientType /\ conn \in [Conns -> Phases]
  BY DEF Connect, Polite, IInv, TypeOK, external
<1>2. ~client.transaction /\ client.state = "QUERY"
  BY <1>1 DEF TxInv
<1>3. ~client'.transaction /\ client'.state = "QUERY"
  <2>1. CASE client' = [client EXCEPT !.cli = g]
    BY <1>1, <1>2, <2>1 DEF ClientType
  <2>2. CASE \E drops, below : Tell(g, Freed([client EXCEPT !.error = TRUE]), drops, below)
    <3> DEFINE c == Freed([client EXCEPT !.error = TRUE])
    <3>1. client' = Reported(c)
      BY <2>2 DEF Tell
    <3>2. /\ c \in ClientType /\ c.transaction = client.transaction
          /\ c.state = client.state
      BY <1>1, FailedHandshake
    <3> HIDE DEF c
    <3> QED BY <1>2, <3>1, <3>2, ReportedClient, ReportedHandshake
  <2> QED BY <2>1, <2>2 DEF Connect
<1>4. \A h \in Conns : conn'[h] \in {"none", "connecting"} => ~serverTx[h]
  <2>1. \A h \in Conns : conn[h] = "none"
    BY <1>1 DEF IInv, ConnInv, OneClient
  <2> QED BY <2>1 DEF TxInv
<1>5. \A h \in Conns : conn'[h] # "connected"
  BY NothingConnected
<1> QED BY <1>1, <1>3, <1>4, <1>5 DEF TxInv

LEMMA QueryKeepsTx ==
    ASSUME Polite, IInv, TxInv, NEW command \in Commands, Query(command)
    PROVE  TxInv'
<1>1. /\ client \in ClientType /\ conn \in [Conns -> Phases]
      /\ auth \in [Conns -> {"pending", "done", "refused"}]
      /\ serverTx \in [Conns -> BOOLEAN]
      /\ UNCHANGED <<conn, connects>> /\ client.state = "QUERY"
  BY DEF Query, Idle, IInv, TypeOK
<1>2. PICK g \in Conns : g = client.cli /\ conn[g] = "connected"
  BY DEF Query, Idle, IInv, ConnInv, ConnectedIsEstablished, ClientType, TypeOK
<1>3. client.transaction = serverTx[g]
  BY <1>1, <1>2 DEF TxInv
<1>4. \A h \in Conns : Open(h) => h = g
  BY <1>2, OnlyConnection DEF Open
<1>5. connects # None
  BY <1>2 DEF IInv, ConnInv, OneClient
<1>6. \/ /\ client'.transaction = TransactionAfter(command)
         /\ client'.state = "READ_START"
         /\ ServerReads(g, command, Len(queries) + 1)
      \/ /\ client'.transaction = client.transaction
         /\ client'.state = "QUERY" /\ UNCHANGED <<auth, serverTx>>
  BY <1>1, <1>2, QueryClient DEF IInv
<1>7. /\ \A h \in Conns : h # g => serverTx'[h] = serverTx[h]
      /\ \/ client'.transaction = serverTx'[g]
         \/ auth'[g] = "refused" /\ client'.state # "QUERY"
      /\ auth'[g] = "pending" => client'.state = "QUERY"
  <2>1. CASE UNCHANGED <<auth, serverTx>> /\ client'.state = "QUERY"
             /\ client'.transaction = client.transaction
    BY <1>3, <2>1
  <2>2. CASE /\ client'.transaction = TransactionAfter(command)
             /\ client'.state = "READ_START"
             /\ ServerReads(g, command, Len(queries) + 1)
    <3>1. CASE auth[g] = "done"
      <4>1. PICK kinds \in Results(command) :
              serverTx' = [serverTx EXCEPT ![g] = TxAfter(g, command, kinds)]
        BY <2>2, <3>1 DEF ServerReads
      <4>2. UNCHANGED auth
        BY <2>2, <3>1 DEF ServerReads
      <4>3. serverTx'[g] = TxAfter(g, command, kinds)
        BY <1>1, <4>1
      <4>4. command # "query" => kinds = <<"ok">>
        BY DEF Results, Polite
      <4>5. client'.transaction = serverTx'[g]
        BY <1>3, <2>2, <4>3, <4>4 DEF TxAfter, TransactionAfter
      <4> QED BY <1>1, <3>1, <4>1, <4>2, <4>5
    <3>2. CASE auth[g] = "pending"
      <4>1. auth' = [auth EXCEPT ![g] = "refused"] /\ UNCHANGED serverTx
        BY <2>2, <3>2 DEF ServerReads
      <4> QED BY <1>1, <2>2, <4>1
    <3>3. CASE auth[g] = "refused"
      <4>1. UNCHANGED <<auth, serverTx>>
        BY <2>2, <3>3 DEF ServerReads
      <4> QED BY <2>2, <3>3, <4>1
    <3> QED BY <1>1, <3>1, <3>2, <3>3
  <2> QED BY <1>6, <2>1, <2>2
<1>8. \A h \in Conns : conn'[h] \in {"none", "connecting"} => ~serverTx'[h]
  BY <1>1, <1>2, <1>7 DEF TxInv
<1>9. \A h \in Conns : /\ conn'[h] # "connecting"
                       /\ conn'[h] = "connected" => h = g
  BY <1>1, <1>2, <1>4 DEF Open
<1> QED BY <1>1, <1>5, <1>7, <1>8, <1>9 DEF TxInv

LEMMA QuietKeepsTx ==
    ASSUME IInv, TxInv, Quiet
    PROVE  TxInv'
<1>1. TypeOK
  BY DEF IInv
<1>2. /\ UNCHANGED <<auth, serverTx, connects>>
      /\ client'.state = client.state
      /\ client'.transaction = client.transaction
      /\ \A g \in Conns : conn'[g] = conn[g] \/ conn'[g] = "closed"
  BY <1>1, QuietKeeps
<1> QED BY <1>2 DEF TxInv

LEMMA OnConnectKeepsTx ==
    ASSUME IInv, TxInv, NEW g \in Conns, OnConnect(g)
    PROVE  TxInv'
<1>1. /\ client \in ClientType /\ conn \in [Conns -> Phases]
      /\ conn[g] = "connecting" /\ conn' = [conn EXCEPT ![g] = "connected"]
      /\ client' = [client EXCEPT !.handshake = "WAIT_REQUEST"]
      /\ UNCHANGED <<serverTx, connects>>
  BY DEF OnConnect, IInv, TypeOK
<1>2. client'.transaction = client.transaction /\ client'.state = client.state
  BY <1>1 DEF ClientType
<1>3. ~client.transaction /\ client.state = "QUERY" /\ ~serverTx[g]
  BY <1>1 DEF TxInv
<1>4. serverTx \in [Conns -> BOOLEAN] /\ client.transaction \in BOOLEAN
  BY <1>1 DEF IInv, TypeOK, ClientType
<1>5. \A h \in Conns : Open(h) => h = g
  BY <1>1, OnlyConnection DEF Open
<1>6. \A h \in Conns : conn'[h] = "connected" => h = g
  BY <1>1, <1>5 DEF Open
<1>7. \A h \in Conns : h # g => conn'[h] = conn[h]
  BY <1>1
<1>8. \A h \in Conns : conn'[h] \in {"none", "connecting"} => ~serverTx'[h]
  BY <1>1, <1>7 DEF TxInv
<1>9. /\ client'.transaction = serverTx'[g] /\ client'.state = "QUERY"
      /\ ~client'.transaction
  BY <1>1, <1>2, <1>3, <1>4
<1> QED BY <1>6, <1>8, <1>9 DEF TxInv

LEMMA FailKeepsTx ==
    ASSUME IInv, TxInv, NEW g \in Conns, OnError(g) \/ OnClose(g)
    PROVE  TxInv'
<1>1. /\ client \in ClientType /\ conn \in [Conns -> Phases]
      /\ Open(g) /\ conn' = [conn EXCEPT ![g] = "closed"]
      /\ UNCHANGED <<serverTx, connects, auth>>
  BY DEF OnError, OnClose, CloseConnection, Open, IInv, TypeOK, external
<1>2. connects # None
  BY <1>1 DEF IInv, ConnInv, OneClient, Open
<1>3. \A h \in Conns : h # g => ~Open(h)
  BY <1>1, OnlyConnection
<1>4. \A h \in Conns : conn'[h] \notin {"connecting", "connected"}
  BY <1>1, <1>3 DEF Open
<1>5. \A h \in Conns : conn'[h] \in {"none", "connecting"} => ~serverTx'[h]
  BY <1>1 DEF TxInv
<1> QED BY <1>1, <1>2, <1>4, <1>5 DEF TxInv

LEMMA ReceiveKeepsTx ==
    ASSUME IInv, AuthInv, TxInv,
           NEW g \in Conns, NEW part \in BOOLEAN,
           NEW n \in 0..Len(wire[g]), OnReceive(g, n, part)
    PROVE  TxInv'
<1> DEFINE piece == SubSeq(wire[g], 1, n)
           rest == SubSeq(wire[g], n + 1, Len(wire[g]))
           read == buffer[g] \o piece
<1>1. /\ TypeOK /\ wire[g] \in Seq(Packet) /\ buffer[g] \in Seq(Packet)
      /\ client \in ClientType
  BY DEF IInv, TypeOK
<1>2. /\ conn[g] = "connected" /\ stack = <<>>
      /\ UNCHANGED <<conn, connects, serverTx>>
      /\ \/ client.handshake # "COMPLETED" /\ OnHandShake(g, read, rest)
         \/ client.handshake = "COMPLETED" /\ OnResponse(g, read, rest)
  BY DEF OnReceive, AtReactor
<1>3. Taken(wire[g], buffer[g], n, read, rest)
  BY <1>1, PieceOfWire
<1>4. \A h \in Conns : Open(h) => h = g
  BY <1>2, OnlyConnection DEF Open
<1>5. connects # None
  BY <1>2 DEF IInv, ConnInv, OneClient
<1> HIDE DEF read, rest
<1>6. /\ client'.transaction = client.transaction
      /\ auth[g] = "refused" /\ client.state # "QUERY"
            => auth'[g] = "refused" /\ client'.state # "QUERY"
      /\ auth'[g] = "pending" => client'.state = "QUERY"
  <2>1. CASE client.handshake # "COMPLETED" /\ OnHandShake(g, read, rest)
    <3>1. Moves(g, read, rest)
      BY <1>1, <1>3, <2>1, HandShakeMoves DEF Taken
    <3>2. auth[g] # "pending" => auth'[g] = auth[g]
      BY <3>1 DEF Moves, Stays, Sends, Signed, Completes, Keep
    <3>3. /\ client'.transaction = client.transaction
          /\ client'.state = client.state
      <4>1. Shaken(g, client)
        BY <1>1, <1>3, <2>1, HandShakes DEF Taken
      <4>2. ASSUME NEW d \in ClientType, Keeps(client, d), Tell(g, d, FALSE, <<>>)
            PROVE  /\ client'.transaction = client.transaction
                   /\ client'.state = client.state
        BY <4>2, ReportedClient, ReportedHandshake DEF Tell, Keeps
      <4> QED BY <4>1, <4>2 DEF Shaken, Keeps
    <3>4. auth[g] = "pending" => client.state = "QUERY"
      BY <1>2 DEF TxInv
    <3> QED BY <3>2, <3>3, <3>4
  <2>2. CASE client.handshake = "COMPLETED" /\ OnResponse(g, read, rest)
    <3>1. auth[g] = "done" /\ UNCHANGED auth
      BY <1>2, <2>2 DEF AuthInv, Unadmitted, Closing, OnResponse
    <3>2. client'.transaction = client.transaction
      BY <1>1, <2>2
         DEF OnResponse, ResponseToNobody, ResponseToQuery, Answered, ClientType
    <3> QED BY <3>1, <3>2
  <2> QED BY <1>2, <2>1, <2>2
<1>7. /\ \/ client.transaction = serverTx[g]
         \/ auth[g] = "refused" /\ client.state # "QUERY"
      /\ \A h \in Conns : conn[h] \in {"none", "connecting"} => ~serverTx[h]
  BY <1>2 DEF TxInv
<1>8. \A h \in Conns : /\ conn'[h] # "connecting"
                       /\ conn'[h] = "connected" => h = g
  BY <1>2, <1>4 DEF Open
<1> QED BY <1>2, <1>5, <1>6, <1>7, <1>8 DEF TxInv

LEMMA TxNext ==
    ASSUME Polite, IInv, AuthInv, TxInv, [Next]_vars
    PROVE  TxInv'
<1>1. ASSUME NEW g \in Conns, Connect(g) PROVE TxInv'
  BY <1>1, ConnectKeepsTx
<1>2. ASSUME NEW command \in Commands, Query(command) PROVE TxInv'
  BY <1>2, QueryKeepsTx
<1>3. CASE Quiet
  BY <1>3, QuietKeepsTx
<1>4. ASSUME NEW g \in Conns, OnConnect(g) PROVE TxInv'
  BY <1>4, OnConnectKeepsTx
<1>5. ASSUME NEW g \in Conns, OnError(g) \/ OnClose(g) PROVE TxInv'
  BY <1>5, FailKeepsTx
<1>6. CASE Receive
  BY <1>6, ReceiveKeepsTx DEF Receive
<1> QED BY <1>1, <1>2, <1>3, <1>4, <1>5, <1>6 DEF Next, Quiet, ConnectEnds

LEMMA TxAgrees ==
    ASSUME IInv, TxInv
    PROVE  TransactionIsServers
BY DEF IInv, ConnInv, ConnectedIsEstablished, TxInv, TransactionIsServers,
       TypeOK, ClientType

LEMMA InitMore == Init => AuthInv /\ TxInv
BY DEF Init, AuthInv, TxInv

-----------------------------------------------------------------------------
(* The callback of connect().                                              *)

(* The packet that the client in the handshake waits for.                  *)
Awaits(kind) ==
    \/ kind \in Switches /\ client.switchCheck
    \/ kind \in Greetings /\ client.handshake = "WAIT_REQUEST"
    \/ kind = "full" /\ client.handshake = "WAIT_SIGNATURE"
    \/ kind = "key" /\ client.handshake = "WAIT_RSA"

Asked(g) == Len(wire[g]) = 1 /\ Awaits(wire[g][1].kind)

LetIn(g) ==
    \/ /\ client.handshake = "WAIT_SIGNATURE" /\ Len(wire[g]) = 2
       /\ wire[g][1].kind = "signature" /\ wire[g][2].kind = "ok"
    \/ /\ client.handshake = "WAIT_RESULT" /\ Len(wire[g]) = 1
       /\ wire[g][1].kind = "ok"

(* Client and server are in step, and nobody was told anything yet.        *)
Greeting(g) ==
    /\ ~client.connected /\ told[g] = <<>> /\ buffer[g] = <<>>
    /\ \/ auth[g] = "pending" /\ Asked(g)
       \/ auth[g] = "done" /\ LetIn(g)
       \/ auth[g] = "refused" /\ Len(wire[g]) = 1

(* Whoever was told never reaches the end of the handshake again: it is    *)
(* over, the connection is about to be closed, or the server is silent.    *)
ToldInv ==
    \A g \in Conns :
        /\ conn[g] \in {"none", "connecting", "idle"} => told[g] = <<>>
        /\ Len(told[g]) <= 1
        /\ conn[g] = "connected" =>
              \/ client.handshake = "COMPLETED"
              \/ Closing
              \/ auth[g] = "refused" /\ wire[g] = <<>>
              \/ Greeting(g)

(* The script is told for the first time.                                  *)
LEMMA FirstTold ==
    ASSUME TypeOK, NEW g \in Conns, told[g] = <<>>, NEW b \in BOOLEAN,
           told' = [told EXCEPT ![g] = Append(@, b)]
    PROVE  /\ Len(told'[g]) <= 1
           /\ \A h \in Conns : h # g => told'[h] = told[h]
<1>1. told'[g] = Append(<<>>, b) /\ \A h \in Conns : h # g => told'[h] = told[h]
  BY DEF TypeOK
<1>2. Len(Append(<<>>, b)) = 1
  <2>1. <<>> \in Seq(BOOLEAN) /\ Len(<<>>) = 0
    OBVIOUS
  <2> QED BY <2>1, AppendProperties
<1> QED BY <1>1, <1>2

LEMMA ConnectKeepsTold ==
    ASSUME IInv, ToldInv, NEW g \in Conns, Connect(g)
    PROVE  ToldInv'
<1>1. /\ TypeOK /\ conn \in [Conns -> Phases]
      /\ client \in ClientType
  BY DEF Connect, IInv, TypeOK
<1>2. conn[g] = "none" /\ told[g] = <<>>
  <2>1. conn[g] = "none"
    BY DEF Connect, IInv, ConnInv, OneClient, TypeOK
  <2> QED BY <2>1 DEF ToldInv
<1>3. PICK p \in {"connecting", "idle", "closed"} :
        /\ conn' = [conn EXCEPT ![g] = p]
        /\ \/ p # "closed" /\ UNCHANGED told
           \/ /\ p = "closed"
              /\ \E b \in BOOLEAN : told' = [told EXCEPT ![g] = Append(@, b)]
  BY DEF Connect, Tell
<1>4. /\ \A h \in Conns : Len(told'[h]) <= 1
      /\ \A h \in Conns : h # g => told'[h] = told[h]
      /\ p # "closed" => told'[g] = <<>>
  <2>1. CASE UNCHANGED told
    BY <1>2, <2>1 DEF ToldInv
  <2>2. CASE p = "closed" /\ \E b \in BOOLEAN : told' = [told EXCEPT ![g] = Append(@, b)]
    BY <1>1, <1>2, <2>2, FirstTold DEF ToldInv
  <2> QED BY <1>2, <1>3, <2>1, <2>2
<1>5. \A h \in Conns : conn'[h] \in {"none", "connecting", "idle"} => told'[h] = <<>>
  BY <1>1, <1>3, <1>4 DEF ToldInv
<1>6. \A h \in Conns : conn'[h] # "connected"
  BY NothingConnected
<1> QED BY <1>1, <1>4, <1>5, <1>6 DEF ToldInv

LEMMA OnErrorKeepsTold ==
    ASSUME IInv, ToldInv, NEW g \in Conns, OnError(g)
    PROVE  ToldInv'
<1>1. /\ TypeOK /\ conn \in [Conns -> Phases]
      /\ conn' = [conn EXCEPT ![g] = "closed"] /\ conn[g] = "connecting"
  BY DEF OnError, IInv, TypeOK
<1>2. told[g] = <<>>
  BY <1>1 DEF ToldInv
<1>3. PICK b \in BOOLEAN : told' = [told EXCEPT ![g] = Append(@, b)]
  BY DEF OnError, Tell
<1>4. /\ \A h \in Conns : Len(told'[h]) <= 1
      /\ \A h \in Conns : h # g => told'[h] = told[h]
  BY <1>1, <1>2, <1>3, FirstTold DEF ToldInv
<1>5. \A h \in Conns : conn'[h] \in {"none", "connecting", "idle"} => told'[h] = <<>>
  BY <1>1, <1>4 DEF ToldInv
<1>6. \A h \in Conns : conn'[h] # "connected"
  BY NothingConnected
<1> QED BY <1>1, <1>4, <1>5, <1>6 DEF ToldInv

LEMMA OnCloseKeepsTold ==
    ASSUME IInv, ToldInv, NEW g \in Conns, OnClose(g)
    PROVE  ToldInv'
<1>1. /\ conn \in [Conns -> Phases] /\ UNCHANGED told
      /\ conn' = [conn EXCEPT ![g] = "closed"]
  BY DEF OnClose, CloseConnection, IInv, TypeOK
<1>2. \A h \in Conns : conn'[h] \in {"none", "connecting", "idle"} => told'[h] = <<>>
  BY <1>1 DEF ToldInv
<1>3. \A h \in Conns : conn'[h] # "connected"
  BY NothingConnected
<1> QED BY <1>1, <1>2, <1>3 DEF ToldInv

LEMMA OnConnectKeepsTold ==
    ASSUME IInv, WireInv, ToldInv, NEW g \in Conns, OnConnect(g)
    PROVE  ToldInv'
<1>1. PICK kinds \in Greeted : /\ wire' = [wire EXCEPT ![g] = Plain(kinds)]
                               /\ auth' = [auth EXCEPT ![g] = Opinion(kinds)]
  BY DEF OnConnect
<1>2. /\ conn \in [Conns -> Phases] /\ wire \in [Conns -> Seq(Packet)]
      /\ auth \in [Conns -> {"pending", "done", "refused"}]
      /\ conn[g] = "connecting" /\ conn' = [conn EXCEPT ![g] = "connected"]
      /\ client'.handshake = "WAIT_REQUEST" /\ UNCHANGED <<buffer, told>>
      /\ client'.connected = client.connected
  BY DEF OnConnect, IInv, TypeOK, ClientType
<1>3. ~client.connected
  BY <1>2 DEF IInv, ConnInv, HandlersFindTheirClient, ConnectedIsEstablished, Open
<1>4. /\ kinds \in Seq(PacketKinds) /\ Len(kinds) = 1
      /\ \/ kinds[1] \in Greetings /\ Opinion(kinds) = "pending"
         \/ Opinion(kinds) = "refused"
  <2> DEFINE greetings == {<<"greetNative">>, <<"greetSha2">>}
  <2>1. kinds \in greetings \/ kinds = <<"err">>
    BY DEF Greeted
  <2>2. kinds \in greetings => /\ Len(kinds) = 1 /\ kinds[1] \in Greetings
                               /\ kinds[1] \notin {"ok", "err"}
    BY DEF Greetings
  <2>3. kinds = <<"err">> => Len(kinds) = 1 /\ kinds[1] = "err"
    OBVIOUS
  <2> HIDE DEF greetings
  <2> QED BY <2>1, <2>2, <2>3, ServersKinds DEF Opinion, Last
<1>5. /\ Len(Plain(kinds)) = 1 /\ Plain(kinds)[1].kind = kinds[1]
  BY <1>4, PlainPackets
<1>6. /\ wire'[g] = Plain(kinds) /\ auth'[g] = Opinion(kinds)
      /\ buffer'[g] = <<>> /\ told'[g] = <<>>
  BY <1>1, <1>2 DEF WireInv, ToldInv
<1>7. Greeting(g)'
  BY <1>2, <1>3, <1>4, <1>5, <1>6 DEF Greeting, Asked, Awaits
<1>8. \A h \in Conns : conn'[h] = "connected" => h = g
  BY <1>2, OnlyConnection DEF Open
<1>9. \A h \in Conns : conn'[h] \in {"none", "connecting", "idle"} => told'[h] = <<>>
  BY <1>2 DEF ToldInv
<1> QED BY <1>2, <1>7, <1>8, <1>9 DEF ToldInv

LEMMA QuietKeepsTold ==
    ASSUME IInv, ToldInv, Quiet
    PROVE  ToldInv'
<1>1. TypeOK
  BY DEF IInv
<1>2. /\ UNCHANGED <<wire, auth, told>>
      /\ client'.handshake = client.handshake
      /\ client'.switchCheck = client.switchCheck
      /\ client'.connected => client.connected
      /\ \A g \in Conns : conn'[g] = conn[g] \/ conn'[g] = "closed"
      /\ \A g \in Conns : buffer'[g] = buffer[g] \/ buffer'[g] = <<>>
  BY <1>1, QuietKeeps
<1>3. ASSUME NEW g \in Conns, conn'[g] = "connected"
      PROVE  \/ client'.handshake = "COMPLETED"
             \/ Closing'
             \/ auth'[g] = "refused" /\ wire'[g] = <<>>
             \/ Greeting(g)'
  <2>1. \/ client.handshake = "COMPLETED"
        \/ Closing
        \/ auth[g] = "refused" /\ wire[g] = <<>>
        \/ Greeting(g)
    BY <1>2, <1>3 DEF ToldInv
  <2>2. CASE Closing
    BY <1>3, <2>2, QuietKeepsClosing
  <2>3. CASE Greeting(g)
    BY <1>2, <2>3 DEF Greeting, Asked, Awaits, LetIn
  <2> QED BY <1>2, <2>1, <2>2, <2>3
<1> QED BY <1>2, <1>3 DEF ToldInv

LEMMA QueryKeepsTold ==
    ASSUME IInv, ToldInv, NEW command \in Commands, Query(command)
    PROVE  ToldInv'
<1>0. /\ TypeOK /\ client.connected
      /\ UNCHANGED <<conn, stack, told>>
  BY DEF IInv, Query, Idle
<1>1. /\ client'.error = client.error /\ client'.handshake = client.handshake
      /\ \/ UNCHANGED <<wire, auth>>
         \/ ServerReads(client.cli, command, Len(queries) + 1)
  BY <1>0, QueryClient
<1>2. ASSUME NEW g \in Conns, conn'[g] = "connected"
      PROVE  \/ client'.handshake = "COMPLETED"
             \/ Closing'
             \/ auth'[g] = "refused" /\ wire'[g] = <<>>
             \/ Greeting(g)'
  <2>1. client.cli = g
    BY <1>0, <1>2, OnlyConnection DEF Open
  <2>2. \/ client.handshake = "COMPLETED"
        \/ Closing
        \/ auth[g] = "refused" /\ wire[g] = <<>>
    BY <1>0, <1>2 DEF ToldInv, Greeting
  <2>3. CASE Closing
    BY <1>0, <1>1, <2>3 DEF Closing
  <2>4. CASE auth[g] = "refused" /\ wire[g] = <<>>
    BY <1>1, <2>1, <2>4 DEF ServerReads
  <2> QED BY <1>1, <2>2, <2>3, <2>4
<1> QED BY <1>0, <1>2 DEF ToldInv

(* What the server answers to a client's authentication.                   *)
LEMMA AnswerKinds ==
    ASSUME NEW next \in {"WAIT_SIGNATURE", "WAIT_RSA", "WAIT_RESULT"}, NEW greeted,
           NEW kinds \in Verdicts(next) \cup Switched(greeted)
    PROVE  /\ kinds \in Seq(PacketKinds)
           /\ \/ /\ Opinion(kinds) = "pending" /\ Len(kinds) = 1
                 /\ \/ kinds[1] \in Switches /\ kinds \in Switched(greeted)
                    \/ kinds[1] = "full" /\ next = "WAIT_SIGNATURE"
                    \/ kinds[1] = "key" /\ next = "WAIT_RSA"
              \/ /\ Opinion(kinds) = "done"
                 /\ \/ /\ Len(kinds) = 2 /\ next = "WAIT_SIGNATURE"
                       /\ kinds[1] = "signature" /\ kinds[2] = "ok"
                    \/ /\ Len(kinds) = 1 /\ next = "WAIT_RESULT"
                       /\ kinds[1] = "ok"
              \/ Opinion(kinds) = "refused" /\ Len(kinds) = 1
<1> DEFINE switch == {<<"switchNative">>, <<"switchSha2">>}
<1>1. \/ kinds \in switch /\ kinds \in Switched(greeted)
      \/ kinds = <<"full">> /\ next = "WAIT_SIGNATURE"
      \/ kinds = <<"signature", "ok">> /\ next = "WAIT_SIGNATURE"
      \/ kinds = <<"key">> /\ next = "WAIT_RSA"
      \/ kinds = <<"ok">> /\ next = "WAIT_RESULT"
      \/ kinds = <<"err">>
  BY DEF Verdicts, Switched
<1>2. \A s : /\ s[Len(s)] = "ok" => Opinion(s) = "done"
             /\ s[Len(s)] = "err" => Opinion(s) = "refused"
             /\ s[Len(s)] \notin {"ok", "err"} => Opinion(s) = "pending"
  BY DEF Opinion, Last
<1>3. kinds \in switch => /\ Len(kinds) = 1 /\ kinds[1] \in Switches
                          /\ kinds[Len(kinds)] \notin {"ok", "err"}
  BY DEF Switches
<1>4. kinds = <<"full">> => Len(kinds) = 1 /\ kinds[1] = "full"
  OBVIOUS
<1>5. kinds = <<"key">> => Len(kinds) = 1 /\ kinds[1] = "key"
  OBVIOUS
<1>6. kinds = <<"ok">> => Len(kinds) = 1 /\ kinds[1] = "ok"
  OBVIOUS
<1>7. kinds = <<"err">> => Len(kinds) = 1 /\ kinds[1] = "err"
  OBVIOUS
<1>8. kinds = <<"signature", "ok">> =>
         Len(kinds) = 2 /\ kinds[1] = "signature" /\ kinds[2] = "ok"
  OBVIOUS
<1> HIDE DEF switch
<1>9. kinds \in Seq(PacketKinds)
  BY ServersKinds
<1> QED
  <2>1. CASE kinds \in switch /\ kinds \in Switched(greeted)
    BY <1>2, <1>3, <1>9, <2>1
  <2>2. CASE kinds = <<"full">> /\ next = "WAIT_SIGNATURE"
    BY <1>2, <1>4, <1>9, <2>2
  <2>3. CASE kinds = <<"signature", "ok">> /\ next = "WAIT_SIGNATURE"
    BY <1>2, <1>8, <1>9, <2>3
  <2>4. CASE kinds = <<"key">> /\ next = "WAIT_RSA"
    BY <1>2, <1>5, <1>9, <2>4
  <2>5. CASE kinds = <<"ok">> /\ next = "WAIT_RESULT"
    BY <1>2, <1>6, <1>9, <2>5
  <2>6. CASE kinds = <<"err">>
    BY <1>2, <1>7, <1>9, <2>6
  <2> QED BY <1>1, <2>1, <2>2, <2>3, <2>4, <2>5, <2>6

(* The client sends an answer, and the server's next packet is what it     *)
(* waits for.                                                              *)
LEMMA SendsKeepGreeting ==
    ASSUME TypeOK, NEW g \in Conns, ~client.connected, told[g] = <<>>,
           auth[g] = "pending", NEW read, Sends(g, read, <<>>)
    PROVE  Greeting(g)'
<1>1. PICK kinds \in Verdicts(client'.handshake) \cup Switched(client'.switchCheck) :
         /\ wire' = [wire EXCEPT ![g] = <<>> \o Plain(kinds)]
         /\ auth' = [auth EXCEPT ![g] = Opinion(kinds)]
  BY DEF Sends
<1>2. /\ buffer'[g] = <<>> /\ told'[g] = <<>> /\ ~client'.connected
      /\ client'.handshake \in {"WAIT_SIGNATURE", "WAIT_RSA", "WAIT_RESULT"}
      /\ auth'[g] = Opinion(kinds)
  BY <1>1 DEF Sends, TypeOK
<1>3. /\ kinds \in Seq(PacketKinds)
      /\ \/ /\ Opinion(kinds) = "pending" /\ Len(kinds) = 1
            /\ \/ kinds[1] \in Switches /\ kinds \in Switched(client'.switchCheck)
               \/ kinds[1] = "full" /\ client'.handshake = "WAIT_SIGNATURE"
               \/ kinds[1] = "key" /\ client'.handshake = "WAIT_RSA"
         \/ /\ Opinion(kinds) = "done"
            /\ \/ /\ Len(kinds) = 2 /\ client'.handshake = "WAIT_SIGNATURE"
                  /\ kinds[1] = "signature" /\ kinds[2] = "ok"
               \/ /\ Len(kinds) = 1 /\ client'.handshake = "WAIT_RESULT"
                  /\ kinds[1] = "ok"
         \/ Opinion(kinds) = "refused" /\ Len(kinds) = 1
  BY <1>2, AnswerKinds
<1>4. kinds \in Switched(client'.switchCheck) => client'.switchCheck
  BY DEF Switched
<1>5. /\ Plain(kinds) \in Seq(Packet) /\ Len(Plain(kinds)) = Len(kinds)
      /\ \A i \in 1..Len(kinds) : Plain(kinds)[i].kind = kinds[i]
  BY <1>3, PlainPackets
<1>6. wire'[g] = Plain(kinds)
  <2>1. <<>> \o Plain(kinds) = Plain(kinds)
    BY <1>5, ConcatEmptySeq
  <2> QED BY <1>1, <2>1 DEF TypeOK
<1>7. /\ Len(kinds) = 1 => wire'[g][1].kind = kinds[1]
      /\ Len(kinds) = 2 => /\ wire'[g][1].kind = kinds[1]
                           /\ wire'[g][2].kind = kinds[2]
  <2>1. \A k \in Nat : /\ k = 1 => 1 \in 1..k
                       /\ k = 2 => 1 \in 1..k /\ 2 \in 1..k
    OBVIOUS
  <2> QED BY <1>5, <1>6, <2>1, <1>3
<1>8. Len(wire'[g]) = Len(kinds)
  BY <1>5, <1>6
<1>9. CASE Opinion(kinds) = "pending"
  <2>1. Asked(g)'
    BY <1>3, <1>4, <1>7, <1>8, <1>9 DEF Asked, Awaits
  <2> QED BY <1>2, <1>9, <2>1 DEF Greeting
<1>10. CASE Opinion(kinds) = "done"
  <2>1. LetIn(g)'
    BY <1>3, <1>7, <1>8, <1>10 DEF LetIn
  <2> QED BY <1>2, <1>10, <2>1 DEF Greeting
<1>11. CASE Opinion(kinds) = "refused"
  BY <1>2, <1>3, <1>8, <1>11 DEF Greeting
<1> QED BY <1>3, <1>9, <1>10, <1>11

(* The packet behind the first of two.                                     *)
LEMMA SecondPacket ==
    ASSUME NEW s \in Seq(Packet), Len(s) = 2
    PROVE  Head(Tail(s)) = s[2]
<1>0. Len(<<>>) = 0 /\ 2 # 0 /\ 1 # 0
  OBVIOUS
<1>1. s # <<>>
  BY <1>0, Zenon
<1>2. /\ Tail(s) \in Seq(Packet) /\ Len(Tail(s)) = Len(s) - 1
      /\ \A i \in 1..Len(Tail(s)) : Tail(s)[i] = s[i + 1]
  BY <1>1, HeadTailProperties
<1>3. \A t \in Seq(Packet) : Head(t) = t[1]
  OBVIOUS
<1>4. 2 - 1 = 1 /\ 1 + 1 = 2 /\ 1 \in 1..1
  OBVIOUS
<1>5. Len(Tail(s)) = 1
  BY <1>2, <1>4, Zenon
<1>6. Tail(s)[1] = s[2]
  <2>1. 1 \in 1..Len(Tail(s))
    BY <1>4, <1>5, Zenon
  <2>2. Tail(s)[1] = s[1 + 1]
    BY <1>2, <2>1, Zenon
  <2> QED BY <1>4, <2>2, Zenon
<1> QED BY <1>2, <1>3, <1>6, Zenon

(* From a handshake that is in step the client goes on in step, is done,   *)
(* fails, or hears nothing any more.                                       *)
LEMMA MovesKeepGreeting ==
    ASSUME TypeOK, NEW g \in Conns, Greeting(g),
           client.handshake # "COMPLETED",
           NEW n \in 1..Len(wire[g]), NEW rest, NEW read,
           Taken(wire[g], buffer[g], n, read, rest), Moves(g, read, rest)
    PROVE  \/ client'.handshake = "COMPLETED"
           \/ Closing'
           \/ auth'[g] = "refused" /\ wire'[g] = <<>>
           \/ Greeting(g)'
<1> DEFINE w == wire[g]
<1>1. /\ w \in Seq(Packet) /\ Len(w) \in Nat /\ n \in Nat /\ n > 0 /\ n <= Len(w)
      /\ 1 \in 1..Len(w) /\ 1 \in 1..n
      /\ wire \in [Conns -> Seq(Packet)] /\ buffer \in [Conns -> Seq(Packet)]
      /\ auth \in [Conns -> {"pending", "done", "refused"}]
      /\ told \in [Conns -> Seq(BOOLEAN)]
  <2>1. /\ wire \in [Conns -> Seq(Packet)] /\ buffer \in [Conns -> Seq(Packet)]
        /\ auth \in [Conns -> {"pending", "done", "refused"}]
        /\ told \in [Conns -> Seq(BOOLEAN)]
    BY DEF TypeOK
  <2>2. w \in Seq(Packet)
    BY <2>1
  <2>3. Len(w) \in Nat /\ n \in 1..Len(w)
    BY <2>2
  <2>4. /\ n \in Nat /\ n > 0 /\ n <= Len(w)
        /\ 1 \in 1..Len(w) /\ 1 \in 1..n
    BY <2>3
  <2>5. QED
    BY <2>1, <2>2, <2>3, <2>4
<1>2. /\ rest \in Seq(Packet) /\ Len(rest) = Len(w) - n
      /\ \A i \in 1..Len(rest) : n + i \in 1..Len(w) /\ rest[i] = w[n + i]
      /\ read \in Seq(Packet) /\ Len(read) = n
      /\ \A i \in 1..n : read[i] = w[i]
      /\ read # <<>> /\ Head(read) = w[1]
  <2>1. /\ buffer[g] = <<>> /\ n > 0 /\ ~(n = 0)
        /\ Taken(w, buffer[g], n, read, rest)
    BY <1>1 DEF Greeting
  <2> HIDE DEF w
  <2>2. /\ rest \in Seq(Packet) /\ Len(rest) = Len(w) - n
        /\ \A i \in 1..Len(rest) : n + i \in 1..Len(w) /\ rest[i] = w[n + i]
    BY <2>1 DEF Taken
  <2>3. /\ read \in Seq(Packet) /\ Len(read) = n
        /\ \A i \in 1..n : read[i] = w[i]
    BY <2>1 DEF Taken
  <2>4. read # <<>> /\ Head(read) = w[1]
    BY <2>1 DEF Taken
  <2>5. QED
    BY <2>2, <2>3, <2>4
<1>3. Len(w) = 1 => n = 1 /\ rest = <<>>
  <2>1. Len(w) = 1 => n = 1
    BY <1>1
  <2>2. Len(w) = 1 => Len(rest) = 0
    BY <1>2, <2>1
  <2> QED BY <1>2, <2>1, <2>2, EmptySeq
<1> HIDE DEF w
<1>4. CASE auth[g] = "refused"
  <2>1. rest = <<>>
    BY <1>3, <1>4 DEF Greeting, w
  <2>2. wire' = [wire EXCEPT ![g] = rest] /\ UNCHANGED auth
    BY <1>4 DEF Moves, Stays, Sends, Signed, Completes, Keep
  <2> QED BY <1>1, <1>4, <2>1, <2>2
<1>5. CASE auth[g] = "pending"
  <2>1. rest = <<>> /\ Awaits(Head(read).kind)
    BY <1>2, <1>3, <1>5 DEF Greeting, Asked, w
  <2>2. ~Astray(Head(read).kind) /\ Head(read).kind # "signature"
    BY <2>1 DEF Awaits, Astray, Greetings, Switches
  <2>3. CASE Stays(g, read, rest)
    BY <1>2, <2>2, <2>3 DEF Stays
  <2>4. CASE Sends(g, read, rest)
    BY <1>5, <2>1, <2>4, SendsKeepGreeting DEF Greeting
  <2>5. CASE Signed(g, read, rest) \/ Completes(g, read, rest)
    BY <2>2, <2>5 DEF Signed, Completes
  <2> QED BY <2>3, <2>4, <2>5 DEF Moves
<1>6. CASE auth[g] = "done"
  <2>1. LetIn(g)
    BY <1>6 DEF Greeting
  <2>2. ~Astray(Head(read).kind)
    BY <1>2, <2>1 DEF LetIn, Astray, w
  <2>3. CASE Stays(g, read, rest)
    BY <1>2, <2>2, <2>3 DEF Stays
  <2>4. CASE Sends(g, read, rest)
    BY <1>6, <2>4 DEF Sends
  <2>5. CASE Completes(g, read, rest)
    BY <2>5 DEF Completes
  <2>6. CASE Signed(g, read, rest)
    <3>1. /\ client.handshake = "WAIT_SIGNATURE" /\ Len(w) = 2
          /\ w[1].kind = "signature" /\ w[2].kind = "ok"
      BY <2>1, <2>6 DEF Signed, LetIn, w
    <3>2. CASE Len(read) = 1
      <4>1. /\ Keep(g, <<>>, rest) /\ client'.handshake = "WAIT_RESULT"
            /\ UNCHANGED told /\ client'.connected = client.connected
        <5>1. ~(1 > 1)
          OBVIOUS
        <5> QED BY <2>6, <3>2, <5>1, Zenon DEF Signed
      <4>2. n = 1 /\ Len(rest) = 1
        BY <1>1, <1>2, <3>1, <3>2
      <4>3. 1 \in 1..Len(rest) /\ n + 1 = 2
        BY <4>2
      <4>4. rest[1] = w[2]
        BY <1>2, <4>3
      <4>5. wire'[g] = rest /\ buffer'[g] = <<>> /\ auth'[g] = "done"
        BY <1>1, <1>6, <4>1 DEF Keep
      <4>6. LetIn(g)'
        BY <3>1, <4>1, <4>2, <4>4, <4>5 DEF LetIn
      <4> QED BY <4>1, <4>5, <4>6 DEF Greeting
    <3>3. CASE Len(read) # 1
      <4>1. n = 2
        BY <1>1, <1>2, <3>1, <3>3
      <4>2. Head(Tail(read)) = read[2]
        <5>1. Len(read) = 2
          BY <1>2, <4>1
        <5> QED BY <1>2, <5>1, SecondPacket
      <4>3. read[2] = w[2]
        BY <1>2, <4>1
      <4>4. Head(Tail(read)).kind = "err"
        BY <2>6, <3>3 DEF Signed
      <4> QED BY <3>1, <4>2, <4>3, <4>4
    <3> QED BY <3>2, <3>3
  <2> QED BY <2>3, <2>4, <2>5, <2>6 DEF Moves
<1> QED BY <1>1, <1>4, <1>5, <1>6

LEMMA ReceiveKeepsTold ==
    ASSUME "split" \notin Env, IInv, ToldInv,
           NEW g \in Conns, NEW part \in BOOLEAN,
           NEW n \in 0..Len(wire[g]), OnReceive(g, n, part)
    PROVE  ToldInv'
<1> DEFINE piece == SubSeq(wire[g], 1, n)
           rest == SubSeq(wire[g], n + 1, Len(wire[g]))
           read == buffer[g] \o piece
<1>1. /\ TypeOK /\ wire[g] \in Seq(Packet) /\ buffer[g] \in Seq(Packet)
      /\ client \in ClientType
  BY DEF IInv, TypeOK
<1>2. /\ conn[g] = "connected" /\ stack = <<>> /\ UNCHANGED conn
      /\ n > 0
      /\ \/ client.handshake # "COMPLETED" /\ OnHandShake(g, read, rest)
         \/ client.handshake = "COMPLETED" /\ OnResponse(g, read, rest)
  BY DEF OnReceive, AtReactor
<1>3. Taken(wire[g], buffer[g], n, read, rest) /\ n \in 1..Len(wire[g])
  BY <1>1, <1>2, PieceOfWire
<1>4. \A h \in Conns : Open(h) => h = g
  BY <1>2, OnlyConnection DEF Open
<1> HIDE DEF read, rest
<1>5. CASE client.handshake # "COMPLETED" /\ OnHandShake(g, read, rest)
  <2>1. wire[g] # <<>>
    BY <1>1, <1>3
  <2>2. Greeting(g)
    BY <1>2, <1>5, <2>1 DEF ToldInv, Closing
  <2>3. Moves(g, read, rest)
    BY <1>1, <1>3, <1>5, HandShakeMoves DEF Taken
  <2>4. \/ client'.handshake = "COMPLETED"
        \/ Closing'
        \/ auth'[g] = "refused" /\ wire'[g] = <<>>
        \/ Greeting(g)'
    BY <1>1, <1>3, <1>5, <2>2, <2>3, MovesKeepGreeting
  <2>5. /\ \A h \in Conns : h # g => told'[h] = told[h]
        /\ \A h \in Conns : Len(told'[h]) <= 1
    <3>1. UNCHANGED told \/ \E b \in BOOLEAN : told' = [told EXCEPT ![g] = Append(@, b)]
      <4>1. Shaken(g, client)
        BY <1>1, <1>3, <1>5, HandShakes DEF Taken
      <4> QED BY <4>1 DEF Shaken, Tell
    <3>2. CASE UNCHANGED told
      BY <3>2 DEF ToldInv
    <3>3. CASE \E b \in BOOLEAN : told' = [told EXCEPT ![g] = Append(@, b)]
      <4>1. told[g] = <<>>
        BY <2>2 DEF Greeting
      <4> QED BY <1>1, <3>3, <4>1, FirstTold DEF ToldInv
    <3> QED BY <3>1, <3>2, <3>3
  <2>6. \A h \in Conns : conn'[h] \in {"none", "connecting", "idle"} => told'[h] = <<>>
    BY <1>2, <2>5 DEF ToldInv
  <2>7. \A h \in Conns : conn'[h] = "connected" => h = g
    BY <1>2, <1>4 DEF Open
  <2> QED BY <1>2, <2>2, <2>4, <2>5, <2>6, <2>7 DEF ToldInv
<1>6. CASE client.handshake = "COMPLETED" /\ OnResponse(g, read, rest)
  <2>1. client'.handshake = "COMPLETED"
    BY <1>1, <1>6
       DEF OnResponse, ResponseToNobody, ResponseToQuery, Answered, ClientType
  <2>2. UNCHANGED told
    BY <1>6 DEF OnResponse
  <2> QED BY <1>2, <2>1, <2>2 DEF ToldInv
<1> QED BY <1>2, <1>5, <1>6

LEMMA ToldNext ==
    ASSUME "split" \notin Env, IInv, WireInv, ToldInv, [Next]_vars
    PROVE  ToldInv'
<1>1. ASSUME NEW g \in Conns, Connect(g) PROVE ToldInv'
  BY <1>1, ConnectKeepsTold
<1>2. ASSUME NEW command \in Commands, Query(command) PROVE ToldInv'
  BY <1>2, QueryKeepsTold
<1>3. CASE Quiet
  BY <1>3, QuietKeepsTold
<1>4. ASSUME NEW g \in Conns, OnConnect(g) PROVE ToldInv'
  BY <1>4, OnConnectKeepsTold
<1>5. ASSUME NEW g \in Conns, OnError(g) PROVE ToldInv'
  BY <1>5, OnErrorKeepsTold
<1>6. ASSUME NEW g \in Conns, OnClose(g) PROVE ToldInv'
  BY <1>6, OnCloseKeepsTold
<1>7. CASE Receive
  BY <1>7, ReceiveKeepsTold DEF Receive
<1> QED BY <1>1, <1>2, <1>3, <1>4, <1>5, <1>6, <1>7 DEF Next, Quiet, ConnectEnds

-----------------------------------------------------------------------------
(* The theorems.                                                           *)

(* Every variable keeps its type: a handshake and a response leave the     *)
(* client in a state the next handler knows, whatever the server sends.    *)
THEOREM TypeCorrect == Spec => []TypeOK
<1>1. IInv => TypeOK
  BY DEF IInv
<1> QED BY <1>1, Invariance, PTL

(* A packet of a response never runs the callback of a query a second      *)
(* time: mysql_response ends a response once, and a packet that no query   *)
(* waits for runs no callback.                                             *)
THEOREM AnsweredOnce == Spec => []AnsweredAtMostOnce
<1>1. IInv => AnsweredAtMostOnce
  BY DEF IInv, QueryInv
<1> QED BY <1>1, Invariance, PTL

(* The handlers of a connection find the client they belong to, and the    *)
(* PHP object: connect(), close(), the callbacks and mysql_client_free     *)
(* never leave a live connection behind without them.                      *)
THEOREM HandlersAreSafe == Spec => []HandlersFindTheirClient
<1>1. IInv => HandlersFindTheirClient
  BY DEF IInv, ConnInv
<1> QED BY <1>1, Invariance, PTL

(* The property "connected", which lets query() through, is true only      *)
(* while the connection of the client is established.                      *)
THEOREM ConnectedIsTrue == Spec => []ConnectedIsEstablished
<1>1. IInv => ConnectedIsEstablished
  BY DEF IInv, ConnInv
<1> QED BY <1>1, Invariance, PTL

(* The callback of a query that was sent and can still be answered stays   *)
(* registered, and mysql_query refuses others until it ran.                *)
THEOREM NoQueryIsLost == Spec => []NoQueryIsForgotten
<1>1. IInv => NoQueryIsForgotten
  BY DEF IInv, QueryInv
<1> QED BY <1>1, Invariance, PTL

(* A response runs the callback of the query that it answers: while the    *)
(* script reconnects, closes and queries in its callbacks and the server   *)
(* answers late, the packets at the head of the connection are of the      *)
(* query that swoole_mysql_onResponse takes the callback of.               *)
THEOREM ResponsesMeetTheirQuery == Spec => ResponseMatchesQuery
<1> DEFINE Meets == \A g \in Conns, q \in Queries :
                       wire'[g] # wire[g] /\ answers'[q] # answers[q]
                          => Head(wire[g]).query = q
           I == IInv /\ WireInv /\ BufferInv
<1>1. I /\ [Next]_vars => [Meets]_vars
  BY AnswerMatches
<1>2. Spec => []I
  BY WireInvariance
<1>3. ResponseMatchesQuery <=> [][Meets]_vars
  BY DEF ResponseMatchesQuery
<1> HIDE DEF I, Meets
<1> QED BY <1>1, <1>2, <1>3, PTL DEF Spec

(* Where packets arrive whole, the script keeps one connection and the     *)
(* server closes none on a COMMIT, the flag that begin(), commit() and     *)
(* rollback() look at is the transaction the server is in: it changes with *)
(* the answer, and no answer is lost.                                      *)
THEOREM TransactionsAgree ==
    ASSUME Polite
    PROVE  Spec => []TransactionIsServers
<1> DEFINE I == IInv /\ WireInv /\ BufferInv
           J == AuthInv /\ TxInv
<1>1. Spec => []I
  BY WireInvariance
<1>2. Init => J
  BY InitMore
<1>3. I /\ J /\ [Next]_vars => J'
  BY AuthNext, TxNext DEF Polite
<1>4. I /\ J => TransactionIsServers
  BY TxAgrees
<1> HIDE DEF I, J
<1> QED BY <1>1, <1>2, <1>3, <1>4, PTL DEF Spec

(* Where packets arrive whole, the callback of connect() runs once, with   *)
(* OpenSSL or without: after swoole_mysql_onHandShake told the script, no  *)
(* later packet brings the handshake to its end again.                     *)
THEOREM ConnectTellsOnce ==
    ASSUME "split" \notin Env
    PROVE  Spec => []ConnectIsToldOnce
<1> DEFINE I == IInv /\ WireInv /\ BufferInv
<1>1. Spec => []I
  BY WireInvariance
<1>2. Init => ToldInv
  <2> SUFFICES ASSUME Init PROVE ToldInv
    OBVIOUS
  <2>1. \A g \in Conns : told[g] = <<>> /\ conn[g] = "none"
    BY DEF Init
  <2>2. Len(<<>>) <= 1
    OBVIOUS
  <2> QED BY <2>1, <2>2 DEF ToldInv
<1>3. I /\ ToldInv /\ [Next]_vars => ToldInv'
  BY ToldNext
<1>4. ToldInv => ConnectIsToldOnce
  BY DEF ToldInv, ConnectIsToldOnce
<1> HIDE DEF I
<1> QED BY <1>1, <1>2, <1>3, <1>4, PTL DEF Spec
=============================================================================

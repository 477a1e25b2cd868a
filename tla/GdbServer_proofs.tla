--------------------------- MODULE GdbServer_proofs ---------------------------
(***************************************************************************)
(* The session of the GDB server and the registers it works on, for every  *)
(* set of commands and requests and every number of them: a client that    *)
(* waits for its replies takes each for the command it answers, the copies *)
(* of the registers agree with the hypervisor's, and what the client was   *)
(* told was written is what the processor runs with, if it sent no later   *)
(* write that was refused half-way.                                        *)
(***************************************************************************)
EXTENDS GdbServer, TLAPS

IsSeq(s) == \E X : s \in Seq(X)

\* Packets on their way: commands, and the replies to them.  Number 0 is the
\* signal that opens the session.
PacketsIn(s)   == {i \in DOMAIN s : s[i].t = "$"}
AnswersIn(s)   == {i \in PacketsIn(s) : s[i].id # 0}
GreetingsIn(s) == {i \in PacketsIn(s) : s[i].id = 0}
AtMostOne(I)   == \A i, j \in I : i = j
AnswersAre(s, n) == \A i \in AnswersIn(s) : s[i].id = n

Busy == server.pc \in {"reading", "writing"}

Shapes ==
    /\ DOMAIN client = {"pc", "asked", "command", "told", "timeouts"}
    /\ DOMAIN server = {"pc", "regs", "job", "restored"}
    /\ DOMAIN server.job = {"id", "at", "done", "bytes"}
    /\ client.pc \in {"away", "ready", "sent", "waits", "gone"}
    /\ client.asked \in Nat /\ client.timeouts = 0
    /\ IsSeq(toServer) /\ IsSeq(toClient) /\ IsSeq(client.told)

\* The server never asks for a packet again.
OnlyReplies(s) == \A i \in DOMAIN s : s[i].t \in {"+", "$"}
NoNack == OnlyReplies(toClient)

\* The signal is sent into an empty stream, and read before what follows it.
GreetingInv ==
    /\ server.pc = "accept" => toClient = <<>> /\ client.pc # "waits"
    /\ \A i \in GreetingsIn(toClient) : i = 1
    /\ client.pc = "waits" => GreetingsIn(toClient) = {}
    /\ Gone => toClient = <<>>

\* A command is in one place: on its way, being carried out, or answered.
OnePlace ==
    /\ AtMostOne(PacketsIn(toServer)) /\ AtMostOne(AnswersIn(toClient))
    /\ PacketsIn(toServer) # {} => ~Busy /\ AnswersIn(toClient) = {}
    /\ Busy => AnswersIn(toClient) = {}
    /\ client.pc \in {"away", "ready"} =>
          PacketsIn(toServer) = {} /\ ~Busy /\ AnswersIn(toClient) = {}

\* ... and it is the last one the client sent.
Numbers ==
    /\ client.pc \in {"sent", "waits"} => client.asked # 0
    /\ \A i \in PacketsIn(toServer) : toServer[i].id = client.asked
    /\ AnswersAre(toClient, client.asked)
    /\ Busy => server.job.id = client.asked

\* The copy with the registers of a P or a G.
Given(regs, c) == [r \in SessionRegs |-> IF r \in DOMAIN c.values THEN c.values[r] ELSE regs[r]]

SessionInv == Shapes /\ NoNack /\ GreetingInv /\ OnePlace /\ Numbers /\ RepliesMatch
-----------------------------------------------------------------------------
(* Streams.                                                                *)

LEMMA SeqFacts == ASSUME NEW s, IsSeq(s)
                  PROVE  Len(s) \in Nat /\ DOMAIN s = 1 .. Len(s)
BY DEF IsSeq

LEMMA ShortSeqs ==
  ASSUME NEW a, NEW b
  PROVE  /\ IsSeq(<<a>>) /\ DOMAIN <<a>> = 1 .. 1 /\ <<a>>[1] = a
         /\ IsSeq(<<a, b>>) /\ DOMAIN <<a, b>> = 1 .. 2
         /\ <<a, b>>[1] = a /\ <<a, b>>[2] = b
<1>1. <<a>> \in Seq({a}) /\ <<a, b>> \in Seq({a, b})
  OBVIOUS
<1>2. DOMAIN <<a>> = 1 .. 1 /\ DOMAIN <<a, b>> = 1 .. 2
  OBVIOUS
<1>3. <<a>>[1] = a /\ <<a, b>>[1] = a /\ <<a, b>>[2] = b
  OBVIOUS
<1> QED
  BY <1>1, <1>2, <1>3 DEF IsSeq

LEMMA AppendFacts ==
  ASSUME NEW s, IsSeq(s), NEW e
  PROVE  /\ IsSeq(Append(s, e)) /\ DOMAIN Append(s, e) = 1 .. Len(s) + 1
         /\ Append(s, e)[Len(s) + 1] = e
         /\ \A i \in 1 .. Len(s) : Append(s, e)[i] = s[i]
<1>1. PICK X : s \in Seq(X)
  BY DEF IsSeq
<1>2. s \in Seq(X \cup {e}) /\ e \in X \cup {e}
  BY <1>1
<1>3. Append(s, e) \in Seq(X \cup {e})
  BY <1>2
<1> QED
  BY <1>1, <1>2, <1>3 DEF IsSeq

LEMMA TailFacts ==
  ASSUME NEW s, IsSeq(s), s # <<>>
  PROVE  /\ IsSeq(Tail(s)) /\ DOMAIN Tail(s) = 1 .. Len(s) - 1 /\ Head(s) = s[1]
         /\ Len(s) \in Nat \ {0} /\ DOMAIN s = 1 .. Len(s)
         /\ \A i \in 1 .. Len(s) - 1 : Tail(s)[i] = s[i + 1]
<1>1. PICK X : s \in Seq(X)
  BY DEF IsSeq
<1>2. Len(s) \in Nat \ {0} /\ DOMAIN s = 1 .. Len(s) /\ Head(s) = s[1]
  BY <1>1
<1>3. Tail(s) \in Seq(X) /\ Len(Tail(s)) = Len(s) - 1
  BY <1>1
<1>4. \A i \in 1 .. Len(s) - 1 : Tail(s)[i] = s[i + 1]
  BY <1>1
<1> QED
  BY <1>2, <1>3, <1>4 DEF IsSeq

LEMMA JoinFacts ==
  ASSUME NEW s, IsSeq(s), NEW t, IsSeq(t)
  PROVE  /\ IsSeq(s \o t) /\ DOMAIN (s \o t) = 1 .. Len(s) + Len(t)
         /\ \A i \in 1 .. Len(s) : (s \o t)[i] = s[i]
         /\ \A i \in 1 .. Len(t) : (s \o t)[Len(s) + i] = t[i]
<1>1. PICK X : s \in Seq(X)
  BY DEF IsSeq
<1>2. PICK Y : t \in Seq(Y)
  BY DEF IsSeq
<1>3. s \in Seq(X \cup Y) /\ t \in Seq(X \cup Y)
  BY <1>1, <1>2
<1>4. s \o t \in Seq(X \cup Y) /\ Len(s \o t) = Len(s) + Len(t)
  BY <1>3
<1>5. \A i \in 1 .. Len(s) : (s \o t)[i] = s[i]
  BY <1>3
<1>6. \A i \in 1 .. Len(t) : (s \o t)[Len(s) + i] = t[i]
  BY <1>3
<1> QED
  BY <1>4, <1>5, <1>6 DEF IsSeq

\* An acknowledgement is no packet.
LEMMA AckAppended ==
  ASSUME NEW s, IsSeq(s)
  PROVE  LET r == Append(s, Ack)
         IN  IsSeq(r) /\ PacketsIn(r) = PacketsIn(s) /\ \A i \in PacketsIn(r) : r[i] = s[i]
<1> DEFINE r == Append(s, Ack)
<1>1. /\ IsSeq(r) /\ DOMAIN r = 1 .. Len(s) + 1 /\ r[Len(s) + 1] = Ack
      /\ \A i \in 1 .. Len(s) : r[i] = s[i]
  BY AppendFacts
<1>2. Len(s) \in Nat /\ DOMAIN s = 1 .. Len(s)
  BY SeqFacts
<1> HIDE DEF r
<1>3. Ack.t # "$"
  BY DEF Ack
<1>4. \A i \in 1 .. Len(s) + 1 : i \in 1 .. Len(s) \/ i = Len(s) + 1
  BY <1>2
<1>5. PacketsIn(r) = PacketsIn(s)
  BY <1>1, <1>2, <1>3, <1>4 DEF PacketsIn
<1> QED
  BY <1>1, <1>2, <1>5 DEF PacketsIn, r

\* A command goes to a server that has none.
LEMMA PacketAppended ==
  ASSUME NEW s, IsSeq(s), PacketsIn(s) = {}, NEW id, NEW body
  PROVE  LET r == Append(s, Packet(id, body))
         IN  /\ IsSeq(r) /\ AtMostOne(PacketsIn(r))
             /\ \A i \in PacketsIn(r) : r[i].id = id
<1> DEFINE p == Packet(id, body)
           r == Append(s, p)
<1>1. /\ IsSeq(r) /\ DOMAIN r = 1 .. Len(s) + 1 /\ r[Len(s) + 1] = p
      /\ \A i \in 1 .. Len(s) : r[i] = s[i]
  BY AppendFacts
<1>2. Len(s) \in Nat /\ DOMAIN s = 1 .. Len(s)
  BY SeqFacts
<1>3. p.id = id
  BY DEF Packet
<1> HIDE DEF r, p
<1>4. \A i \in 1 .. Len(s) + 1 : i \in 1 .. Len(s) \/ i = Len(s) + 1
  BY <1>2
<1>5. \A i \in PacketsIn(r) : i = Len(s) + 1
  BY <1>1, <1>2, <1>4 DEF PacketsIn
<1> QED
  BY <1>1, <1>3, <1>5 DEF AtMostOne, r, p

\* What is left when the oldest was taken.
LEMMA Taken ==
  ASSUME NEW s, IsSeq(s), s # <<>>
  PROVE  LET r == Tail(s)
         IN  /\ IsSeq(r)
             /\ \A i \in DOMAIN r : i + 1 \in DOMAIN s /\ i + 1 # 1 /\ r[i] = s[i + 1]
             /\ \A i \in PacketsIn(r) : i + 1 \in PacketsIn(s) /\ i + 1 # 1
             /\ \A i \in AnswersIn(r) : i + 1 \in AnswersIn(s) /\ i + 1 # 1
             /\ \A i \in GreetingsIn(r) : i + 1 \in GreetingsIn(s) /\ i + 1 # 1
             /\ DOMAIN r \subseteq Nat
<1> DEFINE r == Tail(s)
<1>1. /\ IsSeq(r) /\ DOMAIN r = 1 .. Len(s) - 1 /\ Len(s) \in Nat \ {0}
      /\ DOMAIN s = 1 .. Len(s) /\ \A i \in 1 .. Len(s) - 1 : r[i] = s[i + 1]
  BY TailFacts
<1> HIDE DEF r
<1>2. \A i \in DOMAIN r : i + 1 \in DOMAIN s /\ i + 1 # 1 /\ r[i] = s[i + 1]
  BY <1>1
<1>3. DOMAIN r \subseteq Nat
  BY <1>1
<1> QED
  BY <1>1, <1>2, <1>3 DEF PacketsIn, AnswersIn, GreetingsIn, r

LEMMA OneTaken ==
  ASSUME NEW s, IsSeq(s), s # <<>>
  PROVE  /\ AtMostOne(PacketsIn(s)) => AtMostOne(PacketsIn(Tail(s)))
         /\ AtMostOne(AnswersIn(s)) => AtMostOne(AnswersIn(Tail(s)))
<1>1. \A i \in DOMAIN Tail(s) : i \in Nat
  BY Taken
<1>2. \A i, j \in Nat : i + 1 = j + 1 => i = j
  OBVIOUS
<1>3. PacketsIn(Tail(s)) \subseteq DOMAIN Tail(s) /\ AnswersIn(Tail(s)) \subseteq DOMAIN Tail(s)
  BY DEF PacketsIn, AnswersIn
<1> QED
  BY <1>1, <1>2, <1>3, Taken DEF AtMostOne

\* What the server sends goes after what is on its way.
LEMMA Sent ==
  ASSUME NEW s, IsSeq(s), NEW t, IsSeq(t)
  PROVE  LET r == s \o t
         IN  /\ IsSeq(r) /\ Len(s) \in Nat /\ DOMAIN s \subseteq Nat /\ DOMAIN r \subseteq Nat
             /\ \A i \in DOMAIN s : i \in DOMAIN r /\ r[i] = s[i]
             /\ \A i \in DOMAIN r : \/ i \in DOMAIN s /\ r[i] = s[i]
                                    \/ i - Len(s) \in DOMAIN t /\ r[i] = t[i - Len(s)]
<1> DEFINE r == s \o t
<1>1. /\ IsSeq(r) /\ DOMAIN r = 1 .. Len(s) + Len(t)
      /\ \A i \in 1 .. Len(s) : r[i] = s[i]
      /\ \A i \in 1 .. Len(t) : r[Len(s) + i] = t[i]
  BY JoinFacts
<1>2. /\ Len(s) \in Nat /\ Len(t) \in Nat /\ DOMAIN s = 1 .. Len(s) /\ DOMAIN t = 1 .. Len(t)
  BY SeqFacts
<1> HIDE DEF r
<1>3. \A i \in DOMAIN s : i \in DOMAIN r /\ r[i] = s[i]
  BY <1>1, <1>2
<1>4. ASSUME NEW i \in DOMAIN r, i \notin DOMAIN s
      PROVE  i - Len(s) \in DOMAIN t /\ r[i] = t[i - Len(s)]
  <2>1. i - Len(s) \in 1 .. Len(t) /\ Len(s) + (i - Len(s)) = i
    BY <1>1, <1>2, <1>4
  <2> QED
    BY <1>1, <1>2, <2>1
<1>5. DOMAIN s \subseteq Nat /\ DOMAIN r \subseteq Nat
  BY <1>1, <1>2
<1> QED
  BY <1>1, <1>2, <1>3, <1>4, <1>5 DEF r

LEMMA AckSent ==
  ASSUME NEW s, IsSeq(s)
  PROVE  LET r == s \o <<Ack>>
         IN  /\ IsSeq(r) /\ PacketsIn(r) = PacketsIn(s) /\ \A i \in PacketsIn(s) : r[i] = s[i]
             /\ \A i \in DOMAIN r : r[i] = Ack \/ (i \in DOMAIN s /\ r[i] = s[i])
<1> DEFINE t == <<Ack>>
           r == s \o t
<1>1. IsSeq(t) /\ \A i \in DOMAIN t : t[i] = Ack
  <2>1. IsSeq(t) /\ DOMAIN t = 1 .. 1 /\ t[1] = Ack
    BY ShortSeqs
  <2> HIDE DEF t
  <2> QED
    BY <2>1
<1> HIDE DEF t
<1>2. /\ IsSeq(r) /\ \A i \in DOMAIN s : i \in DOMAIN r /\ r[i] = s[i]
      /\ \A i \in DOMAIN r : \/ i \in DOMAIN s /\ r[i] = s[i]
                             \/ i - Len(s) \in DOMAIN t /\ r[i] = t[i - Len(s)]
  BY <1>1, Sent
<1> HIDE DEF r
<1>3. \A i \in DOMAIN r : r[i] = Ack \/ (i \in DOMAIN s /\ r[i] = s[i])
  BY <1>1, <1>2
<1>4. Ack.t # "$"
  BY DEF Ack
<1>5. PacketsIn(r) = PacketsIn(s) /\ \A i \in PacketsIn(s) : r[i] = s[i]
  BY <1>2, <1>3, <1>4 DEF PacketsIn
<1> QED
  BY <1>2, <1>3, <1>5 DEF r, t

\* The reply, with the acknowledgement of the command or without it.
IsReply(t, id) == \E body : t = <<Ack, Packet(id, body)>> \/ t = <<Packet(id, body)>>

LEMMA AnswerSent ==
  ASSUME NEW s, IsSeq(s), AnswersIn(s) = {}, NEW id, id # 0, NEW t, IsReply(t, id),
         NEW r, r = s \o t
  PROVE  /\ IsSeq(r) /\ GreetingsIn(r) = GreetingsIn(s) /\ AtMostOne(AnswersIn(r))
         /\ AnswersAre(r, id)
         /\ OnlyReplies(s) => OnlyReplies(r)
<1>0. PICK body : t = <<Ack, Packet(id, body)>> \/ t = <<Packet(id, body)>>
  BY DEF IsReply
<1> DEFINE p == Packet(id, body)
<1>1. p.t = "$" /\ p.id = id /\ Ack.t = "+"
  BY DEF Packet, Ack
<1> HIDE DEF p
<1>2. PICK n \in Nat : /\ IsSeq(t) /\ DOMAIN t \subseteq Nat
                       /\ \A i \in DOMAIN t : (i = n /\ t[i] = p) \/ (i # n /\ t[i] = Ack)
  <2>1. CASE t = <<Ack, p>>
    <3>1. IsSeq(t) /\ DOMAIN t = 1 .. 2 /\ t[1] = Ack /\ t[2] = p
      BY <2>1, ShortSeqs
    <3>2. \A i \in DOMAIN t : (i = 2 /\ t[i] = p) \/ (i # 2 /\ t[i] = Ack)
      BY <3>1
    <3> QED
      BY <3>1, <3>2
  <2>2. CASE t = <<p>>
    <3>1. IsSeq(t) /\ DOMAIN t = 1 .. 1 /\ t[1] = p
      BY <2>2, ShortSeqs
    <3>2. \A i \in DOMAIN t : i = 1 /\ t[i] = p
      BY <3>1
    <3> QED
      BY <3>1, <3>2
  <2> QED
    BY <1>0, <2>1, <2>2 DEF p
<1>3. /\ IsSeq(r) /\ Len(s) \in Nat /\ DOMAIN s \subseteq Nat /\ DOMAIN r \subseteq Nat
      /\ \A i \in DOMAIN s : i \in DOMAIN r /\ r[i] = s[i]
      /\ \A i \in DOMAIN r : \/ i \in DOMAIN s /\ r[i] = s[i]
                             \/ i - Len(s) \in DOMAIN t /\ r[i] = t[i - Len(s)]
  <2> DEFINE a == s \o t
  <2>1. /\ IsSeq(a) /\ Len(s) \in Nat /\ DOMAIN s \subseteq Nat /\ DOMAIN a \subseteq Nat
        /\ \A i \in DOMAIN s : i \in DOMAIN a /\ a[i] = s[i]
        /\ \A i \in DOMAIN a : \/ i \in DOMAIN s /\ a[i] = s[i]
                               \/ i - Len(s) \in DOMAIN t /\ a[i] = t[i - Len(s)]
    BY <1>2, Sent
  <2>2. r = a
    OBVIOUS
  <2> HIDE DEF a
  <2> QED
    BY <2>1, <2>2
<1>4. \A i \in DOMAIN r : \/ i \in DOMAIN s /\ r[i] = s[i]
                          \/ i - Len(s) = n /\ r[i] = p
                          \/ r[i] = Ack
  BY <1>2, <1>3
<1>5. \A i \in AnswersIn(r) : i \in Nat /\ i - Len(s) = n /\ r[i] = p
  BY <1>1, <1>3, <1>4 DEF AnswersIn, PacketsIn
<1>6. \A i, j \in Nat : i - Len(s) = n /\ j - Len(s) = n => i = j
  BY <1>3
<1>7. AtMostOne(AnswersIn(r)) /\ AnswersAre(r, id)
  BY <1>1, <1>5, <1>6 DEF AtMostOne, AnswersAre
<1>8. GreetingsIn(r) = GreetingsIn(s)
  BY <1>1, <1>3, <1>4 DEF GreetingsIn, PacketsIn
<1>9. OnlyReplies(s) => OnlyReplies(r)
  BY <1>1, <1>4 DEF OnlyReplies
<1> QED
  BY <1>3, <1>7, <1>8, <1>9

LEMMA GreetingSent ==
  ASSUME NEW s, s = <<>>, NEW body
  PROVE  LET r == s \o <<Packet(0, body)>>
         IN  /\ IsSeq(r) /\ AnswersIn(r) = {} /\ \A i \in GreetingsIn(r) : i = 1
             /\ OnlyReplies(r)
<1> DEFINE p == Packet(0, body)
           r == s \o <<p>>
<1>1. p.t = "$" /\ p.id = 0
  BY DEF Packet
<1> HIDE DEF p
<1>2. IsSeq(<<p>>) /\ DOMAIN <<p>> = 1 .. 1 /\ <<p>>[1] = p
  BY ShortSeqs
<1>3. s \o <<p>> = <<p>>
  <2>1. <<p>> \in Seq({p}) /\ s \in Seq({p})
    OBVIOUS
  <2> QED
    BY <2>1
<1>4. DOMAIN r = 1 .. 1 /\ r[1] = p /\ IsSeq(r)
  BY <1>2, <1>3
<1> HIDE DEF r
<1>5. \A i \in DOMAIN r : i = 1 /\ r[i] = p
  BY <1>4
<1> QED
  BY <1>1, <1>4, <1>5 DEF AnswersIn, GreetingsIn, PacketsIn, OnlyReplies, r, p
-----------------------------------------------------------------------------
(* The client.                                                             *)

LEMMA ConnectStep ==
  ASSUME SessionInv, Connect, UNCHANGED server
  PROVE  SessionInv'
<1> USE DEF SessionInv
<1>1. /\ client.pc = "away" /\ client' = [client EXCEPT !.pc = "ready"]
      /\ toServer' = <<Ack>> /\ UNCHANGED <<toClient, server>>
  BY DEF Connect
<1>2. /\ client'.pc = "ready" /\ client'.asked = client.asked /\ client'.told = client.told
      /\ client'.timeouts = client.timeouts /\ DOMAIN client' = DOMAIN client
  BY <1>1 DEF Shapes
<1>3. IsSeq(toServer') /\ PacketsIn(toServer') = {}
  <2>1. IsSeq(toServer') /\ DOMAIN toServer' = 1 .. 1 /\ toServer'[1] = Ack
    BY <1>1, ShortSeqs
  <2> QED
    BY <2>1 DEF PacketsIn, Ack
<1>4. Shapes' /\ NoNack'
  BY <1>1, <1>2, <1>3 DEF Shapes, NoNack
<1>5. GreetingInv'
  BY <1>1, <1>2 DEF GreetingInv, Gone
<1>6. OnePlace' /\ Numbers'
  BY <1>1, <1>2, <1>3 DEF OnePlace, Numbers, Busy, AtMostOne
<1>7. RepliesMatch'
  BY <1>2 DEF RepliesMatch
<1> QED
  BY <1>4, <1>5, <1>6, <1>7

LEMMA AskStep ==
  ASSUME SessionInv, Ask, UNCHANGED server
  PROVE  SessionInv'
<1> USE DEF SessionInv
<1>1. PICK c \in Commands :
         /\ client.pc = "ready" /\ UNCHANGED <<toClient, server>>
         /\ client' = [client EXCEPT !.pc = "sent", !.asked = client.asked + 1, !.command = c]
         /\ toServer' = Append(toServer, Packet(client.asked + 1, c))
  BY DEF Ask
<1>2. /\ client'.pc = "sent" /\ client'.asked = client.asked + 1 /\ client'.told = client.told
      /\ client'.timeouts = client.timeouts /\ DOMAIN client' = DOMAIN client
  BY <1>1 DEF Shapes
<1>3. client'.asked \in Nat /\ client'.asked # 0
  BY <1>2 DEF Shapes
<1>4. PacketsIn(toServer) = {} /\ ~Busy /\ AnswersIn(toClient) = {} /\ IsSeq(toServer)
  BY <1>1 DEF OnePlace, Shapes
<1>5. /\ IsSeq(toServer') /\ AtMostOne(PacketsIn(toServer'))
      /\ \A i \in PacketsIn(toServer') : toServer'[i].id = client'.asked
  <2> DEFINE n == client.asked + 1
  <2>1. toServer' = Append(toServer, Packet(n, c)) /\ client'.asked = n
    BY <1>1, <1>2
  <2> HIDE DEF n
  <2>2. LET r == Append(toServer, Packet(n, c))
        IN  /\ IsSeq(r) /\ AtMostOne(PacketsIn(r))
            /\ \A i \in PacketsIn(r) : r[i].id = n
    BY <1>4, PacketAppended
  <2> QED
    BY <2>1, <2>2
<1>6. Shapes' /\ NoNack'
  BY <1>1, <1>2, <1>3, <1>5 DEF Shapes, NoNack
<1>7. GreetingInv'
  BY <1>1, <1>2 DEF GreetingInv, Gone
<1>8. OnePlace'
  BY <1>1, <1>2, <1>4, <1>5 DEF OnePlace, Busy
<1>9. Numbers'
  <2>1. AnswersIn(toClient') = {} /\ ~(server'.pc \in {"reading", "writing"})
    BY <1>1, <1>4 DEF Busy
  <2> QED
    BY <1>3, <1>5, <2>1 DEF Numbers, Busy, AnswersAre
<1>10. RepliesMatch'
  BY <1>2 DEF RepliesMatch
<1> QED
  BY <1>6, <1>7, <1>8, <1>9, <1>10

\* What the client takes from the stream leaves the invariants of the rest.
LEMMA ClientTakes ==
  ASSUME SessionInv, toClient # <<>>, toClient' = Tail(toClient)
  PROVE  /\ IsSeq(toClient') /\ NoNack' /\ GreetingsIn(toClient') = {}
         /\ AtMostOne(AnswersIn(toClient'))
         /\ AnswersIn(toClient) = {} => AnswersIn(toClient') = {}
         /\ AnswersAre(toClient', client.asked)
         /\ Head(toClient) = toClient[1] /\ 1 \in DOMAIN toClient
<1> USE DEF SessionInv
<1>1. IsSeq(toClient)
  BY DEF Shapes
<1>2. /\ IsSeq(toClient')
      /\ \A i \in DOMAIN toClient' : i + 1 \in DOMAIN toClient /\ i + 1 # 1
                                     /\ toClient'[i] = toClient[i + 1]
      /\ \A i \in PacketsIn(toClient') : i + 1 \in PacketsIn(toClient) /\ i + 1 # 1
      /\ \A i \in AnswersIn(toClient') : i + 1 \in AnswersIn(toClient) /\ i + 1 # 1
      /\ \A i \in GreetingsIn(toClient') : i + 1 \in GreetingsIn(toClient) /\ i + 1 # 1
  BY <1>1, Taken
<1>3. NoNack'
  BY <1>2 DEF NoNack, OnlyReplies
<1>4. GreetingsIn(toClient') = {}
  BY <1>2 DEF GreetingInv
<1>5. AtMostOne(AnswersIn(toClient'))
  BY <1>1, OneTaken DEF OnePlace
<1>6. AnswersIn(toClient) = {} => AnswersIn(toClient') = {}
  BY <1>2
<1>7. AnswersAre(toClient', client.asked)
  BY <1>2 DEF Numbers, AnswersIn, PacketsIn, AnswersAre
<1>8. Head(toClient) = toClient[1] /\ 1 \in DOMAIN toClient
  BY <1>1, TailFacts
<1> QED
  BY <1>2, <1>3, <1>4, <1>5, <1>6, <1>7, <1>8

\* The client reads an acknowledgement, or drops and acknowledges an old packet.
LEMMA ReadAckStep ==
  ASSUME SessionInv, ReadAck, UNCHANGED server
  PROVE  SessionInv'
<1> USE DEF SessionInv
<1>1. client.pc = "sent" /\ toClient # <<>> /\ toClient' = Tail(toClient) /\ UNCHANGED server
  BY DEF ReadAck
<1>2. /\ IsSeq(toClient') /\ NoNack' /\ GreetingsIn(toClient') = {}
      /\ AtMostOne(AnswersIn(toClient'))
      /\ AnswersIn(toClient) = {} => AnswersIn(toClient') = {}
      /\ AnswersAre(toClient', client.asked)
      /\ Head(toClient) = toClient[1] /\ 1 \in DOMAIN toClient
  BY <1>1, ClientTakes
<1>3. Head(toClient) # Nack
  BY <1>2 DEF NoNack, Nack, OnlyReplies
<1>4. server.pc # "accept"
  BY <1>1 DEF GreetingInv
<1>5. CASE Head(toClient) = Ack /\ client' = [client EXCEPT !.pc = "waits"] /\ UNCHANGED toServer
  <2>1. /\ client'.pc = "waits" /\ client'.asked = client.asked /\ client'.told = client.told
        /\ client'.timeouts = client.timeouts /\ DOMAIN client' = DOMAIN client
    BY <1>5 DEF Shapes
  <2>2. Shapes'
    BY <1>1, <1>2, <1>5, <2>1 DEF Shapes
  <2>3. GreetingInv'
    BY <1>1, <1>2, <1>4, <2>1 DEF GreetingInv, Gone
  <2>4. OnePlace'
    BY <1>1, <1>2, <1>5, <2>1 DEF OnePlace, Busy
  <2>5. Numbers'
    BY <1>1, <1>2, <1>5, <2>1 DEF Numbers, Busy
  <2>6. RepliesMatch'
    BY <2>1 DEF RepliesMatch
  <2> QED
    BY <1>2, <2>2, <2>3, <2>4, <2>5, <2>6
<1>6. CASE Head(toClient).t = "$" /\ toServer' = Append(toServer, Ack) /\ UNCHANGED client
  <2>1. /\ IsSeq(toServer') /\ PacketsIn(toServer') = PacketsIn(toServer)
        /\ \A i \in PacketsIn(toServer') : toServer'[i] = toServer[i]
    BY <1>6, AckAppended DEF Shapes
  <2>2. Shapes'
    BY <1>1, <1>2, <1>6, <2>1 DEF Shapes
  <2>3. GreetingInv'
    BY <1>1, <1>2, <1>4, <1>6 DEF GreetingInv, Gone
  <2>4. OnePlace'
    BY <1>1, <1>2, <1>6, <2>1 DEF OnePlace, Busy
  <2>5. Numbers'
    BY <1>1, <1>2, <1>6, <2>1 DEF Numbers, Busy
  <2>6. RepliesMatch'
    BY <1>6 DEF RepliesMatch
  <2> QED
    BY <1>2, <2>2, <2>3, <2>4, <2>5, <2>6
<1> QED
  BY <1>3, <1>5, <1>6 DEF ReadAck

\* The reply that the client takes is the one of its command: the signal is no
\* longer in the stream, and nothing else is outstanding.
LEMMA ReadReplyStep ==
  ASSUME SessionInv, ReadReply, UNCHANGED server
  PROVE  SessionInv'
<1> USE DEF SessionInv
<1>1. client.pc = "waits" /\ toClient # <<>> /\ toClient' = Tail(toClient) /\ UNCHANGED server
  BY DEF ReadReply
<1>2. /\ IsSeq(toClient') /\ NoNack' /\ GreetingsIn(toClient') = {}
      /\ AtMostOne(AnswersIn(toClient'))
      /\ AnswersIn(toClient) = {} => AnswersIn(toClient') = {}
      /\ AnswersAre(toClient', client.asked)
      /\ Head(toClient) = toClient[1] /\ 1 \in DOMAIN toClient
  BY <1>1, ClientTakes
<1>3. server.pc # "accept"
  BY <1>1 DEF GreetingInv
<1> DEFINE told == [command |-> client.command, asked |-> client.asked,
                    id |-> Head(toClient).id, body |-> Head(toClient).body]
<1>4. CASE /\ Head(toClient).t = "$" /\ toServer' = Append(toServer, Ack)
           /\ client' = [client EXCEPT !.pc = "ready", !.told = Append(client.told, told)]
  <2>1. 1 \in AnswersIn(toClient) /\ toClient[1].id = client.asked
    <3>1. 1 \in PacketsIn(toClient)
      BY <1>2, <1>4 DEF PacketsIn
    <3>2. 1 \notin GreetingsIn(toClient)
      BY <1>1 DEF GreetingInv
    <3> QED
      BY <3>1, <3>2 DEF AnswersIn, GreetingsIn, Numbers, AnswersAre
  <2>2. told.id = told.asked
    BY <1>2, <2>1
  <2> HIDE DEF told
  <2>3. /\ client'.pc = "ready" /\ client'.asked = client.asked
        /\ client'.told = Append(client.told, told)
        /\ client'.timeouts = client.timeouts /\ DOMAIN client' = DOMAIN client
    BY <1>4 DEF Shapes
  <2>4. /\ IsSeq(toServer') /\ PacketsIn(toServer') = PacketsIn(toServer)
    BY <1>4, AckAppended DEF Shapes
  <2>5. PacketsIn(toServer') = {} /\ ~Busy
    BY <2>1, <2>4 DEF OnePlace
  <2>6. AnswersIn(toClient') = {}
    <3>1. \A i \in AnswersIn(toClient') : i + 1 \in AnswersIn(toClient) /\ i + 1 # 1
      BY <1>1, Taken DEF Shapes
    <3> QED
      BY <2>1, <3>1 DEF OnePlace, AtMostOne
  <2>7. /\ IsSeq(client.told) /\ IsSeq(client'.told)
        /\ DOMAIN client.told = 1 .. Len(client.told) /\ Len(client.told) \in Nat
        /\ DOMAIN client'.told = 1 .. Len(client.told) + 1
        /\ client'.told[Len(client.told) + 1] = told
        /\ \A i \in 1 .. Len(client.told) : client'.told[i] = client.told[i]
    BY <2>3, AppendFacts, SeqFacts DEF Shapes
  <2>8. Shapes'
    BY <1>1, <1>2, <2>3, <2>4, <2>7 DEF Shapes
  <2>9. GreetingInv'
    BY <1>1, <1>2, <1>3, <2>3 DEF GreetingInv, Gone
  <2>10. OnePlace'
    BY <1>1, <2>3, <2>5, <2>6 DEF OnePlace, Busy, AtMostOne
  <2>11. Numbers'
    BY <1>1, <2>3, <2>5, <2>6 DEF Numbers, Busy, AnswersAre
  <2>12. RepliesMatch'
    <3>1. \A i \in 1 .. Len(client.told) + 1 : i \in 1 .. Len(client.told) \/ i = Len(client.told) + 1
      BY <2>7
    <3> QED
      BY <2>2, <2>7, <3>1 DEF RepliesMatch
  <2> QED
    BY <1>2, <2>8, <2>9, <2>10, <2>11, <2>12
<1>5. CASE Head(toClient).t # "$" /\ UNCHANGED <<client, toServer>>
  <2>1. Shapes'
    BY <1>1, <1>2, <1>5 DEF Shapes
  <2>2. GreetingInv'
    BY <1>1, <1>2, <1>3, <1>5 DEF GreetingInv, Gone
  <2>3. OnePlace'
    BY <1>1, <1>2, <1>5 DEF OnePlace, Busy
  <2>4. Numbers'
    BY <1>1, <1>2, <1>5 DEF Numbers, Busy
  <2>5. RepliesMatch'
    BY <1>5 DEF RepliesMatch
  <2> QED
    BY <1>2, <2>1, <2>2, <2>3, <2>4, <2>5
<1> QED
  BY <1>4, <1>5 DEF ReadReply

LEMMA LeaveStep ==
  ASSUME SessionInv, Leave, UNCHANGED server
  PROVE  SessionInv'
<1> USE DEF SessionInv
<1>1. /\ client' = [client EXCEPT !.pc = "gone"] /\ toClient' = <<>>
      /\ UNCHANGED <<toServer, server>>
  BY DEF Leave
<1>2. /\ client'.pc = "gone" /\ client'.asked = client.asked /\ client'.told = client.told
      /\ client'.timeouts = client.timeouts /\ DOMAIN client' = DOMAIN client
  BY <1>1 DEF Shapes
<1>3. IsSeq(toClient') /\ DOMAIN toClient' = {}
  <2>1. toClient' \in Seq({})
    BY <1>1
  <2> QED
    BY <1>1, <2>1 DEF IsSeq
<1>4. AnswersIn(toClient') = {} /\ GreetingsIn(toClient') = {}
  BY <1>3 DEF AnswersIn, GreetingsIn, PacketsIn
<1>5. Shapes' /\ NoNack'
  BY <1>1, <1>2, <1>3 DEF Shapes, NoNack, OnlyReplies
<1>6. GreetingInv'
  BY <1>1, <1>2, <1>4 DEF GreetingInv, Gone
<1>7. OnePlace' /\ Numbers'
  BY <1>1, <1>2, <1>4 DEF OnePlace, Numbers, Busy, AtMostOne, AnswersAre
<1>8. RepliesMatch'
  BY <1>2 DEF RepliesMatch
<1> QED
  BY <1>5, <1>6, <1>7, <1>8

LEMMA ClientStepInv ==
  ASSUME SessionInv, MaxTimeouts = 0, ClientStep, UNCHANGED server
  PROVE  SessionInv'
<1>1. ~AskAgain
  BY DEF AskAgain, SessionInv, Shapes
<1> QED
  BY <1>1, ConnectStep, AskStep, ReadAckStep, ReadReplyStep, LeaveStep DEF ClientStep
-----------------------------------------------------------------------------
(* The server.                                                             *)

ServerShape(s) ==
    /\ DOMAIN s = {"pc", "regs", "job", "restored"}
    /\ DOMAIN s.job = {"id", "at", "done", "bytes"}

\* A step that sends nothing, and takes at most what is not for its job.
LEMMA ServerKeeps ==
  ASSUME SessionInv, UNCHANGED <<client, toClient>>, ServerShape(server'),
         server'.pc # "accept", Busy' => Busy /\ server'.job.id = server.job.id,
         IsSeq(toServer'), AtMostOne(PacketsIn(toServer')),
         PacketsIn(toServer') # {} => PacketsIn(toServer) # {},
         \A i \in PacketsIn(toServer') : toServer'[i].id = client.asked
  PROVE  SessionInv'
<1> USE DEF SessionInv
<1>1. Shapes' /\ NoNack'
  BY DEF Shapes, NoNack, ServerShape
<1>2. GreetingInv'
  BY DEF GreetingInv, Gone
<1>3. OnePlace'
  <2>1. AtMostOne(PacketsIn(toServer')) /\ AtMostOne(AnswersIn(toClient'))
    BY DEF OnePlace
  <2>2. PacketsIn(toServer') # {} => ~Busy' /\ AnswersIn(toClient') = {}
    BY DEF OnePlace
  <2>3. Busy' => AnswersIn(toClient') = {}
    BY DEF OnePlace
  <2>4. client'.pc \in {"away", "ready"} =>
           PacketsIn(toServer') = {} /\ ~Busy' /\ AnswersIn(toClient') = {}
    BY DEF OnePlace
  <2> QED
    BY <2>1, <2>2, <2>3, <2>4 DEF OnePlace
<1>4. Numbers'
  BY DEF Numbers
<1>5. RepliesMatch'
  BY DEF RepliesMatch
<1> QED
  BY <1>1, <1>2, <1>3, <1>4, <1>5

\* A step that sends, when the command has been taken: its acknowledgement, its
\* reply or both.
LEMMA ServerSends ==
  ASSUME SessionInv, UNCHANGED client, ServerShape(server'), server'.pc # "accept",
         client.pc \notin {"away", "ready"}, AnswersIn(toClient) = {},
         IsSeq(toServer'), PacketsIn(toServer') = {},
         NEW t, Send(t),
         \/ t = <<Ack>> /\ (Busy' => server'.job.id = client.asked)
         \/ IsReply(t, client.asked) /\ ~Busy'
  PROVE  SessionInv'
<1> USE DEF SessionInv
<1>1. IsSeq(toClient)
  BY DEF Shapes
<1>2. /\ IsSeq(toClient') /\ NoNack' /\ AtMostOne(AnswersIn(toClient'))
      /\ GreetingsIn(toClient') \subseteq GreetingsIn(toClient)
      /\ AnswersAre(toClient', client.asked)
      /\ Busy' => AnswersIn(toClient') = {}
  <2>1. CASE Gone
    <3>1. toClient' = <<>>
      BY <2>1 DEF Send
    <3>2. toClient = <<>>
      BY <2>1 DEF GreetingInv
    <3>3. toClient' = toClient
      BY <3>1, <3>2
    <3> QED
      BY <1>1, <3>3 DEF NoNack, AtMostOne, AnswersAre
  <2>2. CASE ~Gone /\ t = <<Ack>>
    <3>1. toClient' = toClient \o <<Ack>>
      BY <2>2 DEF Send
    <3>2. /\ IsSeq(toClient') /\ PacketsIn(toClient') = PacketsIn(toClient)
          /\ \A i \in PacketsIn(toClient) : toClient'[i] = toClient[i]
          /\ \A i \in DOMAIN toClient' :
                toClient'[i] = Ack \/ (i \in DOMAIN toClient /\ toClient'[i] = toClient[i])
      BY <1>1, <3>1, AckSent
    <3>3. NoNack'
      BY <3>2 DEF NoNack, Ack, OnlyReplies
    <3>4. AnswersIn(toClient') = {} /\ GreetingsIn(toClient') \subseteq GreetingsIn(toClient)
      BY <3>2 DEF AnswersIn, GreetingsIn
    <3> QED
      BY <3>2, <3>3, <3>4 DEF AtMostOne, AnswersAre
  <2>3. CASE ~Gone /\ t # <<Ack>>
    <3>1. client.asked # 0
      BY <2>3 DEF Numbers, Shapes, Gone
    <3>2. toClient' = toClient \o t
      BY <2>3 DEF Send
    <3>3. IsReply(t, client.asked)
      BY <2>3
    <3>4. ~Busy'
      BY <2>3
    <3>5. /\ IsSeq(toClient') /\ GreetingsIn(toClient') = GreetingsIn(toClient)
          /\ AtMostOne(AnswersIn(toClient'))
          /\ AnswersAre(toClient', client.asked)
          /\ OnlyReplies(toClient) => OnlyReplies(toClient')
      BY <1>1, <3>1, <3>2, <3>3, AnswerSent
    <3>6. NoNack'
      BY <3>5 DEF NoNack
    <3> QED
      BY <3>4, <3>5, <3>6
  <2> QED
    BY <2>1, <2>2, <2>3
<1>3. Shapes'
  BY <1>2 DEF Shapes, ServerShape
<1>4. GreetingInv'
  <2>1. Gone' => toClient' = <<>>
    BY DEF Send, Gone
  <2> QED
    BY <1>2, <2>1 DEF GreetingInv
<1>5. OnePlace'
  BY <1>2 DEF OnePlace, AtMostOne
<1>6. Numbers'
  <2>1. Busy' => server'.job.id = client.asked
    OBVIOUS
  <2> QED
    BY <1>2, <2>1 DEF Numbers
<1>7. RepliesMatch'
  BY DEF RepliesMatch
<1> QED
  BY <1>2, <1>3, <1>4, <1>5, <1>6, <1>7

LEMMA DebugStep ==
  ASSUME SessionInv, Debug, UNCHANGED client
  PROVE  SessionInv'
<1> USE DEF SessionInv
<1>1. /\ server.pc = "accept" /\ client.pc # "away" /\ UNCHANGED <<client, toServer>>
      /\ Send(<<Packet(0, "signal")>>) /\ server'.pc \in {"greeted", "over"}
      /\ ServerShape(server')
  <2>1. PICK sent \in SendOutcomes :
           \E regs : server' = [server EXCEPT !.pc = IF sent = "ok" THEN "greeted" ELSE "over",
                                              !.regs = regs]
    BY DEF Debug
  <2>2. server'.pc \in {"greeted", "over"} /\ ServerShape(server')
    BY <2>1 DEF Shapes, ServerShape
  <2> QED
    BY <2>2 DEF Debug
<1>2. toClient = <<>> /\ client.pc # "waits" /\ ~Busy
  BY <1>1 DEF GreetingInv, Busy
<1>3. /\ IsSeq(toClient') /\ AnswersIn(toClient') = {} /\ NoNack'
      /\ \A i \in GreetingsIn(toClient') : i = 1
  <2>1. CASE Gone
    <3>1. toClient' = toClient
      BY <1>1, <1>2, <2>1 DEF Send
    <3>2. DOMAIN toClient = {}
      BY <1>2
    <3> QED
      BY <3>1, <3>2 DEF Shapes, NoNack, GreetingInv, AnswersIn, PacketsIn
  <2>2. CASE ~Gone
    <3>1. toClient' = toClient \o <<Packet(0, "signal")>>
      BY <1>1, <2>2 DEF Send
    <3> QED
      BY <1>2, <3>1, GreetingSent DEF NoNack
  <2> QED
    BY <2>1, <2>2
<1>4. Shapes'
  BY <1>1, <1>3 DEF Shapes, ServerShape
<1>5. GreetingInv'
  <2>1. Gone' => toClient' = <<>>
    BY <1>1 DEF Send, Gone
  <2> QED
    BY <1>1, <1>2, <1>3, <2>1 DEF GreetingInv
<1>6. ~Busy'
  BY <1>1 DEF Busy
<1>7. OnePlace' /\ Numbers'
  BY <1>1, <1>3, <1>6 DEF OnePlace, Numbers, AnswersAre, AtMostOne
<1>8. RepliesMatch'
  BY <1>1 DEF RepliesMatch
<1> QED
  BY <1>3, <1>4, <1>5, <1>7, <1>8

\* What the server takes from the stream, and a packet whose first character it
\* took for an acknowledgement.
LEMMA ServerTakes ==
  ASSUME SessionInv, toServer # <<>>,
         toServer' = Tail(toServer) \/ toServer' = <<Headless>> \o Tail(toServer)
  PROVE  /\ IsSeq(toServer') /\ AtMostOne(PacketsIn(toServer'))
         /\ PacketsIn(toServer') # {} => PacketsIn(toServer) # {}
         /\ \A i \in PacketsIn(toServer') : toServer'[i].id = client.asked
         /\ Head(toServer) = toServer[1] /\ 1 \in DOMAIN toServer
         /\ 1 \in PacketsIn(toServer) => PacketsIn(Tail(toServer)) = {}
<1> USE DEF SessionInv
<1> DEFINE r == Tail(toServer)
<1>1. IsSeq(toServer)
  BY DEF Shapes
<1>2. /\ IsSeq(r) /\ DOMAIN r \subseteq Nat
      /\ \A i \in DOMAIN r : i + 1 \in DOMAIN toServer /\ i + 1 # 1 /\ r[i] = toServer[i + 1]
      /\ \A i \in PacketsIn(r) : i + 1 \in PacketsIn(toServer) /\ i + 1 # 1
  BY <1>1, Taken
<1>3. AtMostOne(PacketsIn(r))
  BY <1>1, OneTaken DEF OnePlace
<1>4. Head(toServer) = toServer[1] /\ 1 \in DOMAIN toServer
  BY <1>1, TailFacts
<1> HIDE DEF r
<1>5. \A i \in PacketsIn(r) : r[i].id = client.asked
  BY <1>2 DEF Numbers, PacketsIn
<1>6. 1 \in PacketsIn(toServer) => PacketsIn(r) = {}
  BY <1>2 DEF OnePlace, AtMostOne
<1>7. CASE toServer' = r
  BY <1>2, <1>3, <1>4, <1>5, <1>6, <1>7 DEF r
<1>8. CASE toServer' = <<Headless>> \o r
  <2> DEFINE t == <<Headless>>
  <2>1. IsSeq(t) /\ DOMAIN t = 1 .. 1 /\ t[1] = Headless
    BY ShortSeqs
  <2>2. \A i \in DOMAIN t : t[i] = Headless
    BY <2>1
  <2> HIDE DEF t
  <2>3. PICK n : /\ IsSeq(toServer') /\ n \in Nat /\ DOMAIN toServer' \subseteq Nat
                 /\ \A i \in DOMAIN toServer' : \/ i \in DOMAIN t /\ toServer'[i] = t[i]
                                                \/ i - n \in DOMAIN r /\ toServer'[i] = r[i - n]
    <3> DEFINE a == t \o r
    <3>1. /\ IsSeq(a) /\ Len(t) \in Nat /\ DOMAIN a \subseteq Nat
          /\ \A i \in DOMAIN a : \/ i \in DOMAIN t /\ a[i] = t[i]
                                 \/ i - Len(t) \in DOMAIN r /\ a[i] = r[i - Len(t)]
      BY <1>2, <2>1, Sent
    <3>2. toServer' = a
      BY <1>8 DEF t
    <3> HIDE DEF a
    <3> QED
      BY <3>1, <3>2
  <2>4. \A i \in PacketsIn(toServer') : /\ i \in Nat /\ i - n \in PacketsIn(r)
                                        /\ toServer'[i] = r[i - n]
    BY <2>2, <2>3 DEF PacketsIn, Headless
  <2>5. \A i, j \in Nat : i - n = j - n => i = j
    BY <2>3
  <2>6. AtMostOne(PacketsIn(toServer'))
    BY <1>3, <2>4, <2>5 DEF AtMostOne
  <2>7. \A i \in PacketsIn(toServer') : toServer'[i].id = client.asked
    BY <1>5, <2>4
  <2>8. PacketsIn(toServer') # {} => PacketsIn(toServer) # {}
    BY <1>2, <2>4
  <2> QED
    BY <1>4, <1>6, <2>3, <2>6, <2>7, <2>8 DEF r
<1> QED
  BY <1>7, <1>8 DEF r

LEMMA AwaitAckStep ==
  ASSUME SessionInv, AwaitAck, UNCHANGED client
  PROVE  SessionInv'
<1> USE DEF SessionInv
<1>1. /\ toServer' = AfterAck /\ UNCHANGED <<client, toClient>>
      /\ server'.pc \in {"receive", "over"} /\ ServerShape(server')
  BY DEF AwaitAck, Shapes, ServerShape
<1>2. server'.pc # "accept" /\ ~Busy'
  BY <1>1 DEF Busy
<1>3. CASE toServer = <<>>
  <2>1. toServer' = toServer
    BY <1>1, <1>3 DEF AfterAck
  <2> QED
    BY <1>1, <1>2, <2>1, ServerKeeps DEF Shapes, OnePlace, Numbers
<1>4. CASE toServer # <<>>
  <2>1. toServer' = Tail(toServer) \/ toServer' = <<Headless>> \o Tail(toServer)
    BY <1>1, <1>4 DEF AfterAck
  <2> QED
    BY <1>1, <1>2, <1>4, <2>1, ServerTakes, ServerKeeps
<1> QED
  BY <1>3, <1>4

LEMMA SkipStep ==
  ASSUME SessionInv, Skip, UNCHANGED client
  PROVE  SessionInv'
<1> USE DEF SessionInv
<1>1. /\ toServer # <<>> /\ toServer' = Tail(toServer) /\ UNCHANGED <<client, toClient, server>>
      /\ server.pc = "receive"
  BY DEF Skip
<1>2. server'.pc # "accept" /\ ~Busy' /\ ServerShape(server')
  BY <1>1 DEF Busy, Shapes, ServerShape
<1> QED
  BY <1>1, <1>2, ServerTakes, ServerKeeps

\* Steps that touch neither stream.
LEMMA QuietStep ==
  ASSUME SessionInv, Hangup \/ ReadByte \/ WriteByte \/ Restore, UNCHANGED client
  PROVE  SessionInv'
<1> USE DEF SessionInv
<1>1. UNCHANGED <<client, toClient, toServer>>
  BY DEF Hangup, ReadByte, WriteByte, Restore
<1>2. /\ ServerShape(server') /\ server'.pc # "accept"
      /\ Busy' => Busy /\ server'.job.id = server.job.id
  <2>1. CASE Hangup
    BY <2>1 DEF Hangup, Shapes, ServerShape, Busy
  <2>2. CASE ReadByte \/ WriteByte
    <3>1. PICK x : server' = [server EXCEPT !.job.done = x]
      BY <2>2 DEF ReadByte, WriteByte
    <3>2. server.pc \in {"reading", "writing"}
      BY <2>2 DEF ReadByte, WriteByte
    <3>3. /\ server'.pc = server.pc /\ ServerShape(server')
          /\ server'.job.id = server.job.id
      BY <3>1 DEF Shapes, ServerShape
    <3> QED
      BY <3>2, <3>3 DEF Busy
  <2>3. CASE Restore
    <3>1. PICK x : server' = [server EXCEPT !.pc = "over", !.restored = x]
      BY <2>3 DEF Restore
    <3> QED
      BY <3>1 DEF Shapes, ServerShape, Busy
  <2> QED
    BY <2>1, <2>2, <2>3
<1> QED
  BY <1>1, <1>2, ServerKeeps DEF Shapes, OnePlace, Numbers

LEMMA ReplyShape ==
  ASSUME NEW s, ServerShape(s), s.pc \in {"replied", "refused"}, NEW t, Reply(s, t)
  PROVE  /\ ServerShape(server') /\ server'.pc \in {"replied", "refused", "receive", "over"}
         /\ Send(t)
<1>1. PICK sent \in SendOutcomes :
         server' = IF sent = "ok" THEN s
                   ELSE [s EXCEPT !.pc = IF s.pc = "refused" THEN "receive" ELSE "over"]
  BY DEF Reply
<1>2. ServerShape(server') /\ server'.pc \in {"replied", "refused", "receive", "over"}
  BY <1>1 DEF ServerShape
<1> QED
  BY <1>2 DEF Reply

\* The command at the head of the stream is the one the client waits for.
LEMMA ExecuteStep ==
  ASSUME SessionInv, Execute, UNCHANGED client
  PROVE  SessionInv'
<1> USE DEF SessionInv
<1> DEFINE id == Head(toServer).id
           c == Command
<1>1. /\ toServer # <<>> /\ Head(toServer).t = "$" /\ toServer' = Tail(toServer)
      /\ UNCHANGED client
  BY DEF Execute, Received
<1>2. /\ IsSeq(toServer') /\ Head(toServer) = toServer[1] /\ 1 \in DOMAIN toServer
      /\ 1 \in PacketsIn(toServer) => PacketsIn(toServer') = {}
  BY <1>1, ServerTakes
<1>3. 1 \in PacketsIn(toServer)
  BY <1>1, <1>2 DEF PacketsIn
<1>4. PacketsIn(toServer') = {} /\ id = client.asked
  BY <1>2, <1>3 DEF Numbers
<1>5. AnswersIn(toClient) = {} /\ client.pc \notin {"away", "ready"}
  BY <1>3 DEF OnePlace
<1>6. ServerShape(server)
  BY DEF Shapes, ServerShape
<1> HIDE DEF id, c
<1>7. ASSUME NEW s, ServerShape(s), s.pc \in {"replied", "refused"}, NEW body,
             Reply(s, <<Ack, Packet(id, body)>>)
      PROVE  SessionInv'
  <2> DEFINE t == <<Ack, Packet(id, body)>>
  <2>1. IsReply(t, client.asked)
    BY <1>4 DEF IsReply
  <2>2. Reply(s, t)
    BY <1>7
  <2> HIDE DEF t
  <2>3. /\ ServerShape(server') /\ server'.pc \in {"replied", "refused", "receive", "over"}
        /\ Send(t)
    BY <1>7, <2>2, ReplyShape
  <2>4. server'.pc # "accept" /\ ~Busy'
    BY <2>3 DEF Busy
  <2> QED
    BY <1>1, <1>2, <1>4, <1>5, <2>1, <2>3, <2>4, ServerSends
<1>8. ASSUME Send(<<Ack>>), ServerShape(server'), server'.pc # "accept",
             Busy' => server'.job.id = id
      PROVE  SessionInv'
  BY <1>1, <1>2, <1>4, <1>5, <1>8, ServerSends
<1>9. CASE Report(c)
  <2> DEFINE s == [server EXCEPT !.pc = "replied"]
  <2>1. PICK body : Reply(s, <<Ack, Packet(id, body)>>)
    BY <1>9 DEF Report, id
  <2>2. ServerShape(s) /\ s.pc \in {"replied", "refused"}
    BY <1>6 DEF ServerShape
  <2> HIDE DEF s
  <2> QED
    BY <1>7, <2>1, <2>2
<1>10. CASE SetRegisters(c)
  <2> DEFINE s == [server EXCEPT !.pc = "replied", !.regs = Given(@, c)]
  <2>1. Reply(s, <<Ack, Packet(id, "OK")>>)
    BY <1>10 DEF SetRegisters, Given, id
  <2>2. ServerShape(s) /\ s.pc \in {"replied", "refused"}
    BY <1>6 DEF ServerShape
  <2> HIDE DEF s
  <2> QED
    BY <1>7, <2>1, <2>2
<1>11. CASE Error(c)
  <2> DEFINE s == Refused(c)
  <2>1. Reply(s, <<Ack, Packet(id, "error")>>)
    BY <1>11 DEF Error, id
  <2>2. ServerShape(s) /\ s.pc \in {"replied", "refused"}
    BY <1>6 DEF ServerShape, Refused
  <2> HIDE DEF s
  <2> QED
    BY <1>7, <2>1, <2>2
<1>12. CASE Resume(c)
  <2>1. PICK x : server' = [server EXCEPT !.pc = "restore", !.regs = x]
    BY <1>12, <1>6 DEF Resume, ServerShape
  <2>2. ServerShape(server') /\ server'.pc = "restore"
    BY <1>6, <2>1 DEF ServerShape
  <2> QED
    BY <1>8, <1>12, <2>2 DEF Resume, Busy
<1>13. CASE Begin(c)
  <2> DEFINE j == [id |-> Head(toServer).id, at |-> c.at, done |-> <<>>, bytes |-> c.bytes]
  <2>1. PICK pc \in {"reading", "writing"} : server' = [server EXCEPT !.pc = pc, !.job = j]
    BY <1>13 DEF Begin
  <2>2. DOMAIN j = {"id", "at", "done", "bytes"} /\ j.id = id
    BY DEF id
  <2> HIDE DEF j
  <2>3. ServerShape(server') /\ server'.pc # "accept" /\ server'.job.id = id
    BY <1>6, <2>1, <2>2 DEF ServerShape
  <2> QED
    BY <1>8, <1>13, <2>3 DEF Begin
<1> QED
  BY <1>9, <1>10, <1>11, <1>12, <1>13 DEF Execute, c

LEMMA FinishStep ==
  ASSUME SessionInv, FinishMemory, UNCHANGED client
  PROVE  SessionInv'
<1> USE DEF SessionInv
<1>1. Busy /\ UNCHANGED <<client, toServer>>
  BY DEF FinishMemory, Busy
<1>2. /\ PacketsIn(toServer) = {} /\ AnswersIn(toClient) = {} /\ server.job.id = client.asked
      /\ client.pc \notin {"away", "ready"} /\ IsSeq(toServer)
  BY <1>1 DEF OnePlace, Numbers, Shapes
<1> DEFINE s == [server EXCEPT !.pc = "replied"]
<1>3. ServerShape(s) /\ s.pc \in {"replied", "refused"}
  BY DEF Shapes, ServerShape
<1>4. PICK body : Reply(s, <<Packet(client.asked, body)>>)
  BY <1>2 DEF FinishMemory
<1> DEFINE t == <<Packet(client.asked, body)>>
<1>5. IsReply(t, client.asked) /\ Reply(s, t)
  BY <1>4 DEF IsReply
<1> HIDE DEF s, t
<1>6. /\ ServerShape(server') /\ server'.pc \in {"replied", "refused", "receive", "over"}
      /\ Send(t)
  BY <1>3, <1>5, ReplyShape
<1>7. server'.pc # "accept" /\ ~Busy'
  BY <1>6 DEF Busy
<1> QED
  BY <1>1, <1>2, <1>5, <1>6, <1>7, ServerSends
-----------------------------------------------------------------------------
(* Every reply matches.                                                    *)

LEMMA SessionStart == SessionInit => SessionInv
<1> SUFFICES ASSUME SessionInit PROVE SessionInv
  OBVIOUS
<1> USE DEF SessionInit
<1>1. IsSeq(<<>>) /\ DOMAIN <<>> = {}
  <2>1. <<>> \in Seq({})
    OBVIOUS
  <2> QED
    BY <2>1 DEF IsSeq
<1>2. Shapes
  BY <1>1 DEF Shapes
<1>3. PacketsIn(toServer) = {} /\ PacketsIn(toClient) = {} /\ ~Busy
  BY <1>1 DEF PacketsIn, Busy
<1>4. NoNack /\ RepliesMatch
  BY <1>1 DEF NoNack, OnlyReplies, RepliesMatch
<1>5. GreetingInv
  BY <1>3 DEF GreetingInv, GreetingsIn, Gone
<1>6. OnePlace /\ Numbers
  BY <1>3 DEF OnePlace, Numbers, AnswersIn, AnswersAre, AtMostOne
<1> QED
  BY <1>2, <1>4, <1>5, <1>6 DEF SessionInv

LEMMA SessionStep ==
  ASSUME MaxTimeouts = 0, SessionInv, [SessionNext]_vars
  PROVE  SessionInv'
<1>1. CASE UNCHANGED gdbVars
  BY <1>1 DEF gdbVars, SessionInv, Shapes, NoNack, GreetingInv, OnePlace, Numbers,
              RepliesMatch, Busy, Gone
<1>2. CASE ClientStep /\ UNCHANGED server
  BY <1>2, ClientStepInv
<1>3. CASE ServerStep /\ UNCHANGED client
  BY <1>3, DebugStep, AwaitAckStep, SkipStep, QuietStep, ExecuteStep, FinishStep DEF ServerStep
<1>4. UNCHANGED vars => UNCHANGED gdbVars
  BY DEF vars
<1> QED
  BY <1>1, <1>2, <1>3, <1>4 DEF SessionNext, Runs

\* Replies and acknowledgements (dbg_recv_ack and dbg_send_packet,
\* gdbserver.cpp): although the acknowledgements run one behind, a client that
\* waits for the answer to a command before it sends the next never takes one
\* command's reply for another's, whatever the commands, and wherever the
\* client or the connection breaks off.
THEOREM EveryReplyMatches == ASSUME MaxTimeouts = 0 PROVE SessionSpec => []RepliesMatch
<1>1. SessionInit => SessionInv
  BY SessionStart
<1>2. SessionInv /\ [SessionNext]_vars => SessionInv'
  BY SessionStep
<1>3. SessionInv => RepliesMatch
  BY DEF SessionInv
<1> QED
  BY <1>1, <1>2, <1>3, PTL DEF SessionSpec
-----------------------------------------------------------------------------
(* The copies of the registers.                                            *)

IsFile(f) == f = [r \in Names |-> f[r]]

\* A batch whose registers are all known, or whose first is not: the others
\* leave a change that no flag tells of (KvmCpu::RegWrite, HaxmCpu::RegWrite).
KnownFirst(rs) ==
    /\ IsSeq(rs)
    /\ (\A i \in DOMAIN rs : rs[i] \in Names) \/ (rs # <<>> /\ rs[1] \notin Names)

\* The flags, by backend: WHVP has no copy, and asks at every access.
CpuOk(c) ==
    /\ DOMAIN c = {"backend", "vcpu", "cache", "dirty", "changed"}
    /\ c = [x \in DOMAIN c |-> c[x]]
    /\ c.backend \in {"kvm", "haxm", "whvp"}
    /\ c.dirty \in BOOLEAN /\ c.changed \in BOOLEAN
    /\ c.backend = "whvp" => c.dirty /\ ~c.changed
    /\ c.changed => ~c.dirty
    /\ ~c.dirty /\ ~c.changed => c.cache = c.vcpu
    /\ IsFile(c.vcpu) /\ IsFile(c.cache)

Fetched(c) == c.backend = "whvp" \/ ~c.dirty

LEMMA RefreshKeeps ==
  ASSUME NEW c, CpuOk(c), NEW o \in Refresh(c)
  PROVE  /\ CpuOk(o.cpu) /\ o.cpu.backend = c.backend
         /\ o.status = "ok" => Fetched(o.cpu)
<1> DEFINE a == [c EXCEPT !.cache = c.vcpu, !.dirty = FALSE]
           b == [c EXCEPT !.cache = [c.cache EXCEPT !.eip = c.vcpu.eip, !.esp = c.vcpu.esp]]
<1>1. \/ o.cpu = c /\ (c.backend = "whvp" \/ ~c.dirty \/ o.status # "ok")
      \/ c.backend # "whvp" /\ c.dirty /\ o.cpu = a
      \/ c.backend # "whvp" /\ c.dirty /\ o.cpu = b /\ o.status # "ok"
  <2>1. CASE c.backend = "kvm"
    <3>1. o \in KvmRefresh(c)
      BY <2>1 DEF Refresh
    <3> QED
      BY <2>1, <3>1 DEF KvmRefresh, Outcome
  <2>2. CASE c.backend = "haxm"
    <3>1. o \in HaxmRefresh(c)
      BY <2>2 DEF Refresh
    <3> QED
      BY <2>2, <3>1 DEF HaxmRefresh, Outcome
  <2>3. CASE c.backend = "whvp"
    <3>1. o \in WhvpRefresh(c)
      BY <2>3 DEF Refresh
    <3> QED
      BY <2>3, <3>1 DEF WhvpRefresh, Outcome
  <2> QED
    BY <2>1, <2>2, <2>3 DEF CpuOk
<1>2. CASE o.cpu = c /\ (c.backend = "whvp" \/ ~c.dirty \/ o.status # "ok")
  BY <1>2 DEF Fetched
<1>3. CASE c.backend # "whvp" /\ c.dirty /\ o.cpu = a
  <2>1. /\ a.backend = c.backend /\ a.vcpu = c.vcpu /\ a.cache = c.vcpu /\ a.dirty = FALSE
        /\ a.changed = c.changed /\ DOMAIN a = DOMAIN c /\ a = [x \in DOMAIN a |-> a[x]]
    BY DEF CpuOk
  <2> HIDE DEF a
  <2> QED
    BY <1>3, <2>1 DEF CpuOk, Fetched
<1>4. CASE c.backend # "whvp" /\ c.dirty /\ o.cpu = b /\ o.status # "ok"
  <2> DEFINE f == [c.cache EXCEPT !.eip = c.vcpu.eip, !.esp = c.vcpu.esp]
  <2>1. IsFile(f)
    BY DEF CpuOk, IsFile
  <2>2. /\ b.backend = c.backend /\ b.vcpu = c.vcpu /\ b.cache = f /\ b.dirty = c.dirty
        /\ b.changed = c.changed /\ DOMAIN b = DOMAIN c /\ b = [x \in DOMAIN b |-> b[x]]
    BY DEF CpuOk
  <2> HIDE DEF b, f
  <2> QED
    BY <1>4, <2>1, <2>2 DEF CpuOk
<1> QED
  BY <1>1, <1>2, <1>3, <1>4

\* How much of a batch is written.
LEMMA Good ==
  ASSUME NEW rs, KnownFirst(rs)
  PROVE  LET good == Max({k \in 0 .. Len(rs) : \A i \in 1..k : rs[i] \in Names})
         IN  good = Len(rs) \/ (good = 0 /\ {i \in 1 .. good : rs[i] = "cs"} = {})
<1> DEFINE S == {k \in 0 .. Len(rs) : \A i \in 1..k : rs[i] \in Names}
<1>1. Len(rs) \in Nat /\ DOMAIN rs = 1 .. Len(rs)
  BY SeqFacts DEF KnownFirst
<1>2. CASE \A i \in DOMAIN rs : rs[i] \in Names
  <2>1. Len(rs) \in S /\ \A k \in S : k \in Nat /\ k <= Len(rs)
    BY <1>1, <1>2
  <2> HIDE DEF S
  <2>2. Max(S) \in S /\ \A k \in S : Max(S) >= k
    BY <1>1, <2>1 DEF Max
  <2>3. Max(S) = Len(rs)
    BY <1>1, <2>1, <2>2
  <2> QED
    BY <2>3 DEF S
<1>3. CASE rs # <<>> /\ rs[1] \notin Names
  <2>1. S = {0}
    <3>1. 0 \in S
      BY <1>1
    <3>2. ASSUME NEW k \in S PROVE k = 0
      <4>1. k \in Nat /\ \A i \in 1 .. k : rs[i] \in Names
        BY <1>1
      <4>2. 1 \notin 1 .. k
        BY <1>3, <4>1
      <4> QED
        BY <4>1, <4>2
    <3> QED
      BY <3>1, <3>2
  <2> HIDE DEF S
  <2>2. Max(S) = 0
    BY <2>1 DEF Max
  <2>3. {i \in 1 .. 0 : rs[i] = "cs"} = {}
    OBVIOUS
  <2> QED
    BY <2>2, <2>3 DEF S
<1> QED
  BY <1>2, <1>3 DEF KnownFirst

LEMMA AssignedFile ==
  ASSUME NEW f, IsFile(f), NEW rs, NEW xs, NEW k, NEW d
  PROVE  /\ IsFile([Assigned(f, rs, xs, k) EXCEPT !.desc = d])
         /\ [Assigned(f, rs, xs, 0) EXCEPT !.desc = f.desc] = f
<1>1. DOMAIN f = Names
  BY DEF IsFile
<1>2. IsFile([Assigned(f, rs, xs, k) EXCEPT !.desc = d])
  BY <1>1 DEF Assigned, IsFile
<1>3. Assigned(f, rs, xs, 0) = f
  <2>1. ASSUME NEW r \in Names
        PROVE  (LET at == {i \in 1..0 : rs[i] = r} IN IF at = {} THEN f[r] ELSE xs[Max(at)]) = f[r]
    <3>1. {i \in 1..0 : rs[i] = r} = {}
      OBVIOUS
    <3> QED
      BY <3>1
  <2>2. Assigned(f, rs, xs, 0) = [r \in Names |-> f[r]]
    BY <1>1, <2>1 DEF Assigned
  <2> QED
    BY <2>2 DEF IsFile
<1>4. [f EXCEPT !.desc = f.desc] = f
  BY DEF IsFile
<1> QED
  BY <1>2, <1>3, <1>4

\* A batch of a copying backend leaves a copy that differs with its flag set.
LEMMA CachedKeeps ==
  ASSUME NEW c, CpuOk(c), ~c.dirty, NEW m, NEW rs, KnownFirst(rs), NEW ys,
         NEW p \in CachedBatch(c, m, rs, ys)
  PROVE  CpuOk(p.cpu) /\ ~p.cpu.dirty
<1> DEFINE xs == [i \in DOMAIN rs |-> IF c.backend = "haxm" THEN HaxmFlags(rs[i], ys[i]) ELSE ys[i]]
           good == Max({k \in 0 .. Len(rs) : \A i \in 1..k : rs[i] \in Names})
           selectors == {i \in 1..good : rs[i] = "cs"}
           file(d) == [Assigned(c.cache, rs, xs, good) EXCEPT !.desc = d]
           flag == c.changed \/ good = Len(rs) \/ selectors # {}
<1>1. good = Len(rs) \/ (good = 0 /\ selectors = {})
  BY Good
<1>2. PICK d : /\ p = Outcome([c EXCEPT !.cache = file(d), !.changed = flag],
                              IF good = Len(rs) THEN "ok" ELSE "invalid register")
               /\ selectors = {} => d = c.cache.desc
  <2> DEFINE descs == IF selectors = {} THEN {c.cache.desc}
                      ELSE LET i == Max(selectors)
                               seen == [c EXCEPT !.cache = Assigned(c.cache, rs, xs, i - 1)]
                           IN  LoadSegmentSelector(seen, seen.cache, m, xs[i])
  <2>1. p \in {Outcome([c EXCEPT !.cache = file(d), !.changed = flag],
                       IF good = Len(rs) THEN "ok" ELSE "invalid register") : d \in descs}
    BY DEF CachedBatch
  <2>2. PICK d \in descs : p = Outcome([c EXCEPT !.cache = file(d), !.changed = flag],
                                       IF good = Len(rs) THEN "ok" ELSE "invalid register")
    BY <2>1
  <2>3. selectors = {} => d = c.cache.desc
    OBVIOUS
  <2> QED
    BY <2>2, <2>3
<1>3. IsFile(c.cache) /\ IsFile(file(d))
  BY AssignedFile DEF CpuOk
<1>4. ~flag => ~c.changed /\ file(d) = c.cache
  <2>1. ASSUME ~flag PROVE ~c.changed /\ file(d) = c.cache
    <3>1. ~c.changed /\ good = 0 /\ d = c.cache.desc
      BY <1>1, <1>2, <2>1
    <3>2. [Assigned(c.cache, rs, xs, 0) EXCEPT !.desc = c.cache.desc] = c.cache
      BY <1>3, AssignedFile
    <3> QED
      BY <3>1, <3>2
  <2> QED
    BY <2>1
<1>5. p.cpu = [c EXCEPT !.cache = file(d), !.changed = flag]
  BY <1>2 DEF Outcome
<1>6. flag \in BOOLEAN
  BY DEF CpuOk
<1> HIDE DEF file, flag, good, selectors, xs
<1> DEFINE a == p.cpu
<1>7. /\ a.backend = c.backend /\ a.vcpu = c.vcpu /\ a.cache = file(d) /\ a.dirty = c.dirty
      /\ a.changed = flag /\ DOMAIN a = DOMAIN c /\ a = [x \in DOMAIN a |-> a[x]]
  BY <1>5 DEF CpuOk
<1> HIDE DEF a
<1>8. CpuOk(a) /\ ~a.dirty
  BY <1>3, <1>4, <1>6, <1>7 DEF CpuOk
<1> QED
  BY <1>8 DEF a

LEMMA WhvpKeeps ==
  ASSUME NEW c, CpuOk(c), c.backend = "whvp", NEW m, NEW rs, NEW xs,
         NEW p \in WhvpBatch(c, m, rs, xs)
  PROVE  CpuOk(p.cpu) /\ p.cpu.backend = "whvp"
<1>1. p.cpu = c \/ \E d : p.cpu = [c EXCEPT !.vcpu = [Assigned(c.vcpu, rs, xs, Len(rs)) EXCEPT !.desc = d]]
  <2>1. CASE \E k \in DOMAIN rs : rs[k] \notin Names
    <3>1. p = Outcome(c, "invalid register")
      BY <2>1 DEF WhvpBatch
    <3> QED
      BY <3>1 DEF Outcome
  <2>2. CASE ~ \E k \in DOMAIN rs : rs[k] \notin Names
    <3>1. PICK d : p = Outcome([c EXCEPT !.vcpu = [Assigned(c.vcpu, rs, xs, Len(rs)) EXCEPT !.desc = d]],
                               "ok")
      BY <2>2 DEF WhvpBatch
    <3> QED
      BY <3>1 DEF Outcome
  <2> QED
    BY <2>1, <2>2
<1>2. CASE p.cpu = c
  BY <1>2
<1>3. ASSUME NEW d, p.cpu = [c EXCEPT !.vcpu = [Assigned(c.vcpu, rs, xs, Len(rs)) EXCEPT !.desc = d]]
      PROVE  CpuOk(p.cpu) /\ p.cpu.backend = "whvp"
  <2> DEFINE f == [Assigned(c.vcpu, rs, xs, Len(rs)) EXCEPT !.desc = d]
             a == p.cpu
  <2>1. IsFile(f)
    BY AssignedFile DEF CpuOk
  <2>2. p.cpu = [c EXCEPT !.vcpu = f]
    BY <1>3
  <2> HIDE DEF f
  <2>3. /\ a.backend = c.backend /\ a.vcpu = f /\ a.cache = c.cache /\ a.dirty = c.dirty
        /\ a.changed = c.changed /\ DOMAIN a = DOMAIN c /\ a = [x \in DOMAIN a |-> a[x]]
    BY <2>2 DEF CpuOk
  <2> HIDE DEF a
  <2>4. CpuOk(a) /\ a.backend = "whvp"
    BY <2>1, <2>3 DEF CpuOk
  <2> QED
    BY <2>4 DEF a
<1> QED
  BY <1>1, <1>2, <1>3

LEMMA BatchKeeps ==
  ASSUME NEW c, CpuOk(c), Fetched(c), NEW m, NEW rs, KnownFirst(rs), NEW xs,
         NEW p \in RegWriteBatch(c, m, rs, xs)
  PROVE  CpuOk(p.cpu) /\ Fetched(p.cpu)
<1>1. CASE c.backend = "whvp"
  BY <1>1, WhvpKeeps DEF RegWriteBatch, Fetched
<1>2. CASE c.backend # "whvp"
  BY <1>2, CachedKeeps DEF RegWriteBatch, Fetched
<1> QED
  BY <1>1, <1>2

LEMMA WriteKeeps ==
  ASSUME NEW c, CpuOk(c), Fetched(c), NEW m, NEW r, NEW x, NEW p \in RegWrite(c, m, r, x)
  PROVE  CpuOk(p.cpu) /\ Fetched(p.cpu)
<1>1. KnownFirst(<<r>>)
  <2>1. IsSeq(<<r>>) /\ DOMAIN <<r>> = 1 .. 1 /\ <<r>>[1] = r
    BY ShortSeqs
  <2>2. <<r>> # <<>>
    OBVIOUS
  <2> QED
    BY <2>1, <2>2 DEF KnownFirst
<1> QED
  BY <1>1, BatchKeeps DEF RegWrite

\* The guest runs from what was written back, and every copy is stale then.
LEMMA RunKeeps ==
  ASSUME CpuOk(cpu), NEW q, Run(q)
  PROVE  CpuOk(cpu)'
<1> DEFINE c == UpdateRegisters(cpu)
<1>1. /\ c.backend = cpu.backend /\ c.changed = FALSE /\ c.dirty = cpu.dirty
      /\ IsFile(c.vcpu) /\ c.cache = cpu.cache /\ DOMAIN c = DOMAIN cpu
      /\ c = [x \in DOMAIN c |-> c[x]]
  BY DEF UpdateRegisters, CpuOk
<1>2. PICK step \in GuestSteps :
         cpu' = HandleExecResult([c EXCEPT !.vcpu =
                    [r \in Names |-> IF r \in DOMAIN step THEN step[r] ELSE c.vcpu[r]]])
  BY DEF Run
<1> DEFINE f == [r \in Names |-> IF r \in DOMAIN step THEN step[r] ELSE c.vcpu[r]]
           a == [c EXCEPT !.vcpu = f]
<1>3. IsFile(f)
  BY DEF IsFile
<1>4. cpu' = HandleExecResult(a)
  BY <1>2
<1> HIDE DEF f, c
<1>5. /\ a.backend = cpu.backend /\ a.changed = FALSE /\ a.dirty = cpu.dirty
      /\ a.vcpu = f /\ a.cache = cpu.cache /\ DOMAIN a = DOMAIN cpu
      /\ a = [x \in DOMAIN a |-> a[x]]
  BY <1>1 DEF CpuOk
<1> HIDE DEF a
<1>6. /\ cpu'.backend = cpu.backend /\ cpu'.changed = FALSE /\ cpu'.dirty = TRUE
      /\ cpu'.vcpu = f /\ cpu'.cache = cpu.cache /\ DOMAIN cpu' = DOMAIN cpu
      /\ cpu' = [x \in DOMAIN cpu' |-> cpu'[x]]
  BY <1>4, <1>5 DEF HandleExecResult, CpuOk
<1> QED
  BY <1>3, <1>6 DEF CpuOk

LEMMA ReadKeeps ==
  ASSUME CpuOk(cpu), NEW q, RegRead(q) \/ VMemRead(q) \/ VMemWrite(q)
  PROVE  CpuOk(cpu)'
<1>1. \E o \in Refresh(cpu) : cpu' = o.cpu
  BY DEF RegRead, VMemRead, VMemWrite, Failed
<1> QED
  BY <1>1, RefreshKeeps

LEMMA WriteRegistersKeeps ==
  ASSUME CpuOk(cpu), NEW q, KnownFirst(q.regs), WriteRegisters(q)
  PROVE  CpuOk(cpu)'
<1>1. PICK o \in Refresh(cpu) :
         \/ cpu' = o.cpu
         \/ /\ o.status = "ok"
            /\ \E p \in RegWriteBatch(o.cpu, mem, q.regs, q.values) : cpu' = p.cpu
  BY DEF WriteRegisters, Failed
<1>2. CpuOk(o.cpu) /\ (o.status = "ok" => Fetched(o.cpu))
  BY RefreshKeeps
<1> QED
  BY <1>1, <1>2, BatchKeeps

LEMMA ModifyKeeps ==
  ASSUME CpuOk(cpu), NEW q, RegCopy(q) \/ SetFlags(q) \/ ClearFlags(q)
  PROVE  CpuOk(cpu)'
<1>1. PICK o \in Refresh(cpu) :
         \/ cpu' = o.cpu
         \/ /\ o.status = "ok"
            /\ \E r, x : \E p \in RegWrite(o.cpu, mem, r, x) : cpu' = p.cpu
  BY DEF RegCopy, SetFlags, ClearFlags, Modify, Failed
<1>2. CpuOk(o.cpu) /\ (o.status = "ok" => Fetched(o.cpu))
  BY RefreshKeeps
<1> QED
  BY <1>1, <1>2, WriteKeeps

LEMMA StackKeeps ==
  ASSUME CpuOk(cpu), NEW q, Push(q) \/ Pop(q)
  PROVE  CpuOk(cpu)'
<1>1. PICK o \in Refresh(cpu) :
         \/ cpu' = o.cpu
         \/ /\ o.status = "ok"
            /\ \E r, x : \E p \in RegWrite(o.cpu, mem, r, x) :
                  \/ cpu' = p.cpu
                  \/ \E s, y : \E z \in RegWrite(p.cpu, mem, s, y) : cpu' = z.cpu
  <2>1. CASE Push(q)
    BY <2>1 DEF Push, Failed
  <2>2. CASE Pop(q)
    BY <2>2 DEF Pop, Failed
  <2> QED
    BY <2>1, <2>2
<1>2. CpuOk(o.cpu) /\ (o.status = "ok" => Fetched(o.cpu))
  BY RefreshKeeps
<1> QED
  BY <1>1, <1>2, WriteKeeps

LEMMA SetGDTKeeps ==
  ASSUME CpuOk(cpu), NEW q, SetGDT(q)
  PROVE  CpuOk(cpu)'
<1>1. PICK o \in Refresh(cpu) :
         \/ cpu' = o.cpu
         \/ /\ o.status = "ok"
            /\ cpu' = IF cpu.backend = "whvp" THEN [o.cpu EXCEPT !.vcpu.gdt = q.values[1]]
                      ELSE [o.cpu EXCEPT !.cache.gdt = q.values[1], !.changed = TRUE]
  BY DEF SetGDT, Failed
<1>2. CpuOk(o.cpu) /\ (o.status = "ok" => Fetched(o.cpu)) /\ o.cpu.backend = cpu.backend
  BY RefreshKeeps
<1> DEFINE c == o.cpu
           v == [c.vcpu EXCEPT !.gdt = q.values[1]]
           f == [c.cache EXCEPT !.gdt = q.values[1]]
<1>3. IsFile(v) /\ IsFile(f)
  BY <1>2 DEF CpuOk, IsFile
<1>4. CASE cpu' = o.cpu
  BY <1>2, <1>4
<1>5. CASE cpu.backend = "whvp" /\ cpu' = [c EXCEPT !.vcpu = v]
  <2>1. CpuOk(c) /\ c.backend = "whvp"
    BY <1>2, <1>5
  <2> HIDE DEF c, v, f
  <2>2. /\ cpu'.backend = c.backend /\ cpu'.changed = c.changed /\ cpu'.dirty = c.dirty
        /\ cpu'.vcpu = v /\ cpu'.cache = c.cache /\ DOMAIN cpu' = DOMAIN c
        /\ cpu' = [x \in DOMAIN cpu' |-> cpu'[x]]
    BY <1>5, <2>1 DEF CpuOk
  <2> QED
    BY <1>3, <2>1, <2>2 DEF CpuOk
<1>6. CASE cpu.backend # "whvp" /\ o.status = "ok" /\ cpu' = [c EXCEPT !.cache = f, !.changed = TRUE]
  <2>1. CpuOk(c) /\ c.backend # "whvp" /\ ~c.dirty
    BY <1>2, <1>6 DEF Fetched
  <2> HIDE DEF c, v, f
  <2>2. /\ cpu'.backend = c.backend /\ cpu'.changed = TRUE /\ cpu'.dirty = c.dirty
        /\ cpu'.vcpu = c.vcpu /\ cpu'.cache = f /\ DOMAIN cpu' = DOMAIN c
        /\ cpu' = [x \in DOMAIN cpu' |-> cpu'[x]]
    BY <1>6, <2>1 DEF CpuOk
  <2> QED
    BY <1>3, <2>1, <2>2 DEF CpuOk
<1>7. \/ cpu' = o.cpu
      \/ cpu.backend = "whvp" /\ cpu' = [c EXCEPT !.vcpu = v]
      \/ cpu.backend # "whvp" /\ o.status = "ok" /\ cpu' = [c EXCEPT !.cache = f, !.changed = TRUE]
  BY <1>1
<1> QED
  BY <1>4, <1>5, <1>6, <1>7

\* The processor at the start, and under the debugger.
LEMMA CpuStart ==
  ASSUME Backends \subseteq {"kvm", "haxm", "whvp"}, \A f \in Powerup : IsFile(f), SessionInit
  PROVE  CpuOk(cpu)
<1>1. PICK b \in Backends, rf \in Powerup :
         cpu = [backend |-> b, vcpu |-> rf, cache |-> rf, dirty |-> TRUE, changed |-> FALSE]
  BY DEF SessionInit, Init
<1>2. b \in {"kvm", "haxm", "whvp"} /\ IsFile(rf)
  OBVIOUS
<1>3. /\ cpu.backend = b /\ cpu.vcpu = rf /\ cpu.cache = rf /\ cpu.dirty = TRUE
      /\ cpu.changed = FALSE /\ cpu = [x \in DOMAIN cpu |-> cpu[x]]
      /\ DOMAIN cpu = {"backend", "vcpu", "cache", "dirty", "changed"}
  BY <1>1
<1> QED
  BY <1>2, <1>3 DEF CpuOk

LEMMA ServerKeepsCpu ==
  ASSUME CpuOk(cpu), ServerStep
  PROVE  CpuOk(cpu)'
<1>1. KnownFirst(WrittenBack)
  <2>1. WrittenBack \in Seq({"esp", "eip", "eflags"})
    BY DEF WrittenBack
  <2>2. \A i \in DOMAIN WrittenBack : WrittenBack[i] \in {"esp", "eip", "eflags"}
    BY <2>1
  <2> QED
    BY <2>1, <2>2 DEF KnownFirst, IsSeq, Names
<1>2. CASE Debug \/ ReadByte \/ WriteByte
  BY <1>2, ReadKeeps DEF Debug, ReadByte, WriteByte
<1>3. CASE Restore
  <2>1. PICK xs : WriteRegisters([op |-> "write", regs |-> WrittenBack, values |-> xs])
    BY <1>3 DEF Restore
  <2>2. [op |-> "write", regs |-> WrittenBack, values |-> xs].regs = WrittenBack
    OBVIOUS
  <2> QED
    BY <1>1, <2>1, <2>2, WriteRegistersKeeps
<1>4. CASE AwaitAck \/ Skip \/ Hangup \/ Execute \/ FinishMemory
  <2>1. UNCHANGED cpu
    BY <1>4 DEF AwaitAck, Skip, Hangup, Execute, FinishMemory, Report, SetRegisters, Error,
                Resume, Begin
  <2> QED
    BY <2>1 DEF CpuOk
<1> QED
  BY <1>2, <1>3, <1>4 DEF ServerStep

\* The copies of KVM and HAXM (KvmCpu::RefreshRegisters, UpdateRegisters and
\* RegWrite and their HAXM counterparts): a copy that was fetched and that
\* nothing changed is the hypervisor's, and a changed one is never also stale,
\* so that no change is lost under a refresh and no run starts from old values;
\* whatever the operations, of the emulator or of the debugger, in every order,
\* and however often the hypervisor refuses its registers.  The register files
\* are files of registers, and no batch names an unknown register after a
\* known one.
THEOREM CopiesCoherent ==
  ASSUME Backends \subseteq {"kvm", "haxm", "whvp"},
         \A f \in Powerup : IsFile(f),
         \A q \in ClientRequests : q.op = "write" => KnownFirst(q.regs)
  PROVE  SessionSpec => []Coherent
<1>1. SessionInit => CpuOk(cpu)
  BY CpuStart
<1>2. ASSUME CpuOk(cpu), NEW q \in ClientRequests, Serve(q) PROVE CpuOk(cpu)'
  <2>1. ASSUME q.op = "write" PROVE KnownFirst(q.regs)
    BY <2>1
  <2> QED
    BY <1>2, <2>1, RunKeeps, ReadKeeps, WriteRegistersKeeps, SetGDTKeeps, ModifyKeeps,
       StackKeeps DEF Serve
<1>3. CpuOk(cpu) /\ [SessionNext]_vars => CpuOk(cpu)'
  <2> SUFFICES ASSUME CpuOk(cpu), [SessionNext]_vars PROVE CpuOk(cpu)'
    OBVIOUS
  <2>1. CASE Next
    BY <1>2, <2>1 DEF Next
  <2>2. CASE UNCHANGED cpu
    BY <2>2 DEF CpuOk
  <2>3. CASE ServerStep
    BY <2>3, ServerKeepsCpu
  <2>4. CASE Runs
    BY <2>4, RunKeeps DEF Runs
  <2> QED
    BY <2>1, <2>2, <2>3, <2>4 DEF SessionNext, vars, cpuVars
<1>4. CpuOk(cpu) => Coherent
  BY DEF CpuOk, Coherent
<1> QED
  BY <1>1, <1>3, <1>4, PTL DEF SessionSpec
-----------------------------------------------------------------------------
(* What the client was told was written reaches the processor.             *)

AcksIn(s) == {i \in DOMAIN s : s[i].t = "+"}
Last(s, I) == \A i \in I : i = Len(s)
Carries(s, c) == \A i \in PacketsIn(s) : s[i].body = c
Says(s, body) == \A i \in AnswersIn(s) : s[i].body = body

\* A command is acknowledged once, before it is answered, and from the second
\* command on nothing else is on its way: the acknowledgement that runs ahead
\* is the one of the signal, and comes behind the first command only.
StreamInv ==
    /\ server.pc = "accept" => client.told = <<>>
    /\ AtMostOne(AcksIn(toClient))
    /\ AcksIn(toClient) # {} => client.pc = "sent" /\ PacketsIn(toServer) = {}
    /\ PacketsIn(toServer) # {} => client.pc \in {"sent", "gone"}
    /\ Busy /\ client.pc = "sent" => AcksIn(toClient) # {}
    /\ client.told # <<>> =>
          /\ GreetingsIn(toClient) = {}
          /\ client.pc = "sent" /\ toClient # <<>> => toClient[1] = Ack
          /\ Last(toServer, PacketsIn(toServer))

Written == {"eip", "esp"}

\* The copy has what the client was told last, or the write the client has not
\* been told of yet, and in that case the server waits for an acknowledgement that
\* only a client that was told sends; or a later write was refused half-way.
IsWrite(c) == c.name \in {"P", "G"}
Latest(r, m) == m \in Told(r) /\ \A i \in Told(r) : m >= i
Asked == client.pc \notin {"away", "ready"}
SpoiledSince(r, m) ==
    \/ Asked /\ Spoils(client.command, r)
    \/ \E i \in DOMAIN client.told : i > m /\ Spoils(client.told[i].command, r)
Caught(r) == Told(r) # {} =>
                \E m : /\ Latest(r, m)
                       /\ server.regs[r] = client.told[m].command.values[r] \/ SpoiledSince(r, m)
Unread(r) == /\ Writes(client.command, r) /\ Asked
             /\ server.pc \in {"replied", "over"} /\ toServer = <<>> /\ ~server.restored

CopyInv ==
    /\ server.restored => server.pc = "over"
    /\ DOMAIN server.regs = SessionRegs
    /\ Carries(toServer, client.command)
    /\ Busy => ~IsWrite(client.command)
    /\ AnswersIn(toClient) # {} /\ IsWrite(client.command) =>
          /\ Says(toClient, "OK")
          /\ \A r \in Written : Writes(client.command, r) =>
                server.regs[r] = client.command.values[r]
    /\ \A r \in Written : Caught(r) \/ Unread(r)

\* The registers the processor will run with, once they have been written.
RestoredInv ==
    driver = "debugger" /\ requests = 0 =>
        /\ ret.request.op # "run"
        /\ server.restored => \A r \in Written : UpdateRegisters(cpu).vcpu[r] = server.regs[r]
-----------------------------------------------------------------------------
LEMMA LenIs == ASSUME NEW s, IsSeq(s), NEW n \in Nat, DOMAIN s = 1 .. n PROVE Len(s) = n
<1>1. Len(s) \in Nat /\ 1 .. Len(s) = 1 .. n
  BY SeqFacts
<1>2. \A m \in Nat : 1 .. m = 1 .. n => m <= n /\ n <= m
  <2> SUFFICES ASSUME NEW m \in Nat, 1 .. m = 1 .. n PROVE m <= n /\ n <= m
    OBVIOUS
  <2>1. m > 0 => m \in 1 .. n
    OBVIOUS
  <2>2. n > 0 => n \in 1 .. m
    OBVIOUS
  <2> QED
    BY <2>1, <2>2
<1> HIDE DEF IsSeq
<1> QED
  BY <1>1, <1>2

LEMMA EmptyStream ==
  ASSUME NEW s, IsSeq(s), OnlyReplies(s), AcksIn(s) = {}, AnswersIn(s) = {},
         GreetingsIn(s) = {}
  PROVE  s = <<>>
<1>1. DOMAIN s = {}
  BY DEF OnlyReplies, AcksIn, AnswersIn, GreetingsIn, PacketsIn
<1>2. PICK X : s \in Seq(X)
  BY DEF IsSeq
<1> QED
  BY <1>1, <1>2

LEMMA AcksTaken ==
  ASSUME NEW s, IsSeq(s), s # <<>>
  PROVE  /\ \A i \in AcksIn(Tail(s)) : i \in Nat /\ i + 1 \in AcksIn(s) /\ i + 1 # 1
         /\ \A i \in AcksIn(s) : i # 1 => i - 1 \in AcksIn(Tail(s))
         /\ AtMostOne(AcksIn(s)) => AtMostOne(AcksIn(Tail(s)))
         /\ AtMostOne(AcksIn(s)) /\ 1 \in AcksIn(s) => AcksIn(Tail(s)) = {}
<1> DEFINE r == Tail(s)
<1>1. /\ IsSeq(r) /\ DOMAIN r = 1 .. Len(s) - 1 /\ Len(s) \in Nat \ {0}
      /\ DOMAIN s = 1 .. Len(s) /\ \A i \in 1 .. Len(s) - 1 : r[i] = s[i + 1]
  BY TailFacts
<1> HIDE DEF r
<1>2. \A i \in AcksIn(r) : i \in Nat /\ i + 1 \in AcksIn(s) /\ i + 1 # 1
  BY <1>1 DEF AcksIn
<1>3. ASSUME NEW i \in AcksIn(s), i # 1
      PROVE  i - 1 \in AcksIn(r)
  <2>1. i \in 1 .. Len(s) /\ s[i].t = "+"
    BY <1>1, <1>3 DEF AcksIn
  <2>2. i - 1 \in 1 .. Len(s) - 1 /\ (i - 1) + 1 = i
    BY <1>1, <1>3, <2>1
  <2>3. r[i - 1] = s[(i - 1) + 1]
    BY <1>1, <2>2
  <2> QED
    BY <1>1, <2>1, <2>2, <2>3 DEF AcksIn
<1>4. \A i, j \in Nat : i + 1 = j + 1 => i = j
  OBVIOUS
<1>5. AtMostOne(AcksIn(s)) => AtMostOne(AcksIn(r))
  BY <1>2, <1>4 DEF AtMostOne
<1>6. AtMostOne(AcksIn(s)) /\ 1 \in AcksIn(s) => AcksIn(r) = {}
  BY <1>2 DEF AtMostOne
<1> QED
  BY <1>2, <1>3, <1>5, <1>6 DEF r

\* A token is read only once: the packets that are left are the last still.
LEMMA LastTaken ==
  ASSUME NEW s, IsSeq(s), s # <<>>, Last(s, PacketsIn(s)),
         NEW r, r = Tail(s) \/ r = <<Headless>> \o Tail(s)
  PROVE  Last(r, PacketsIn(r))
<1> DEFINE u == Tail(s)
<1>1. /\ IsSeq(u) /\ DOMAIN u = 1 .. Len(s) - 1 /\ Len(s) \in Nat \ {0}
      /\ DOMAIN s = 1 .. Len(s) /\ \A i \in 1 .. Len(s) - 1 : u[i] = s[i + 1]
  BY TailFacts
<1>2. Len(u) \in Nat /\ Len(u) = Len(s) - 1
  <2> HIDE DEF u
  <2>1. Len(s) - 1 \in Nat
    BY <1>1
  <2> QED
    BY <1>1, <2>1, LenIs
<1>3. CASE r = u
  <2> HIDE DEF u
  <2>1. \A i \in PacketsIn(u) : i \in 1 .. Len(s) - 1 /\ i + 1 \in PacketsIn(s)
    BY <1>1 DEF PacketsIn
  <2>2. \A i \in PacketsIn(u) : i + 1 = Len(s)
    BY <2>1 DEF Last
  <2>3. \A i \in PacketsIn(u) : i = Len(u)
    BY <1>1, <1>2, <2>1, <2>2
  <2> QED
    BY <1>3, <2>3 DEF Last
<1>4. CASE r = <<Headless>> \o u
  <2> DEFINE t == <<Headless>>
  <2>1. IsSeq(t) /\ DOMAIN t = 1 .. 1 /\ t[1] = Headless /\ Len(t) = 1
    BY ShortSeqs, LenIs
  <2>2. /\ IsSeq(r) /\ DOMAIN r = 1 .. 1 + Len(u)
        /\ \A i \in 1 .. 1 : r[i] = t[i]
        /\ \A i \in 1 .. Len(u) : r[1 + i] = u[i]
    <3> DEFINE a == t \o u
    <3>1. /\ IsSeq(a) /\ DOMAIN a = 1 .. Len(t) + Len(u)
          /\ \A i \in 1 .. Len(t) : a[i] = t[i]
          /\ \A i \in 1 .. Len(u) : a[Len(t) + i] = u[i]
      BY <1>1, <2>1, JoinFacts
    <3>2. r = a
      BY <1>4
    <3> HIDE DEF a, t
    <3> QED
      BY <2>1, <3>1, <3>2
  <2>3. r[1].t # "$"
    BY <2>1, <2>2 DEF Headless
  <2> HIDE DEF u, t
  <2>4. Len(r) = Len(s)
    <3>1. 1 + Len(u) = Len(s) /\ Len(s) \in Nat
      BY <1>1, <1>2
    <3>2. DOMAIN r = 1 .. Len(s)
      BY <2>2, <3>1
    <3> QED
      BY <2>2, <3>1, <3>2, LenIs
  <2>5. ASSUME NEW i \in PacketsIn(r) PROVE i = Len(r)
    <3>1. i \in 1 .. 1 + Len(u) /\ r[i].t = "$" /\ i # 1
      BY <2>2, <2>3, <2>5 DEF PacketsIn
    <3>2. i - 1 \in 1 .. Len(u) /\ 1 + (i - 1) = i /\ (i - 1) + 1 = i
      BY <1>2, <3>1
    <3>3. r[i] = s[i]
      BY <1>1, <1>2, <2>2, <3>2
    <3>4. i \in PacketsIn(s)
      BY <1>1, <1>2, <3>1, <3>3 DEF PacketsIn
    <3> QED
      BY <2>4, <3>4 DEF Last
  <2> QED
    BY <2>5 DEF Last
<1> QED
  BY <1>3, <1>4

LEMMA PacketLast ==
  ASSUME NEW s, IsSeq(s), PacketsIn(s) = {}, NEW id, NEW body,
         NEW r, r = Append(s, Packet(id, body))
  PROVE  Last(r, PacketsIn(r)) /\ Carries(r, body)
<1> DEFINE p == Packet(id, body)
<1>1. /\ IsSeq(r) /\ DOMAIN r = 1 .. Len(s) + 1 /\ r[Len(s) + 1] = p
      /\ \A i \in 1 .. Len(s) : r[i] = s[i]
  BY AppendFacts
<1>2. Len(s) \in Nat /\ DOMAIN s = 1 .. Len(s) /\ Len(r) \in Nat /\ DOMAIN r = 1 .. Len(r)
  BY <1>1, SeqFacts
<1>3. p.body = body
  BY DEF Packet
<1> HIDE DEF p
<1>4. \A i \in PacketsIn(r) : i = Len(s) + 1
  BY <1>1, <1>2 DEF PacketsIn
<1>5. Len(r) = Len(s) + 1
  BY <1>1, <1>2, LenIs
<1> QED
  BY <1>1, <1>3, <1>4, <1>5 DEF Last, Carries

\* The acknowledgement of the command comes first, its reply with it or later.
Opens(t, p)  == t = <<Ack>> \/ t = <<Ack, p>>
Closes(t, p) == t = <<p>>
OneAck(r, n) == \A i \in AcksIn(r) : i = n

LEMMA AcksSent ==
  ASSUME NEW s, IsSeq(s), NEW t, NEW p, p.t = "$", Opens(t, p) \/ Closes(t, p),
         NEW r, r = s \o t
  PROVE  /\ Closes(t, p) => AcksIn(r) = AcksIn(s)
         /\ Opens(t, p) /\ AcksIn(s) = {} => OneAck(r, Len(s) + 1)
         /\ Opens(t, p) /\ s = <<>> => r[1] = Ack
         /\ s # <<>> => r[1] = s[1]
<1>1. Ack.t = "+" /\ Len(s) \in Nat /\ DOMAIN s = 1 .. Len(s)
  BY SeqFacts DEF Ack
<1>2. ASSUME NEW u, IsSeq(u), r = s \o u
      PROVE  /\ DOMAIN r = 1 .. Len(s) + Len(u)
             /\ \A i \in 1 .. Len(s) : r[i] = s[i]
             /\ \A i \in 1 .. Len(u) : r[Len(s) + i] = u[i]
             /\ s # <<>> => r[1] = s[1]
  <2> DEFINE a == s \o u
  <2>1. /\ DOMAIN a = 1 .. Len(s) + Len(u)
        /\ \A i \in 1 .. Len(s) : a[i] = s[i]
        /\ \A i \in 1 .. Len(u) : a[Len(s) + i] = u[i]
    BY <1>2, JoinFacts
  <2>2. r = a
    BY <1>2
  <2>3. s # <<>> => 1 \in 1 .. Len(s)
    BY TailFacts
  <2> HIDE DEF a
  <2> QED
    BY <2>1, <2>2, <2>3
<1>3. CASE t = <<p>>
  <2>1. IsSeq(t) /\ Len(t) = 1 /\ t[1] = p
    <3>1. IsSeq(t) /\ DOMAIN t = 1 .. 1 /\ t[1] = p
      BY <1>3, ShortSeqs
    <3> QED
      BY <3>1, LenIs
  <2>2. /\ DOMAIN r = 1 .. Len(s) + 1 /\ \A i \in 1 .. Len(s) : r[i] = s[i]
        /\ r[Len(s) + 1] = p
        /\ s # <<>> => r[1] = s[1]
    <3>1. /\ DOMAIN r = 1 .. Len(s) + Len(t)
          /\ \A i \in 1 .. Len(s) : r[i] = s[i]
          /\ \A i \in 1 .. Len(t) : r[Len(s) + i] = t[i]
          /\ s # <<>> => r[1] = s[1]
      BY <1>2, <2>1
    <3> QED
      BY <2>1, <3>1
  <2>3. AcksIn(r) = AcksIn(s)
    <3>1. \A i : i \in DOMAIN r <=> i \in 1 .. Len(s) \/ i = Len(s) + 1
      BY <1>1, <2>2
    <3>2. r[Len(s) + 1].t # "+"
      BY <2>2
    <3>3. \A i \in DOMAIN s : r[i] = s[i]
      BY <1>1, <2>2
    <3> QED
      BY <1>1, <3>1, <3>2, <3>3 DEF AcksIn
  <2>4. t # <<Ack>> /\ t # <<Ack, p>>
    <3>1. p # Ack /\ <<Ack>>[1] = Ack /\ <<Ack, p>>[1] = Ack
      BY <1>1, ShortSeqs
    <3> QED
      BY <2>1, <3>1
  <2> QED
    BY <2>2, <2>3, <2>4 DEF Opens, Closes
<1>4. CASE t = <<Ack>> \/ t = <<Ack, p>>
  <2>1. IsSeq(t) /\ Len(t) \in {1, 2} /\ t[1] = Ack /\ (Len(t) = 2 => t[2] = p)
    <3>1. /\ IsSeq(t) /\ t[1] = Ack
          /\ DOMAIN t = 1 .. 1 \/ (DOMAIN t = 1 .. 2 /\ t[2] = p)
      <4>1. CASE t = <<Ack>>
        BY <4>1, ShortSeqs
      <4>2. CASE t = <<Ack, p>>
        BY <4>2, ShortSeqs
      <4> QED
        BY <1>4, <4>1, <4>2
    <3>2. CASE DOMAIN t = 1 .. 1
      BY <3>1, <3>2, LenIs
    <3>3. CASE DOMAIN t = 1 .. 2 /\ t[2] = p
      BY <3>1, <3>3, LenIs
    <3> QED
      BY <3>1, <3>2, <3>3
  <2>2. /\ DOMAIN r = 1 .. Len(s) + Len(t) /\ \A i \in 1 .. Len(s) : r[i] = s[i]
        /\ \A i \in 1 .. Len(t) : r[Len(s) + i] = t[i]
        /\ s # <<>> => r[1] = s[1]
    BY <1>2, <2>1
  <2>3. r[Len(s) + 1] = Ack /\ (Len(t) = 2 => r[Len(s) + 2] = p)
    BY <2>1, <2>2
  <2>4. AcksIn(s) = {} => \A i \in AcksIn(r) : i = Len(s) + 1
    <3> SUFFICES ASSUME AcksIn(s) = {}, NEW i \in AcksIn(r) PROVE i = Len(s) + 1
      OBVIOUS
    <3>1. i \in 1 .. Len(s) \/ i = Len(s) + 1 \/ (Len(t) = 2 /\ i = Len(s) + 2)
      BY <1>1, <2>1, <2>2 DEF AcksIn
    <3>2. i \notin 1 .. Len(s)
      BY <1>1, <2>2 DEF AcksIn
    <3>3. ~(Len(t) = 2 /\ i = Len(s) + 2)
      BY <2>3 DEF AcksIn
    <3> QED
      BY <3>1, <3>2, <3>3
  <2>5. s = <<>> => r[1] = Ack
    <3>1. s = <<>> => Len(s) + 1 = 1
      OBVIOUS
    <3> QED
      BY <2>3, <3>1
  <2>6. t # <<p>>
    BY <1>1, <2>1, ShortSeqs
  <2> QED
    BY <2>2, <2>4, <2>5, <2>6 DEF Opens, Closes, OneAck
<1> QED
  BY <1>3, <1>4 DEF Opens, Closes

LEMMA AckFound ==
  ASSUME NEW s, IsSeq(s), NEW t, IsSeq(t), Len(t) \in {1, 2}, t[1] = Ack, NEW r, r = s \o t
  PROVE  AcksIn(r) # {}
<1> DEFINE a == s \o t
<1>1. /\ DOMAIN a = 1 .. Len(s) + Len(t)
      /\ \A i \in 1 .. Len(t) : a[Len(s) + i] = t[i]
  BY JoinFacts
<1>2. r = a /\ Len(s) \in Nat
  BY SeqFacts
<1> HIDE DEF a
<1>3. Len(s) + 1 \in DOMAIN r /\ r[Len(s) + 1] = Ack
  BY <1>1, <1>2
<1> QED
  BY <1>3 DEF AcksIn, Ack
-----------------------------------------------------------------------------
LEMMA ClientStream ==
  ASSUME MaxTimeouts = 0, SessionInv, StreamInv, ClientStep, UNCHANGED server
  PROVE  StreamInv'
<1> USE DEF SessionInv
<1>1. IsSeq(toServer) /\ IsSeq(toClient) /\ ~AskAgain
  BY DEF Shapes, AskAgain
<1>2. CASE Connect
  <2>1. /\ client.pc = "away" /\ client'.pc = "ready" /\ client'.told = client.told
        /\ toServer' = <<Ack>> /\ UNCHANGED <<toClient, server>>
    BY <1>2 DEF Connect, Shapes
  <2>2. PacketsIn(toServer') = {}
    <3>1. DOMAIN toServer' = 1 .. 1 /\ toServer'[1] = Ack
      BY <2>1, ShortSeqs
    <3> QED
      BY <3>1 DEF PacketsIn, Ack
  <2>3. AcksIn(toClient) = {}
    BY <2>1 DEF StreamInv
  <2> QED
    BY <2>1, <2>2, <2>3 DEF StreamInv, Last, Busy
<1>3. CASE Ask
  <2>1. PICK c \in Commands :
           /\ client.pc = "ready" /\ UNCHANGED <<toClient, server>>
           /\ client' = [client EXCEPT !.pc = "sent", !.asked = client.asked + 1, !.command = c]
           /\ toServer' = Append(toServer, Packet(client.asked + 1, c))
    BY <1>3 DEF Ask
  <2>2. client'.pc = "sent" /\ client'.told = client.told
    BY <2>1 DEF Shapes
  <2>3. PacketsIn(toServer) = {} /\ ~Busy /\ AnswersIn(toClient) = {} /\ AcksIn(toClient) = {}
    BY <2>1 DEF OnePlace, StreamInv
  <2>4. Last(toServer', PacketsIn(toServer'))
    BY <1>1, <2>1, <2>3, PacketLast
  <2>5. client.told # <<>> => toClient = <<>>
    BY <1>1, <2>3, EmptyStream DEF StreamInv, NoNack
  <2> QED
    BY <2>1, <2>2, <2>3, <2>4, <2>5 DEF StreamInv, Busy
<1>4. CASE ReadAck
  <2>1. /\ client.pc = "sent" /\ toClient # <<>> /\ toClient' = Tail(toClient)
        /\ UNCHANGED server
    BY <1>4 DEF ReadAck
  <2>2. /\ GreetingsIn(toClient') = {} /\ Head(toClient) = toClient[1] /\ 1 \in DOMAIN toClient
    BY <2>1, ClientTakes
  <2>3. Head(toClient) # Nack /\ server.pc # "accept"
    BY <2>1, <2>2 DEF NoNack, Nack, OnlyReplies, GreetingInv
  <2>4. /\ \A i \in AcksIn(toClient') : i \in Nat /\ i + 1 \in AcksIn(toClient) /\ i + 1 # 1
        /\ \A i \in AcksIn(toClient) : i # 1 => i - 1 \in AcksIn(toClient')
        /\ AtMostOne(AcksIn(toClient'))
        /\ 1 \in AcksIn(toClient) => AcksIn(toClient') = {}
    BY <1>1, <2>1, AcksTaken DEF StreamInv
  <2>5. CASE Head(toClient) = Ack /\ client' = [client EXCEPT !.pc = "waits"] /\ UNCHANGED toServer
    <3>1. client'.pc = "waits" /\ client'.told = client.told
      BY <2>5 DEF Shapes
    <3>2. 1 \in AcksIn(toClient)
      BY <2>2, <2>5 DEF AcksIn, Ack
    <3>3. PacketsIn(toServer) = {} /\ AcksIn(toClient') = {}
      BY <2>4, <3>2 DEF StreamInv
    <3>4. PacketsIn(toServer') = {}
      BY <2>5, <3>3
    <3> QED
      BY <2>1, <2>2, <2>3, <2>5, <3>1, <3>3, <3>4 DEF StreamInv, AtMostOne, Last
  <2>6. CASE Head(toClient).t = "$" /\ toServer' = Append(toServer, Ack) /\ UNCHANGED client
    <3>1. client.told = <<>>
      BY <2>1, <2>2, <2>6 DEF StreamInv, Ack
    <3>2. PacketsIn(toServer') = PacketsIn(toServer)
      BY <1>1, <2>6, AckAppended
    <3>3. 1 \notin AcksIn(toClient)
      BY <2>2, <2>6 DEF AcksIn
    <3>4. Busy => AcksIn(toClient') # {}
      BY <2>1, <2>4, <3>3 DEF StreamInv
    <3> QED
      BY <2>1, <2>3, <2>4, <2>6, <3>1, <3>2, <3>4 DEF StreamInv, Busy
  <2> QED
    BY <1>4, <2>3, <2>5, <2>6 DEF ReadAck
<1>5. CASE ReadReply
  <2>1. /\ client.pc = "waits" /\ toClient # <<>> /\ toClient' = Tail(toClient)
        /\ UNCHANGED server
    BY <1>5 DEF ReadReply
  <2>2. GreetingsIn(toClient') = {} /\ Head(toClient) = toClient[1] /\ 1 \in DOMAIN toClient
    BY <2>1, ClientTakes
  <2>3. AcksIn(toClient) = {} /\ AcksIn(toClient') = {} /\ PacketsIn(toServer) = {}
    <3>1. AcksIn(toClient) = {} /\ PacketsIn(toServer) = {}
      BY <2>1 DEF StreamInv
    <3>2. AcksIn(toClient') = {}
      BY <1>1, <2>1, <3>1, AcksTaken
    <3> QED
      BY <3>1, <3>2
  <2>4. Head(toClient).t = "$"
    BY <2>2, <2>3 DEF NoNack, OnlyReplies, AcksIn
  <2>5. /\ client' = [client EXCEPT !.pc = "ready",
                          !.told = Append(client.told, [command |-> client.command, asked |-> client.asked,
                                          id |-> Head(toClient).id, body |-> Head(toClient).body])]
        /\ toServer' = Append(toServer, Ack)
    BY <1>5, <2>4 DEF ReadReply
  <2>6. client'.pc = "ready"
    BY <2>5 DEF Shapes
  <2>7. PacketsIn(toServer') = {}
    BY <1>1, <2>3, <2>5, AckAppended
  <2>8. server.pc # "accept"
    BY <2>1 DEF GreetingInv
  <2> QED
    BY <2>1, <2>2, <2>3, <2>6, <2>7, <2>8 DEF StreamInv, AtMostOne, Last
<1>6. CASE Leave
  <2>1. /\ client'.pc = "gone" /\ client'.told = client.told
        /\ toClient' = <<>> /\ UNCHANGED <<toServer, server>>
    BY <1>6 DEF Leave, Shapes
  <2>2. DOMAIN toClient' = {}
    BY <2>1
  <2>3. AcksIn(toClient') = {} /\ GreetingsIn(toClient') = {}
    BY <2>2 DEF AcksIn, GreetingsIn, PacketsIn
  <2> QED
    BY <2>1, <2>3 DEF StreamInv, AtMostOne, Last, Busy
<1> QED
  BY <1>1, <1>2, <1>3, <1>4, <1>5, <1>6 DEF ClientStep

\* A step of the server that sends nothing.
LEMMA QuietStream ==
  ASSUME StreamInv, UNCHANGED <<client, toClient>>, server'.pc # "accept", Busy' => Busy,
         PacketsIn(toServer') # {} => PacketsIn(toServer) # {},
         Last(toServer, PacketsIn(toServer)) => Last(toServer', PacketsIn(toServer'))
  PROVE  StreamInv'
BY DEF StreamInv

\* A step that sends: the first one after the command, or the last.
LEMMA SendStream ==
  ASSUME SessionInv, StreamInv, UNCHANGED client, server'.pc # "accept",
         PacketsIn(toServer') = {}, client.pc \notin {"away", "ready"},
         AnswersIn(toClient) = {}, NEW t, Send(t), NEW body, NEW p, p = Packet(client.asked, body),
         \/ Opens(t, p) /\ PacketsIn(toServer) # {}
         \/ Closes(t, p) /\ Busy /\ ~Busy'
  PROVE  StreamInv'
<1> USE DEF SessionInv
<1>1. IsSeq(toClient)
  BY DEF Shapes
<1>2. CASE Gone
  <2>1. toClient' = <<>> /\ client'.pc = "gone"
    BY <1>2 DEF Send, Gone
  <2>2. DOMAIN toClient' = {}
    BY <2>1
  <2>3. AcksIn(toClient') = {} /\ GreetingsIn(toClient') = {}
    BY <2>2 DEF AcksIn, GreetingsIn, PacketsIn
  <2> QED
    BY <2>1, <2>3 DEF StreamInv, AtMostOne, Last
<1>3. CASE ~Gone
  <2>1. toClient' = toClient \o t /\ client.pc \in {"sent", "waits"} /\ client.asked # 0
    BY <1>3 DEF Send, Gone, Shapes, Numbers
  <2>2. p.t = "$" /\ p.id # 0
    BY <2>1 DEF Packet
  <2>3. /\ Closes(t, p) => AcksIn(toClient') = AcksIn(toClient)
        /\ Opens(t, p) /\ AcksIn(toClient) = {} => OneAck(toClient', Len(toClient) + 1)
        /\ Opens(t, p) /\ toClient = <<>> => toClient'[1] = Ack
        /\ toClient # <<>> => toClient'[1] = toClient[1]
    <3> DEFINE r == toClient \o t
    <3>1. Opens(t, p) \/ Closes(t, p)
      OBVIOUS
    <3>2. /\ Closes(t, p) => AcksIn(r) = AcksIn(toClient)
          /\ Opens(t, p) /\ AcksIn(toClient) = {} => OneAck(r, Len(toClient) + 1)
          /\ Opens(t, p) /\ toClient = <<>> => r[1] = Ack
          /\ toClient # <<>> => r[1] = toClient[1]
      BY ONLY <1>1, <2>2, <3>1, AcksSent
    <3>3. toClient' = r
      BY <2>1
    <3> HIDE DEF r
    <3> QED
      BY <3>2, <3>3
  <2>4. GreetingsIn(toClient') \subseteq GreetingsIn(toClient)
    <3>1. CASE t = <<Ack>>
      <4>1. PacketsIn(toClient') = PacketsIn(toClient)
            /\ \A i \in PacketsIn(toClient) : toClient'[i] = toClient[i]
        BY <1>1, <2>1, <3>1, AckSent
      <4> QED
        BY <4>1 DEF GreetingsIn
    <3>2. CASE t = <<Ack, p>> \/ t = <<p>>
      <4>1. IsReply(t, client.asked)
        BY <3>2 DEF IsReply
      <4> QED
        BY <1>1, <2>1, <4>1, AnswerSent
    <3> QED
      BY <3>1, <3>2 DEF Opens, Closes
  <2>5. CASE Opens(t, p) /\ PacketsIn(toServer) # {}
    <3>1. AcksIn(toClient) = {} /\ client.pc = "sent"
      BY <2>1, <2>5 DEF StreamInv
    <3>2. OneAck(toClient', Len(toClient) + 1)
      BY <2>3, <2>5, <3>1
    <3>3. AtMostOne(AcksIn(toClient'))
      BY <3>2 DEF AtMostOne, OneAck
    <3>4. AcksIn(toClient') # {}
      <4>1. CASE t = <<Ack>>
        <5>1. IsSeq(t) /\ Len(t) = 1 /\ t[1] = Ack
          BY <4>1, ShortSeqs, LenIs
        <5> QED
          BY <1>1, <2>1, <5>1, AckFound
      <4>2. CASE t = <<Ack, p>>
        <5>1. IsSeq(t) /\ Len(t) = 2 /\ t[1] = Ack
          BY <4>2, ShortSeqs, LenIs
        <5> QED
          BY <1>1, <2>1, <5>1, AckFound
      <4> QED
        BY <2>5, <4>1, <4>2 DEF Opens
    <3>5. client.told # <<>> => toClient = <<>>
      BY <1>1, <3>1, EmptyStream DEF StreamInv, NoNack
    <3>6. client.told # <<>> => GreetingsIn(toClient') = {} /\ toClient'[1] = Ack
      BY <2>3, <2>4, <2>5, <3>5 DEF StreamInv
    <3> QED
      BY <3>1, <3>3, <3>4, <3>6 DEF StreamInv, Last
  <2>6. CASE Closes(t, p) /\ Busy /\ ~Busy'
    <3>1. AcksIn(toClient') = AcksIn(toClient)
      BY <2>3, <2>6
    <3>2. client.pc = "sent" => toClient # <<>>
      <4>1. DOMAIN <<>> = {}
        OBVIOUS
      <4> QED
        BY <2>6, <4>1 DEF StreamInv, AcksIn
    <3>3. client.told # <<>> => /\ GreetingsIn(toClient') = {}
                                /\ client.pc = "sent" => toClient'[1] = Ack
      BY <2>3, <2>4, <3>2 DEF StreamInv
    <3> QED
      BY <2>6, <3>1, <3>3 DEF StreamInv, Last
  <2> QED
    BY <2>5, <2>6
<1> QED
  BY <1>2, <1>3
-----------------------------------------------------------------------------
\* What is left of the commands is what was there.
LEMMA CommandsTaken ==
  ASSUME NEW s, IsSeq(s), s # <<>>, NEW r, r = Tail(s) \/ r = <<Headless>> \o Tail(s)
  PROVE  \A i \in PacketsIn(r) : \E j \in PacketsIn(s) : r[i] = s[j]
<1> DEFINE u == Tail(s)
<1>1. /\ IsSeq(u)
      /\ \A i \in DOMAIN u : i + 1 \in DOMAIN s /\ i + 1 # 1 /\ u[i] = s[i + 1]
      /\ \A i \in PacketsIn(u) : i + 1 \in PacketsIn(s) /\ i + 1 # 1
  BY Taken
<1> HIDE DEF u
<1>2. \A i \in PacketsIn(u) : u[i] = s[i + 1] /\ i + 1 \in PacketsIn(s)
  BY <1>1 DEF PacketsIn
<1>3. CASE r = u
  BY <1>2, <1>3
<1>4. CASE r = <<Headless>> \o u
  <2> DEFINE t == <<Headless>>
             a == t \o u
  <2>1. IsSeq(t) /\ DOMAIN t = 1 .. 1 /\ t[1] = Headless
    BY ShortSeqs
  <2>2. \A i \in DOMAIN t : t[i].t # "$"
    BY <2>1 DEF Headless
  <2> HIDE DEF t
  <2>3. \A i \in DOMAIN a : \/ i \in DOMAIN t /\ a[i] = t[i]
                            \/ i - Len(t) \in DOMAIN u /\ a[i] = u[i - Len(t)]
    BY <1>1, <2>1, Sent
  <2>4. r = a
    BY <1>4 DEF t
  <2> HIDE DEF a
  <2>5. ASSUME NEW i \in PacketsIn(r) PROVE \E j \in PacketsIn(s) : r[i] = s[j]
    <3>1. i - Len(t) \in DOMAIN u /\ r[i] = u[i - Len(t)] /\ r[i].t = "$"
      BY <2>2, <2>3, <2>4, <2>5 DEF PacketsIn
    <3>2. i - Len(t) \in PacketsIn(u)
      BY <3>1 DEF PacketsIn
    <3> QED
      BY <1>2, <3>1, <3>2
  <2> QED
    BY <2>5
<1> QED
  BY <1>3, <1>4 DEF u

QuietServerStep == AwaitAck \/ Skip \/ Hangup \/ ReadByte \/ WriteByte \/ Restore

\* What a step that sends nothing leaves: the copy, and the commands; a server
\* that waits for an acknowledgement that does not come ends the session.
LEMMA QuietFacts ==
  ASSUME SessionInv, QuietServerStep
  PROVE  /\ toClient' = toClient /\ server'.pc # "accept" /\ (Busy' => Busy)
         /\ server'.regs = server.regs
         /\ PacketsIn(toServer') # {} => PacketsIn(toServer) # {}
         /\ Last(toServer, PacketsIn(toServer)) => Last(toServer', PacketsIn(toServer'))
         /\ \A i \in PacketsIn(toServer') : \E j \in PacketsIn(toServer) :
               toServer'[i] = toServer[j]
         /\ toServer = <<>> /\ server.pc \in {"replied", "over"} =>
               toServer' = <<>> /\ server'.pc = "over" /\ server'.restored = server.restored
<1> USE DEF SessionInv
<1>1. IsSeq(toServer)
  BY DEF Shapes
<1>2. ASSUME toServer # <<>>, toServer' = Tail(toServer) \/ toServer' = <<Headless>> \o Tail(toServer)
      PROVE  /\ PacketsIn(toServer') # {} => PacketsIn(toServer) # {}
             /\ Last(toServer, PacketsIn(toServer)) => Last(toServer', PacketsIn(toServer'))
             /\ \A i \in PacketsIn(toServer') : \E j \in PacketsIn(toServer) :
                   toServer'[i] = toServer[j]
  <2>1. \A i \in PacketsIn(toServer') : \E j \in PacketsIn(toServer) : toServer'[i] = toServer[j]
    BY <1>1, <1>2, CommandsTaken
  <2>2. Last(toServer, PacketsIn(toServer)) => Last(toServer', PacketsIn(toServer'))
    BY <1>1, <1>2, LastTaken
  <2> QED
    BY <2>1, <2>2
<1>3. CASE AwaitAck
  <2>1. /\ server.pc \in {"greeted", "replied", "refused"} /\ toServer' = AfterAck
        /\ toClient' = toClient
        /\ server' = [server EXCEPT !.pc =
                         IF AckOrNack \/ server.pc = "refused" THEN "receive" ELSE "over"]
    BY <1>3 DEF AwaitAck
  <2>2. /\ server'.pc \in {"receive", "over"} /\ server'.regs = server.regs
        /\ server'.restored = server.restored
        /\ ~AckOrNack /\ server.pc # "refused" => server'.pc = "over"
    BY <2>1 DEF Shapes
  <2>3. CASE toServer = <<>>
    <3>1. toServer' = toServer /\ ~AckOrNack
      BY <2>1, <2>3 DEF AfterAck, AckOrNack
    <3> QED
      BY <2>1, <2>2, <2>3, <3>1 DEF Busy
  <2>4. CASE toServer # <<>>
    <3>1. toServer' = Tail(toServer) \/ toServer' = <<Headless>> \o Tail(toServer)
      BY <2>1, <2>4 DEF AfterAck
    <3> QED
      BY <1>2, <2>1, <2>2, <2>4, <3>1 DEF Busy
  <2> QED
    BY <2>3, <2>4
<1>4. CASE Skip
  BY <1>2, <1>4 DEF Skip, Busy
<1>5. CASE Hangup
  BY <1>5 DEF Hangup, Shapes, Busy
<1>6. CASE ReadByte \/ WriteByte
  <2>1. /\ UNCHANGED <<toServer, toClient>> /\ server.pc \in {"reading", "writing"}
        /\ \E x : server' = [server EXCEPT !.job.done = x]
    BY <1>6 DEF ReadByte, WriteByte
  <2>2. server'.pc = server.pc /\ server'.regs = server.regs
    BY <2>1 DEF Shapes
  <2> QED
    BY <2>1, <2>2 DEF Busy
<1>7. CASE Restore
  <2>1. /\ UNCHANGED <<toServer, toClient>> /\ server.pc = "restore"
        /\ \E x : server' = [server EXCEPT !.pc = "over", !.restored = x]
    BY <1>7 DEF Restore
  <2>2. server'.pc = "over" /\ server'.regs = server.regs
    BY <2>1 DEF Shapes
  <2> QED
    BY <2>1, <2>2 DEF Busy
<1> QED
  BY <1>3, <1>4, <1>5, <1>6, <1>7 DEF QuietServerStep

LEMMA DebugFacts ==
  ASSUME SessionInv, StreamInv, Debug
  PROVE  /\ server.pc = "accept" /\ client.told = <<>> /\ toServer' = toServer
         /\ server'.pc \in {"greeted", "over"} /\ server'.restored = server.restored
         /\ DOMAIN server'.regs = SessionRegs
<1> DEFINE order == <<"esp", "eip", "eflags", "cs">>
           read == [r \in SessionRegs |-> ret'.value[CHOOSE i \in 1..4 : order[i] = r]]
<1>1. PICK regs \in {read, Blank} : \E sent :
         server' = [server EXCEPT !.pc = IF sent = "ok" THEN "greeted" ELSE "over", !.regs = regs]
  <2>1. PICK sent \in SendOutcomes :
           server' = [server EXCEPT
                    !.pc = IF sent = "ok" THEN "greeted" ELSE "over",
                    !.regs = IF ret'.status = "ok" THEN read ELSE Blank]
    BY DEF Debug
  <2> HIDE DEF read
  <2> QED
    BY <2>1
<1>2. DOMAIN read = SessionRegs /\ DOMAIN Blank = SessionRegs
  BY DEF Blank
<1> HIDE DEF read
<1>3. /\ server'.pc \in {"greeted", "over"} /\ server'.regs = regs
      /\ server'.restored = server.restored
  BY <1>1 DEF SessionInv, Shapes
<1> QED
  BY <1>1, <1>2, <1>3 DEF Debug, StreamInv

\* What the server makes of a command: it answers it, or it will.
Accepts(c) ==
    /\ Send(<<Ack>>) /\ server'.pc \in {"restore", "reading", "writing"} /\ ~IsWrite(c)
    /\ \A r \in Written : server'.regs[r] = server.regs[r]
Answers(c, body) ==
    /\ Send(<<Ack, Packet(client.asked, body)>>)
    /\ server'.pc \in {"replied", "refused", "receive", "over"}
    /\ \/ ~IsWrite(c) /\ \A r \in Written : server'.regs[r] = server.regs[r] \/ Spoils(c, r)
       \/ /\ IsWrite(c) /\ body = "OK" /\ server'.pc \in {"replied", "over"}
          /\ server'.regs = Given(server.regs, c)

LEMMA ExecuteFacts ==
  ASSUME SessionInv, Execute
  PROVE  /\ toServer # <<>> /\ toServer' = Tail(toServer) /\ server.pc = "receive"
         /\ Head(toServer) = toServer[1] /\ 1 \in PacketsIn(toServer)
         /\ PacketsIn(toServer') = {} /\ AnswersIn(toClient) = {}
         /\ client.pc \notin {"away", "ready"}
         /\ server'.restored = server.restored
         /\ DOMAIN server'.regs \in {DOMAIN server.regs, SessionRegs}
         /\ Accepts(Command) \/ \E body : Answers(Command, body)
<1> USE DEF SessionInv
<1> DEFINE n == Head(toServer).id
           c == Command
<1>1. /\ toServer # <<>> /\ Head(toServer).t = "$" /\ toServer' = Tail(toServer)
      /\ server.pc = "receive"
  BY DEF Execute, Received
<1>2. /\ Head(toServer) = toServer[1] /\ 1 \in DOMAIN toServer
      /\ 1 \in PacketsIn(toServer) => PacketsIn(toServer') = {}
  BY <1>1, ServerTakes
<1>3. 1 \in PacketsIn(toServer)
  BY <1>1, <1>2 DEF PacketsIn
<1>4. /\ PacketsIn(toServer') = {} /\ n = client.asked /\ AnswersIn(toClient) = {}
      /\ client.pc \notin {"away", "ready"}
  BY <1>2, <1>3 DEF Numbers, OnePlace
<1> HIDE DEF n, c
<1>5. ASSUME NEW s, DOMAIN s = DOMAIN server, s.pc \in {"replied", "refused"},
             s.restored = server.restored, DOMAIN s.regs \in {DOMAIN server.regs, SessionRegs},
             NEW body, Reply(s, <<Ack, Packet(n, body)>>),
             \/ /\ ~IsWrite(c)
                /\ \A r \in Written : s.regs[r] = server.regs[r] \/ Spoils(c, r)
             \/ /\ IsWrite(c) /\ body = "OK" /\ s.pc = "replied"
                /\ s.regs = Given(server.regs, c)
      PROVE  /\ server'.restored = server.restored
             /\ DOMAIN server'.regs \in {DOMAIN server.regs, SessionRegs}
             /\ Answers(c, body)
  <2>1. PICK sent \in SendOutcomes :
           server' = IF sent = "ok" THEN s
                     ELSE [s EXCEPT !.pc = IF s.pc = "refused" THEN "receive" ELSE "over"]
    BY <1>5 DEF Reply
  <2>2. /\ server'.pc \in {"replied", "refused", "receive", "over"}
        /\ s.pc = "replied" => server'.pc \in {"replied", "over"}
        /\ server'.regs = s.regs /\ server'.restored = server.restored
    BY <1>5, <2>1 DEF Shapes
  <2>3. Send(<<Ack, Packet(client.asked, body)>>)
    BY <1>4, <1>5 DEF Reply
  <2> QED
    BY <1>5, <2>2, <2>3 DEF Answers
<1>6. CASE Report(c)
  <2> DEFINE s == [server EXCEPT !.pc = "replied"]
  <2>1. PICK body : Reply(s, <<Ack, Packet(n, body)>>)
    BY <1>6 DEF Report, n
  <2>2. /\ DOMAIN s = DOMAIN server /\ s.pc = "replied" /\ s.restored = server.restored
        /\ s.regs = server.regs
    BY DEF Shapes
  <2>3. ~IsWrite(c)
    BY <1>6 DEF Report, IsWrite
  <2> HIDE DEF s
  <2> QED
    BY <1>1, <1>2, <1>3, <1>4, <1>5, <2>1, <2>2, <2>3 DEF c
<1>7. CASE SetRegisters(c)
  <2> DEFINE s == [server EXCEPT !.pc = "replied", !.regs = Given(@, c)]
  <2>1. Reply(s, <<Ack, Packet(n, "OK")>>) /\ IsWrite(c)
    BY <1>7 DEF SetRegisters, Given, IsWrite, n
  <2>2. /\ DOMAIN s = DOMAIN server /\ s.pc = "replied" /\ s.restored = server.restored
        /\ s.regs = Given(server.regs, c)
    BY DEF Shapes
  <2>3. DOMAIN s.regs = SessionRegs
    BY <2>2 DEF Given
  <2> HIDE DEF s
  <2> QED
    BY <1>1, <1>2, <1>3, <1>4, <1>5, <2>1, <2>2, <2>3 DEF c
<1>8. CASE Error(c)
  <2> DEFINE s == Refused(c)
             kept == [r \in SessionRegs |->
                        IF r \in DOMAIN c.values
                        THEN Decoded(r, server.regs[r], c.values[r], c.digits[r]) ELSE server.regs[r]]
  <2>1. Reply(s, <<Ack, Packet(n, "error")>>) /\ c.name = "malformed"
    BY <1>8 DEF Error, n
  <2>2. /\ DOMAIN s = DOMAIN server /\ s.pc = "refused" /\ s.restored = server.restored
        /\ s.regs = kept
    BY DEF Shapes, Refused
  <2>3. /\ DOMAIN kept = SessionRegs /\ Written \subseteq SessionRegs
        /\ \A r \in SessionRegs : r \notin DOMAIN c.values => kept[r] = server.regs[r]
    BY DEF SessionRegs, Written
  <2>4. ~IsWrite(c) /\ \A r \in Written : r \in DOMAIN c.values => Spoils(c, r)
    BY <2>1 DEF IsWrite, Spoils
  <2> HIDE DEF s, kept
  <2>5. \A r \in Written : s.regs[r] = server.regs[r] \/ Spoils(c, r)
    BY <2>2, <2>3, <2>4
  <2> QED
    BY <1>1, <1>2, <1>3, <1>4, <1>5, <2>1, <2>2, <2>3, <2>4, <2>5 DEF c
<1>9. CASE Resume(c)
  <2>1. PICK x : server' = [server EXCEPT !.pc = "restore", !.regs.eflags = x]
    BY <1>9 DEF Resume
  <2>2. /\ server'.pc = "restore" /\ server'.regs = [server.regs EXCEPT !.eflags = x]
        /\ server'.restored = server.restored
    BY <2>1 DEF Shapes
  <2>3. /\ DOMAIN server'.regs = DOMAIN server.regs
        /\ \A r \in Written : server'.regs[r] = server.regs[r]
    BY <2>2 DEF Written
  <2>4. Accepts(c)
    BY <1>9, <2>2, <2>3 DEF Accepts, Resume, IsWrite
  <2> QED
    BY <1>1, <1>2, <1>3, <1>4, <2>2, <2>3, <2>4 DEF c
<1>10. CASE Begin(c)
  <2>1. PICK pc \in {"reading", "writing"} : \E j : server' = [server EXCEPT !.pc = pc, !.job = j]
    BY <1>10 DEF Begin
  <2>2. /\ server'.pc \in {"reading", "writing"} /\ server'.regs = server.regs
        /\ server'.restored = server.restored
    BY <2>1 DEF Shapes
  <2>3. Accepts(c)
    BY <1>10, <2>2 DEF Accepts, Begin, IsWrite
  <2> QED
    BY <1>1, <1>2, <1>3, <1>4, <2>2, <2>3 DEF c
<1> QED
  BY <1>6, <1>7, <1>8, <1>9, <1>10 DEF Execute, c

\* The signal is no answer, and no acknowledgement.
LEMMA SignalSent ==
  ASSUME SessionInv, Debug
  PROVE  AcksIn(toClient') = {} /\ AnswersIn(toClient') = {}
<1>1. toClient = <<>> /\ Send(<<Packet(0, "signal")>>)
  BY DEF Debug, SessionInv, GreetingInv
<1>2. CASE Gone
  <2>1. DOMAIN toClient' = {}
    BY <1>1, <1>2 DEF Send
  <2> QED
    BY <2>1 DEF AcksIn, AnswersIn, PacketsIn
<1>3. CASE ~Gone
  <2> DEFINE p == Packet(0, "signal")
  <2>1. p.t = "$" /\ p.id = 0
    BY DEF Packet
  <2>2. toClient' = <<>> \o <<p>>
    BY <1>1, <1>3 DEF Send
  <2> HIDE DEF p
  <2>3. DOMAIN <<p>> = 1 .. 1 /\ <<p>>[1] = p
    BY ShortSeqs
  <2>4. <<>> \o <<p>> = <<p>>
    <3>1. <<p>> \in Seq({p})
      OBVIOUS
    <3> QED
      BY <3>1
  <2>5. \A i \in DOMAIN toClient' : toClient'[i] = p
    BY <2>2, <2>3, <2>4
  <2> QED
    BY <2>1, <2>5 DEF AcksIn, AnswersIn, PacketsIn
<1> QED
  BY <1>2, <1>3

\* The end of a transfer.
LEMMA FinishFacts ==
  ASSUME SessionInv, FinishMemory
  PROVE  /\ Busy /\ ~Busy' /\ server'.pc # "accept" /\ toServer' = toServer
         /\ PacketsIn(toServer') = {} /\ client.pc \notin {"away", "ready"}
         /\ AnswersIn(toClient) = {}
         /\ server'.regs = server.regs /\ server'.restored = server.restored
         /\ \E body : Send(<<Packet(client.asked, body)>>)
<1> USE DEF SessionInv
<1>1. Busy /\ toServer' = toServer /\ server.pc \notin {"accept"}
  BY DEF FinishMemory, Busy
<1>2. /\ PacketsIn(toServer) = {} /\ AnswersIn(toClient) = {} /\ server.job.id = client.asked
      /\ client.pc \notin {"away", "ready"}
  BY <1>1 DEF OnePlace, Numbers
<1> DEFINE s == [server EXCEPT !.pc = "replied"]
<1>3. PICK body : Reply(s, <<Packet(client.asked, body)>>)
  BY <1>2 DEF FinishMemory
<1>4. /\ DOMAIN s = DOMAIN server /\ s.pc = "replied" /\ s.regs = server.regs
      /\ s.restored = server.restored
  BY DEF Shapes
<1> HIDE DEF s
<1>5. PICK sent \in SendOutcomes :
         server' = IF sent = "ok" THEN s
                   ELSE [s EXCEPT !.pc = IF s.pc = "refused" THEN "receive" ELSE "over"]
  BY <1>3 DEF Reply
<1>6. /\ server'.pc \in {"replied", "over"} /\ server'.regs = server.regs
      /\ server'.restored = server.restored
  BY <1>4, <1>5 DEF Shapes
<1>7. Send(<<Packet(client.asked, body)>>)
  BY <1>3 DEF Reply
<1> QED
  BY <1>1, <1>2, <1>6, <1>7 DEF Busy

LEMMA ServerStream ==
  ASSUME SessionInv, StreamInv, ServerStep, UNCHANGED client
  PROVE  StreamInv'
<1>1. CASE QuietServerStep
  BY <1>1, QuietFacts, QuietStream
<1>2. CASE Debug
  <2>1. /\ client.told = <<>> /\ toServer' = toServer /\ server'.pc \in {"greeted", "over"}
        /\ AcksIn(toClient') = {} /\ server.pc = "accept"
    BY <1>2, DebugFacts, SignalSent
  <2> QED
    BY <2>1 DEF StreamInv, AtMostOne, Busy
<1>3. CASE Execute
  <2>1. /\ 1 \in PacketsIn(toServer)
        /\ PacketsIn(toServer') = {} /\ AnswersIn(toClient) = {}
        /\ client.pc \notin {"away", "ready"}
        /\ Accepts(Command) \/ \E body : Answers(Command, body)
    BY <1>3, ExecuteFacts
  <2>2. CASE Accepts(Command)
    <3> DEFINE p == Packet(client.asked, "")
               t == <<Ack>>
    <3>1. Opens(t, p) /\ Send(t) /\ server'.pc # "accept" /\ PacketsIn(toServer) # {}
      BY <2>1, <2>2 DEF Opens, Accepts
    <3>2. p = Packet(client.asked, "")
      OBVIOUS
    <3> HIDE DEF t, p
    <3> QED
      BY <2>1, <3>1, <3>2, SendStream
  <2>3. ASSUME NEW body, Answers(Command, body) PROVE StreamInv'
    <3> DEFINE p == Packet(client.asked, body)
               t == <<Ack, p>>
    <3>1. Opens(t, p) /\ Send(t) /\ server'.pc # "accept" /\ PacketsIn(toServer) # {}
      BY <2>1, <2>3 DEF Opens, Answers
    <3>2. p = Packet(client.asked, body)
      OBVIOUS
    <3> HIDE DEF t, p
    <3> QED
      BY <2>1, <3>1, <3>2, SendStream
  <2> QED
    BY <2>1, <2>2, <2>3
<1>4. CASE FinishMemory
  <2>1. /\ Busy /\ ~Busy' /\ server'.pc # "accept"
        /\ PacketsIn(toServer') = {} /\ client.pc \notin {"away", "ready"}
        /\ AnswersIn(toClient) = {}
    BY <1>4, FinishFacts
  <2>2. PICK body : Send(<<Packet(client.asked, body)>>)
    BY <1>4, FinishFacts
  <2> DEFINE p == Packet(client.asked, body)
             t == <<p>>
  <2>3. Closes(t, p) /\ Send(t) /\ p = Packet(client.asked, body)
    BY <2>2 DEF Closes
  <2> HIDE DEF t, p
  <2> QED
    BY <2>1, <2>3, SendStream
<1> QED
  BY <1>1, <1>2, <1>3, <1>4 DEF ServerStep, QuietServerStep
-----------------------------------------------------------------------------
\* An answer says what was sent.
LEMMA BodySent ==
  ASSUME NEW s, IsSeq(s), AnswersIn(s) = {}, NEW id, NEW body, NEW t,
         t = <<Ack, Packet(id, body)>>, NEW r, r = s \o t
  PROVE  Says(r, body)
<1> DEFINE p == Packet(id, body)
<1>1. p.body = body /\ Ack.t # "$" /\ IsSeq(s)
  BY DEF Packet, Ack
<1>2. t = <<Ack, p>>
  OBVIOUS
<1> HIDE DEF p
<1>3. IsSeq(t) /\ \A i \in DOMAIN t : t[i] = Ack \/ t[i] = p
  <2>1. IsSeq(t) /\ DOMAIN t = 1 .. 2 /\ t[1] = Ack /\ t[2] = p
    BY ONLY <1>2, ShortSeqs, Zenon
  <2> QED
    BY <2>1
<1> DEFINE a == s \o t
<1>4. \A i \in DOMAIN a : \/ i \in DOMAIN s /\ a[i] = s[i]
                          \/ i - Len(s) \in DOMAIN t /\ a[i] = t[i - Len(s)]
  BY ONLY <1>1, <1>3, Sent
<1>5. r = a
  OBVIOUS
<1> HIDE DEF a
<1>6. \A i \in AnswersIn(r) : r[i] = p
  <2> SUFFICES ASSUME NEW i \in AnswersIn(r), r[i] # p PROVE FALSE
    OBVIOUS
  <2>1. i \in DOMAIN r /\ r[i].t = "$" /\ r[i].id # 0
    BY DEF AnswersIn, PacketsIn
  <2>2. i \in DOMAIN s /\ r[i] = s[i]
    BY <1>1, <1>3, <1>4, <1>5, <2>1
  <2> QED
    BY <2>1, <2>2 DEF AnswersIn, PacketsIn
<1> QED
  BY <1>1, <1>6 DEF Says

\* What the client was told of one register stays what it was told.
LEMMA CaughtStays ==
  ASSUME NEW r, Caught(r), client'.told = client.told,
         server'.regs[r] = server.regs[r] \/ (Asked' /\ Spoils(client'.command, r)),
         ~Asked \/ (Asked' /\ client'.command = client.command)
  PROVE  Caught(r)'
<1>1. Told(r)' = Told(r)
  BY DEF Told
<1>2. ASSUME Told(r)' # {}
      PROVE  \E m : /\ Latest(r, m)'
                    /\ \/ server'.regs[r] = client'.told[m].command.values[r]
                       \/ SpoiledSince(r, m)'
  <2>1. PICK m : /\ Latest(r, m)
                 /\ server.regs[r] = client.told[m].command.values[r] \/ SpoiledSince(r, m)
    BY <1>1, <1>2 DEF Caught
  <2>2. Latest(r, m)'
    BY <1>1, <2>1 DEF Latest
  <2>3. SpoiledSince(r, m) => SpoiledSince(r, m)'
    BY DEF SpoiledSince
  <2>4. (Asked' /\ Spoils(client'.command, r)) => SpoiledSince(r, m)'
    BY DEF SpoiledSince
  <2> QED
    BY <2>1, <2>2, <2>3, <2>4
<1> QED
  BY <1>2 DEF Caught

LEMMA NothingTold ==
  ASSUME client'.told = <<>>, NEW r
  PROVE  Caught(r)'
<1>1. DOMAIN client'.told = {}
  OBVIOUS
<1> QED
  BY <1>1 DEF Caught, Told

\* The answer the client reads is the one to its command: it is told of its
\* write when the copy has it.
LEMMA TellsCaught ==
  ASSUME SessionInv, CopyInv, UNCHANGED server, NEW e, e.command = client.command,
         client'.told = Append(client.told, e), AnswersIn(toClient) # {},
         e.body = "OK" \/ ~IsWrite(client.command),
         NEW r \in Written, ~Unread(r) \/ Writes(client.command, r)
  PROVE  Caught(r)'
<1>1. /\ IsSeq(client'.told) /\ DOMAIN client'.told = 1 .. Len(client.told) + 1
      /\ client'.told[Len(client.told) + 1] = e
      /\ \A i \in 1 .. Len(client.told) : client'.told[i] = client.told[i]
      /\ Len(client.told) \in Nat /\ DOMAIN client.told = 1 .. Len(client.told)
  <2>1. IsSeq(client.told)
    BY DEF SessionInv, Shapes
  <2> QED
    BY <2>1, AppendFacts, SeqFacts
<1> DEFINE n == Len(client.told)
<1>2. CASE Writes(client.command, r)
  <2>1. PICK k \in Nat : DOMAIN client'.told = 1 .. k /\ k = n + 1 /\ client'.told[k] = e
    <3>1. n + 1 \in Nat
      BY <1>1
    <3> QED
      BY <1>1, <3>1
  <2>2. server.regs[r] = client.command.values[r] /\ e.body = "OK"
    BY <1>2 DEF CopyInv, IsWrite, Writes
  <2>3. k \in Told(r)'
    <3>1. k \in 1 .. k
      BY <1>1, <2>1
    <3> QED
      BY <1>2, <2>1, <2>2, <3>1 DEF Told
  <2>4. Latest(r, k)'
    <3>1. \A i \in 1 .. k : k >= i
      BY <2>1
    <3>2. Told(r)' \subseteq 1 .. k
      BY <2>1 DEF Told
    <3> QED
      BY <2>3, <3>1, <3>2 DEF Latest
  <2>5. client'.told[k].command.values[r] = server'.regs[r]
    BY <2>1, <2>2
  <2> QED
    BY <2>4, <2>5 DEF Caught
<1>3. CASE ~Writes(client.command, r)
  <2>1. Told(r)' = Told(r)
    <3>1. n + 1 \notin Told(r)'
      BY <1>1, <1>3 DEF Told
    <3>2. \A i \in Told(r)' : i \in 1 .. n
      BY <1>1, <3>1 DEF Told
    <3> QED
      BY <1>1, <3>2 DEF Told
  <2>2. Caught(r)
    BY <1>3 DEF CopyInv, Unread
  <2>3. ASSUME Told(r)' # {}
        PROVE  \E m : /\ Latest(r, m)'
                      /\ \/ server'.regs[r] = client'.told[m].command.values[r]
                         \/ SpoiledSince(r, m)'
    <3>1. PICK m : /\ Latest(r, m)
                   /\ server.regs[r] = client.told[m].command.values[r] \/ SpoiledSince(r, m)
      BY <2>1, <2>2, <2>3 DEF Caught
    <3>2. Latest(r, m)'
      BY <2>1, <3>1 DEF Latest
    <3>3. m \in 1 .. n
      BY <1>1, <3>1 DEF Latest, Told
    <3>4. SpoiledSince(r, m) => SpoiledSince(r, m)'
      <4>1. n + 1 \in DOMAIN client'.told /\ n + 1 > m /\ \A i \in 1 .. n : i \in DOMAIN client'.told
        BY <1>1, <3>3
      <4>2. client'.told[n + 1].command = client.command
        BY <1>1
      <4> QED
        BY <1>1, <4>1, <4>2 DEF SpoiledSince
    <3> QED
      BY <1>1, <3>1, <3>2, <3>3, <3>4
  <2> QED
    BY <2>3 DEF Caught
<1> QED
  BY <1>2, <1>3

LEMMA ClientCopy ==
  ASSUME MaxTimeouts = 0, SessionInv, StreamInv, CopyInv, ClientStep, UNCHANGED server
  PROVE  CopyInv'
<1> USE DEF SessionInv
<1>1. IsSeq(toServer) /\ IsSeq(toClient) /\ ~AskAgain
  BY DEF Shapes, AskAgain
<1>2. CASE Connect
  <2>1. /\ client.pc = "away" /\ client'.command = client.command /\ client'.told = client.told
        /\ toServer' = <<Ack>> /\ UNCHANGED <<toClient, server>>
    BY <1>2 DEF Connect, Shapes
  <2>2. PacketsIn(toServer') = {}
    <3>1. DOMAIN toServer' = 1 .. 1 /\ toServer'[1] = Ack
      BY <2>1, ShortSeqs
    <3> QED
      BY <3>1 DEF PacketsIn, Ack
  <2>3. ASSUME NEW r \in Written PROVE Caught(r)'
    <3>1. Caught(r)
      BY <2>1 DEF CopyInv, Unread, Asked
    <3> QED
      BY <2>1, <3>1, CaughtStays DEF Asked
  <2> QED
    BY <2>1, <2>2, <2>3 DEF CopyInv, Carries, Busy
<1>3. CASE Ask
  <2>1. PICK c \in Commands :
           /\ client.pc = "ready" /\ UNCHANGED <<toClient, server>>
           /\ client' = [client EXCEPT !.pc = "sent", !.asked = client.asked + 1, !.command = c]
           /\ toServer' = Append(toServer, Packet(client.asked + 1, c))
    BY <1>3 DEF Ask
  <2>2. client'.command = c /\ client'.told = client.told
    BY <2>1 DEF Shapes
  <2>3. PacketsIn(toServer) = {} /\ ~Busy /\ AnswersIn(toClient) = {}
    BY <2>1 DEF OnePlace
  <2>4. Carries(toServer', c)
    BY <1>1, <2>1, <2>3, PacketLast
  <2>5. ASSUME NEW r \in Written PROVE Caught(r)'
    <3>1. Caught(r)
      BY <2>1 DEF CopyInv, Unread, Asked
    <3> QED
      BY <2>1, <2>2, <3>1, CaughtStays DEF Asked
  <2> QED
    BY <2>1, <2>2, <2>3, <2>4, <2>5 DEF CopyInv, Carries, Busy
<1>4. CASE ReadAck
  <2>1. /\ client.pc = "sent" /\ toClient # <<>> /\ toClient' = Tail(toClient)
        /\ UNCHANGED server
    BY <1>4 DEF ReadAck
  <2>2. /\ AnswersIn(toClient') # {} => AnswersIn(toClient) # {}
        /\ \A i \in AnswersIn(toClient') : i + 1 \in AnswersIn(toClient)
                                           /\ toClient'[i] = toClient[i + 1]
    <3> DEFINE u == Tail(toClient)
    <3>1. /\ \A i \in DOMAIN u : i + 1 \in DOMAIN toClient /\ i + 1 # 1 /\ u[i] = toClient[i + 1]
          /\ \A i \in AnswersIn(u) : i + 1 \in AnswersIn(toClient) /\ i + 1 # 1
      BY <1>1, <2>1, Taken
    <3>2. toClient' = u
      BY <2>1
    <3> HIDE DEF u
    <3> QED
      BY <3>1, <3>2 DEF AnswersIn, PacketsIn
  <2>3. /\ Head(toClient) = toClient[1] /\ 1 \in DOMAIN toClient /\ Head(toClient) # Nack
    <3>1. Head(toClient) = toClient[1] /\ 1 \in DOMAIN toClient
      BY <2>1, ClientTakes
    <3> QED
      BY <3>1 DEF NoNack, Nack, OnlyReplies
  <2>4. ASSUME client'.command = client.command,
               \A i \in PacketsIn(toServer') : i \in PacketsIn(toServer) /\ toServer'[i] = toServer[i],
               \A r \in Written : Caught(r)' \/ Unread(r)'
        PROVE  CopyInv'
    BY <2>1, <2>2, <2>4 DEF CopyInv, Carries, Says, Busy
  <2>5. CASE Head(toClient) = Ack /\ client' = [client EXCEPT !.pc = "waits"] /\ UNCHANGED toServer
    <3>1. client'.pc = "waits" /\ client'.told = client.told /\ client'.command = client.command
      BY <2>5 DEF Shapes
    <3>2. ASSUME NEW r \in Written PROVE Caught(r)' \/ Unread(r)'
      <4>1. CASE Caught(r)
        BY <2>1, <3>1, <4>1, CaughtStays DEF Asked
      <4>2. CASE Unread(r)
        BY <2>1, <2>5, <3>1, <4>2 DEF Unread, Asked
      <4> QED
        BY <4>1, <4>2 DEF CopyInv
    <3> QED
      BY <2>4, <2>5, <3>1, <3>2
  <2>6. CASE Head(toClient).t = "$" /\ toServer' = Append(toServer, Ack) /\ UNCHANGED client
    <3>1. client'.told = <<>>
      BY <2>1, <2>3, <2>6 DEF StreamInv, Ack
    <3>2. \A i \in PacketsIn(toServer') : i \in PacketsIn(toServer) /\ toServer'[i] = toServer[i]
      BY <1>1, <2>6, AckAppended
    <3> QED
      BY <2>4, <2>6, <3>1, <3>2, NothingTold
  <2> QED
    BY <1>4, <2>3, <2>5, <2>6 DEF ReadAck
<1>5. CASE ReadReply
  <2>1. /\ client.pc = "waits" /\ toClient # <<>> /\ toClient' = Tail(toClient)
        /\ UNCHANGED server
    BY <1>5 DEF ReadReply
  <2>2. Head(toClient) = toClient[1] /\ 1 \in DOMAIN toClient
    BY <2>1, ClientTakes
  <2>3. AcksIn(toClient) = {} /\ PacketsIn(toServer) = {} /\ GreetingsIn(toClient) = {}
    BY <2>1 DEF StreamInv, GreetingInv
  <2>4. Head(toClient).t = "$" /\ 1 \in AnswersIn(toClient)
    BY <2>2, <2>3 DEF NoNack, OnlyReplies, AcksIn, GreetingsIn, AnswersIn, PacketsIn
  <2>5. AnswersIn(toClient') = {}
    <3> DEFINE u == Tail(toClient)
    <3>1. \A i \in AnswersIn(u) : i + 1 \in AnswersIn(toClient) /\ i + 1 # 1
      BY <1>1, <2>1, Taken
    <3>2. toClient' = u
      BY <2>1
    <3> HIDE DEF u
    <3> QED
      BY <2>4, <3>1, <3>2 DEF OnePlace, AtMostOne
  <2> DEFINE e == [command |-> client.command, asked |-> client.asked,
                   id |-> Head(toClient).id, body |-> Head(toClient).body]
  <2>6. /\ client' = [client EXCEPT !.pc = "ready", !.told = Append(client.told, e)]
        /\ toServer' = Append(toServer, Ack)
    BY <1>5, <2>4 DEF ReadReply
  <2>7. /\ e.command = client.command
        /\ e.body = "OK" \/ ~IsWrite(client.command)
    BY <2>2, <2>4 DEF CopyInv, Says
  <2> HIDE DEF e
  <2>8. client'.command = client.command /\ client'.told = Append(client.told, e)
    BY <2>6 DEF Shapes
  <2>9. PacketsIn(toServer') = {}
    BY <1>1, <2>3, <2>6, AckAppended
  <2>10. ASSUME NEW r \in Written PROVE Caught(r)'
    <3>1. ~Unread(r) \/ Writes(client.command, r)
      BY DEF Unread
    <3> QED
      BY <2>1, <2>4, <2>7, <2>8, <3>1, TellsCaught
  <2> QED
    BY <2>1, <2>5, <2>8, <2>9, <2>10 DEF CopyInv, Carries, Busy
<1>6. CASE Leave
  <2>1. /\ client'.pc = "gone" /\ client'.told = client.told /\ client'.command = client.command
        /\ toClient' = <<>> /\ UNCHANGED <<toServer, server>>
    BY <1>6 DEF Leave, Shapes
  <2>2. AnswersIn(toClient') = {}
    <3>1. DOMAIN toClient' = {}
      BY <2>1
    <3> QED
      BY <3>1 DEF AnswersIn, PacketsIn
  <2>3. ASSUME NEW r \in Written PROVE Caught(r)' \/ Unread(r)'
    <3>1. CASE Caught(r)
      BY <2>1, <3>1, CaughtStays DEF Asked
    <3>2. CASE Unread(r)
      BY <2>1, <3>2 DEF Unread, Asked
    <3> QED
      BY <3>1, <3>2 DEF CopyInv
  <2> QED
    BY <2>1, <2>2, <2>3 DEF CopyInv, Carries, Busy
<1> QED
  BY <1>1, <1>2, <1>3, <1>4, <1>5, <1>6 DEF ClientStep

\* Only the write-back ends a session that wrote back, and nothing follows it.
LEMMA RestoredLast ==
  ASSUME SessionInv, CopyInv, ServerStep
  PROVE  /\ ~server.restored /\ (server'.restored => Restore)
         /\ server'.restored => server'.pc = "over"
<1> USE DEF SessionInv
<1>1. server.pc # "over"
  BY DEF ServerStep, Debug, AwaitAck, Skip, Hangup, Execute, Received, ReadByte, WriteByte,
         FinishMemory, Restore
<1>2. ~server.restored
  BY <1>1 DEF CopyInv
<1>3. CASE Debug
  <2>1. PICK regs, sent :
           server' = [server EXCEPT !.pc = IF sent = "ok" THEN "greeted" ELSE "over", !.regs = regs]
    BY <1>3 DEF Debug
  <2> QED
    BY <1>2, <2>1 DEF Shapes
<1>4. CASE Execute
  BY <1>2, <1>4, ExecuteFacts
<1>5. CASE FinishMemory
  BY <1>2, <1>5, FinishFacts
<1>6. CASE AwaitAck \/ Skip \/ Hangup
  BY <1>2, <1>6 DEF AwaitAck, Skip, Hangup, Shapes
<1>7. CASE ReadByte \/ WriteByte
  <2>1. PICK x : server' = [server EXCEPT !.job.done = x]
    BY <1>7 DEF ReadByte, WriteByte
  <2> QED
    BY <1>2, <2>1 DEF Shapes
<1>8. CASE Restore
  <2>1. PICK x : server' = [server EXCEPT !.pc = "over", !.restored = x]
    BY <1>8 DEF Restore
  <2> QED
    BY <1>2, <1>8, <2>1 DEF Shapes
<1> QED
  BY <1>3, <1>4, <1>5, <1>6, <1>7, <1>8 DEF ServerStep

\* The command the server carries out is the one the client waits for.
LEMMA ExecuteCopy ==
  ASSUME SessionInv, StreamInv, CopyInv, Execute, UNCHANGED client
  PROVE  CopyInv'
<1> USE DEF SessionInv
<1>1. /\ toServer # <<>> /\ toServer' = Tail(toServer) /\ server.pc = "receive"
      /\ Head(toServer) = toServer[1] /\ 1 \in PacketsIn(toServer)
      /\ PacketsIn(toServer') = {} /\ AnswersIn(toClient) = {}
      /\ client.pc \notin {"away", "ready"}
      /\ server'.restored = server.restored /\ DOMAIN server'.regs = SessionRegs
      /\ Accepts(Command) \/ \E body : Answers(Command, body)
  BY ExecuteFacts DEF CopyInv
<1>2. /\ Command = client.command /\ ~server'.restored
      /\ \A r \in Written : Caught(r)
  <2>1. Command = client.command
    BY <1>1 DEF Command, CopyInv, Carries
  <2>2. \A r \in Written : ~Unread(r)
    BY <1>1 DEF Unread
  <2> QED
    BY <1>1, <2>1, <2>2 DEF CopyInv
<1>3. IsSeq(toClient)
  BY DEF Shapes
<1>4. Gone => AnswersIn(toClient') = {}
  <2>1. Gone => toClient' = <<>>
    BY <1>1 DEF Accepts, Answers, Send
  <2>2. DOMAIN <<>> = {}
    OBVIOUS
  <2> QED
    BY <2>1, <2>2 DEF AnswersIn, PacketsIn
<1>5. CASE Accepts(Command)
  <2>1. AnswersIn(toClient') = {}
    <3>1. CASE ~Gone
      <4>1. toClient' = toClient \o <<Ack>>
        BY <1>5, <3>1 DEF Accepts, Send
      <4>2. PacketsIn(toClient') = PacketsIn(toClient)
            /\ \A i \in PacketsIn(toClient) : toClient'[i] = toClient[i]
        BY <1>3, <4>1, AckSent
      <4> QED
        BY <1>1, <4>2 DEF AnswersIn
    <3> QED
      BY <1>4, <3>1
  <2>2. ~IsWrite(client.command) /\ \A r \in Written : server'.regs[r] = server.regs[r]
    BY <1>2, <1>5 DEF Accepts
  <2>3. \A r \in Written : Caught(r)'
    BY <1>2, <2>2, CaughtStays DEF Asked
  <2> QED
    BY <1>1, <1>2, <2>1, <2>2, <2>3 DEF CopyInv, Carries
<1>6. ASSUME NEW body, Answers(Command, body)
      PROVE  CopyInv'
  <2>1. Says(toClient', body)
    <3>1. CASE ~Gone
      <4> DEFINE t == <<Ack, Packet(client.asked, body)>>
                 r == toClient \o t
      <4>1. t = <<Ack, Packet(client.asked, body)>> /\ toClient' = r /\ r = toClient \o t
        BY <1>6, <3>1 DEF Answers, Send
      <4> HIDE DEF t, r
      <4>2. Says(r, body)
        BY ONLY <1>1, <1>3, <4>1, BodySent
      <4> QED
        BY <4>1, <4>2
    <3> QED
      BY <1>4, <3>1 DEF Says
  <2>2. ~Busy'
    BY <1>6 DEF Answers, Busy
  <2> DEFINE c == client.command
  <2>3. CASE ~IsWrite(c) /\ \A r \in Written : server'.regs[r] = server.regs[r] \/ Spoils(c, r)
    <3>1. Asked'
      BY <1>1 DEF Asked
    <3>2. \A r \in Written : Caught(r)'
      BY <1>2, <2>3, <3>1, CaughtStays
    <3> QED
      BY <1>1, <1>2, <2>2, <2>3, <3>2 DEF CopyInv, Carries
  <2>4. CASE /\ IsWrite(c) /\ body = "OK" /\ server'.pc \in {"replied", "over"}
             /\ server'.regs = Given(server.regs, c)
    <3>1. \A r \in Written : server'.regs[r] = IF Writes(c, r) THEN c.values[r] ELSE server.regs[r]
      BY <2>4 DEF Given, Written, SessionRegs, Writes, IsWrite
    <3>2. ASSUME NEW r \in Written PROVE Caught(r)' \/ Unread(r)'
      <4>1. CASE ~Writes(c, r)
        <5>1. server'.regs[r] = server.regs[r]
          BY <3>1, <4>1
        <5>2. Asked'
          BY <1>1 DEF Asked
        <5> QED
          BY <1>2, <5>1, <5>2, CaughtStays
      <4>2. CASE Writes(c, r) /\ client.told = <<>>
        BY <4>2, NothingTold
      <4>3. CASE Writes(c, r) /\ client.told # <<>>
        <5>1. Len(toServer) = 1
          BY <1>1, <4>3 DEF StreamInv, Last
        <5>2. toServer' = <<>>
          <6>1. PICK X : toServer \in Seq(X)
            BY DEF Shapes, IsSeq
          <6> QED
            BY <1>1, <5>1, <6>1
        <5> QED
          BY <1>1, <1>2, <2>4, <4>3, <5>2 DEF Unread, Asked
      <4> QED
        BY <4>1, <4>2, <4>3
    <3> QED
      BY <1>1, <1>2, <2>1, <2>2, <2>4, <3>1, <3>2 DEF CopyInv, Carries
  <2>5. \/ ~IsWrite(c) /\ \A r \in Written : server'.regs[r] = server.regs[r] \/ Spoils(c, r)
        \/ /\ IsWrite(c) /\ body = "OK" /\ server'.pc \in {"replied", "over"}
           /\ server'.regs = Given(server.regs, c)
    BY <1>2, <1>6 DEF Answers
  <2> QED
    BY <2>3, <2>4, <2>5
<1> QED
  BY <1>1, <1>5, <1>6

LEMMA ServerCopy ==
  ASSUME SessionInv, StreamInv, CopyInv, ServerStep, UNCHANGED client
  PROVE  CopyInv'
<1>0. ~server.restored /\ (server'.restored => Restore) /\ (server'.restored => server'.pc = "over")
  BY RestoredLast
<1>1. CASE QuietServerStep
  <2>1. /\ toClient' = toClient /\ (Busy' => Busy) /\ server'.regs = server.regs
        /\ \A i \in PacketsIn(toServer') : \E j \in PacketsIn(toServer) :
              toServer'[i] = toServer[j]
        /\ toServer = <<>> /\ server.pc \in {"replied", "over"} =>
              toServer' = <<>> /\ server'.pc = "over" /\ server'.restored = server.restored
    BY <1>1, QuietFacts
  <2>2. Carries(toServer', client'.command)
    BY <2>1 DEF CopyInv, Carries
  <2>3. ASSUME NEW r \in Written PROVE Caught(r)' \/ Unread(r)'
    <3>1. CASE Caught(r)
      BY <2>1, <3>1, CaughtStays DEF Asked
    <3>2. CASE Unread(r)
      BY <2>1, <3>2 DEF Unread, Asked
    <3> QED
      BY <3>1, <3>2 DEF CopyInv
  <2> QED
    BY <1>0, <2>1, <2>2, <2>3 DEF CopyInv
<1>2. CASE Debug
  <2>1. /\ client.told = <<>> /\ toServer' = toServer /\ server'.pc \in {"greeted", "over"}
        /\ DOMAIN server'.regs = SessionRegs /\ AnswersIn(toClient') = {}
    BY <1>2, DebugFacts, SignalSent
  <2>2. \A r \in Written : Caught(r)'
    BY <2>1, NothingTold
  <2>3. Carries(toServer', client'.command)
    BY <2>1 DEF CopyInv
  <2> QED
    BY <1>0, <2>1, <2>2, <2>3 DEF CopyInv, Busy
<1>3. CASE Execute
  BY <1>3, ExecuteCopy
<1>4. CASE FinishMemory
  <2>1. /\ Busy /\ PacketsIn(toServer') = {} /\ server'.regs = server.regs
    BY <1>4, FinishFacts
  <2>2. ~IsWrite(client'.command)
    BY <2>1 DEF CopyInv
  <2>3. ASSUME NEW r \in Written PROVE Caught(r)'
    <3>1. Caught(r)
      BY <2>2 DEF CopyInv, Unread, Writes, IsWrite
    <3> QED
      BY <2>1, <3>1, CaughtStays DEF Asked
  <2> QED
    BY <1>0, <2>1, <2>2, <2>3 DEF CopyInv, Carries
<1> QED
  BY <1>1, <1>2, <1>3, <1>4 DEF ServerStep, QuietServerStep

LEMMA WrittenBackIs ==
  /\ DOMAIN WrittenBack = 1 .. 3 /\ Len(WrittenBack) = 3
  /\ WrittenBack[1] = "esp" /\ WrittenBack[2] = "eip" /\ WrittenBack[3] = "eflags"
<1>1. DOMAIN <<"esp", "eip", "eflags">> = 1 .. 3 /\ Len(<<"esp", "eip", "eflags">>) = 3
  OBVIOUS
<1> QED
  BY <1>1 DEF WrittenBack

\* The two registers end in the file as they were in the batch.
IsWritten(f, xs, g) == \E d : g = [Assigned(f, WrittenBack, xs, 3) EXCEPT !.desc = d]

LEMMA AssignedBack ==
  ASSUME NEW f, IsFile(f), NEW xs, NEW g, IsWritten(f, xs, g)
  PROVE  g["esp"] = xs[1] /\ g["eip"] = xs[2]
<1>0. PICK d : g = [Assigned(f, WrittenBack, xs, 3) EXCEPT !.desc = d]
  BY DEF IsWritten
<1> DEFINE h == Assigned(f, WrittenBack, xs, 3)
           at(r) == {i \in 1..3 : WrittenBack[i] = r}
<1>1. at("esp") = {1} /\ at("eip") = {2}
  BY WrittenBackIs
<1>2. Max({1}) = 1 /\ Max({2}) = 2
  BY DEF Max
<1>3. DOMAIN f = Names
  BY DEF IsFile
<1>4. h = [r \in Names |-> IF at(r) = {} THEN f[r] ELSE xs[Max(at(r))]]
  BY <1>3 DEF Assigned
<1> HIDE DEF at, h
<1>5. h["esp"] = xs[1] /\ h["eip"] = xs[2] /\ DOMAIN h = Names
  <2>1. "esp" \in Names /\ "eip" \in Names /\ {1} # {} /\ {2} # {}
    BY DEF Names
  <2> QED
    BY <1>1, <1>2, <1>4, <2>1
<1>6. [h EXCEPT !.desc = d]["esp"] = h["esp"] /\ [h EXCEPT !.desc = d]["eip"] = h["eip"]
  BY <1>5 DEF Names
<1> QED
  BY <1>0, <1>5, <1>6 DEF h

\* A batch that succeeds is what the next run starts from.
LEMMA BatchBack ==
  ASSUME NEW c, CpuOk(c), Fetched(c), NEW m, NEW vs,
         NEW p \in RegWriteBatch(c, m, WrittenBack, vs), p.status = "ok"
  PROVE  LET v == UpdateRegisters(p.cpu).vcpu IN v["esp"] = vs[1] /\ v["eip"] = vs[2]
<1>1. CASE c.backend = "whvp"
  <2>1. p \in WhvpBatch(c, m, WrittenBack, vs)
    BY <1>1 DEF RegWriteBatch
  <2>2. ~ \E k \in DOMAIN WrittenBack : WrittenBack[k] \notin Names
    <3>1. \A k \in 1 .. 3 : k = 1 \/ k = 2 \/ k = 3
      OBVIOUS
    <3>2. {"esp", "eip", "eflags"} \subseteq Names
      BY DEF Names
    <3>3. \A k \in 1 .. 3 : WrittenBack[k] \in {"esp", "eip", "eflags"}
      BY <3>1, WrittenBackIs
    <3> QED
      BY <3>2, <3>3, WrittenBackIs
  <2> DEFINE file(d) == [Assigned(c.vcpu, WrittenBack, vs, Len(WrittenBack)) EXCEPT !.desc = d]
  <2>3. PICK d : p.cpu = [c EXCEPT !.vcpu = file(d)]
    <3> DEFINE selectors == {i \in DOMAIN WrittenBack : WrittenBack[i] = "cs"}
               descs == IF selectors = {} THEN {c.vcpu.desc}
                        ELSE LoadSegmentSelector(c, c.vcpu, m, vs[Max(selectors)])
    <3>0. p \in {Outcome([c EXCEPT !.vcpu = file(d)], "ok") : d \in descs}
      BY <2>1, <2>2, Zenon DEF WhvpBatch
    <3> HIDE DEF descs, file
    <3>1. PICK d : p = Outcome([c EXCEPT !.vcpu = file(d)], "ok")
      BY <3>0
    <3>2. p.cpu = [c EXCEPT !.vcpu = file(d)]
      BY <3>1 DEF Outcome
    <3> QED
      BY <3>2
  <2> DEFINE g == [Assigned(c.vcpu, WrittenBack, vs, 3) EXCEPT !.desc = d]
  <2>4. g["esp"] = vs[1] /\ g["eip"] = vs[2]
    <3>1. IsWritten(c.vcpu, vs, g) /\ IsFile(c.vcpu)
      BY DEF CpuOk, IsWritten
    <3> HIDE DEF g
    <3> QED
      BY <3>1, AssignedBack
  <2>5. p.cpu = [c EXCEPT !.vcpu = g]
    <3>1. file(d) = g
      BY WrittenBackIs, Zenon
    <3> HIDE DEF file, g
    <3> QED
      BY <2>3, <3>1
  <2> HIDE DEF g
  <2>6. p.cpu.vcpu = g /\ ~p.cpu.changed
    BY <1>1, <2>5 DEF CpuOk
  <2> QED
    BY <2>4, <2>6 DEF UpdateRegisters
<1>2. CASE c.backend # "whvp"
  <2> DEFINE rs == WrittenBack
             xs == [i \in DOMAIN rs |-> IF c.backend = "haxm" THEN HaxmFlags(rs[i], vs[i]) ELSE vs[i]]
             good == Max({k \in 0 .. Len(rs) : \A i \in 1..k : rs[i] \in Names})
             selectors == {i \in 1..good : rs[i] = "cs"}
             file(d) == [Assigned(c.cache, rs, xs, good) EXCEPT !.desc = d]
             flag == c.changed \/ good = Len(rs) \/ selectors # {}
             descs == IF selectors = {} THEN {c.cache.desc}
                      ELSE LET i == Max(selectors)
                               seen == [c EXCEPT !.cache = Assigned(c.cache, rs, xs, i - 1)]
                           IN  LoadSegmentSelector(seen, seen.cache, m, xs[i])
  <2>1. p \in {Outcome([c EXCEPT !.cache = file(d), !.changed = flag],
                       IF good = Len(rs) THEN "ok" ELSE "invalid register") : d \in descs}
    BY <1>2 DEF RegWriteBatch, CachedBatch
  <2>2. PICK d : p = Outcome([c EXCEPT !.cache = file(d), !.changed = flag],
                             IF good = Len(rs) THEN "ok" ELSE "invalid register")
    BY <2>1
  <2>3. good = 3 /\ flag
    BY <2>2, WrittenBackIs DEF Outcome
  <2>4. xs[1] = vs[1] /\ xs[2] = vs[2]
    BY WrittenBackIs DEF HaxmFlags
  <2> HIDE DEF xs
  <2> DEFINE g == [Assigned(c.cache, WrittenBack, xs, 3) EXCEPT !.desc = d]
  <2>5. g["esp"] = vs[1] /\ g["eip"] = vs[2]
    <3>1. IsWritten(c.cache, xs, g) /\ IsFile(c.cache)
      BY DEF CpuOk, IsWritten
    <3> HIDE DEF g
    <3> QED
      BY <2>4, <3>1, AssignedBack
  <2>6. p.cpu = [c EXCEPT !.cache = file(d), !.changed = flag] /\ file(d) = g
    BY <2>2, <2>3 DEF Outcome
  <2> HIDE DEF g, file, flag
  <2>7. p.cpu.cache = g /\ p.cpu.changed
    BY <2>3, <2>6 DEF CpuOk
  <2>8. UpdateRegisters(p.cpu).vcpu = g
    <3>1. DOMAIN p.cpu = DOMAIN c
      BY <2>6
    <3> QED
      BY <2>7, <3>1 DEF UpdateRegisters, CpuOk
  <2> QED
    BY <2>5, <2>8
<1> QED
  BY <1>1, <1>2

\* The write-back of Debug (gdbserver.cpp): when the backend reports success,
\* the next run starts from the copy.
LEMMA RestoreFacts ==
  ASSUME CpuOk(cpu), SessionInv, Restore
  PROVE  /\ ret'.request.op # "run"
         /\ server'.restored => \A r \in Written : UpdateRegisters(cpu').vcpu[r] = server'.regs[r]
<1> DEFINE vs == [i \in DOMAIN WrittenBack |-> server.regs[WrittenBack[i]]]
           q == [op |-> "write", regs |-> WrittenBack, values |-> vs]
<1>1. WriteRegisters(q) /\ server' = [server EXCEPT !.pc = "over", !.restored = ret'.status = "ok"]
  BY DEF Restore
<1>2. q.op = "write" /\ q.regs = WrittenBack /\ q.values = vs
  OBVIOUS
<1>3. vs[1] = server.regs["esp"] /\ vs[2] = server.regs["eip"]
  BY WrittenBackIs
<1> HIDE DEF q, vs
<1>4. server'.regs = server.regs /\ (server'.restored => ret'.status = "ok")
  BY <1>1 DEF SessionInv, Shapes
<1>5. ret'.request = q
  BY <1>1 DEF WriteRegisters, Failed, Answer
<1>6. ASSUME ret'.status = "ok"
      PROVE  \A r \in Written : UpdateRegisters(cpu').vcpu[r] = server.regs[r]
  <2>1. PICK o \in Refresh(cpu) :
           o.status = "ok" /\ \E p \in RegWriteBatch(o.cpu, mem, q.regs, q.values) :
                                 cpu' = p.cpu /\ Answer(q, p.status, <<>>)
    BY <1>1, <1>6 DEF WriteRegisters, Failed, Answer
  <2>2. PICK p \in RegWriteBatch(o.cpu, mem, WrittenBack, vs) : cpu' = p.cpu /\ p.status = "ok"
    BY <1>2, <1>6, <2>1 DEF Answer
  <2>3. CpuOk(o.cpu) /\ Fetched(o.cpu)
    BY <2>1, RefreshKeeps
  <2>4. LET v == UpdateRegisters(p.cpu).vcpu IN v["esp"] = vs[1] /\ v["eip"] = vs[2]
    BY <2>2, <2>3, BatchBack
  <2> QED
    BY <1>3, <2>2, <2>4 DEF Written
<1> QED
  BY <1>2, <1>4, <1>5, <1>6

\* Under the debugger nothing runs before the session is over.
LEMMA ServerRestored ==
  ASSUME SessionInv, CopyInv, RestoredInv, driver = "debugger" => CpuOk(cpu),
         ServerStep, driver = "debugger", UNCHANGED <<requests, driver>>
  PROVE  RestoredInv'
<1>1. CASE Restore
  BY <1>1, RestoreFacts DEF RestoredInv
<1>2. CASE ~Restore
  <2>1. ~server'.restored
    BY <1>2, RestoredLast
  <2>2. ret' = ret \/ ret'.request.op # "run"
    <3>1. CASE Debug
      <4>1. PICK rs : RegRead([op |-> "read", regs |-> rs])
        BY <3>1 DEF Debug
      <4> DEFINE q == [op |-> "read", regs |-> rs]
      <4>2. q.op = "read" /\ RegRead(q)
        BY <4>1
      <4> HIDE DEF q
      <4>3. \E st, v : Answer(q, st, v)
        BY <4>2, Zenon DEF RegRead, Failed
      <4>4. ret'.request = q
        BY <4>3 DEF Answer
      <4> QED
        BY <4>2, <4>4
    <3>2. CASE ReadByte
      BY <3>2 DEF ReadByte, VMemRead, Answer
    <3>3. CASE WriteByte
      BY <3>3 DEF WriteByte, VMemWrite, Answer
    <3>4. CASE AwaitAck \/ Skip \/ Hangup \/ Execute \/ FinishMemory
      BY <3>4 DEF AwaitAck, Skip, Hangup, Execute, FinishMemory, Report, SetRegisters, Error,
                  Resume, Begin
    <3> QED
      BY <1>2, <3>1, <3>2, <3>3, <3>4 DEF ServerStep
  <2> QED
    BY <2>1, <2>2 DEF RestoredInv
<1> QED
  BY <1>1, <1>2

WriteInv == /\ SessionInv /\ StreamInv /\ CopyInv /\ RestoredInv
            /\ driver = "debugger" => CpuOk(cpu)

LEMMA WriteStart ==
  ASSUME Backends \subseteq {"kvm", "haxm", "whvp"}, \A f \in Powerup : IsFile(f), SessionInit
  PROVE  WriteInv
<1> USE DEF SessionInit
<1>1. DOMAIN toClient = {} /\ DOMAIN toServer = {} /\ DOMAIN client.told = {}
  OBVIOUS
<1>2. /\ PacketsIn(toServer) = {} /\ AcksIn(toClient) = {} /\ AnswersIn(toClient) = {}
      /\ ~Busy
  BY <1>1 DEF PacketsIn, AcksIn, AnswersIn, Busy
<1>3. StreamInv
  BY <1>2 DEF StreamInv, AtMostOne
<1>4. \A r : Told(r) = {}
  BY <1>1 DEF Told
<1>5. DOMAIN server.regs = SessionRegs /\ ~server.restored
  BY DEF Blank
<1>6. CopyInv
  BY <1>2, <1>4, <1>5 DEF CopyInv, Carries, Caught
<1>7. RestoredInv
  BY <1>5 DEF RestoredInv, Init
<1> QED
  BY <1>3, <1>6, <1>7, SessionStart, CpuStart DEF WriteInv

LEMMA WriteStep ==
  ASSUME MaxTimeouts = 0, WriteInv, [SessionNext]_vars
  PROVE  WriteInv'
<1> USE DEF WriteInv
<1>1. SessionInv'
  BY SessionStep
<1>2. CASE UNCHANGED gdbVars
  <2>1. StreamInv' /\ CopyInv'
    BY <1>2 DEF gdbVars, StreamInv, CopyInv, Busy, Caught, Unread, Told, Latest,
              Asked, SpoiledSince
  <2>2. CASE driver = "emulator"
    BY <1>1, <1>2, <2>1, <2>2 DEF gdbVars, RestoredInv
  <2>3. CASE UNCHANGED vars
    BY <1>1, <1>2, <2>1, <2>3 DEF vars, cpuVars, gdbVars, RestoredInv, CpuOk
  <2>4. CASE Runs
    <3>1. CpuOk(cpu)'
      BY <2>4, RunKeeps DEF Runs
    <3>2. requests' # 0
      BY <2>4 DEF Runs, Served
    <3> QED
      BY <1>1, <2>1, <3>1, <3>2 DEF RestoredInv
  <2>5. CASE driver = "debugger" /\ ClientStep /\ UNCHANGED <<cpuVars, driver, server>>
    BY <1>1, <1>2, <2>1, <2>5 DEF cpuVars, gdbVars, RestoredInv, CpuOk
  <2>6. CASE driver = "debugger" /\ ServerStep /\ UNCHANGED <<requests, driver, client>>
    BY <1>1, <2>1, <2>6, ServerRestored, ServerKeepsCpu
  <2> QED
    BY <2>2, <2>3, <2>4, <2>5, <2>6 DEF SessionNext
<1>3. CASE driver = "debugger" /\ ClientStep /\ UNCHANGED <<cpuVars, driver, server>>
  <2>1. StreamInv' /\ CopyInv'
    BY <1>3, ClientStream, ClientCopy
  <2> QED
    BY <1>1, <1>3, <2>1 DEF cpuVars, RestoredInv, CpuOk
<1>4. CASE driver = "debugger" /\ ServerStep /\ UNCHANGED <<requests, driver, client>>
  <2>1. StreamInv' /\ CopyInv'
    BY <1>4, ServerStream, ServerCopy
  <2> QED
    BY <1>1, <1>4, <2>1, ServerRestored, ServerKeepsCpu
<1>5. UNCHANGED vars => UNCHANGED gdbVars
  BY DEF vars
<1> QED
  BY <1>2, <1>3, <1>4, <1>5 DEF SessionNext, Runs

\* What a run starts from.
LEMMA RunStarts ==
  ASSUME WriteInv, [SessionNext]_vars, driver = "debugger", ret'.request.op = "run",
         requests = 0, server.restored, NEW r \in Written, Told(r) # {}, ~Spoiled(r)
  PROVE  ret'.from[r] = client.told[Max(Told(r))].command.values[r]
<1> USE DEF WriteInv
<1>1. ret.request.op # "run" /\ UpdateRegisters(cpu).vcpu[r] = server.regs[r]
  BY DEF RestoredInv
<1>2. ~ServerStep
  BY RestoredLast
<1>3. Runs
  <2>1. ret' # ret
    BY <1>1
  <2> QED
    BY <1>2, <2>1 DEF SessionNext, vars, cpuVars
<1>4. ret'.from = UpdateRegisters(cpu).vcpu
  BY <1>3 DEF Runs, Run
<1>5. PICK m : /\ Latest(r, m)
               /\ server.regs[r] = client.told[m].command.values[r] \/ SpoiledSince(r, m)
  BY DEF CopyInv, Unread, Caught
<1>6. Max(Told(r)) = m
  <2>1. \A i \in Told(r) : i \in Nat
    <3>1. DOMAIN client.told = 1 .. Len(client.told) /\ Len(client.told) \in Nat
      BY SeqFacts DEF SessionInv, Shapes
    <3> QED
      BY <3>1 DEF Told
  <2>2. m \in Told(r) /\ \A i \in Told(r) : m >= i
    BY <1>5 DEF Latest
  <2>3. Max(Told(r)) \in Told(r) /\ \A i \in Told(r) : Max(Told(r)) >= i
    BY <2>2 DEF Max
  <2> QED
    BY <2>1, <2>2, <2>3
<1>7. ~SpoiledSince(r, m)
  BY <1>6 DEF SpoiledSince, Spoiled
<1> QED
  BY <1>1, <1>4, <1>5, <1>6, <1>7

\* A write the client was told of (P, answered OK; handled by the loop of
\* dbg_main on the server's copy, written back when Debug ends) is in the
\* registers the processor starts with, whichever write was the last, and
\* whether the client let the processor go or hung up: if the write-back
\* succeeded, and the client did not send a later write of the register with
\* junk among its digits, which is refused after dbg_dec_hex has overwritten a
\* part of it.  The copies in between, of the server and of the backend, are
\* not lost and not stale, whatever the commands were and however the stream
\* and its acknowledgements ran.
THEOREM WritesReach ==
  ASSUME MaxTimeouts = 0, Backends \subseteq {"kvm", "haxm", "whvp"},
         \A f \in Powerup : IsFile(f)
  PROVE  SessionSpec => WritesReachProcessor
<1>1. SessionInit => WriteInv
  BY WriteStart
<1>2. WriteInv /\ [SessionNext]_vars => WriteInv'
  BY WriteStep
<1>3. WriteInv /\ [SessionNext]_vars =>
         [(driver = "debugger" /\ ret'.request.op = "run" /\ requests = 0 /\ server.restored) =>
            \A r \in {"eip", "esp"} : Told(r) # {} /\ ~Spoiled(r) =>
               ret'.from[r] = client.told[Max(Told(r))].command.values[r]]_vars
  BY RunStarts DEF Written
<1> QED
  BY <1>1, <1>2, <1>3, PTL DEF SessionSpec, WritesReachProcessor
=============================================================================

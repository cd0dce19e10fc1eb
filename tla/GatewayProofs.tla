--------------------------- MODULE GatewayProofs ---------------------------
(***************************************************************************)
(* Through two queues, a list and the radio every command goes exactly     *)
(* once, in the order of WriteOrder and in front of the queries: for any   *)
(* messages, names and values, and any number of queries.                  *)
(***************************************************************************)
EXTENDS Gateway, FiniteSetTheorems, TLAPS

USE ConstantsAssumption, NoMsgAssumption

HubMsg == [id : 1 .. MaxMessages, params : Params]
Frame == Command \cup Query

\* How many messages have left the hub queue.
Begun == Len(accepted) - Len(hubQueue)

InHand == IF writing = NoMsg THEN <<>> ELSE <<writing>>

TypeOK ==
  /\ accepted \in Seq(HubMsg) /\ Len(accepted) <= MaxMessages
  /\ hubQueue \in Seq(HubMsg)
  /\ message \in HubMsg \cup {NoMsg}
  /\ commands \in Seq(Command)
  /\ writeQueue \in Seq(Frame)
  /\ writing \in Frame \cup {NoMsg}
  /\ written \in Seq(Command)

\* The hub queue is the end of what was accepted, and the handler works on the message
\* that left it last.
HubInv ==
  /\ \A n \in DOMAIN accepted : accepted[n].id = n
  /\ Len(hubQueue) <= Len(accepted)
  /\ \A k \in DOMAIN hubQueue : hubQueue[k] = accepted[Begun + k]
  /\ message # NoMsg => Begun >= 1 /\ message = accepted[Begun]
  /\ message = NoMsg => commands = <<>>

\* The list is for the message that left last and falls; what is in the write queue is
\* older, or of the same message and behind all that the list still has.
OrderInv ==
  /\ \A k \in DOMAIN commands : commands[k].id = Begun
  /\ \A j, k \in DOMAIN commands : j < k => commands[j].at > commands[k].at
  /\ \A n \in Frames(writeQueue) : writeQueue[n].id <= Begun
  /\ \A k \in DOMAIN commands, n \in Frames(writeQueue) :
       writeQueue[n].id = Begun => writeQueue[n].at > commands[k].at
  /\ WriteOrder

\* The parameters that need a command, by message.
Expected(b) == UNION {{<<id, at>> : at \in Known(accepted[id].params)} : id \in 1 .. b}

Sound(s) == OnceIn(s) /\ \A k \in Frames(s) : Faithful(s[k])

Apart(a, b, c, d) ==
  /\ a \cap b = {} /\ a \cap c = {} /\ a \cap d = {}
  /\ b \cap c = {} /\ b \cap d = {} /\ c \cap d = {}

OnceInv ==
  /\ Sound(commands) /\ Sound(writeQueue) /\ Sound(InHand) /\ Sound(written)
  /\ Apart(Served(commands), Served(writeQueue), Served(InHand), Served(written))
  /\ Served(commands) \cup Served(writeQueue) \cup Served(InHand) \cup Served(written) = Expected(Begun)

IInv == TypeOK /\ HubInv /\ OrderInv /\ OnceInv

-----------------------------------------------------------------------------
(* Frames that enter and leave a sequence.                                 *)

LEMMA FrameIds ==
  /\ \A c \in Command : c \in Frame /\ c.id \in 1 .. MaxMessages /\ c.id # 0 /\ c.at \in Nat /\ c # NoMsg
  /\ \A q \in Query : q \in Frame /\ q.id = 0 /\ q # NoMsg
  /\ \A s \in Seq(Command) : s \in Seq(Frame)
<1>1. /\ \A c \in Command : c \in Frame /\ c.id \in 1 .. MaxMessages /\ c.id # 0 /\ c.at \in Nat
      /\ \A q \in Query : q \in Frame /\ q.id = 0
  BY DEF Command, Query, Frame
<1>2. NoMsg \notin Command /\ NoMsg \notin Query
  OBVIOUS
<1>3. Command \subseteq Frame
  BY DEF Frame
<1> QED BY <1>1, <1>2, <1>3

\* One frame alone.
LEMMA Single ==
  ASSUME NEW c \in Frame
  PROVE  /\ Frames(<<c>>) = IF c.id = 0 THEN {} ELSE {1}
         /\ Served(<<c>>) = IF c.id = 0 THEN {} ELSE {<<c.id, c.at>>}
         /\ OnceIn(<<c>>)
<1>1. DOMAIN <<c>> = {1} /\ <<c>>[1] = c
  OBVIOUS
<1>2. Frames(<<c>>) = IF c.id = 0 THEN {} ELSE {1}
  BY <1>1 DEF Frames
<1> QED BY <1>1, <1>2 DEF Served, OnceIn

\* The first frame of a sequence and the rest.
LEMMA FrontFrame ==
  ASSUME NEW s \in Seq(Frame), s # <<>>
  PROVE  /\ Head(s) \in Frame /\ Tail(s) \in Seq(Frame)
         /\ \A k \in Frames(Tail(s)) : k + 1 \in Frames(s) /\ Tail(s)[k] = s[k + 1]
         /\ Head(s).id # 0 => 1 \in Frames(s) /\ Head(s) = s[1]
         /\ Served(s) = Served(<<Head(s)>>) \cup Served(Tail(s))
         /\ OnceIn(s) => OnceIn(Tail(s)) /\ Served(<<Head(s)>>) \cap Served(Tail(s)) = {}
<1> DEFINE h == Head(s)
           t == Tail(s)
<1>1. /\ Len(s) \in Nat \ {0} /\ DOMAIN s = 1 .. Len(s) /\ h = s[1]
      /\ \A k \in DOMAIN s : s[k] \in Frame
      /\ t \in Seq(Frame) /\ DOMAIN t = 1 .. Len(s) - 1
      /\ \A k \in 1 .. Len(s) - 1 : t[k] = s[k + 1]
  OBVIOUS
<1> HIDE DEF h, t
<1>2. \A k \in Frames(t) : k \in Nat /\ k >= 1 /\ k + 1 \in Frames(s) /\ t[k] = s[k + 1]
  BY <1>1 DEF Frames
<1>3. h \in Frame /\ (h.id # 0 => 1 \in Frames(s))
  BY <1>1 DEF Frames
<1>4. \A k \in Frames(s) : (k = 1 /\ s[k] = h /\ h.id # 0) \/ (k - 1 \in Frames(t) /\ s[k] = t[k - 1])
  BY <1>1 DEF Frames
<1>5. Served(<<h>>) = IF h.id = 0 THEN {} ELSE {<<s[1].id, s[1].at>>}
  BY <1>1, <1>3, Single
<1>6. Served(s) \subseteq Served(<<h>>) \cup Served(t)
  <2> SUFFICES ASSUME NEW k \in Frames(s) PROVE <<s[k].id, s[k].at>> \in Served(<<h>>) \cup Served(t)
    BY DEF Served
  <2>1. CASE k = 1 /\ s[k] = h /\ h.id # 0
    BY <1>5, <2>1
  <2>2. CASE k - 1 \in Frames(t) /\ s[k] = t[k - 1]
    BY <2>2 DEF Served
  <2> QED BY <1>4, <2>1, <2>2
<1>7. Served(<<h>>) \cup Served(t) \subseteq Served(s)
  <2>1. \A k \in Frames(t) : <<t[k].id, t[k].at>> \in Served(s)
    BY <1>2 DEF Served
  <2>2. Served(t) \subseteq Served(s)
    BY <2>1 DEF Served
  <2>3. h.id # 0 => <<s[1].id, s[1].at>> \in Served(s)
    BY <1>3 DEF Served
  <2> QED BY <1>5, <2>2, <2>3
<1>8. ASSUME OnceIn(s) PROVE OnceIn(t)
  <2> SUFFICES ASSUME NEW j \in Frames(t), NEW k \in Frames(t), t[j].id = t[k].id, t[j].at = t[k].at
               PROVE  j = k
    BY DEF OnceIn
  <2>1. j + 1 = k + 1
    BY <1>2, <1>8 DEF OnceIn
  <2> QED BY <1>2, <2>1
<1>9. ASSUME OnceIn(s), NEW p \in Served(<<h>>), p \in Served(t) PROVE FALSE
  <2>1. h.id # 0 /\ p = <<s[1].id, s[1].at>>
    BY <1>5, <1>9
  <2>2. PICK k \in Frames(t) : p = <<t[k].id, t[k].at>>
    BY <1>9 DEF Served
  <2>3. /\ 1 \in Frames(s) /\ k + 1 \in Frames(s)
        /\ s[k + 1].id = s[1].id /\ s[k + 1].at = s[1].at
    BY <1>2, <1>3, <2>1, <2>2
  <2>4. k + 1 = 1
    BY <1>9, <2>3 DEF OnceIn
  <2> QED BY <1>2, <2>4
<1> QED BY <1>1, <1>2, <1>3, <1>6, <1>7, <1>8, <1>9 DEF h, t

\* A frame that is put in front.
LEMMA PutInFront ==
  ASSUME NEW s \in Seq(Frame), NEW c \in Frame
  PROVE  /\ <<c>> \o s \in Seq(Frame)
         /\ \A k \in Frames(<<c>> \o s) :
              \/ k = 1 /\ (<<c>> \o s)[k] = c /\ c.id # 0
              \/ k \in Nat /\ k > 1 /\ k - 1 \in Frames(s) /\ (<<c>> \o s)[k] = s[k - 1]
         /\ Served(<<c>> \o s) = Served(<<c>>) \cup Served(s)
         /\ OnceIn(s) /\ Served(<<c>>) \cap Served(s) = {} => OnceIn(<<c>> \o s)
<1> DEFINE t == <<c>> \o s
<1>1. /\ Len(s) \in Nat /\ DOMAIN s = 1 .. Len(s)
      /\ t \in Seq(Frame) /\ DOMAIN t = 1 .. Len(s) + 1 /\ t[1] = c
      /\ \A k \in 1 .. Len(s) : t[k + 1] = s[k]
      /\ \A k \in 2 .. Len(s) + 1 : t[k] = s[k - 1]
  OBVIOUS
<1> HIDE DEF t
<1>2. \A k \in Frames(t) : \/ k = 1 /\ t[k] = c /\ c.id # 0
                           \/ k \in Nat /\ k > 1 /\ k - 1 \in Frames(s) /\ t[k] = s[k - 1]
  BY <1>1 DEF Frames
<1>3. /\ c.id # 0 => 1 \in Frames(t)
      /\ \A k \in Frames(s) : k + 1 \in Frames(t) /\ t[k + 1] = s[k]
  BY <1>1 DEF Frames
<1>4. Served(<<c>>) = IF c.id = 0 THEN {} ELSE {<<c.id, c.at>>}
  BY Single
<1>5. Served(t) \subseteq Served(<<c>>) \cup Served(s)
  BY <1>2, <1>4 DEF Served
<1>6. Served(<<c>>) \cup Served(s) \subseteq Served(t)
  <2>1. \A k \in Frames(s) : <<s[k].id, s[k].at>> \in Served(t)
    BY <1>3 DEF Served
  <2>2. Served(s) \subseteq Served(t)
    BY <2>1 DEF Served
  <2>3. c.id # 0 => <<c.id, c.at>> \in Served(t)
    BY <1>1, <1>3 DEF Served
  <2> QED BY <1>4, <2>2, <2>3
<1>7. ASSUME OnceIn(s), Served(<<c>>) \cap Served(s) = {} PROVE OnceIn(t)
  <2> SUFFICES ASSUME NEW j \in Frames(t), NEW k \in Frames(t), t[j].id = t[k].id, t[j].at = t[k].at
               PROVE  j = k
    BY DEF OnceIn
  <2>1. \A n \in Frames(t) : n # 1 => <<t[n].id, t[n].at>> \in Served(s)
    BY <1>2 DEF Served
  <2>2. \A n \in Frames(t) : n = 1 => <<t[n].id, t[n].at>> \in Served(<<c>>)
    BY <1>2, <1>4
  <2>3. CASE j # 1 /\ k # 1
    <3>1. j - 1 = k - 1 /\ j \in Nat /\ k \in Nat
      BY <1>2, <1>7, <2>3 DEF OnceIn
    <3> QED BY <3>1
  <2>4. CASE j = 1 /\ k # 1
    <3>1. <<t[j].id, t[j].at>> \in Served(s) \cap Served(<<c>>)
      BY <2>1, <2>2, <2>4
    <3> QED BY <3>1, <1>7
  <2>5. CASE j # 1 /\ k = 1
    <3>1. <<t[j].id, t[j].at>> \in Served(s) \cap Served(<<c>>)
      BY <2>1, <2>2, <2>5
    <3> QED BY <3>1, <1>7
  <2> QED BY <2>3, <2>4, <2>5
<1> QED BY <1>1, <1>2, <1>5, <1>6, <1>7 DEF t

\* A frame that is put behind.
LEMMA PutBehind ==
  ASSUME NEW s \in Seq(Frame), NEW c \in Frame
  PROVE  /\ Append(s, c) \in Seq(Frame)
         /\ \A k \in Frames(Append(s, c)) :
              \/ k = Len(s) + 1 /\ Append(s, c)[k] = c /\ c.id # 0
              \/ k \in Frames(s) /\ Append(s, c)[k] = s[k]
         /\ Served(Append(s, c)) = Served(s) \cup Served(<<c>>)
         /\ OnceIn(s) /\ Served(<<c>>) \cap Served(s) = {} => OnceIn(Append(s, c))
<1> DEFINE t == Append(s, c)
<1>1. /\ Len(s) \in Nat /\ DOMAIN s = 1 .. Len(s)
      /\ t \in Seq(Frame) /\ DOMAIN t = 1 .. Len(s) + 1 /\ t[Len(s) + 1] = c
      /\ \A k \in 1 .. Len(s) : t[k] = s[k]
  OBVIOUS
<1> HIDE DEF t
<1>2. \A k \in Frames(t) : \/ k = Len(s) + 1 /\ t[k] = c /\ c.id # 0
                           \/ k \in Frames(s) /\ t[k] = s[k]
  BY <1>1 DEF Frames
<1>3. /\ c.id # 0 => Len(s) + 1 \in Frames(t)
      /\ \A k \in Frames(s) : k \in Frames(t) /\ t[k] = s[k]
  BY <1>1 DEF Frames
<1>4. Served(<<c>>) = IF c.id = 0 THEN {} ELSE {<<c.id, c.at>>}
  BY Single
<1>5. Served(t) \subseteq Served(s) \cup Served(<<c>>)
  BY <1>2, <1>4 DEF Served
<1>6. Served(s) \cup Served(<<c>>) \subseteq Served(t)
  BY <1>1, <1>3, <1>4 DEF Served
<1>7. ASSUME OnceIn(s), Served(<<c>>) \cap Served(s) = {} PROVE OnceIn(t)
  <2> SUFFICES ASSUME NEW j \in Frames(t), NEW k \in Frames(t), t[j].id = t[k].id, t[j].at = t[k].at, j # k
               PROVE  FALSE
    BY DEF OnceIn
  <2>1. CASE j \in Frames(s) /\ k \in Frames(s)
    BY <1>3, <1>7, <2>1 DEF OnceIn
  <2>2. CASE ~ (j \in Frames(s) /\ k \in Frames(s))
    <3>1. <<c.id, c.at>> \in Served(s) /\ <<c.id, c.at>> \in Served(<<c>>)
      BY <1>2, <1>4, <2>2 DEF Served
    <3> QED BY <3>1, <1>7
  <2> QED BY <2>1, <2>2
<1> QED BY <1>1, <1>2, <1>5, <1>6, <1>7 DEF t

LEMMA Nothing == Frames(<<>>) = {} /\ Served(<<>>) = {} /\ OnceIn(<<>>)
BY DEF Frames, Served, OnceIn

\* What is true of a sound sequence when its first frame leaves.
LEMMA SoundFront ==
  ASSUME NEW s \in Seq(Frame), s # <<>>, Sound(s)
  PROVE  /\ Sound(Tail(s))
         /\ Head(s).id # 0 => Faithful(Head(s))
         /\ Served(<<Head(s)>>) \cap Served(Tail(s)) = {}
<1>1. OnceIn(s) /\ \A k \in Frames(s) : Faithful(s[k])
  BY DEF Sound
<1>2. \A k \in Frames(Tail(s)) : Faithful(Tail(s)[k])
  <2>1. \A k \in Frames(Tail(s)) : k + 1 \in Frames(s) /\ Tail(s)[k] = s[k + 1]
    BY FrontFrame, Zenon
  <2> QED BY <1>1, <2>1
<1>3. Head(s).id # 0 => Faithful(Head(s))
  <2>1. Head(s).id # 0 => 1 \in Frames(s) /\ Head(s) = s[1]
    BY FrontFrame, Zenon
  <2> QED BY <1>1, <2>1
<1> QED BY <1>1, <1>2, <1>3, FrontFrame DEF Sound

\* What is true of it when a frame enters that it does not hold.
LEMMA SoundPut ==
  ASSUME NEW s \in Seq(Frame), Sound(s), NEW c \in Frame, c.id # 0 => Faithful(c),
         Served(<<c>>) \cap Served(s) = {}
  PROVE  Sound(<<c>> \o s) /\ Sound(Append(s, c)) /\ Sound(<<c>>)
<1>1. OnceIn(s) /\ \A k \in Frames(s) : Faithful(s[k])
  BY DEF Sound
<1>2. ASSUME NEW k \in Frames(<<c>> \o s) PROVE Faithful((<<c>> \o s)[k])
  <2>1. \/ k = 1 /\ (<<c>> \o s)[k] = c /\ c.id # 0
        \/ k \in Nat /\ k > 1 /\ k - 1 \in Frames(s) /\ (<<c>> \o s)[k] = s[k - 1]
    BY PutInFront, Zenon
  <2> QED BY <1>1, <2>1, Zenon
<1>3. ASSUME NEW k \in Frames(Append(s, c)) PROVE Faithful(Append(s, c)[k])
  <2>1. \/ k = Len(s) + 1 /\ Append(s, c)[k] = c /\ c.id # 0
        \/ k \in Frames(s) /\ Append(s, c)[k] = s[k]
    BY PutBehind, Zenon
  <2> QED BY <1>1, <2>1, Zenon
<1>4. \A k \in Frames(<<c>>) : k = 1 /\ <<c>>[k] = c /\ c.id # 0
  <2>1. Frames(<<c>>) = IF c.id = 0 THEN {} ELSE {1}
    BY Single, Zenon
  <2> QED BY <2>1
<1> QED BY <1>1, <1>2, <1>3, <1>4, Single, PutInFront, PutBehind DEF Sound

-----------------------------------------------------------------------------
(* The steps.                                                              *)

LEMMA InitInv == Init => IInv
<1> SUFFICES ASSUME Init PROVE IInv
  OBVIOUS
<1>1. /\ accepted = <<>> /\ hubQueue = <<>> /\ message = NoMsg /\ commands = <<>>
      /\ writeQueue = <<>> /\ writing = NoMsg /\ written = <<>>
  BY DEF Init, Hub!Init, Radio!Init
<1>2. Begun = 0
  BY <1>1 DEF Begun
<1>3. TypeOK
  BY <1>1 DEF TypeOK
<1>4. HubInv
  BY <1>1, <1>2 DEF HubInv
<1>5. OrderInv
  BY <1>1, Nothing DEF OrderInv, WriteOrder
<1>6. Expected(0) = {}
  BY DEF Expected
<1>7. OnceInv
  BY <1>1, <1>2, <1>6, Nothing DEF OnceInv, Sound, Apart, InHand
<1> QED BY <1>3, <1>4, <1>5, <1>7 DEF IInv

\* Every frame is about a message that has left the hub queue.
LEMMA ServedBegun ==
  ASSUME IInv
  PROVE  /\ Begun \in Nat /\ Begun <= Len(accepted) /\ Len(accepted) \in Nat
         /\ \A p \in Served(commands) \cup Served(writeQueue) \cup Served(InHand) \cup Served(written) :
              p[1] \in 1 .. Begun
<1>1. Len(accepted) \in Nat /\ Len(hubQueue) \in Nat /\ Len(hubQueue) <= Len(accepted)
  BY DEF IInv, TypeOK, HubInv
<1>2. Begun \in Nat /\ Begun <= Len(accepted)
  BY <1>1 DEF Begun
<1>3. \A p \in Expected(Begun) : p[1] \in 1 .. Begun
  BY DEF Expected
<1> QED BY <1>1, <1>2, <1>3 DEF IInv, OnceInv

\* Nothing that the invariant speaks of but the history of the hub changes.
LEMMA HubMessageInv ==
  ASSUME IInv, NEW params \in Params, HubMessage(params)
  PROVE  IInv'
<1> DEFINE m == [id |-> Len(accepted) + 1, params |-> params]
<1>1. /\ Len(accepted) < MaxMessages /\ accepted' = Append(accepted, m) /\ hubQueue' = Append(hubQueue, m)
      /\ UNCHANGED <<message, commands, writeQueue, writing, written>>
  BY DEF HubMessage, Hub!Put, radioVars
<1>2. /\ accepted \in Seq(HubMsg) /\ hubQueue \in Seq(HubMsg) /\ m \in HubMsg /\ m.id = Len(accepted) + 1
      /\ Len(accepted) \in Nat /\ Len(hubQueue) \in Nat /\ Len(hubQueue) <= Len(accepted)
  BY <1>1 DEF IInv, TypeOK, HubInv, HubMsg
<1> HIDE DEF m
<1>3. /\ accepted' \in Seq(HubMsg) /\ Len(accepted') = Len(accepted) + 1
      /\ \A n \in 1 .. Len(accepted) : accepted'[n] = accepted[n]
      /\ accepted'[Len(accepted) + 1] = m
      /\ hubQueue' \in Seq(HubMsg) /\ Len(hubQueue') = Len(hubQueue) + 1
      /\ \A n \in 1 .. Len(hubQueue) : hubQueue'[n] = hubQueue[n]
      /\ hubQueue'[Len(hubQueue) + 1] = m
  BY <1>1, <1>2
<1>4. Begun' = Begun /\ Begun \in Nat /\ Begun = Len(accepted) - Len(hubQueue)
  BY <1>2, <1>3 DEF Begun
<1>5. TypeOK'
  BY <1>1, <1>2, <1>3 DEF IInv, TypeOK
<1>6. HubInv'
  <2>0. DOMAIN accepted = 1 .. Len(accepted) /\ DOMAIN accepted' = 1 .. Len(accepted) + 1
    BY <1>2, <1>3
  <2>1. \A n \in DOMAIN accepted' : accepted'[n].id = n
    <3>1. \A n \in 1 .. Len(accepted) : accepted'[n].id = n
      BY <1>3, <2>0 DEF IInv, HubInv
    <3>2. \A n \in 1 .. Len(accepted) + 1 : n \in 1 .. Len(accepted) \/ n = Len(accepted) + 1
      BY <1>2
    <3> QED BY <1>2, <1>3, <2>0, <3>1, <3>2
  <2>2. \A k \in DOMAIN hubQueue' : hubQueue'[k] = accepted'[Begun + k]
    <3> SUFFICES ASSUME NEW k \in 1 .. Len(hubQueue) + 1 PROVE hubQueue'[k] = accepted'[Begun + k]
      BY <1>2, <1>3
    <3>1. CASE k = Len(hubQueue) + 1
      BY <1>2, <1>3, <1>4, <3>1
    <3>2. CASE k # Len(hubQueue) + 1
      <4>1. k \in 1 .. Len(hubQueue) /\ Begun + k \in 1 .. Len(accepted)
        BY <1>2, <1>4, <3>2
      <4>2. hubQueue[k] = accepted[Begun + k]
        BY <1>2, <4>1 DEF IInv, HubInv
      <4> QED BY <1>3, <4>1, <4>2
    <3> QED BY <3>1, <3>2
  <2>3. ASSUME message # NoMsg PROVE Begun >= 1 /\ message = accepted'[Begun]
    <3>1. Begun >= 1 /\ message = accepted[Begun]
      BY <2>3 DEF IInv, HubInv
    <3>2. Begun \in 1 .. Len(accepted)
      BY <1>2, <1>4, <3>1
    <3> QED BY <1>3, <3>1, <3>2
  <2>4. message = NoMsg => commands = <<>>
    BY DEF IInv, HubInv
  <2> QED BY <1>1, <1>2, <1>3, <1>4, <2>1, <2>2, <2>3, <2>4 DEF HubInv
<1>7. OrderInv'
  BY <1>1, <1>4 DEF IInv, OrderInv, WriteOrder
<1>8. ASSUME NEW s, Sound(s), \A p \in Served(s) : p[1] \in 1 .. Begun
      PROVE  OnceIn(s) /\ \A k \in Frames(s) : accepted'[s[k].id] = accepted[s[k].id] /\ Faithful(s[k])
  <2>1. ASSUME NEW k \in Frames(s) PROVE s[k].id \in 1 .. Begun
    <3>1. <<s[k].id, s[k].at>> \in Served(s)
      BY DEF Served
    <3> QED BY <1>8, <3>1
  <2> QED BY <2>1, <1>2, <1>3, <1>4, <1>8 DEF Sound
<1>9. InHand' = InHand
  BY <1>1 DEF InHand
<1>10. Sound(commands)' /\ Sound(writeQueue)' /\ Sound(InHand)' /\ Sound(written)'
  <2>1. \A s : Sound(s) /\ (\A p \in Served(s) : p[1] \in 1 .. Begun) =>
          OnceIn(s) /\ \A k \in Frames(s) : accepted'[s[k].id] = accepted[s[k].id] /\ Faithful(s[k])
    BY <1>8
  <2>2. Sound(commands) /\ Sound(writeQueue) /\ Sound(InHand) /\ Sound(written)
    BY DEF IInv, OnceInv
  <2>3. Sound(commands)'
    <3>1. \A p \in Served(commands) : p[1] \in 1 .. Begun
      BY ServedBegun
    <3>2. OnceIn(commands) /\ \A k \in Frames(commands) : accepted'[commands[k].id] = accepted[commands[k].id] /\ Faithful(commands[k])
      BY <2>1, <2>2, <3>1, Zenon
    <3> QED BY <1>1, <3>2 DEF Sound, Faithful
  <2>4. Sound(writeQueue)'
    <3>1. \A p \in Served(writeQueue) : p[1] \in 1 .. Begun
      BY ServedBegun
    <3>2. OnceIn(writeQueue) /\ \A k \in Frames(writeQueue) : accepted'[writeQueue[k].id] = accepted[writeQueue[k].id] /\ Faithful(writeQueue[k])
      BY <2>1, <2>2, <3>1, Zenon
    <3> QED BY <1>1, <3>2 DEF Sound, Faithful
  <2>5. Sound(InHand)'
    <3>1. \A p \in Served(InHand) : p[1] \in 1 .. Begun
      BY ServedBegun
    <3>2. OnceIn(InHand) /\ \A k \in Frames(InHand) : accepted'[InHand[k].id] = accepted[InHand[k].id] /\ Faithful(InHand[k])
      BY <2>1, <2>2, <3>1, Zenon
    <3> QED BY <1>9, <3>2 DEF Sound, Faithful
  <2>6. Sound(written)'
    <3>1. \A p \in Served(written) : p[1] \in 1 .. Begun
      BY ServedBegun
    <3>2. OnceIn(written) /\ \A k \in Frames(written) : accepted'[written[k].id] = accepted[written[k].id] /\ Faithful(written[k])
      BY <2>1, <2>2, <3>1, Zenon
    <3> QED BY <1>1, <3>2 DEF Sound, Faithful
  <2> QED BY <2>3, <2>4, <2>5, <2>6
<1>11. Expected(Begun)' = Expected(Begun)
  <2>1. \A id \in 1 .. Begun : accepted'[id] = accepted[id]
    BY <1>2, <1>3, <1>4
  <2> QED BY <1>4, <2>1 DEF Expected
<1>12. OnceInv'
  BY <1>1, <1>9, <1>10, <1>11 DEF IInv, OnceInv
<1> QED BY <1>5, <1>6, <1>7, <1>12 DEF IInv

\* The list of a message: its commands fall, and they are those it needs.
LEMMA ListServes ==
  ASSUME NEW m \in HubMsg, NEW cs \in ListOf(m), m.id \in DOMAIN accepted, accepted[m.id] = m
  PROVE  /\ cs \in Seq(Command)
         /\ \A k \in DOMAIN cs : cs[k].id = m.id
         /\ \A j, k \in DOMAIN cs : j < k => cs[j].at > cs[k].at
         /\ Sound(cs)
         /\ Served(cs) = {<<m.id, at>> : at \in Known(m.params)}
<1> DEFINE S == Known(m.params)
<1>1. /\ m.id \in 1 .. MaxMessages /\ m.params \in Seq(Param) /\ Len(m.params) \in Nat
      /\ DOMAIN m.params = 1 .. Len(m.params) /\ S \subseteq 1 .. Len(m.params)
      /\ \A at \in S : m.params[at] \in Param /\ m.params[at].name \in Switch
  <2>1. m.id \in 1 .. MaxMessages /\ m.params \in Seq(Param)
    BY DEF HubMsg
  <2> QED BY <2>1 DEF Known
<1>2. Cardinality(S) \in Nat
  <2>1. IsFiniteSet(1 .. Len(m.params))
    BY <1>1, FS_Interval
  <2>2. IsFiniteSet(S)
    BY <1>1, <2>1, FS_Subset
  <2> QED BY <2>2, FS_CardinalityType
<1>3. PICK places \in Falling(S) : cs \in CommandsAt(m, places)
  BY DEF ListOf
<1>4. /\ places \in [1 .. Cardinality(S) -> S]
      /\ DOMAIN places = 1 .. Cardinality(S)
      /\ \A at \in S : \E k \in DOMAIN places : places[k] = at
      /\ \A j, k \in DOMAIN places : j < k => places[j] > places[k]
  BY <1>3 DEF Falling, ToSet
<1>5. DOMAIN cs = DOMAIN places /\ \A k \in DOMAIN cs : cs[k] \in CommandFor(m, places[k])
  BY <1>3 DEF CommandsAt
<1>6. ASSUME NEW k \in DOMAIN cs
      PROVE  /\ places[k] \in S /\ cs[k] \in Command /\ Faithful(cs[k])
             /\ cs[k].id = m.id /\ cs[k].at = places[k]
  <2>1. places[k] \in S /\ places[k] \in Nat /\ m.params[places[k]] \in Param /\ m.params[places[k]].name \in Switch
    BY <1>1, <1>4, <1>5, <1>6
  <2>2. PICK v \in ValuesOf(m.params[places[k]]) :
          cs[k] = [id |-> m.id, at |-> places[k], name |-> m.params[places[k]].name, value |-> v]
    BY <1>5, <1>6 DEF CommandFor
  <2>3. v \in Value
    BY <2>1 DEF ValuesOf, Param
  <2>4. cs[k] \in Command /\ cs[k].id = m.id /\ cs[k].at = places[k] /\ cs[k].name = m.params[places[k]].name /\ cs[k].value = v
    BY <1>1, <2>1, <2>2, <2>3 DEF Command
  <2>5. Faithful(cs[k])
    BY <2>4 DEF Faithful
  <2> QED BY <2>1, <2>4, <2>5
<1>7. cs \in Seq(Command)
  <2>1. cs \in [DOMAIN cs -> Command]
    <3>1. cs = [k \in DOMAIN cs |-> cs[k]]
      BY <1>3 DEF CommandsAt
    <3> QED BY <1>6, <3>1
  <2> QED BY <1>2, <1>4, <1>5, <2>1
<1>8. \A j, k \in DOMAIN cs : j < k => cs[j].at > cs[k].at
  BY <1>4, <1>5, <1>6
<1>9. Frames(cs) = DOMAIN cs
  <2>1. \A k \in DOMAIN cs : cs[k].id # 0
    <3>1. m.id # 0
      BY <1>1
    <3> QED BY <1>6, <3>1
  <2> QED BY <2>1 DEF Frames
<1>10. Sound(cs)
  <2>1. ASSUME NEW j \in DOMAIN cs, NEW k \in DOMAIN cs, cs[j].at = cs[k].at, j # k PROVE FALSE
    <3>1. j \in Nat /\ k \in Nat /\ cs[j].at \in Nat /\ cs[k].at \in Nat
      BY <1>1, <1>2, <1>4, <1>5, <1>6, <2>1
    <3>2. j < k \/ k < j
      BY <2>1, <3>1
    <3> QED BY <1>8, <2>1, <3>1, <3>2
  <2>2. OnceIn(cs)
    BY <1>9, <2>1 DEF OnceIn
  <2> QED BY <1>6, <1>9, <2>2 DEF Sound
<1>11. Served(cs) = {<<m.id, at>> : at \in S}
  <2>1. ASSUME NEW k \in DOMAIN cs PROVE <<cs[k].id, cs[k].at>> \in {<<m.id, at>> : at \in S}
    BY <1>6, <2>1
  <2>2. ASSUME NEW at \in S PROVE \E k \in DOMAIN cs : <<cs[k].id, cs[k].at>> = <<m.id, at>>
    BY <1>4, <1>5, <1>6
  <2> QED BY <1>9, <2>1, <2>2 DEF Served
<1> QED BY <1>6, <1>7, <1>8, <1>10, <1>11

LEMMA TakeMessageInv ==
  ASSUME IInv, TakeMessage
  PROVE  IInv'
<1>1. /\ message = NoMsg /\ hubQueue # <<>> /\ message' = Head(hubQueue) /\ hubQueue' = Tail(hubQueue)
      /\ commands' \in ListOf(message')
      /\ UNCHANGED <<accepted, writeQueue, writing, written>>
  BY DEF TakeMessage, Hub!Take, radioVars
<1>2. /\ accepted \in Seq(HubMsg) /\ hubQueue \in Seq(HubMsg)
      /\ Len(accepted) \in Nat /\ Len(hubQueue) \in Nat /\ Len(hubQueue) <= Len(accepted)
      /\ commands = <<>> /\ Begun = Len(accepted) - Len(hubQueue) /\ Begun \in Nat
      /\ \A n \in DOMAIN accepted : accepted[n].id = n
      /\ \A k \in DOMAIN hubQueue : hubQueue[k] = accepted[Begun + k]
  BY <1>1, ServedBegun DEF IInv, TypeOK, HubInv, Begun
<1>3. /\ message' = hubQueue[1] /\ message' \in HubMsg /\ Len(hubQueue) >= 1
      /\ hubQueue' \in Seq(HubMsg) /\ Len(hubQueue') = Len(hubQueue) - 1
      /\ \A k \in 1 .. Len(hubQueue) - 1 : hubQueue'[k] = hubQueue[k + 1]
  BY <1>1, <1>2
<1>4. Begun' = Begun + 1 /\ Begun + 1 \in 1 .. Len(accepted)
  BY <1>1, <1>2, <1>3 DEF Begun
<1>5. message' = accepted[Begun + 1] /\ message'.id = Begun + 1 /\ message' # NoMsg
  <2>1. message' = accepted[Begun + 1]
    <3>1. 1 \in DOMAIN hubQueue
      BY <1>2, <1>3
    <3> QED BY <1>2, <1>3, <3>1
  <2>2. message'.id = Begun + 1
    BY <1>2, <1>4, <2>1
  <2>3. NoMsg \notin HubMsg
    BY DEF HubMsg
  <2> QED BY <1>3, <2>1, <2>2, <2>3
<1> DEFINE new == {<<Begun + 1, at>> : at \in Known(message'.params)}
<1>6. /\ commands' \in Seq(Command)
      /\ \A k \in DOMAIN commands' : commands'[k].id = Begun + 1
      /\ \A j, k \in DOMAIN commands' : j < k => commands'[j].at > commands'[k].at
      /\ Sound(commands')
      /\ Served(commands') = new
  BY <1>1, <1>2, <1>3, <1>4, <1>5, ListServes
<1>7. TypeOK'
  BY <1>1, <1>3, <1>6 DEF IInv, TypeOK
<1>8. HubInv'
  <2>1. \A k \in DOMAIN hubQueue' : hubQueue'[k] = accepted[Begun + 1 + k]
    <3> SUFFICES ASSUME NEW k \in 1 .. Len(hubQueue) - 1 PROVE hubQueue'[k] = accepted[Begun + 1 + k]
      <4>1. DOMAIN hubQueue' = 1 .. Len(hubQueue')
        BY <1>3
      <4> QED BY <1>3, <4>1
    <3>1. k + 1 \in DOMAIN hubQueue /\ Begun + (k + 1) = Begun + 1 + k
      BY <1>2
    <3>2. hubQueue[k + 1] = accepted[Begun + (k + 1)]
      BY <1>2, <3>1
    <3> QED BY <1>3, <3>1, <3>2
  <2> QED BY <1>1, <1>2, <1>3, <1>4, <1>5, <2>1 DEF HubInv
<1>9. \A n \in Frames(writeQueue) : writeQueue[n].id <= Begun /\ writeQueue[n].id \in Nat
  <2>1. ASSUME NEW n \in Frames(writeQueue) PROVE writeQueue[n].id \in 1 .. Begun
    <3>1. <<writeQueue[n].id, writeQueue[n].at>> \in Served(writeQueue)
      BY DEF Served
    <3> QED BY <3>1, ServedBegun
  <2> QED BY <1>2, <2>1
<1>10. OrderInv'
  <2>1. \A n \in Frames(writeQueue) : writeQueue[n].id <= Begun + 1 /\ writeQueue[n].id # Begun + 1
    <3> DEFINE b == Begun
    <3>1. b \in Nat /\ \A n \in Frames(writeQueue) : writeQueue[n].id <= b /\ writeQueue[n].id \in Nat
      BY <1>2, <1>9
    <3> HIDE DEF b
    <3> SUFFICES ASSUME NEW n \in Frames(writeQueue) PROVE writeQueue[n].id <= b + 1 /\ writeQueue[n].id # b + 1
      BY DEF b
    <3>2. writeQueue[n].id <= b /\ writeQueue[n].id \in Nat
      BY <3>1
    <3> QED BY ONLY <3>1, <3>2
  <2> QED BY <1>1, <1>4, <1>6, <2>1 DEF IInv, OrderInv, WriteOrder
<1>11. InHand' = InHand
  <2>1. UNCHANGED writing
    BY Zenon DEF TakeMessage, radioVars
  <2> QED BY ONLY <2>1 DEF InHand
<1>12. Sound(commands)' /\ Sound(writeQueue)' /\ Sound(InHand)' /\ Sound(written)'
  BY <1>1, <1>6, <1>11 DEF IInv, OnceInv, Sound, Faithful
<1>13. Expected(Begun)' = Expected(Begun) \cup new
  <2>1. 1 .. Begun' = 1 .. Begun \cup {Begun + 1}
    BY <1>2, <1>4
  <2>2. new = {<<Begun + 1, at>> : at \in Known(accepted[Begun + 1].params)}
    BY <1>5
  <2> QED BY <1>1, <2>1, <2>2 DEF Expected
<1>14. new \cap (Served(writeQueue) \cup Served(InHand) \cup Served(written)) = {}
  <2>1. \A p \in new : p[1] = Begun + 1
    OBVIOUS
  <2> QED BY <1>2, <2>1, ServedBegun
<1> HIDE DEF new
<1>15. Served(commands) = {}
  BY <1>2, Nothing
<1>16. OnceInv'
  BY <1>1, <1>6, <1>11, <1>12, <1>13, <1>14, <1>15 DEF IInv, OnceInv, Apart
<1> QED BY <1>7, <1>8, <1>10, <1>16 DEF IInv

LEMMA RunCommandInv ==
  ASSUME IInv, RunCommand
  PROVE  IInv'
<1> DEFINE c == Head(commands)
<1>1. /\ commands # <<>> /\ commands' = Tail(commands) /\ commands \in Seq(Command) /\ commands \in Seq(Frame)
      /\ UNCHANGED <<accepted, hubQueue, message, writing, written>>
  BY FrameIds DEF IInv, TypeOK, RunCommand, Radio!Put
<1>2. c \in Command /\ c \in Frame /\ c.id # 0 /\ c # NoMsg /\ commands' \in Seq(Command)
  BY <1>1, FrameIds
<1>3. writeQueue' = <<c>> \o writeQueue /\ writeQueue \in Seq(Frame)
  BY <1>2 DEF RunCommand, Radio!Put, IInv, TypeOK
<1>4. /\ \A k \in DOMAIN commands' : k + 1 \in DOMAIN commands /\ commands'[k] = commands[k + 1] /\ k \in Nat /\ k >= 1
      /\ 1 \in DOMAIN commands /\ c = commands[1]
  BY <1>1
<1>5. \A k \in Frames(writeQueue') :
        \/ k = 1 /\ writeQueue'[k] = c
        \/ k \in Nat /\ k > 1 /\ k - 1 \in Frames(writeQueue) /\ writeQueue'[k] = writeQueue[k - 1]
  BY <1>2, <1>3, PutInFront
<1> HIDE DEF c
<1>6. Begun' = Begun
  BY <1>1 DEF Begun
<1>7. TypeOK'
  BY <1>1, <1>2, <1>3, PutInFront DEF IInv, TypeOK
<1>8. HubInv'
  <2>1. message # NoMsg
    BY <1>1 DEF IInv, HubInv
  <2> QED BY <1>1, <1>6, <2>1 DEF IInv, HubInv
<1>9. OrderInv'
  <2>1. /\ \A k \in DOMAIN commands : commands[k].id = Begun /\ commands[k].at \in Nat
        /\ \A j, k \in DOMAIN commands : j < k => commands[j].at > commands[k].at
        /\ \A n \in Frames(writeQueue) : writeQueue[n].id <= Begun
        /\ \A k \in DOMAIN commands, n \in Frames(writeQueue) :
             writeQueue[n].id = Begun => writeQueue[n].at > commands[k].at
    <3>1. \A k \in DOMAIN commands : commands[k] \in Command
      BY <1>1
    <3>2. \A k \in DOMAIN commands : commands[k].at \in Nat
      BY <3>1, FrameIds
    <3> QED BY <3>2 DEF IInv, OrderInv
  <2>2. Begun \in Nat
    BY ServedBegun
  <2>3. \A k \in DOMAIN commands' : commands'[k].id = Begun
    BY <1>4, <2>1
  <2>4. \A j, k \in DOMAIN commands' : j < k => commands'[j].at > commands'[k].at
    <3> SUFFICES ASSUME NEW j \in DOMAIN commands', NEW k \in DOMAIN commands', j < k
                 PROVE  commands'[j].at > commands'[k].at
      OBVIOUS
    <3>1. j + 1 \in DOMAIN commands /\ k + 1 \in DOMAIN commands /\ j + 1 < k + 1
      BY <1>4
    <3>2. commands[j + 1].at > commands[k + 1].at
      BY <2>1, <3>1
    <3> QED BY <1>4, <3>2
  <2>5. \A n \in Frames(writeQueue') : writeQueue'[n].id <= Begun
    BY <1>4, <1>5, <2>1, <2>2
  <2>6. \A k \in DOMAIN commands' : c.at > commands'[k].at
    <3> SUFFICES ASSUME NEW k \in DOMAIN commands' PROVE c.at > commands'[k].at
      OBVIOUS
    <3>1. 1 < k + 1 /\ k + 1 \in DOMAIN commands
      BY <1>4
    <3> QED BY <1>4, <2>1, <3>1
  <2>7. \A k \in DOMAIN commands', n \in Frames(writeQueue') :
          writeQueue'[n].id = Begun => writeQueue'[n].at > commands'[k].at
    BY <1>4, <1>5, <2>1, <2>6
  <2>8. WriteOrder'
    <3> SUFFICES ASSUME NEW k \in DOMAIN writeQueue', NEW n \in DOMAIN writeQueue', k < n, writeQueue'[n].id # 0
                 PROVE  \/ writeQueue'[k].id > writeQueue'[n].id
                        \/ writeQueue'[k].id = writeQueue'[n].id /\ writeQueue'[k].at < writeQueue'[n].at
      BY DEF WriteOrder
    <3>1. /\ DOMAIN writeQueue' = 1 .. Len(writeQueue) + 1 /\ Len(writeQueue) \in Nat
          /\ writeQueue'[1] = c /\ DOMAIN writeQueue = 1 .. Len(writeQueue)
          /\ \A i \in 2 .. Len(writeQueue) + 1 : writeQueue'[i] = writeQueue[i - 1]
      BY <1>3
    <3>2. n \in 2 .. Len(writeQueue) + 1 /\ n - 1 \in DOMAIN writeQueue /\ writeQueue'[n] = writeQueue[n - 1]
      BY <3>1
    <3>3. n - 1 \in Frames(writeQueue)
      BY <3>2 DEF Frames
    <3>4. CASE k = 1
      <4>1. writeQueue[n - 1] \in Frame /\ writeQueue[n - 1].id <= Begun /\ c.id = Begun
        BY <1>3, <1>4, <2>1, <3>2, <3>3
      <4>2. writeQueue[n - 1].id \in Nat
        BY <4>1, FrameIds DEF Frame
      <4>3. writeQueue[n - 1].id = Begun => writeQueue[n - 1].at > c.at
        BY <1>4, <2>1, <3>3
      <4>4. c.at \in Nat /\ (writeQueue[n - 1].id = Begun => writeQueue[n - 1].at \in Nat)
        BY <1>2, <3>3, <4>1, FrameIds DEF Frame, Frames
      <4> QED BY <2>2, <3>1, <3>2, <3>4, <4>1, <4>2, <4>3, <4>4
    <3>5. CASE k # 1
      <4>1. k - 1 \in DOMAIN writeQueue /\ writeQueue'[k] = writeQueue[k - 1] /\ k - 1 < n - 1
        BY <3>1, <3>2, <3>5
      <4> QED BY <3>2, <4>1 DEF IInv, OrderInv, WriteOrder
    <3> QED BY <3>4, <3>5
  <2> QED BY <1>6, <2>3, <2>4, <2>5, <2>7, <2>8 DEF OrderInv
<1>10. OnceInv'
  <2>1. /\ Sound(commands') /\ Faithful(c)
        /\ Served(commands) = Served(<<c>>) \cup Served(commands')
        /\ Served(<<c>>) \cap Served(commands') = {}
    BY <1>1, <1>2, FrontFrame, SoundFront DEF IInv, OnceInv, c
  <2>2. Served(<<c>>) \cap Served(writeQueue) = {}
    BY <2>1 DEF IInv, OnceInv, Apart
  <2>3. Sound(writeQueue') /\ Served(writeQueue') = Served(<<c>>) \cup Served(writeQueue)
    BY <1>2, <1>3, <2>1, <2>2, SoundPut, PutInFront DEF IInv, OnceInv
  <2>4. InHand' = InHand
    BY <1>1 DEF InHand
  <2>5. Sound(commands)' /\ Sound(writeQueue)' /\ Sound(InHand)' /\ Sound(written)'
    <3>1. Sound(commands)'
      BY <1>1, <2>1, Zenon DEF Sound, Faithful
    <3>2. Sound(writeQueue)'
      BY <1>1, <2>3, Zenon DEF Sound, Faithful
    <3>3. Sound(InHand)' /\ Sound(written)'
      BY <1>1, <2>4 DEF IInv, OnceInv, Sound, Faithful
    <3> QED BY <3>1, <3>2, <3>3
  <2>6. Expected(Begun)' = Expected(Begun)
    BY <1>1, <1>6 DEF Expected
  <2> QED BY <1>1, <2>1, <2>3, <2>4, <2>5, <2>6 DEF IInv, OnceInv, Apart
<1> QED BY <1>7, <1>8, <1>9, <1>10 DEF IInv

\* A step that only moves the write queue, and puts no new command in it, leaves
\* what is ordered.
LEMMA OrderKept ==
  ASSUME OrderInv, WriteOrder', UNCHANGED commands, Begun' = Begun,
         \A k \in Frames(writeQueue') : \E n \in Frames(writeQueue) : writeQueue'[k] = writeQueue[n]
  PROVE  OrderInv'
<1>1. /\ \A k \in DOMAIN commands' : commands'[k].id = Begun'
      /\ \A j, k \in DOMAIN commands' : j < k => commands'[j].at > commands'[k].at
  BY DEF OrderInv
<1>2. ASSUME NEW n \in Frames(writeQueue')
      PROVE  /\ writeQueue'[n].id <= Begun'
             /\ \A k \in DOMAIN commands' : writeQueue'[n].id = Begun' => writeQueue'[n].at > commands'[k].at
  <2>1. PICK m \in Frames(writeQueue) : writeQueue'[n] = writeQueue[m]
    OBVIOUS
  <2> QED BY <2>1 DEF OrderInv
<1> QED BY <1>1, <1>2 DEF OrderInv

LEMMA FinishMessageInv ==
  ASSUME IInv, FinishMessage
  PROVE  IInv'
<1>1. /\ commands = <<>> /\ message' = NoMsg
      /\ UNCHANGED <<accepted, hubQueue, commands, writeQueue, writing, written>>
  BY DEF FinishMessage, Hub!Done, radioVars
<1>2. Begun' = Begun /\ InHand' = InHand /\ Expected(Begun)' = Expected(Begun)
  BY <1>1 DEF Begun, InHand, Expected
<1>3. TypeOK' /\ HubInv'
  BY <1>1, <1>2 DEF IInv, TypeOK, HubInv
<1>4. OrderInv'
  <2>1. WriteOrder'
    BY <1>1, Zenon DEF IInv, OrderInv, WriteOrder
  <2> QED BY <1>1, <1>2, <2>1, OrderKept DEF IInv
<1>5. OnceInv'
  BY <1>1, <1>2, Zenon DEF IInv, OnceInv, Sound, Faithful
<1> QED BY <1>3, <1>4, <1>5 DEF IInv

LEMMA SendQueryInv ==
  ASSUME IInv, SendQuery
  PROVE  IInv'
<1> DEFINE q == [id |-> 0]
<1>1. q \in Query /\ q \in Frame /\ q.id = 0 /\ q \notin Command
  BY FrameIds DEF Query
<1>2. /\ writeQueue' = Append(writeQueue, q) /\ writeQueue \in Seq(Frame)
      /\ UNCHANGED <<accepted, hubQueue, message, commands, writing, written>>
  BY <1>1 DEF SendQuery, Radio!Put, handlerVars, IInv, TypeOK
<1> HIDE DEF q
<1>3. /\ writeQueue' \in Seq(Frame)
      /\ \A k \in Frames(writeQueue') : k \in Frames(writeQueue) /\ writeQueue'[k] = writeQueue[k]
      /\ Served(writeQueue') = Served(writeQueue) \cup Served(<<q>>)
  BY <1>1, <1>2, PutBehind
<1>4. Served(<<q>>) = {}
  BY <1>1, Single
<1>5. Begun' = Begun /\ InHand' = InHand /\ Expected(Begun)' = Expected(Begun)
  BY <1>2 DEF Begun, InHand, Expected
<1>6. TypeOK'
  BY <1>2, <1>3 DEF IInv, TypeOK
<1>7. HubInv'
  BY <1>2, <1>5 DEF IInv, HubInv
<1>8. OrderInv'
  <2>1. WriteOrder'
    <3> SUFFICES ASSUME NEW k \in DOMAIN writeQueue', NEW n \in DOMAIN writeQueue', k < n, writeQueue'[n].id # 0
                 PROVE  \/ writeQueue'[k].id > writeQueue'[n].id
                        \/ writeQueue'[k].id = writeQueue'[n].id /\ writeQueue'[k].at < writeQueue'[n].at
      BY DEF WriteOrder
    <3>1. /\ DOMAIN writeQueue' = 1 .. Len(writeQueue) + 1 /\ Len(writeQueue) \in Nat
          /\ DOMAIN writeQueue = 1 .. Len(writeQueue)
          /\ writeQueue'[Len(writeQueue) + 1] = q
          /\ \A i \in 1 .. Len(writeQueue) : writeQueue'[i] = writeQueue[i]
      BY <1>2
    <3>2. n # Len(writeQueue) + 1
      BY <1>1, <3>1
    <3>3. /\ k \in DOMAIN writeQueue /\ n \in DOMAIN writeQueue
          /\ writeQueue'[k] = writeQueue[k] /\ writeQueue'[n] = writeQueue[n]
      BY <3>1, <3>2
    <3> QED BY <3>3 DEF IInv, OrderInv, WriteOrder
  <2>2. \A k \in Frames(writeQueue') : \E n \in Frames(writeQueue) : writeQueue'[k] = writeQueue[n]
    BY <1>3
  <2> QED BY <1>2, <1>5, <2>1, <2>2, OrderKept DEF IInv
<1>9. OnceInv'
  <2>1. Sound(writeQueue')
    BY <1>1, <1>2, <1>4, SoundPut DEF IInv, OnceInv
  <2>2. Sound(commands)' /\ Sound(writeQueue)' /\ Sound(InHand)' /\ Sound(written)'
    <3>1. Sound(commands)' /\ Sound(written)'
      BY <1>2, Zenon DEF IInv, OnceInv, Sound, Faithful
    <3>2. Sound(writeQueue)'
      BY <1>2, <2>1 DEF Sound, Faithful
    <3>3. Sound(InHand)'
      BY <1>2, <1>5 DEF IInv, OnceInv, Sound, Faithful
    <3> QED BY <3>1, <3>2, <3>3
  <2> QED BY <1>2, <1>3, <1>4, <1>5, <2>2 DEF IInv, OnceInv
<1> QED BY <1>6, <1>7, <1>8, <1>9 DEF IInv

LEMMA TakeFrameInv ==
  ASSUME IInv, TakeFrame
  PROVE  IInv'
<1> DEFINE c == Head(writeQueue)
<1>1. /\ writing = NoMsg /\ writeQueue # <<>> /\ writing' = c /\ writeQueue' = Tail(writeQueue)
      /\ writeQueue \in Seq(Frame)
      /\ UNCHANGED <<accepted, hubQueue, message, commands, written>>
  BY DEF TakeFrame, Radio!Take, handlerVars, IInv, TypeOK
<1>2. /\ c \in Frame /\ writeQueue' \in Seq(Frame)
      /\ \A k \in Frames(writeQueue') : k + 1 \in Frames(writeQueue) /\ writeQueue'[k] = writeQueue[k + 1]
      /\ Served(writeQueue) = Served(<<c>>) \cup Served(writeQueue')
  BY <1>1, FrontFrame
<1>3. /\ Sound(writeQueue') /\ (c.id # 0 => Faithful(c))
      /\ Served(<<c>>) \cap Served(writeQueue') = {}
  BY <1>1, SoundFront DEF IInv, OnceInv
<1>4. c # NoMsg /\ InHand = <<>> /\ InHand' = <<c>>
  BY <1>1, <1>2, FrameIds DEF InHand, Frame
<1>5. Begun' = Begun /\ Expected(Begun)' = Expected(Begun)
  BY <1>1 DEF Begun, Expected
<1>6. TypeOK'
  BY <1>1, <1>2 DEF IInv, TypeOK
<1>7. HubInv'
  BY <1>1, <1>5 DEF IInv, HubInv
<1>8. OrderInv'
  <2>1. WriteOrder'
    <3> SUFFICES ASSUME NEW k \in DOMAIN writeQueue', NEW n \in DOMAIN writeQueue', k < n, writeQueue'[n].id # 0
                 PROVE  \/ writeQueue'[k].id > writeQueue'[n].id
                        \/ writeQueue'[k].id = writeQueue'[n].id /\ writeQueue'[k].at < writeQueue'[n].at
      BY DEF WriteOrder
    <3>1. /\ DOMAIN writeQueue' = 1 .. Len(writeQueue) - 1 /\ Len(writeQueue) \in Nat
          /\ DOMAIN writeQueue = 1 .. Len(writeQueue)
          /\ \A i \in 1 .. Len(writeQueue) - 1 : writeQueue'[i] = writeQueue[i + 1]
      BY <1>1
    <3>2. /\ k + 1 \in DOMAIN writeQueue /\ n + 1 \in DOMAIN writeQueue /\ k + 1 < n + 1
          /\ writeQueue'[k] = writeQueue[k + 1] /\ writeQueue'[n] = writeQueue[n + 1]
      BY <3>1
    <3> QED BY <3>2 DEF IInv, OrderInv, WriteOrder
  <2>2. \A k \in Frames(writeQueue') : \E n \in Frames(writeQueue) : writeQueue'[k] = writeQueue[n]
    BY <1>2
  <2> QED BY <1>1, <1>5, <2>1, <2>2, OrderKept DEF IInv
<1> HIDE DEF c
<1>9. OnceInv'
  <2>1. Sound(<<>>) /\ Served(<<>>) = {}
    BY Nothing DEF Sound
  <2>2. Sound(<<c>>)
    <3>1. <<>> \in Seq(Frame) /\ Served(<<c>>) \cap Served(<<>>) = {}
      <4>1. <<>> \in Seq(Frame)
        BY ONLY TRUE
      <4> QED BY ONLY <2>1, <4>1, Zenon
    <3> QED BY <1>2, <1>3, <2>1, <3>1, SoundPut
  <2>3. Sound(commands)' /\ Sound(written)'
    BY <1>1, Zenon DEF IInv, OnceInv, Sound, Faithful
  <2>4. Sound(writeQueue)'
    BY <1>1, <1>3 DEF Sound, Faithful
  <2>5. Sound(InHand)'
    BY <1>1, <1>4, <2>2 DEF Sound, Faithful
  <2> QED BY <1>1, <1>2, <1>3, <1>4, <1>5, <2>1, <2>3, <2>4, <2>5 DEF IInv, OnceInv, Apart
<1> QED BY <1>6, <1>7, <1>8, <1>9 DEF IInv

LEMMA FrameSentInv ==
  ASSUME IInv, FrameSent
  PROVE  IInv'
<1>1. /\ writing # NoMsg /\ writing' = NoMsg /\ written \in Seq(Command) /\ written \in Seq(Frame)
      /\ writing \in Frame /\ InHand = <<writing>> /\ InHand' = <<>>
      /\ UNCHANGED <<accepted, hubQueue, message, commands, writeQueue>>
  BY FrameIds DEF FrameSent, Radio!Done, handlerVars, IInv, TypeOK, InHand
<1>2. Begun' = Begun /\ Expected(Begun)' = Expected(Begun)
  BY <1>1 DEF Begun, Expected
<1>3. HubInv'
  BY <1>1, <1>2 DEF IInv, HubInv
<1>4. OrderInv'
  BY <1>1, <1>2 DEF IInv, OrderInv, WriteOrder
<1>5. Served(<<>>) = {} /\ Sound(<<>>)
  BY Nothing DEF Sound
<1>6. CASE writing \in Query
  <2>1. written' = written
    BY <1>6 DEF FrameSent
  <2>2. Served(InHand) = {}
    BY <1>1, <1>6, Single, FrameIds
  <2>3. TypeOK'
    BY <1>1, <2>1 DEF IInv, TypeOK
  <2>4. Sound(commands)' /\ Sound(writeQueue)' /\ Sound(InHand)' /\ Sound(written)'
    BY <1>1, <1>5, <2>1 DEF IInv, OnceInv, Sound, Faithful
  <2>5. OnceInv'
    BY <1>1, <1>2, <1>5, <2>1, <2>2, <2>4 DEF IInv, OnceInv
  <2> QED BY <1>3, <1>4, <2>3, <2>5 DEF IInv
<1>7. CASE writing \notin Query
  <2>1. written' = Append(written, writing) /\ writing \in Command /\ writing.id # 0
    BY <1>1, <1>7, FrameIds DEF FrameSent, Frame
  <2>2. written' \in Seq(Command) /\ Served(written') = Served(written) \cup Served(<<writing>>)
    BY <1>1, <2>1, PutBehind
  <2>3. TypeOK'
    BY <1>1, <2>2 DEF IInv, TypeOK
  <2>4. Faithful(writing)
    <3>1. Frames(<<writing>>) = {1} /\ <<writing>>[1] = writing
      BY <1>1, <2>1, Single
    <3> QED BY <1>1, <3>1 DEF IInv, OnceInv, Sound
  <2>5. Served(<<writing>>) \cap Served(written) = {}
    BY <1>1 DEF IInv, OnceInv, Apart
  <2>6. Sound(written')
    BY <1>1, <2>1, <2>4, <2>5, SoundPut DEF IInv, OnceInv
  <2>7. Sound(commands)' /\ Sound(writeQueue)' /\ Sound(InHand)' /\ Sound(written)'
    BY <1>1, <1>5, <2>6 DEF IInv, OnceInv, Sound, Faithful
  <2>8. OnceInv'
    BY <1>1, <1>2, <1>5, <2>2, <2>7 DEF IInv, OnceInv, Apart
  <2> QED BY <1>3, <1>4, <2>3, <2>8 DEF IInv
<1> QED BY <1>6, <1>7

LEMMA StepInv == IInv /\ [Next]_vars => IInv'
<1> SUFFICES ASSUME IInv, [Next]_vars PROVE IInv'
  OBVIOUS
<1>1. CASE UNCHANGED vars
  <2>1. UNCHANGED <<accepted, hubQueue, message, commands, writeQueue, writing, written>>
    BY <1>1 DEF vars, handlerVars, radioVars
  <2>2. Begun' = Begun /\ InHand' = InHand /\ Expected(Begun)' = Expected(Begun)
    BY <2>1 DEF Begun, InHand, Expected
  <2>3. TypeOK' /\ HubInv' /\ OrderInv'
    BY <2>1, <2>2 DEF IInv, TypeOK, HubInv, OrderInv, WriteOrder
  <2>4. OnceInv'
    BY <2>1, <2>2 DEF IInv, OnceInv, Sound, Faithful
  <2> QED BY <2>3, <2>4 DEF IInv
<1>2. CASE \E params \in Params : HubMessage(params)
  BY <1>2, HubMessageInv
<1>3. CASE Handler
  BY <1>3, TakeMessageInv, RunCommandInv, FinishMessageInv DEF Handler
<1>4. CASE SendQuery
  BY <1>4, SendQueryInv
<1>5. CASE Sender
  BY <1>5, TakeFrameInv, FrameSentInv DEF Sender
<1> QED BY <1>1, <1>2, <1>3, <1>4, <1>5 DEF Next

LEMMA Invariance == Spec => []IInv
<1> QED BY InitInv, StepInv, PTL DEF Spec

-----------------------------------------------------------------------------
(* The theorems.                                                           *)

\* The messages that have left the hub queue are the first ones.
LEMMA WhatHasBegun ==
  ASSUME IInv
  PROVE  {n \in DOMAIN accepted : ~ InHubQueue(n)} = 1 .. Begun
<1>1. /\ DOMAIN accepted = 1 .. Len(accepted) /\ DOMAIN hubQueue = 1 .. Len(hubQueue)
      /\ Len(accepted) \in Nat /\ Len(hubQueue) \in Nat /\ Begun \in Nat
      /\ Begun = Len(accepted) - Len(hubQueue)
  BY ServedBegun DEF IInv, TypeOK, Begun
<1>2. ASSUME NEW k \in DOMAIN hubQueue PROVE hubQueue[k].id = Begun + k
  <2>1. hubQueue[k] = accepted[Begun + k]
    BY DEF IInv, HubInv
  <2>2. Begun + k \in DOMAIN accepted
    BY <1>1
  <2> QED BY <2>1, <2>2 DEF IInv, HubInv
<1>3. ASSUME NEW n \in DOMAIN accepted, InHubQueue(n) PROVE n \notin 1 .. Begun
  <2>1. PICK k \in DOMAIN hubQueue : hubQueue[k].id = n
    BY <1>3 DEF InHubQueue
  <2>2. n = Begun + k
    BY <1>2, <2>1
  <2> QED BY <1>1, <2>2
<1>4. ASSUME NEW n \in DOMAIN accepted, n \notin 1 .. Begun PROVE InHubQueue(n)
  <2>1. n - Begun \in DOMAIN hubQueue /\ Begun + (n - Begun) = n
    BY <1>1, <1>4
  <2>2. hubQueue[n - Begun].id = n
    BY <1>2, <2>1
  <2> QED BY <2>1, <2>2 DEF InHubQueue
<1>5. 1 .. Begun \subseteq DOMAIN accepted
  BY <1>1
<1> QED BY <1>3, <1>4, <1>5

LEMMA OnceFollows == IInv => EachCommandOnce
<1> SUFFICES ASSUME IInv PROVE EachCommandOnce
  OBVIOUS
<1>1. /\ DOMAIN Stages = 1 .. 4 /\ Stages[1] = commands /\ Stages[2] = writeQueue
      /\ Stages[3] = InHand /\ Stages[4] = written
  BY DEF Stages, InHand
<1>2. \A a \in DOMAIN Stages : Sound(Stages[a])
  <2>1. Sound(commands) /\ Sound(writeQueue) /\ Sound(InHand) /\ Sound(written)
    BY DEF IInv, OnceInv
  <2>2. \A a \in DOMAIN Stages : a = 1 \/ a = 2 \/ a = 3 \/ a = 4
    BY <1>1
  <2> QED BY <1>1, <2>1, <2>2
<1> DEFINE s1 == Served(commands)
           s2 == Served(writeQueue)
           s3 == Served(InHand)
           s4 == Served(written)
<1>3. \A a \in DOMAIN Stages : \/ a = 1 /\ Served(Stages[a]) = s1
                               \/ a = 2 /\ Served(Stages[a]) = s2
                               \/ a = 3 /\ Served(Stages[a]) = s3
                               \/ a = 4 /\ Served(Stages[a]) = s4
  BY <1>1
<1>4. Apart(s1, s2, s3, s4) /\ s1 \cup s2 \cup s3 \cup s4 = Expected(Begun)
  BY DEF IInv, OnceInv
<1>5. Served(Stages[1]) = s1 /\ Served(Stages[2]) = s2 /\ Served(Stages[3]) = s3 /\ Served(Stages[4]) = s4
      /\ 1 \in DOMAIN Stages /\ 2 \in DOMAIN Stages /\ 3 \in DOMAIN Stages /\ 4 \in DOMAIN Stages
  BY <1>1
<1> HIDE DEF s1, s2, s3, s4
<1>6. \A a, b \in DOMAIN Stages : a # b => Served(Stages[a]) \cap Served(Stages[b]) = {}
  BY <1>3, <1>4 DEF Apart
<1>7. UNION {Served(Stages[a]) : a \in DOMAIN Stages} = s1 \cup s2 \cup s3 \cup s4
  <2>1. ASSUME NEW p PROVE p \in UNION {Served(Stages[a]) : a \in DOMAIN Stages} <=> p \in s1 \cup s2 \cup s3 \cup s4
    BY <1>3, <1>5
  <2> QED BY <2>1
<1>8. UNION {{<<id, at>> : at \in Known(accepted[id].params)} : id \in {n \in DOMAIN accepted : ~ InHubQueue(n)}}
        = Expected(Begun)
  BY WhatHasBegun DEF Expected
<1> QED BY <1>2, <1>4, <1>6, <1>7, <1>8 DEF EachCommandOnce, Sound

\* Through both queues, the list and the radio, every parameter of an accepted
\* message that names a switch becomes one frame for that switch with its value,
\* no more and no less, and nothing else is sent (mqtt.c, wsclient.c).
THEOREM CommandsGoOnce == Spec => []EachCommandOnce
<1> QED BY Invariance, OnceFollows, PTL

\* Commands wait with the newest message in front and in the order of their
\* parameters, and no query stands before one (run_command_on_lora_node and the
\* head of the websocket write queue).
THEOREM CommandsInOrder == Spec => []WriteOrder
<1>1. IInv => WriteOrder
  BY DEF IInv, OrderInv
<1> QED BY <1>1, Invariance, PTL

\* No query goes on the air while a command waits to (mqtt.c:544).
THEOREM QueriesWait == Spec => QueriesYield
<1>1. IInv /\ [Next]_vars => [TakeFrame /\ writing' \in Query => Frames(writeQueue) = {}]_vars
  <2> SUFFICES ASSUME IInv, TakeFrame, writing' \in Query, NEW n \in Frames(writeQueue) PROVE FALSE
    OBVIOUS
  <2>1. writeQueue \in Seq(Frame) /\ writeQueue # <<>> /\ writing' = Head(writeQueue)
    BY DEF TakeFrame, Radio!Take, IInv, TypeOK
  <2>2. /\ 1 \in DOMAIN writeQueue /\ writeQueue[1] = Head(writeQueue)
        /\ n \in DOMAIN writeQueue /\ n \in Nat /\ n >= 1 /\ writeQueue[n].id # 0 /\ writeQueue[n] \in Frame
    BY <2>1 DEF Frames
  <2>3. writeQueue[1].id = 0
    BY <2>1, <2>2, FrameIds
  <2>4. 1 < n
    BY <2>2, <2>3
  <2>5. writeQueue[n].id \in Nat
    BY <2>2, FrameIds DEF Frame
  <2>6. writeQueue[1].id > writeQueue[n].id \/ writeQueue[1].id = writeQueue[n].id
    BY <2>2, <2>4 DEF IInv, OrderInv, WriteOrder
  <2> QED BY <2>2, <2>3, <2>5, <2>6
<1> QED BY <1>1, Invariance, PTL DEF Spec, QueriesYield

=============================================================================

-------------------------- MODULE ConnectionProofs --------------------------
(***************************************************************************)
(* Messages are put together as they were sent, for any number of them,    *)
(* any number of fragments and any length of wire.                         *)
(*                                                                         *)
(* The argument is a cursor: the part of a message that was the latest one *)
(* sent when the frames before a place on the wire had been sent.  It goes *)
(* from what the server has in its buffer to what the browser sent last,   *)
(* a data frame moves it on by one and a control frame leaves it alone.    *)
(***************************************************************************)
EXTENDS Connection, SequenceTheorems, TLAPS

AnyPart == [msg : Nat, index : Nat, of : Nat]
Opcodes == {"text", "continuation", "ping", "pong", "close"}
AnyFrame == [opcode : Opcodes, fin : BOOLEAN, part : AnyPart]

Types == /\ wire \in Seq(AnyFrame)
         /\ sending \in AnyPart
         /\ sending.index <= sending.of /\ (sending.index # sending.of => sending.index >= 1)
         /\ assembled \in Seq(AnyPart)
         /\ delivered \in Seq(Seq(AnyPart))

(* q is what the browser sends after p.                                    *)
Follows(p, q) ==
  \/ p.index < p.of /\ q.msg = p.msg /\ q.index = p.index + 1 /\ q.of = p.of
  \/ p.index = p.of /\ q.msg = p.msg + 1 /\ q.index = 1 /\ q.of \in 1 .. MaxParts

(* Frame f takes the cursor from p to q.                                   *)
Moves(f, p, q) ==
  \/ /\ f.opcode = IF q.index = 1 THEN "text" ELSE "continuation"
     /\ f.fin <=> q.index = q.of
     /\ f.part = q
     /\ Follows(p, q)
  \/ f.opcode \in {"ping", "pong", "close"} /\ q = p

(* The first k of n parts of message m.                                    *)
FirstParts(m, k, n) == [i \in 1 .. k |-> Part(m, i, n)]

(* What the server has in its buffer, read, and has given to readPump when *)
(* its cursor is at p.                                                     *)
HasRead(p, read, given) ==
  /\ read = IF p.index = p.of THEN <<>> ELSE FirstParts(p.msg, p.index, p.of)
  /\ Len(given) = IF p.index = p.of THEN p.msg ELSE p.msg - 1
  /\ p.index <= p.of /\ p.of <= MaxParts
  /\ p.index # p.of => p.index >= 1 /\ p.msg >= 1

(* The cursor c runs along the frames, from there to the part sent last.   *)
CursorRuns(c, frames, last, read, given) ==
  /\ HasRead(c[0], read, given)
  /\ c[Len(frames)] = last
  /\ \A i \in 1 .. Len(frames) : Moves(frames[i], c[i - 1], c[i])

OnItsWay ==
  /\ Types
  /\ MessagesArriveWhole
  /\ \E c \in [0 .. Len(wire) -> AnyPart] : CursorRuns(c, wire, sending, assembled, delivered)

-----------------------------------------------------------------------------

LEMMA PartType ==
  ASSUME NEW m \in Nat, NEW i \in Nat, NEW n \in Nat
  PROVE  /\ Part(m, i, n) \in AnyPart
         /\ Part(m, i, n).msg = m /\ Part(m, i, n).index = i /\ Part(m, i, n).of = n
BY DEF Part, AnyPart

LEMMA PartIs ==
  ASSUME NEW p \in AnyPart
  PROVE  p = Part(p.msg, p.index, p.of)
BY DEF Part, AnyPart

(* Reading one part more.                                                  *)
LEMMA OnePartMore ==
  ASSUME NEW m \in Nat, NEW k \in Nat, NEW n \in Nat
  PROVE  /\ FirstParts(m, k, n) \in Seq(AnyPart)
         /\ Append(FirstParts(m, k, n), Part(m, k + 1, n)) = FirstParts(m, k + 1, n)
<1>1. \A j \in Nat : FirstParts(m, j, n) \in Seq(AnyPart) /\ Len(FirstParts(m, j, n)) = j
  <2>1. ASSUME NEW j \in Nat
        PROVE  FirstParts(m, j, n) \in [1 .. j -> AnyPart]
    BY PartType DEF FirstParts
  <2>2. ASSUME NEW j \in Nat
        PROVE  FirstParts(m, j, n) \in Seq(AnyPart)
    BY <2>1, SeqDef
  <2> QED BY <2>1, <2>2, LenProperties
<1> DEFINE s == FirstParts(m, k, n)
           t == FirstParts(m, k + 1, n)
<1>2. /\ s \in Seq(AnyPart) /\ Len(s) = k /\ \A i \in 1 .. k : s[i] = Part(m, i, n)
      /\ t \in Seq(AnyPart) /\ Len(t) = k + 1 /\ \A i \in 1 .. k + 1 : t[i] = Part(m, i, n)
  BY <1>1 DEF FirstParts
<1>3. Part(m, k + 1, n) \in AnyPart
  BY PartType
<1> HIDE DEF s, t
<1>4. /\ Append(s, Part(m, k + 1, n)) \in Seq(AnyPart) /\ Len(Append(s, Part(m, k + 1, n))) = k + 1
      /\ \A i \in 1 .. k : Append(s, Part(m, k + 1, n))[i] = s[i]
      /\ Append(s, Part(m, k + 1, n))[k + 1] = Part(m, k + 1, n)
  BY <1>2, <1>3, AppendProperties
<1>5. \A i \in 1 .. k + 1 : Append(s, Part(m, k + 1, n))[i] = t[i]
  BY <1>2, <1>4
<1>6. Append(s, Part(m, k + 1, n)) = t
  BY <1>2, <1>4, <1>5, SeqEqual
<1> QED BY <1>2, <1>6 DEF s, t

(* A message's first part alone.                                           *)
LEMMA FirstOfAll ==
  ASSUME NEW m \in Nat, NEW n \in Nat
  PROVE  <<Part(m, 1, n)>> = FirstParts(m, 1, n)
<1>1. FirstParts(m, 0, n) = <<>>
  BY OnePartMore, EmptySeq DEF FirstParts
<1>2. Append(<<>>, Part(m, 1, n)) = FirstParts(m, 1, n)
  <2>1. 0 \in Nat /\ 0 + 1 = 1
    OBVIOUS
  <2>2. Append(FirstParts(m, 0, n), Part(m, 0 + 1, n)) = FirstParts(m, 0 + 1, n)
    BY <2>1, OnePartMore
  <2> QED BY <1>1, <2>1, <2>2
<1>3. Append(<<>>, Part(m, 1, n)) = <<Part(m, 1, n)>>
  BY PartType, AppendProperties
<1> QED BY <1>2, <1>3

(* A frame is put on the wire.                                             *)
LEMMA SentOnItsWay ==
  ASSUME OnItsWay, NEW f \in AnyFrame, wire' = Append(wire, f), sending' \in AnyPart,
         sending'.index <= sending'.of, sending'.index # sending'.of => sending'.index >= 1,
         Moves(f, sending, sending'), UNCHANGED <<assembled, delivered>>
  PROVE  OnItsWay'
<1>1. PICK c \in [0 .. Len(wire) -> AnyPart] : CursorRuns(c, wire, sending, assembled, delivered)
  BY DEF OnItsWay
<1>2. /\ wire \in Seq(AnyFrame) /\ Len(wire) \in Nat
      /\ wire' \in Seq(AnyFrame) /\ Len(wire') = Len(wire) + 1
      /\ \A i \in 1 .. Len(wire) : wire'[i] = wire[i]
      /\ wire'[Len(wire) + 1] = f
  BY DEF OnItsWay, Types
<1> DEFINE d == [i \in 0 .. Len(wire) + 1 |-> IF i <= Len(wire) THEN c[i] ELSE sending']
<1>3. /\ d \in [0 .. Len(wire) + 1 -> AnyPart] /\ d[Len(wire) + 1] = sending'
      /\ \A i \in 0 .. Len(wire) : d[i] = c[i]
  BY <1>2
<1> HIDE DEF d
<1>4. HasRead(d[0], assembled', delivered')
  BY <1>1, <1>2, <1>3 DEF CursorRuns
<1>5. ASSUME NEW i \in 1 .. Len(wire')
      PROVE  Moves(wire'[i], d[i - 1], d[i])
  <2>1. CASE i = Len(wire) + 1
    <3>1. i - 1 = Len(wire) /\ d[i - 1] = c[Len(wire)] /\ d[i] = sending' /\ wire'[i] = f
      BY <1>2, <1>3, <2>1
    <3>2. c[Len(wire)] = sending
      BY <1>1 DEF CursorRuns
    <3> QED BY <3>1, <3>2
  <2>2. CASE i # Len(wire) + 1
    <3>1. i \in 1 .. Len(wire) /\ i \in 0 .. Len(wire) /\ i - 1 \in 0 .. Len(wire)
      BY <1>2, <2>2
    <3>2. d[i - 1] = c[i - 1] /\ d[i] = c[i] /\ wire'[i] = wire[i]
      BY <1>2, <1>3, <3>1
    <3> QED BY <1>1, <3>1, <3>2 DEF CursorRuns
  <2> QED BY <2>1, <2>2
<1>6. CursorRuns(d, wire', sending', assembled', delivered')
  BY <1>2, <1>3, <1>4, <1>5 DEF CursorRuns
<1>7. d \in [0 .. Len(wire') -> AnyPart]
  BY <1>2, <1>3
<1>8. Types' /\ MessagesArriveWhole'
  BY <1>2 DEF OnItsWay, Types, MessagesArriveWhole
<1> QED BY <1>6, <1>7, <1>8 DEF OnItsWay

(* The server reads the frame that moves the cursor from p to q.           *)
LEMMA FrameRead ==
  ASSUME Types, MessagesArriveWhole, ReadFrame,
         NEW p \in AnyPart, NEW q \in AnyPart,
         HasRead(p, assembled, delivered), Moves(wire[1], p, q), wire[1] \in AnyFrame
  PROVE  /\ HasRead(q, assembled', delivered')
         /\ assembled' \in Seq(AnyPart) /\ delivered' \in Seq(Seq(AnyPart))
         /\ MessagesArriveWhole'
<1> DEFINE f == wire[1]
           whole == f.opcode \in {"text", "continuation"} /\ f.fin
<1>1. /\ delivered' = IF whole THEN Append(delivered, Collected(f)) ELSE delivered
      /\ assembled' = IF whole THEN <<>> ELSE Collected(f)
  BY DEF ReadFrame, Types
<1>2. /\ assembled \in Seq(AnyPart) /\ delivered \in Seq(Seq(AnyPart))
      /\ p.msg \in Nat /\ p.index \in Nat /\ p.of \in Nat
      /\ q.msg \in Nat /\ q.index \in Nat /\ q.of \in Nat
      /\ MaxParts \in Nat
  BY BoundsAssumption DEF Types, AnyPart
<1>3. CASE f.opcode \in {"ping", "pong", "close"}
  <2>1. q = p
    BY <1>3 DEF Moves
  <2>2. ~whole /\ Collected(f) = assembled
    BY <1>3 DEF Collected
  <2>3. assembled' = assembled /\ delivered' = delivered
    BY <1>1, <2>2
  <2> QED BY <1>2, <2>1, <2>3 DEF MessagesArriveWhole
<1>4. CASE f.opcode \in {"text", "continuation"}
  <2>1. /\ f.opcode = IF q.index = 1 THEN "text" ELSE "continuation"
        /\ f.fin <=> q.index = q.of
        /\ f.part = q
        /\ Follows(p, q)
    BY <1>4 DEF Moves
  <2>2. q = Part(q.msg, q.index, q.of)
    BY PartIs
  <2>3. /\ q.index >= 1 /\ q.index <= q.of /\ q.of <= MaxParts /\ q.msg >= 1
        /\ Len(delivered) = q.msg - 1
    <3>1. CASE p.index < p.of /\ q.msg = p.msg /\ q.index = p.index + 1 /\ q.of = p.of
      BY <1>2, <3>1 DEF HasRead
    <3>2. CASE p.index = p.of /\ q.msg = p.msg + 1 /\ q.index = 1 /\ q.of \in 1 .. MaxParts
      BY <1>2, <3>2 DEF HasRead
    <3> QED BY <2>1, <3>1, <3>2 DEF Follows
  <2>4. Collected(f) = FirstParts(q.msg, q.index, q.of)
    <3>1. CASE q.index = 1
      <4>1. Collected(f) = <<q>>
        BY <2>1, <3>1 DEF Collected
      <4>2. <<q>> = FirstParts(q.msg, 1, q.of)
        BY <1>2, <2>2, <3>1, FirstOfAll
      <4> QED BY <3>1, <4>1, <4>2
    <3>2. CASE q.index # 1
      <4>1. Collected(f) = Append(assembled, q)
        BY <2>1, <3>2 DEF Collected
      <4>2. p.index < p.of /\ q.msg = p.msg /\ q.index = p.index + 1 /\ q.of = p.of
        BY <2>1, <3>2 DEF Follows
      <4>3. assembled = FirstParts(p.msg, p.index, p.of)
        BY <1>2, <4>2 DEF HasRead
      <4>4. Append(FirstParts(p.msg, p.index, p.of), Part(p.msg, p.index + 1, p.of))
              = FirstParts(p.msg, p.index + 1, p.of)
        BY <1>2, OnePartMore, ZenonT(60)
      <4> QED BY <2>2, <4>1, <4>2, <4>3, <4>4
    <3> QED BY <3>1, <3>2
  <2>5. Collected(f) \in Seq(AnyPart)
    <3>1. FirstParts(q.msg, q.index, q.of) \in Seq(AnyPart)
      BY <1>2, OnePartMore
    <3> QED BY <2>4, <3>1
  <2>6. CASE q.index = q.of
    <3>1. assembled' = <<>> /\ delivered' = Append(delivered, Collected(f))
      BY <1>1, <1>4, <2>1, <2>6
    <3>2. /\ delivered' \in Seq(Seq(AnyPart)) /\ Len(delivered') = q.msg
          /\ \A m \in 1 .. q.msg - 1 : delivered'[m] = delivered[m]
          /\ delivered'[q.msg] = Collected(f)
      <4>1. Len(delivered) + 1 = q.msg
        BY <1>2, <2>3
      <4>2. delivered \in Seq(Seq(AnyPart)) /\ Collected(f) \in Seq(AnyPart)
        BY <1>2, <2>5
      <4>3. /\ delivered' \in Seq(Seq(AnyPart)) /\ Len(delivered') = Len(delivered) + 1
            /\ \A m \in 1 .. Len(delivered) : delivered'[m] = delivered[m]
            /\ delivered'[Len(delivered) + 1] = Collected(f)
        BY <3>1, <4>2, AppendProperties
      <4> QED BY <2>3, <4>1, <4>3
    <3>3. Collected(f) = Whole(q.msg, q.of) /\ q.of \in 1 .. MaxParts
      BY <1>2, <2>3, <2>4, <2>6 DEF FirstParts, Whole
    <3>4. DOMAIN delivered = 1 .. q.msg - 1 /\ DOMAIN delivered' = 1 .. q.msg
      BY <1>2, <2>3, <3>2
    <3>5. MessagesArriveWhole'
      <4> SUFFICES ASSUME NEW m \in 1 .. q.msg
                   PROVE  \E n \in 1 .. MaxParts : delivered'[m] = Whole(m, n)
        BY <3>4 DEF MessagesArriveWhole
      <4>1. CASE m = q.msg
        BY <3>2, <3>3, <4>1
      <4>2. CASE m # q.msg
        <5>1. m \in 1 .. q.msg - 1
          BY <1>2, <4>2
        <5> QED BY <3>2, <3>4, <5>1 DEF MessagesArriveWhole
      <4> QED BY <4>1, <4>2
    <3>6. HasRead(q, assembled', delivered')
      BY <1>2, <2>3, <2>6, <3>1, <3>2 DEF HasRead
    <3> QED BY <3>1, <3>2, <3>5, <3>6
  <2>7. CASE q.index # q.of
    <3>1. assembled' = Collected(f) /\ delivered' = delivered
      BY <1>1, <2>1, <2>7
    <3>2. HasRead(q, assembled', delivered')
      BY <1>2, <2>3, <2>4, <2>7, <3>1 DEF HasRead
    <3> QED BY <1>2, <2>5, <3>1, <3>2 DEF MessagesArriveWhole
  <2> QED BY <2>6, <2>7
<1> QED BY <1>3, <1>4 DEF AnyFrame, Opcodes

(* A frame is taken off the wire.                                          *)
LEMMA ReadOnItsWay ==
  ASSUME OnItsWay, ReadFrame
  PROVE  OnItsWay'
<1>1. PICK c \in [0 .. Len(wire) -> AnyPart] : CursorRuns(c, wire, sending, assembled, delivered)
  BY DEF OnItsWay
<1>2. /\ wire \in Seq(AnyFrame) /\ wire # <<>> /\ wire' = Tail(wire) /\ sending' = sending
  BY DEF OnItsWay, Types, ReadFrame, browserVars
<1>3. /\ Len(wire) \in Nat \ {0}
      /\ wire' \in Seq(AnyFrame) /\ Len(wire') = Len(wire) - 1
      /\ \A i \in 1 .. Len(wire) - 1 : wire'[i] = wire[i + 1]
      /\ wire[1] \in AnyFrame
  BY <1>2, HeadTailProperties, EmptySeq, ElementOfSeq
<1> DEFINE d == [i \in 0 .. Len(wire) - 1 |-> c[i + 1]]
<1>4. /\ d \in [0 .. Len(wire) - 1 -> AnyPart]
      /\ \A i \in 0 .. Len(wire) - 1 : d[i] = c[i + 1]
  BY <1>3
<1> HIDE DEF d
<1>5. /\ c[0] \in AnyPart /\ c[1] \in AnyPart /\ Moves(wire[1], c[0], c[1])
      /\ HasRead(c[0], assembled, delivered)
  <2>1. 1 \in 1 .. Len(wire) /\ 1 - 1 = 0 /\ 0 \in 0 .. Len(wire) /\ 1 \in 0 .. Len(wire)
    BY <1>3
  <2> QED BY <1>1, <2>1 DEF CursorRuns
<1>6. /\ HasRead(c[1], assembled', delivered')
      /\ assembled' \in Seq(AnyPart) /\ delivered' \in Seq(Seq(AnyPart))
      /\ MessagesArriveWhole'
  BY <1>3, <1>5, FrameRead DEF OnItsWay
<1>7. ASSUME NEW i \in 1 .. Len(wire')
      PROVE  Moves(wire'[i], d[i - 1], d[i])
  <2>1. /\ i + 1 \in 1 .. Len(wire) /\ i \in 0 .. Len(wire) - 1 /\ i - 1 \in 0 .. Len(wire) - 1
        /\ i \in 1 .. Len(wire) - 1 /\ (i + 1) - 1 = i /\ (i - 1) + 1 = i
    BY <1>3
  <2>2. wire'[i] = wire[i + 1] /\ d[i - 1] = c[i] /\ d[i] = c[i + 1]
    BY <1>3, <1>4, <2>1
  <2>3. Moves(wire[i + 1], c[(i + 1) - 1], c[i + 1])
    BY <1>1, <2>1 DEF CursorRuns
  <2> QED BY <2>1, <2>2, <2>3
<1>8. d[0] = c[1] /\ d[Len(wire')] = sending'
  <2>1. 0 \in 0 .. Len(wire) - 1 /\ 0 + 1 = 1
        /\ Len(wire') \in 0 .. Len(wire) - 1 /\ Len(wire') + 1 = Len(wire)
    BY <1>3
  <2> QED BY <1>1, <1>2, <1>4, <2>1 DEF CursorRuns
<1>9. CursorRuns(d, wire', sending', assembled', delivered')
  BY <1>6, <1>7, <1>8 DEF CursorRuns
<1>10. d \in [0 .. Len(wire') -> AnyPart]
  BY <1>3, <1>4
<1>11. Types'
  BY <1>2, <1>3, <1>6 DEF Types, OnItsWay
<1> QED BY <1>6, <1>9, <1>10, <1>11 DEF OnItsWay

(* Nothing about the wire or the buffers changes.                          *)
LEMMA StutterOnItsWay ==
  ASSUME OnItsWay, UNCHANGED <<wire, sending, assembled, delivered>>
  PROVE  OnItsWay'
BY DEF OnItsWay, Types, MessagesArriveWhole

LEMMA StartsOnItsWay == Init => OnItsWay
<1> SUFFICES ASSUME Init PROVE OnItsWay
  OBVIOUS
<1>1. NoPart \in AnyPart /\ NoPart.msg = 0 /\ NoPart.index = 0 /\ NoPart.of = 0
  BY PartType DEF NoPart
<1>2. wire = <<>> /\ sending = NoPart /\ assembled = <<>> /\ delivered = <<>>
  BY DEF Init
<1>3. Types
  BY <1>1, <1>2 DEF Types
<1>4. MessagesArriveWhole
  BY <1>2 DEF MessagesArriveWhole
<1> DEFINE c == [i \in 0 .. Len(wire) |-> NoPart]
<1>5. Len(wire) = 0 /\ Len(delivered) = 0 /\ MaxParts \in Nat
  BY <1>2, BoundsAssumption
<1>6. c \in [0 .. Len(wire) -> AnyPart] /\ c[0] = NoPart /\ c[Len(wire)] = sending
  BY <1>1, <1>2, <1>5
<1> HIDE DEF c
<1>7. CursorRuns(c, wire, sending, assembled, delivered)
  BY <1>1, <1>2, <1>5, <1>6 DEF CursorRuns, HasRead
<1> QED BY <1>3, <1>4, <1>6, <1>7 DEF OnItsWay

(* Control frames do not move the cursor.                                  *)
LEMMA ControlOnItsWay ==
  ASSUME OnItsWay, NEW op \in {"ping", "pong", "close"},
         wire' = Append(wire, Frame(op, TRUE, NoPart)),
         UNCHANGED <<sending, assembled, delivered>>
  PROVE  OnItsWay'
<1> DEFINE f == Frame(op, TRUE, NoPart)
<1>1. f \in AnyFrame /\ f.opcode = op
  BY PartType DEF Frame, AnyFrame, Opcodes, NoPart
<1>2. sending' = sending /\ sending' \in AnyPart
  BY DEF OnItsWay, Types
<1> HIDE DEF f
<1>3. Moves(f, sending, sending')
  BY <1>1, <1>2 DEF Moves
<1>4. wire' = Append(wire, f)
  BY DEF f
<1>5. sending'.index <= sending'.of /\ (sending'.index # sending'.of => sending'.index >= 1)
  BY <1>2 DEF OnItsWay, Types
<1> QED BY <1>1, <1>2, <1>3, <1>4, <1>5, SentOnItsWay

LEMMA NextOnItsWay == OnItsWay /\ [Next]_vars => OnItsWay'
<1> SUFFICES ASSUME OnItsWay, [Next]_vars
             PROVE  OnItsWay'
  OBVIOUS
<1>0. sending \in AnyPart /\ sending.msg \in Nat /\ sending.index \in Nat /\ sending.of \in Nat
  BY DEF OnItsWay, Types, AnyPart
<1>1. ASSUME NEW n \in 1 .. MaxParts, StartMessage(n)
      PROVE  OnItsWay'
  <2> DEFINE f == Frame("text", n = 1, sending')
  <2>1. /\ sending.index = sending.of /\ wire' = Append(wire, f)
        /\ sending' = Part(sending.msg + 1, 1, n)
        /\ UNCHANGED <<assembled, delivered>>
    BY <1>1 DEF StartMessage, Sends, BetweenMessages, serverVars
  <2>2. /\ sending' \in AnyPart /\ sending'.msg = sending.msg + 1
        /\ sending'.index = 1 /\ sending'.of = n
    <3>1. n \in Nat /\ 1 \in Nat /\ sending.msg + 1 \in Nat
      BY <1>0, BoundsAssumption
    <3> QED BY <2>1, <3>1, PartType
  <2>3. f \in AnyFrame /\ f.opcode = "text" /\ f.fin = (n = 1) /\ f.part = sending'
    BY <2>2 DEF Frame, AnyFrame, Opcodes
  <2> HIDE DEF f
  <2>4. Moves(f, sending, sending')
    BY <2>1, <2>2, <2>3 DEF Moves, Follows
  <2>5. sending'.index <= sending'.of /\ (sending'.index # sending'.of => sending'.index >= 1)
    BY <2>2
  <2> QED BY <2>1, <2>2, <2>3, <2>4, <2>5, SentOnItsWay
<1>2. CASE ContinueMessage
  <2> DEFINE f == Frame("continuation", sending'.index = sending'.of, sending')
  <2>1. /\ sending.index # sending.of /\ wire' = Append(wire, f)
        /\ sending' = [sending EXCEPT !.index = @ + 1]
        /\ UNCHANGED <<assembled, delivered>>
    BY <1>2 DEF ContinueMessage, Sends, BetweenMessages, serverVars
  <2>2. /\ sending' \in AnyPart /\ sending'.msg = sending.msg
        /\ sending'.index = sending.index + 1 /\ sending'.of = sending.of
    BY <1>0, <2>1 DEF AnyPart
  <2>3. /\ f \in AnyFrame /\ f.opcode = "continuation"
        /\ f.fin = (sending'.index = sending'.of) /\ f.part = sending'
    BY <2>2 DEF Frame, AnyFrame, Opcodes
  <2>4. sending.index < sending.of /\ sending.index >= 1
    BY <1>0, <2>1 DEF OnItsWay, Types
  <2> HIDE DEF f
  <2>5. Follows(sending, sending') /\ sending'.index # 1
    BY <1>0, <2>2, <2>4 DEF Follows
  <2>6. Moves(f, sending, sending')
    BY <2>3, <2>5 DEF Moves
  <2>7. sending'.index <= sending'.of /\ (sending'.index # sending'.of => sending'.index >= 1)
    BY <1>0, <2>2, <2>4
  <2> QED BY <2>1, <2>2, <2>3, <2>6, <2>7, SentOnItsWay
<1>3. CASE AnswerPing
  BY <1>3, ControlOnItsWay DEF AnswerPing, Sends, serverVars
<1>4. CASE SendPing
  BY <1>4, ControlOnItsWay DEF SendPing, Sends, serverVars
<1>5. CASE CloseTab
  BY <1>5, ControlOnItsWay DEF CloseTab, serverVars
<1>6. CASE Vanish
  BY <1>6, StutterOnItsWay DEF Vanish, serverVars
<1>7. CASE ReadFrame
  BY <1>7, ReadOnItsWay
<1>8. CASE Heartbeat
  BY <1>8, StutterOnItsWay DEF Heartbeat, browserVars
<1>9. CASE TimeOut
  BY <1>9, StutterOnItsWay DEF TimeOut, browserVars
<1>10. CASE UNCHANGED vars
  BY <1>10, StutterOnItsWay DEF vars, browserVars, serverVars
<1> QED BY <1>1, <1>2, <1>3, <1>4, <1>5, <1>6, <1>7, <1>8, <1>9, <1>10 DEF Next

LEMMA AlwaysOnItsWay == Spec => []OnItsWay
<1>1. Init => OnItsWay
  BY StartsOnItsWay
<1>2. OnItsWay /\ [Next]_vars => OnItsWay'
  BY NextOnItsWay
<1> QED BY <1>1, <1>2, PTL DEF Spec

-----------------------------------------------------------------------------

(* Whatever number of messages is sent, in however many fragments, with    *)
(* whatever control frames in between, ReadMessage returns each of them    *)
(* whole and in the order they were sent.                                  *)
THEOREM WholeMessages == Spec => []MessagesArriveWhole
<1>1. OnItsWay => MessagesArriveWhole
  BY DEF OnItsWay
<1> QED BY <1>1, AlwaysOnItsWay, PTL

(* Once the wire is read, every message the browser has finished sending   *)
(* has been returned and nothing of it is left in ReadMessage's buffer.    *)
THEOREM NoneIsLost == Spec => []NothingIsLost
<1>1. OnItsWay => NothingIsLost
  <2> SUFFICES ASSUME OnItsWay, wire = <<>>, sending.index = sending.of
               PROVE  Len(delivered) = sending.msg /\ assembled = <<>>
    BY DEF NothingIsLost, BetweenMessages
  <2>1. PICK c \in [0 .. Len(wire) -> AnyPart] : CursorRuns(c, wire, sending, assembled, delivered)
    BY DEF OnItsWay
  <2>2. Len(wire) = 0
    OBVIOUS
  <2>3. c[0] = sending
    BY <2>1, <2>2 DEF CursorRuns
  <2> QED BY <2>1, <2>3 DEF CursorRuns, HasRead
<1> QED BY <1>1, AlwaysOnItsWay, PTL

-----------------------------------------------------------------------------
(* The end of a browser that is gone.                                      *)

CountedDown == quiet \in 0 .. Deadline

CountsDown ==
  /\ ~present'
  /\ \/ Len(wire') < Len(wire)
     \/ wire' = wire /\ quiet' = quiet + 1
     \/ ~Open'

LEMMA StepCounts ==
  ASSUME CountedDown, [Next]_vars
  PROVE  CountedDown'
<1>1. Deadline \in Nat
  BY BoundsAssumption
<1>2. quiet' \in {quiet, 0} \/ (quiet < Deadline /\ quiet' = quiet + 1)
  BY DEF Next, vars, serverVars, StartMessage, ContinueMessage, AnswerPing, SendPing, Sends, CloseTab,
     Vanish, ReadFrame, Heartbeat, TimeOut
<1> QED BY <1>1, <1>2 DEF CountedDown

LEMMA GoneCountsDown ==
  ASSUME wire \in Seq(AnyFrame), Next, ~present, Open
  PROVE  CountsDown
<1>1. ReadFrame \/ Heartbeat \/ TimeOut
  BY DEF Next, StartMessage, ContinueMessage, AnswerPing, SendPing, Sends, CloseTab, Vanish
<1>2. ~present'
  BY <1>1 DEF ReadFrame, Heartbeat, TimeOut, browserVars
<1>3. CASE ReadFrame
  <2>1. wire # <<>> /\ wire' = Tail(wire)
    BY <1>3 DEF ReadFrame
  <2> QED BY <1>2, <2>1 DEF CountsDown
<1>4. CASE Heartbeat
  BY <1>2, <1>4 DEF Heartbeat, CountsDown
<1>5. CASE TimeOut
  BY <1>2, <1>5 DEF TimeOut, Open, CountsDown
<1> QED BY <1>1, <1>3, <1>4, <1>5

(* Nothing holds up the end of a reader whose browser is gone: each step   *)
(* reads one of the frames that were under way, which are finitely many,   *)
(* or is one of at most Deadline heartbeats in a row, or ends it; a ping   *)
(* that is sent puts nothing off (readPump and writePump of hub.go).  What *)
(* GoneIsNoticed adds is that time passes.                                 *)
THEOREM GoneRunsOut == Spec => []CountedDown /\ [][~present /\ Open => CountsDown]_vars
<1>1. Init => CountedDown
  BY BoundsAssumption DEF Init, CountedDown
<1>2. CountedDown /\ [Next]_vars => CountedDown'
  BY StepCounts
<1>3. OnItsWay /\ [Next]_vars => [~present /\ Open => CountsDown]_vars
  BY GoneCountsDown DEF OnItsWay, Types
<1> QED BY <1>1, <1>2, <1>3, AlwaysOnItsWay, PTL DEF Spec
=============================================================================

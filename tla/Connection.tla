----------------------------- MODULE Connection -----------------------------
(***************************************************************************)
(* One WebSocket connection: the browser's frames (RFC 6455), ReadMessage  *)
(* of internal/ws/websocket.go that puts fragmented messages together, and *)
(* the pumps of internal/ws/hub.go with their ping every 15 seconds and    *)
(* their read deadline of 45.                                              *)
(*                                                                         *)
(* Time passes in heartbeats.  The payload of a frame is one part of a     *)
(* message: which message, which part, of how many.                        *)
(*                                                                         *)
(* A definition headed "Mutant" is a plausible mistake in the definition it*)
(* names, for a property to catch; it is no part of the specification.     *)
(***************************************************************************)
EXTENDS Naturals, Sequences

CONSTANTS Deadline,      \* heartbeats in pongTimeout: 45 s / 15 s
          MaxMessages,   \* bound: messages the browser sends
          MaxParts,      \* bound: fragments of a message
          WireCap        \* bound: frames under way

ASSUME BoundsAssumption == {Deadline, MaxMessages, MaxParts, WireCap} \subseteq Nat \ {0}

VARIABLES wire,       \* frames on their way to the server
          sending,    \* the part the browser sent last
          present,    \* the browser is there; it may vanish without a word
          pings,      \* pings of the server it has not answered
          assembled,  \* ReadMessage's buffer
          delivered,  \* what ReadMessage returned
          quiet,      \* heartbeats since the read deadline was set
          ended,      \* why readPump returned
          late        \* a heartbeat came before all was answered and read

browserVars == <<sending, present>>
serverVars == <<assembled, delivered, quiet, ended>>
vars == <<wire, browserVars, pings, serverVars, late>>

Part(m, i, n) == [msg |-> m, index |-> i, of |-> n]
NoPart == Part(0, 0, 0)
Frame(opcode, fin, part) == [opcode |-> opcode, fin |-> fin, part |-> part]
Whole(m, n) == [i \in 1 .. n |-> Part(m, i, n)]

-----------------------------------------------------------------------------
(* The browser.                                                            *)

Sends(frame) ==
  /\ present
  /\ Len(wire) < WireCap
  /\ wire' = Append(wire, frame)
  /\ UNCHANGED <<present, serverVars, late>>

BetweenMessages == sending.index = sending.of

(* A message in n fragments, the first one text, the last one final.       *)
StartMessage(n) ==
  /\ BetweenMessages
  /\ sending.msg < MaxMessages
  /\ sending' = Part(sending.msg + 1, 1, n)
  /\ Sends(Frame("text", n = 1, sending'))
  /\ UNCHANGED pings

ContinueMessage ==
  /\ ~BetweenMessages
  /\ sending' = [sending EXCEPT !.index = @ + 1]
  /\ Sends(Frame("continuation", BetweenMessages', sending'))
  /\ UNCHANGED pings

(* Control frames may come between the fragments of a message.             *)
AnswerPing ==
  /\ pings > 0
  /\ pings' = pings - 1
  /\ Sends(Frame("pong", TRUE, NoPart))
  /\ UNCHANGED sending

SendPing ==
  /\ Sends(Frame("ping", TRUE, NoPart))
  /\ UNCHANGED <<sending, pings>>

(* Closing the tab: a close frame, and nothing after it.                   *)
CloseTab ==
  /\ present
  /\ present' = FALSE
  /\ Len(wire) < WireCap
  /\ wire' = Append(wire, Frame("close", TRUE, NoPart))
  /\ UNCHANGED <<sending, pings, serverVars, late>>

Vanish ==
  /\ present
  /\ present' = FALSE
  /\ UNCHANGED <<wire, sending, pings, serverVars, late>>

-----------------------------------------------------------------------------
(* The server.                                                             *)

Open == ended = "no"

(* Mutant of Collected: a control frame empties the buffer.                *)
ControlClears(f) ==
  CASE f.opcode = "continuation" -> Append(assembled, f.part)
    [] f.opcode = "text"         -> <<f.part>>
    [] OTHER                     -> <<>>

(* What the frame makes of the buffer: a text frame starts it anew.        *)
Collected(f) ==
  CASE f.opcode = "continuation" -> Append(assembled, f.part)
    [] f.opcode = "text"         -> <<f.part>>
    [] OTHER                     -> assembled

(* Mutant of ReadFrame: a control frame, always final, ends the message.   *)
AnyFinalFrame ==
  /\ Open
  /\ wire # <<>>
  /\ wire' = Tail(wire)
  /\ LET f == Head(wire)
     IN  /\ ended' = IF f.opcode = "close" THEN "eof" ELSE ended
         /\ delivered' = IF f.fin THEN Append(delivered, Collected(f)) ELSE delivered
         /\ assembled' = IF f.fin THEN <<>> ELSE Collected(f)
         /\ quiet' = IF f.fin THEN 0 ELSE quiet
  /\ UNCHANGED <<browserVars, pings, late>>

(* One turn of ReadMessage's loop.  A final data frame ends it, readPump   *)
(* sets the deadline anew and calls again; a ping or a pong does not.      *)
ReadFrame ==
  /\ Open
  /\ wire # <<>>
  /\ wire' = Tail(wire)
  /\ LET f == Head(wire)
         whole == f.opcode \in {"text", "continuation"} /\ f.fin
     IN  /\ ended' = IF f.opcode = "close" THEN "eof" ELSE ended
         /\ delivered' = IF whole THEN Append(delivered, Collected(f)) ELSE delivered
         /\ assembled' = IF whole THEN <<>> ELSE Collected(f)
         /\ quiet' = IF whole THEN 0 ELSE quiet
  /\ UNCHANGED <<browserVars, pings, late>>

(* Mutant of Heartbeat: a ping that was sent moves the deadline.           *)
PingExtends ==
  /\ Open
  /\ quiet < Deadline
  /\ pings' = IF present /\ pings < Deadline THEN pings + 1 ELSE pings
  /\ quiet' = 0
  /\ late' = (late \/ pings > 0 \/ wire # <<>>)
  /\ UNCHANGED <<wire, browserVars, assembled, delivered, ended>>

(* writePump's ticker; a ping to somebody who has gone is sent all the same*)
(* and never answered.                                                     *)
Heartbeat ==
  /\ Open
  /\ quiet < Deadline
  /\ pings' = pings + 1
  /\ quiet' = quiet + 1
  /\ late' = (late \/ pings > 0 \/ wire # <<>>)
  /\ UNCHANGED <<wire, browserVars, assembled, delivered, ended>>

(* The read deadline passes: readFrame returns an error, so does readPump. *)
TimeOut ==
  /\ Open
  /\ quiet = Deadline
  /\ ended' = "timeout"
  /\ UNCHANGED <<wire, browserVars, pings, assembled, delivered, quiet, late>>

Init ==
  /\ wire = <<>>
  /\ sending = NoPart
  /\ present = TRUE
  /\ pings = 0
  /\ assembled = <<>>
  /\ delivered = <<>>
  /\ quiet = 0
  /\ ended = "no"
  /\ late = FALSE

Next == \/ \E n \in 1 .. MaxParts : StartMessage(n)
        \/ ContinueMessage \/ AnswerPing \/ SendPing \/ CloseTab \/ Vanish
        \/ ReadFrame \/ Heartbeat \/ TimeOut

Spec == Init /\ [][Next]_vars

(* Time passes, deadlines are kept and the server reads what is there.     *)
FairSpec == Spec /\ WF_vars(Heartbeat) /\ WF_vars(TimeOut) /\ WF_vars(ReadFrame)

-----------------------------------------------------------------------------
(* Properties.                                                             *)

Parts == [msg : 0 .. MaxMessages, index : 0 .. MaxParts, of : 0 .. MaxParts]

(* The values of every variable; a deadline that is set is no further away *)
(* than it was set.                                                        *)
TypeOK ==
  /\ wire \in Seq([opcode : {"text", "continuation", "ping", "pong", "close"},
                   fin : BOOLEAN, part : Parts])
  /\ Len(wire) <= WireCap
  /\ sending \in Parts
  /\ present \in BOOLEAN
  /\ pings \in Nat
  /\ assembled \in Seq(Parts)
  /\ delivered \in Seq(Seq(Parts))
  /\ quiet \in 0 .. Deadline
  /\ ended \in {"no", "eof", "timeout"}
  /\ late \in BOOLEAN

(* What readPump gets are the browser's messages, each of them whole and in*)
(* the order they were sent, however they were cut up and whatever control *)
(* frames came in between (ReadMessage reads one complete message).        *)
MessagesArriveWhole ==
  \A m \in DOMAIN delivered :
    \E n \in 1 .. MaxParts : delivered[m] = Whole(m, n)

(* Nothing the browser finished sending is lost on an open connection: it  *)
(* was delivered, or its last frame is under way.                          *)
NothingIsLost ==
  Open /\ wire = <<>> /\ BetweenMessages => Len(delivered) = sending.msg /\ assembled = <<>>

(* A browser that is gone, with or without a word, is noticed: its reader  *)
(* ends, and with it its presence (readPump's deferred removeClient).      *)
GoneIsNoticed == ~present ~> ~Open

(* The timeout is for a peer that does not answer: one that has answered   *)
(* every ping in time keeps its connection (ping/pong heartbeat every 15s /*)
(* 45s timeout, progress.md; pongTimeout, hub.go).                         *)
AttentivePeerStays == ended = "timeout" => late
=============================================================================

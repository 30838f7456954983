----------------------------- MODULE ToolProtocol -----------------------------
(***************************************************************************)
(* The wire protocol of the tool server (internal/mcp/server.go): Run reads *)
(* one message after the other from standard input and answers it before   *)
(* the next.  A message is a line, or a body after headers that give its    *)
(* length, and is answered in the framing it came in.  The client's bytes   *)
(* are units: newlines, headers, and the parts of a message's text.         *)
(***************************************************************************)
EXTENDS Naturals, Sequences, FiniteSets
LOCAL INSTANCE SequencesExt

CONSTANTS Message,    \* [id, method, asks], parts: how many units its text has
          NoId,       \* the id of a notification, and of an answer to what cannot be read
          Frame,      \* what a client sends: [kind, msg]
          supportedProtocols, oldestProtocol,
          FailingTool, MaxFrames

FrameKind == {"line", "junk", "blank", "bad", "typed", "framed", "empty"}
ASSUME ProtocolAssumption ==
  /\ \A m \in Message : m.parts \in Nat \ {0}
  /\ Frame \subseteq [kind : FrameKind, msg : Message] /\ MaxFrames \in Nat

VARIABLES
  unread,   \* what the client wrote and the server has not read
  unsent,   \* the rest of the frame the client is writing
  frames,   \* history: the frames the client began
  open,     \* the client has not closed its end
  mode,     \* what readPayload reads next, or "ended"
  length,   \* the Content-Length
  newline,  \* s.newline
  replies,  \* what the server wrote
  ran       \* history: the tools that were called

protocolVars == <<unread, unsent, frames, open, mode, length, newline, replies, ran>>

NL == [unit |-> "newline"]
Junk == [unit |-> "junk"]       \* text that is no message
OtherHeader == [unit |-> "header"]
BadLength == [unit |-> "bad length"]
ContentLength(n) == [unit |-> "length", n |-> n]
Text(m) == [i \in 1..m.parts |-> [unit |-> "text", msg |-> m, part |-> i]]

\* A client's frames.  A body may have newlines where JSON allows them.
Spread(t) == IF Len(t) < 2 THEN t ELSE <<Head(t), NL>> \o Tail(t)
Body(f) == IF f.kind = "empty" THEN <<>> ELSE Spread(Text(f.msg))
Units(f) ==
  CASE f.kind = "line"   -> Append(Text(f.msg), NL)
    [] f.kind = "junk"   -> <<Junk, NL>>
    [] f.kind = "blank"  -> <<NL>>
    [] f.kind = "bad"    -> <<BadLength, NL>>
    [] f.kind = "typed"  -> <<ContentLength(Len(Body(f))), NL, OtherHeader, NL, NL>> \o Body(f)
    [] OTHER             -> <<ContentLength(Len(Body(f))), NL, NL>> \o Body(f)

ProtocolInit ==
  /\ unread = <<>> /\ unsent = <<>> /\ frames = <<>> /\ open = TRUE
  /\ mode = "line" /\ length = 0 /\ newline = FALSE
  /\ replies = <<>> /\ ran = <<>>

\* The client writes, as slowly as it likes, and stops wherever it likes.
ClientKeeps == UNCHANGED <<mode, length, newline, replies, ran>>
SendFrame(f) ==
  /\ open /\ unsent = <<>> /\ Len(frames) < MaxFrames
  /\ frames' = Append(frames, f) /\ unsent' = Units(f)
  /\ ClientKeeps /\ UNCHANGED <<unread, open>>
WriteUnit ==
  /\ open /\ unsent # <<>>
  /\ unread' = Append(unread, Head(unsent)) /\ unsent' = Tail(unsent)
  /\ ClientKeeps /\ UNCHANGED <<frames, open>>
Close == /\ open /\ open' = FALSE
         /\ ClientKeeps /\ UNCHANGED <<unread, unsent, frames>>

-----------------------------------------------------------------------------
(* dispatch and handle.                                                    *)

Error(code) == [error |-> code]
handle(m) ==
  CASE m.method = "initialize" ->
         [version |-> IF m.asks \in supportedProtocols THEN m.asks ELSE oldestProtocol]
    [] m.method \in {"ping", "tools/list"} -> [ok |-> m.method]
    [] m.method = "tools/call" ->
         IF m.asks = "bad params" THEN Error("invalid params")
         ELSE IF m.asks \in FailingTool THEN Error("server") ELSE [ok |-> m.asks]
    [] m.method = "notifications/" -> [ok |-> NoId]
    [] OTHER -> Error("method not found")
Calls(m) == IF m.method = "tools/call" /\ m.asks # "bad params" THEN <<m.asks>> ELSE <<>>

\* The message a payload is, if it is one: the newlines in it do not count.
Said(payload, n) == {i \in 1..n : payload[i] # NL}
Parsed(payload) ==
  {m \in Message : /\ Cardinality(Said(payload, Len(payload))) = m.parts
                   /\ \A i \in Said(payload, Len(payload)) :
                        payload[i] = Text(m)[Cardinality(Said(payload, i))]}
Reply(id, lines, result) == [id |-> id, newline |-> lines, result |-> result]

dispatch(payload, lines) ==
  LET found == Parsed(payload)
      m == CHOOSE m \in found : TRUE
  IN  /\ replies' = IF found = {} THEN Append(replies, Reply(NoId, lines, Error("parse")))
                    ELSE IF m.id = NoId THEN replies
                    ELSE Append(replies, Reply(m.id, lines, handle(m)))
      /\ ran' = IF found = {} THEN ran ELSE ran \o Calls(m)

-----------------------------------------------------------------------------
(* readPayload, in the steps in which it waits for the client.             *)

HasLine == \E i \in DOMAIN unread : unread[i] = NL
LineReady == HasLine \/ ~open
LineEnd == CHOOSE i \in DOMAIN unread : unread[i] = NL /\ \A j \in 1..(i - 1) : unread[j] # NL
Line == IF HasLine THEN SubSeq(unread, 1, LineEnd - 1) ELSE unread
AfterLine == IF HasLine THEN SubSeq(unread, LineEnd + 1, Len(unread)) ELSE <<>>
Continue(rest, then) == /\ unread' = rest /\ mode' = then
                        /\ UNCHANGED <<unsent, frames, open>>
OrEnd == IF HasLine THEN "line" ELSE "ended"
Silent == UNCHANGED <<replies, ran>>

ReadLine ==
  /\ mode = "line" /\ LineReady
  /\ LET first == IF Line = <<>> THEN NL ELSE Head(Line)
     IN  CASE first = NL -> /\ Continue(AfterLine, OrEnd)
                            /\ Silent /\ UNCHANGED <<length, newline>>
           [] first = BadLength -> /\ Continue(AfterLine, "ended")
                                   /\ newline' = FALSE
                                   /\ Silent /\ UNCHANGED length
           [] first.unit = "length" -> /\ Continue(AfterLine, "headers")
                                   /\ length' = first.n /\ newline' = FALSE
                                   /\ Silent
           [] OTHER -> /\ Continue(AfterLine, OrEnd)
                       /\ newline' = TRUE
                       /\ dispatch(Line, TRUE)
                       /\ UNCHANGED length

\* Mutant: whatever follows the length is taken for the blank line.
ReadOneHeader ==
  /\ mode = "headers" /\ LineReady
  /\ Continue(AfterLine, IF ~HasLine THEN "ended" ELSE "body")
  /\ Silent /\ UNCHANGED <<length, newline>>

\* Other headers are skipped, up to a blank line.
ReadHeader ==
  /\ mode = "headers" /\ LineReady
  /\ Continue(AfterLine, IF ~HasLine THEN "ended" ELSE IF Line = <<>> THEN "body" ELSE "headers")
  /\ Silent /\ UNCHANGED <<length, newline>>

ReadBody ==
  /\ mode = "body" /\ Len(unread) >= length
  /\ Continue(SubSeq(unread, length + 1, Len(unread)), "line")
  /\ dispatch(SubSeq(unread, 1, length), newline)
  /\ UNCHANGED <<length, newline>>
BodyEnds ==
  /\ mode = "body" /\ Len(unread) < length /\ ~open
  /\ Continue(<<>>, "ended")
  /\ Silent /\ UNCHANGED <<length, newline>>

ProtocolNext ==
  \/ \E f \in Frame : SendFrame(f)
  \/ WriteUnit \/ Close
  \/ ReadLine \/ ReadHeader \/ ReadBody \/ BodyEnds
ProtocolSpec == ProtocolInit /\ [][ProtocolNext]_protocolVars

-----------------------------------------------------------------------------
(* What the client may expect, frame by frame.                             *)

AnswerTo(f) ==
  LET lines == f.kind \in {"line", "junk"}
  IN  IF f.kind \in {"blank", "bad"} THEN <<>>
      ELSE IF f.kind \in {"junk", "empty"} THEN <<Reply(NoId, lines, Error("parse"))>>
      ELSE IF f.msg.id = NoId THEN <<>> ELSE <<Reply(f.msg.id, lines, handle(f.msg))>>
CallOf(f) == IF f.kind \in {"line", "typed", "framed"} THEN Calls(f.msg) ELSE <<>>
AnswersTo(fs) == FlattenSeq([i \in DOMAIN fs |-> AnswerTo(fs[i])])
CallsOf(fs) == FlattenSeq([i \in DOMAIN fs |-> CallOf(fs[i])])

\* The frames that arrived whole.  A closed input ends a line as a newline does: a line
\* that breaks off in the middle of its text is junk.
Written(f) == Len(Units(f)) - Len(unsent)
Arrived ==
  IF unsent = <<>> THEN frames
  ELSE LET f == Last(frames)
       IN  IF open \/ f.kind \notin {"line", "junk"} \/ Written(f) = 0 THEN Front(frames)
           ELSE IF Len(unsent) = 1 THEN frames
           ELSE Append(Front(frames), [f EXCEPT !.kind = "junk"])
BeforeBad(fs) ==
  LET bad == {i \in DOMAIN fs : fs[i].kind = "bad"}
  IN  SubSeq(fs, 1, IF bad = {} THEN Len(fs) ELSE (CHOOSE i \in bad : \A j \in bad : i <= j) - 1)

\* The server has read all it can.
Waiting ==
  CASE mode = "ended" -> TRUE
    [] mode = "body" -> open /\ Len(unread) < length
    [] OTHER -> ~LineReady

\* Every request that arrived is answered once, in order, in the framing it came in, with
\* its own id; nothing is answered before it is there; notifications are carried out and not
\* answered; and the server waits for no more than the message it reads (server.go: Run).
RequestsAnswered ==
  LET due == BeforeBad(Arrived)
  IN  /\ IsPrefix(replies, AnswersTo(due)) /\ IsPrefix(ran, CallsOf(due))
      /\ Waiting => replies = AnswersTo(due) /\ ran = CallsOf(due)
=============================================================================

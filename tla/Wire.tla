-------------------------------- MODULE Wire --------------------------------
(***************************************************************************)
(* How the bytes of one connection become requests.  The XDR port speaks   *)
(* two protocols, told apart by the first byte; both read lines from       *)
(* segments that TCP cuts as it likes.  The REST port reads a header and a *)
(* body, one connection after the other.  XdrSessions models the threads   *)
(* and queues around these sessions.                                       *)
(***************************************************************************)
EXTENDS Integers, Sequences, FiniteSets, SequencesExt

CONSTANTS
  XdrStreams, RestStreams, \* what clients send: sequences of bytes (see below)
  Chunk,         \* the most a receive returns
  LineLimit,     \* kMaxClientCommandLen
  HandshakeMax,  \* the limits of the lines before the commands
  LoginMax,
  RequestLimit   \* the most that a REST request's header, and its body, may take

ASSUME WireAssumption ==
  /\ XdrStreams \subseteq Seq(STRING) /\ RestStreams \subseteq Seq(STRING)
  /\ {Chunk, LineLimit, HandshakeMax, LoginMax, RequestLimit} \subseteq Nat \ {0}
  /\ Chunk < LineLimit

VARIABLES
  port,    \* "xdr" or "rest"
  guest,   \* m_guestMode
  stream,  \* what the client means to send
  sent,    \* how much of it has arrived
  closed,  \* the client has closed its end, possibly early
  running, \* m_running
  shut,    \* stop() has shut the connection down
  phase,   \* where the session's thread is
  at,      \* how much it has received
  buffer,  \* command, or request
  fmdx,    \* isFmdxProtocol
  started, \* tunerStarted
  begin,   \* history: where the commands, or the body, begin
  ran,     \* history: the lines executed, or the body applied
  calls,   \* history: the callbacks, each with its argument
  cancel   \* m_scanCancelPending

client == <<port, guest, stream, sent, closed>>
server == <<running, shut>>
session == <<phase, at, buffer, fmdx, started>>
history == <<begin, ran, calls, cancel>>
vars == <<client, server, session, history>>

(* Bytes are strings: "nl", "cr", "nul", letters, "h" for a right hash, "1", "9" and *)
(* "-" for the numbers 1, 999 and -999, "?" for what is no number.  In a REST stream *)
(* the first byte is the method, "status" a request for the status, "len2" a header  *)
(* that declares two bytes, "end" the end of the header.  A parameter is one byte,   *)
(* its key and its value ("Low" for -999): before the end it stands in the query     *)
(* string, after it in the body.                                                     *)
Number == [b \in {"1", "9", "-"} |-> CASE b = "1" -> 1 [] b = "9" -> 999 [] b = "-" -> -999]
Declared == [len0 |-> 0, len1 |-> 1, len2 |-> 2, len9 |-> 9]

Clamp(v, low, high) == IF v < low THEN low ELSE IF v > high THEN high ELSE v
Call(to, value) == [to |-> to, value |-> value]

Find(byte, bytes) == SelectInSeq(bytes, LAMBDA b : b = byte)
Without(byte, bytes) == SelectSeq(bytes, LAMBDA b : b # byte)
UpToNul(bytes) ==
  IF "nul" \in ToSet(bytes) THEN SubSeq(bytes, 1, Find("nul", bytes) - 1) ELSE bytes

(* The positions of a set in their order: the k-th is the one with k up to it.       *)
Nth(positions, k) ==
  CHOOSE i \in positions : Cardinality({j \in positions : j <= i}) = k

-------------------------------------------------------------------------------
(* XDR commands: what a line asks for.  A malformed argument asks nothing. *)

XdrRange ==
  [Y |-> <<0, 100>>, A |-> <<0, 3>>, M |-> <<0, 1>>, D |-> <<0, 2>>, F |-> <<0, 2>>,
   Z |-> <<0, 9>>, Q |-> <<0, 100>>, C |-> <<-1, 1>>, I |-> <<0, 1000>>]

Alignment(v) == Clamp(((Clamp(v, 0, 36) + 3) \div 6) * 6, 0, 36)
Band == 64000..108000

Value(line) == IF Len(line) = 2 /\ line[2] \in DOMAIN Number THEN {Number[line[2]]} ELSE {}

XdrCalls(line) ==
  LET letter == line[1]
      arg == Value(line)
  IN CASE letter = "x" -> <<Call("start", 0)>>
       [] letter = "X" -> <<Call("stop", 0)>>
       [] letter \in DOMAIN XdrRange ->
            SetToSeq({Call(letter, Clamp(v, XdrRange[letter][1], XdrRange[letter][2])) :
                        v \in arg})
       [] letter = "V" -> SetToSeq({Call("V", Alignment(v)) : v \in arg})
       [] letter = "W" -> SetToSeq({Call("W", v) : v \in arg})
       [] letter = "B" -> SetToSeq({Call("B", IF v = 0 THEN 0 ELSE 1) : v \in arg})
       [] letter = "T" -> SetToSeq({Call("T", v) : v \in arg \cap Band})
       [] OTHER -> <<>>

(* FM-DX clients have fewer commands, another volume and no limits of the band. *)
FmdxRange == [A |-> <<0, 2>>, D |-> <<0, 2>>, F |-> <<0, 2>>]

FmdxCalls(line) ==
  LET letter == line[1]
      arg == Value(line)
  IN CASE letter \in DOMAIN FmdxRange ->
            SetToSeq({Call(letter, Clamp(v, FmdxRange[letter][1], FmdxRange[letter][2])) :
                        v \in arg})
       [] letter = "Y" ->
            SetToSeq({Call("Y", Clamp((Clamp(v, -100, 100) + 100) \div 2, 0, 100)) :
                        v \in arg})
       [] letter = "B" -> SetToSeq({Call("B", IF v = 0 THEN 0 ELSE 1) : v \in arg})
       [] letter \in {"T", "W"} -> SetToSeq({Call(letter, v) : v \in arg})
       [] OTHER -> <<>>

(* REST parameters: volume is clamped, deemphasis and blend are refused.   *)
Parameter ==
  [volume9 |-> Call("Y", 999), deemphasis1 |-> Call("D", 1),
   deemphasis9 |-> Call("D", 999), blend1 |-> Call("F", 1), blendLow |-> Call("F", -999),
   force_mono1 |-> Call("B", 1), start |-> Call("start", 0), stop |-> Call("stop", 0)]

Accepted(c) == c.to \in {"D", "F"} => c.value \in 0..2

applyParams(body) ==
  LET known == {i \in 1..Len(body) :
                  body[i] \in DOMAIN Parameter /\ Accepted(Parameter[body[i]])}
  IN [k \in 1..Cardinality(known) |->
        LET c == Parameter[body[Nth(known, k)]]
        IN IF c.to = "Y" THEN Call("Y", Clamp(c.value, 0, 100)) ELSE c]

-------------------------------------------------------------------------------
Init ==
  /\ port \in {"xdr", "rest"} /\ guest \in BOOLEAN
  /\ stream \in IF port = "xdr" THEN XdrStreams ELSE RestStreams
  /\ sent = 0 /\ closed = FALSE /\ running = TRUE /\ shut = FALSE
  /\ phase = IF port = "xdr" THEN "peek" ELSE "header"
  /\ at = 0 /\ buffer = <<>> /\ fmdx = FALSE /\ started = FALSE
  /\ begin = 0 /\ ran = <<>> /\ calls = <<>> /\ cancel = FALSE

(* The client: bytes arrive, and it may close at any time.                 *)
Arrive ==
  /\ sent < Len(stream) /\ ~closed
  /\ \E n \in 1..(Len(stream) - sent) : sent' = sent + n
  /\ UNCHANGED <<port, guest, stream, closed, server, session, history>>

Close ==
  /\ ~closed /\ closed' = TRUE
  /\ UNCHANGED <<port, guest, stream, sent, server, session, history>>

(* Mutant: the XDR server no longer shuts its connections down.            *)
StopOnly ==
  /\ running /\ running' = FALSE /\ UNCHANGED shut
  /\ UNCHANGED <<client, session, history>>

(* XDRServer::stop shuts the connections down, RestServer::stop does not.  *)
Stop ==
  /\ running /\ running' = FALSE /\ shut' = (port = "xdr")
  /\ UNCHANGED <<client, session, history>>

Waiting == at = sent
Gone == shut \/ (closed /\ Waiting)

End == phase' = "ended" /\ UNCHANGED <<at, buffer, fmdx, started>>

-------------------------------------------------------------------------------
(* Before the commands                                                     *)

(* The first byte, waited for 200 ms, decides; a late client speaks XDR.   *)
Peek ==
  /\ phase = "peek"
  /\ \/ ~shut /\ sent > 0 /\ stream[1] = "x"
          /\ phase' = "handshake" /\ fmdx' = TRUE
     \/ (shut \/ sent = 0 \/ stream[1] # "x")
          /\ phase' \in {"login", "ended"} /\ UNCHANGED fmdx
  /\ UNCHANGED <<client, server, at, buffer, started, history>>

(* recvLine: byte by byte, without a timeout, every "cr" dropped.          *)
Arrived == SubSeq(stream, at + 1, sent)
LineBytes == IF "nl" \in ToSet(Arrived) THEN SubSeq(Arrived, 1, Find("nl", Arrived) - 1)
             ELSE Arrived
HasLine(max) == ~shut /\ "nl" \in ToSet(Arrived) /\ Len(Without("cr", LineBytes)) < max
NoLine(max) == shut \/ Len(Without("cr", LineBytes)) >= max
                    \/ (closed /\ "nl" \notin ToSet(Arrived))

TakeLineThen(next) ==
  /\ at' = at + Len(LineBytes) + 1 /\ begin' = at' /\ phase' = next
  /\ UNCHANGED <<buffer, fmdx, started, ran, calls, cancel>>

Handshake ==
  /\ phase = "handshake"
  /\ \/ HasLine(HandshakeMax) /\ Without("cr", LineBytes) = <<"x">> /\ TakeLineThen("fmdx")
     \/ HasLine(HandshakeMax) /\ Without("cr", LineBytes) # <<"x">>
          /\ End /\ UNCHANGED history
     \/ NoLine(HandshakeMax) /\ End /\ UNCHANGED history
  /\ UNCHANGED <<client, server>>

(* The hash, with or without a "P" before it.                              *)
RightHash == Without("cr", LineBytes) \in {<<"h">>, <<"P", "h">>, <<"p", "h">>}

Login ==
  /\ phase = "login"
  /\ \/ HasLine(LoginMax) /\ (RightHash \/ guest) /\ TakeLineThen("xdr")
     \/ HasLine(LoginMax) /\ ~(RightHash \/ guest) /\ End /\ UNCHANGED history
     \/ NoLine(LoginMax) /\ End /\ UNCHANGED history
  /\ UNCHANGED <<client, server>>

-------------------------------------------------------------------------------
(* The command loops                                                       *)

CommandLoop == phase \in {"fmdx", "xdr"}
WholeLine == "nl" \in ToSet(buffer)

(* What every way out of a loop does, but the one for an overlong line.    *)
LeaveLoop ==
  /\ phase' = "ended"
  /\ calls' = IF phase = "fmdx" /\ started THEN Append(calls, Call("stop", 0)) ELSE calls
  /\ cancel' = (cancel \/ phase = "xdr")
  /\ UNCHANGED <<fmdx, started, begin, ran>>

LargeBuffer == 3 * LineLimit
BufferSize == Chunk

commandBufferOverflowed(command) ==
  IF "nl" \in ToSet(command) THEN Find("nl", command) - 1 > LineLimit
  ELSE Len(command) > LineLimit

(* The received bytes are appended as a C string.                          *)
Receive ==
  /\ CommandLoop /\ ~WholeLine /\ running /\ ~shut
  /\ \E n \in 1..BufferSize :
       /\ n <= sent - at /\ at' = at + n
       /\ buffer' = buffer \o UpToNul(SubSeq(stream, at + 1, at + n))
  /\ IF commandBufferOverflowed(buffer') THEN LeaveLoop
     ELSE UNCHANGED <<phase, fmdx, started, history>>
  /\ UNCHANGED <<client, server>>

Disconnected ==
  /\ CommandLoop /\ ~WholeLine /\ (~running \/ Gone)
  /\ LeaveLoop /\ UNCHANGED <<client, server, at, buffer>>

RestDropped(bytes, i) == <<>>
Rest(bytes, i) == SubSeq(bytes, i + 1, Len(bytes))
Trimmed(bytes) == IF bytes # <<>> /\ Last(bytes) = "cr" THEN Front(bytes) ELSE bytes
Line == Trimmed(SubSeq(buffer, 1, Find("nl", buffer) - 1))

XdrExecutes ==
  /\ phase = "xdr"
  /\ calls' = IF Line = <<>> THEN calls ELSE calls \o XdrCalls(Line)
  /\ cancel' = (cancel \/ Line = <<>> \/ (Line # <<>> /\ Line[1] = "X"))
  /\ UNCHANGED <<phase, fmdx, started, begin>>

(* A send to a client that is gone ends an FM-DX session between two lines.*)
FmdxExecutes ==
  /\ phase = "fmdx"
  /\ started' = (Line = <<"x">> \/ (started /\ Line # <<"X">>))
  /\ LET did == calls \o (CASE Line = <<"x">> -> <<Call("start", 0)>>
                            [] Line = <<"X">> -> <<Call("stop", 0)>>
                            [] started /\ Line \notin {<<"x">>, <<"X">>, <<>>} ->
                                 FmdxCalls(Line)
                            [] OTHER -> <<>>)
     IN \/ calls' = did /\ UNCHANGED phase
        \/ /\ closed \/ shut
           /\ Line \notin {<<"x">>, <<"X">>} /\ phase' = "ended"
           /\ calls' = IF started THEN Append(did, Call("stop", 0)) ELSE did
  /\ UNCHANGED <<fmdx, begin, cancel>>

ExecuteLine ==
  /\ CommandLoop /\ WholeLine
  /\ buffer' = Rest(buffer, Find("nl", buffer))
  /\ IF Find("nl", buffer) - 1 > LineLimit
     THEN phase' = "ended" /\ UNCHANGED <<fmdx, started, history>>
     ELSE (XdrExecutes \/ FmdxExecutes) /\ ran' = Append(ran, Line)
  /\ UNCHANGED <<client, server, at>>

-------------------------------------------------------------------------------
(* REST: the header up to its end, then as much of a body as it declares   *)

HasHeader(bytes) == "end" \in ToSet(bytes)
Query(bytes) == SubSeq(bytes, 1, Find("end", bytes) - 1)
Body(bytes) == Rest(bytes, Find("end", bytes))
ContentLength(bytes) ==
  LET lengths == {i \in 1..(Find("end", bytes) - 1) : bytes[i] \in DOMAIN Declared}
  IN IF lengths = {} THEN 0
     ELSE Declared[bytes[CHOOSE i \in lengths : \A j \in lengths : i <= j]]

WantsHeader == phase = "header" /\ ~HasHeader(buffer) /\ Len(buffer) < RequestLimit
WantsBody ==
  /\ phase = "header" /\ HasHeader(buffer) /\ buffer[1] # "options"
  /\ Len(Body(buffer)) < ContentLength(buffer) /\ Len(Body(buffer)) < RequestLimit

ReceiveRequest ==
  /\ WantsHeader \/ WantsBody
  /\ \E n \in 1..Chunk : /\ n <= sent - at /\ at' = at + n
                         /\ buffer' = buffer \o SubSeq(stream, at + 1, at + n)
  /\ UNCHANGED <<client, server, phase, fmdx, started, history>>

(* Without a header's end the answer is 400; OPTIONS and the status change *)
(* nothing; any other request has the parameters of its query string and   *)
(* those of its body applied, the body as far as it was received.          *)
Answer ==
  /\ phase = "header"
  /\ ~(WantsHeader \/ WantsBody) \/ Gone
  /\ IF HasHeader(buffer) /\ buffer[1] \notin {"options", "status"}
     THEN /\ ran' = Body(buffer) /\ calls' = applyParams(Query(buffer) \o Body(buffer))
          /\ begin' = Find("end", buffer)
     ELSE UNCHANGED <<ran, calls, begin>>
  /\ End /\ UNCHANGED <<client, server, cancel>>

-------------------------------------------------------------------------------
ServerStep ==
  \/ Peek \/ Handshake \/ Login \/ Receive \/ Disconnected \/ ExecuteLine
  \/ ReceiveRequest \/ Answer

Next == Arrive \/ Close \/ Stop \/ ServerStep

(* The threads run; clients owe nothing.                                   *)
Spec == Init /\ [][Next]_vars /\ WF_vars(ServerStep)

-------------------------------------------------------------------------------
(* The lines of a text: what stands before each "nl", without a last "cr". *)
Breaks(text) == {i \in 1..Len(text) : text[i] = "nl"}
LineEnd(text, k) == IF k = 0 THEN 0 ELSE Nth(Breaks(text), k)
Lines(text) ==
  [k \in 1..Cardinality(Breaks(text)) |->
     Trimmed(SubSeq(text, LineEnd(text, k - 1) + 1, LineEnd(text, k) - 1))]

Text == SubSeq(stream, begin + 1, at)

(* What the callbacks behind the three front ends handle.                  *)
Handles ==
  [Y |-> 0..100, A |-> 0..3, D |-> 0..2, F |-> 0..2, B |-> 0..1, V |-> 0..36, Z |-> 0..9]

(* However TCP cuts them, the lines of a session run whole and in their    *)
(* order, none twice, and all that were received before it waits again;    *)
(* a REST client that sends the body it declared, and no more than the     *)
(* limit, has that body applied, after the parameters of its query string; *)
(* and nothing is asked of the main loop that it does not handle.          *)
Faithful ==
  /\ port = "xdr" /\ begin > 0 /\ "nul" \notin ToSet(stream) =>
       /\ IsPrefix(ran, Lines(Text))
       /\ CommandLoop /\ ~WholeLine => ran = Lines(Text)
  /\ port = "rest" /\ begin > 0 /\ ~closed
       /\ Len(stream) - begin = ContentLength(stream)
       /\ ContentLength(stream) <= RequestLimit =>
         ran = Rest(stream, begin) /\ calls = applyParams(Query(stream) \o ran)
  /\ \A i \in 1..Len(calls) :
       calls[i].to \in DOMAIN Handles => calls[i].value \in Handles[calls[i].to]

(* An FM-DX session that started the tuner has stopped it when it ends,    *)
(* however it ends, and an XDR session has cancelled the scan.             *)
EndsClean ==
  phase = "ended" /\ begin > 0 /\ port = "xdr" =>
    IF ~fmdx THEN cancel
    ELSE \A i \in 1..Len(calls) :
           calls[i].to = "start" => \E j \in (i + 1)..Len(calls) : calls[j].to = "stop"

(* stop() returns: every XDR session ends, even if its client is silent;   *)
(* the connection of the REST server ends unless it waits for its client.  *)
StopReturns ==
  <>[](running \/ phase = "ended" \/ (port = "rest" /\ Waiting /\ ~closed))
===============================================================================

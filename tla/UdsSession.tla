----------------------------- MODULE UdsSession -----------------------------
(***************************************************************************)
(* One connection of the Unix-socket server as a conversation: what the    *)
(* client sends, how performHandshake and the codecs (internal/uds/        *)
(* server.go and codec.go) cut the byte stream into messages, and what is  *)
(* answered.  When connections start and stop is UdsServer's subject.      *)
(*                                                                         *)
(* The client's stream is a row of messages, the handshake (message 0) and *)
(* then requests 1 .. N.  Each message is three units long: its first      *)
(* byte; the rest of its length prefix (protobuf) or of its text (json);   *)
(* and its body (protobuf) or the newline (json).  The units are numbered  *)
(* from 1, and a position in the stream is the number of units before it.  *)
(*                                                                         *)
(* The client may stall or close anywhere.  Deadlines pass at any time: a  *)
(* handshake has 5 s, reading a request IdleTimeout, an answer 30 s.       *)
(***************************************************************************)
EXTENDS Naturals, Sequences, Functions

CONSTANT N        \* requests the client has to send: bounds the conversation

ASSUME SessionAssumption == N \in Nat

Parts == 3
Messages == 0 .. N
Total == Parts * (N + 1)

\* Position where message k ends, and the message that the unit after position u
\* belongs to.
End(k) == Parts * (k + 1)
MessageAt(u) == u \div Parts

\* A refused handshake has no version or an unknown format.
Kinds == {"good", "refused", "malformed", "oversized"}

VARIABLES
    format,       \* what the client speaks: "json" or "protobuf"
    brace,        \* is the low byte of a protobuf handshake's length 0x7B, a '{'?
    kind,         \* what is in each message
    sent,         \* units the client has written
    hungup,       \* the client has closed
    eager,        \* messages begun before the one before them was answered
    late,         \* a deadline has cut a message or an answer, or has found one waiting
    phase,        \* of handleConn
    codec,        \* the codec performHandshake chose
    read,         \* units the server has taken from the socket
    from,         \* position where the buffer of the scanner in use starts
    current,      \* the request being handled
    answers       \* the messages answered, in order

client == <<format, brace, kind, sent, hungup, eager>>
vars == <<format, brace, kind, sent, hungup, eager, late, phase, codec, read, from, current,
          answers>>

Phases == {"first", "hello", "request", "respond", "ended"}

TypeOK ==
    /\ format \in {"json", "protobuf"} /\ brace \in BOOLEAN
    /\ kind \in [Messages -> Kinds]
    /\ hungup \in BOOLEAN /\ eager \subseteq Messages /\ late \in BOOLEAN
    /\ phase \in Phases /\ codec \in {"json", "protobuf"}
    /\ sent \in 0 .. Total /\ read \in 0 .. sent /\ from \in 0 .. read
    /\ current \in Messages
    /\ answers \in Seq(Messages)

Answered == Range(answers)

-----------------------------------------------------------------------------

Init ==
    /\ format \in {"json", "protobuf"}
    /\ brace \in (IF format = "json" THEN {FALSE} ELSE BOOLEAN)
    /\ kind \in [Messages -> Kinds]
    /\ \A k \in Messages \ {0} : kind[k] # "refused"
    /\ sent = 0 /\ hungup = FALSE /\ eager = {} /\ late = FALSE
    /\ phase = "first" /\ codec = "json" /\ read = 0 /\ from = 0 /\ current = 0
    /\ answers = <<>>

-----------------------------------------------------------------------------
(* The client writes unit after unit, waiting for answers or not, and may  *)
(* close at any time.                                                       *)

Send ==
    /\ sent < Total /\ ~hungup /\ phase # "ended"
    /\ sent' = sent + 1
    /\ LET k == MessageAt(sent) IN
       eager' = IF sent % Parts = 0 /\ k > 0 /\ k - 1 \notin Answered
                THEN eager \cup {k} ELSE eager
    /\ UNCHANGED <<format, brace, kind, hungup, late, phase, codec, read, from, current, answers>>

HangUp ==
    /\ ~hungup
    /\ hungup' = TRUE
    /\ UNCHANGED <<format, brace, kind, sent, eager, late, phase, codec, read, from, current,
                   answers>>

-----------------------------------------------------------------------------
(* The server                                                               *)

\* handleConn returns and closes the connection.
EndSession ==
    /\ phase' = "ended"
    /\ UNCHANGED <<client, codec, current, answers>>

\* The format is guessed from the first byte alone.
Detect == IF format = "json" \/ brace THEN "json" ELSE "protobuf"

\* Mutant of ReadFirst: the first byte is not put back.
ReadFirstLost ==
    /\ phase = "first" /\ read < sent
    /\ read' = read + 1
    /\ from' = read + 1
    /\ codec' = Detect
    /\ phase' = "hello"
    /\ UNCHANGED <<client, late, current, answers>>

\* performHandshake reads the first byte, and puts it back in front of the scanner
\* or of the length prefix: from stays where it was.
ReadFirst ==
    /\ phase = "first" /\ read < sent
    /\ read' = read + 1
    /\ codec' = Detect
    /\ phase' = "hello"
    /\ UNCHANGED <<client, late, from, current, answers>>

\* A write fails: the client is gone, or the deadline passes before it has read enough.
WriteFails == (hungup /\ UNCHANGED late) \/ late' = TRUE

\* Mutant of ReceiveHello: the handshake is not validated.
ReceiveHelloUnvalidated(k) ==
    /\ phase = "hello"
    /\ UNCHANGED <<client, late, codec, current>>
    /\ \/ kind[k] = "malformed" /\ phase' = "ended" /\ UNCHANGED answers
       \/ kind[k] # "malformed" /\ phase' = "request" /\ answers' = Append(answers, k)

\* validateHandshake and WriteHandshake
ReceiveHello(k) ==
    /\ phase = "hello"
    /\ UNCHANGED <<client, codec, current>>
    /\ \/ kind[k] = "malformed" /\ phase' = "ended" /\ UNCHANGED <<answers, late>>
       \/ kind[k] = "refused" /\ phase' = "ended" /\ answers' = Append(answers, k)
                              /\ UNCHANGED late
       \/ kind[k] = "good" /\ phase' = "request" /\ answers' = Append(answers, k)
                           /\ UNCHANGED late
       \/ kind[k] \in {"good", "refused"} /\ WriteFails /\ phase' = "ended" /\ UNCHANGED answers

\* ReadRequest returns the request, or the error of json.Unmarshal.
ReceiveRequest(k) ==
    /\ phase = "request"
    /\ UNCHANGED <<client, codec, answers>>
    /\ \/ kind[k] = "malformed" /\ phase' = "ended" /\ UNCHANGED current
       \/ kind[k] = "good" /\ phase' = "respond" /\ current' = k

Receive(k) == ReceiveHello(k) \/ (ReceiveRequest(k) /\ UNCHANGED late)

-----------------------------------------------------------------------------
(* JSONCodec: a new bufio.Scanner for every message.                        *)

Scanning == phase \in {"hello", "request"} /\ codec = "json"

\* Positions in the scanner's buffer that follow a newline.  The frames of a
\* protobuf client hold none.
LineEnds == {e \in from + 1 .. read : format = "json" /\ e % Parts = 0}

\* The scanner's buffer starts with a message that is longer than it can hold.
TooLong == from % Parts = 0 /\ from < read /\ kind[MessageAt(from)] = "oversized"

\* Scan reads as much as there is, or as its buffer has room for.
Fill ==
    /\ Scanning /\ LineEnds = {} /\ ~TooLong
    /\ read' \in read + 1 .. sent
    /\ UNCHANGED <<client, late, phase, codec, from, current, answers>>

ScanTooLong ==
    /\ Scanning /\ TooLong
    /\ EndSession
    /\ UNCHANGED <<late, read, from>>

\* The first line in the buffer is the token.  The scanner is dropped, and what else
\* its buffer holds is lost.  A line whose beginning was lost does not parse.
ScanLine ==
    /\ Scanning /\ LineEnds # {} /\ ~TooLong
    /\ from' = read
    /\ UNCHANGED read
    /\ \/ from % Parts = 0 /\ Receive(MessageAt(from))
       \/ from % Parts # 0 /\ EndSession /\ UNCHANGED late

-----------------------------------------------------------------------------
(* ProtobufCodec and performHandshake: io.ReadFull of the length prefix,    *)
(* then of exactly as many bytes as it says.                                *)

Framing == phase \in {"hello", "request"} /\ codec = "protobuf"

\* The position that the ReadFull under way reads up to.
Goal == IF read % Parts < 2 THEN End(MessageAt(read)) - 1 ELSE End(MessageAt(read))

ReadPrefix ==
    /\ Framing /\ read % Parts < 2 /\ Goal <= sent
    /\ read' = Goal
    /\ UNCHANGED <<late, from>>
    /\ \/ kind[MessageAt(read)] = "oversized" /\ EndSession
       \/ /\ kind[MessageAt(read)] # "oversized"
          /\ UNCHANGED <<client, phase, codec, current, answers>>

\* Mutant of ReadBody: a buffered reader for each message, as in JSONCodec.
ReadBodyBuffered ==
    /\ Framing /\ read % Parts = 2 /\ Goal <= sent
    /\ read' = sent
    /\ from' = sent
    /\ Receive(MessageAt(read))

ReadBody ==
    /\ Framing /\ read % Parts = 2 /\ Goal <= sent
    /\ read' = Goal
    /\ from' = Goal
    /\ Receive(MessageAt(read))

-----------------------------------------------------------------------------

\* registry.Handle and WriteResponse
Respond ==
    /\ phase = "respond"
    /\ \/ phase' = "request" /\ answers' = Append(answers, current) /\ UNCHANGED late
       \/ WriteFails /\ phase' = "ended" /\ UNCHANGED answers
    /\ UNCHANGED <<client, codec, read, from, current>>

-----------------------------------------------------------------------------
(* Reads that fail                                                          *)

\* The server needs a Read of the socket, and there is nothing it could give.
Reading == phase = "first" \/ (Scanning /\ LineEnds = {} /\ ~TooLong) \/ Framing
Starved == Reading /\ (IF Framing THEN sent < Goal ELSE read = sent)

\* On any error bufio.Scanner hands out the unterminated rest of its buffer as the last
\* line; only a whole text parses.  io.ReadFull hands out nothing.
LastLine == Scanning /\ format = "json" /\ from % Parts = 0 /\ read = from + 2

\* The client has closed and all it sent is read.
ReadEOF ==
    /\ hungup /\ Starved
    /\ UNCHANGED read
    /\ \/ LastLine /\ from' = read /\ Receive(MessageAt(from))
       \/ ~LastLine /\ EndSession /\ UNCHANGED <<late, from>>

\* Mutant of ReadTimeout: only the handshake has a deadline.
ReadTimeoutOnce ==
    /\ Reading /\ phase # "request"
    /\ late' = (late \/ sent % Parts # 0 \/ ~Starved)
    /\ EndSession
    /\ UNCHANGED <<read, from>>

\* The deadline passes: between two messages, in the middle of one, or before the server
\* came to read what is there.  The deadline of a handshake also covers its answer, so
\* that the last line of a buffer does not help it.
ReadTimeout ==
    /\ Reading
    /\ late' = (late \/ sent % Parts # 0 \/ ~Starved)
    /\ UNCHANGED read
    /\ \/ LastLine /\ from' = read /\ ReceiveRequest(MessageAt(from))
       \/ ~(LastLine /\ phase = "request") /\ EndSession /\ UNCHANGED from

Server ==
    \/ ReadFirst \/ Fill \/ ScanTooLong \/ ScanLine \/ ReadPrefix \/ ReadBody
    \/ Respond \/ ReadEOF \/ ReadTimeout

Next == Send \/ HangUp \/ Server

Spec == Init /\ [][Next]_vars

\* The goroutine is scheduled and its deadlines pass.  The client owes nobody anything.
FairSpec == Spec /\ WF_vars(Server)

-----------------------------------------------------------------------------

\* A message is answered at most once and in the order of the stream, the handshake
\* first; nothing is answered after a handshake that validateHandshake refused, and
\* no fragment, malformed or over-long message ever is.
AnswersInOrder ==
    \A i \in DOMAIN answers :
        /\ i = 1 <=> answers[i] = 0
        /\ i > 1 => answers[i] > answers[i - 1]
        /\ kind[answers[i]] = "good" \/ (kind[0] = "refused" /\ Len(answers) = 1)

\* A message is skipped, that is, left without an answer although a later one has
\* one, only when a json client began it before the previous one was answered: the
\* scanner of the previous message swallowed it (codec.go:282).  Frames are never
\* skipped, however eager the client is.
OnlyEagerLinesLost ==
    \A k \in Answered : \A j \in 0 .. k - 1 :
        j \in Answered \/ (format = "json" /\ j \in eager)

\* A well-formed message of a client that waits for the previous answer is answered,
\* unless the client closes or a deadline passes in the middle of a message, before a
\* message was read or before an answer was taken.  The exception is a protobuf handshake
\* whose length looks like a '{' (server.go:246): it is taken for a json line that never
\* ends.
PatientAnswered ==
    \A k \in Messages :
        (/\ sent >= End(k) /\ k \notin eager
         /\ kind[k] = "good" /\ ~brace) ~> (k \in Answered \/ hungup \/ late)

\* No client holds the goroutine for ever, whether it closes, stalls in the middle of a
\* message, falls silent or takes no answers: every read and write has a deadline
\* (server.go:179, 212, 226) or fails.
SessionEnds == <>(phase = "ended")

-----------------------------------------------------------------------------
(* What the repository's documents say and the code does not do.            *)

\* "one line per message" (README.md:483): each line is a message, so answers skip
\* none.
EveryMessageAnswered ==
    \A i \in DOMAIN answers : answers[i] = i - 1
=============================================================================

-------------------------- MODULE UdsSessionProofs ---------------------------
(***************************************************************************)
(* Theorems about UdsSession, for a conversation of any length.            *)
(***************************************************************************)
EXTENDS UdsSession, TLAPS

\* Message k is behind the reader: answered, or a line that was begun too early.
Passed(k) == k \in Answered \/ (format = "json" /\ k \in eager)

\* A message that was begun while the one before it had no answer is eager.
EagerInv ==
    \A k \in Messages \ {0} : Parts * k < sent => k \in eager \/ k - 1 \in Answered

\* Where the handshake stands: nothing is answered, and nothing dropped.
HelloInv ==
    /\ phase \in {"first", "hello"} => from = 0 /\ answers = <<>>
    /\ phase = "first" => read = 0
    /\ phase = "hello" => read > 0

\* Past the handshake, what has been answered begins behind the reader, and what begins
\* behind the reader and is not being handled has been passed.  The newline of an answered
\* line may still be to come.
RequestInv ==
    phase \in {"request", "respond"} =>
      /\ answers # <<>> /\ kind[0] = "good"
      /\ \A k \in Answered : Parts * k < from
      /\ \A k \in Messages : Parts * k < from =>
            Passed(k) \/ (phase = "respond" /\ k = current)

\* The request being handled is later than all that is answered.
CurrentInv ==
    phase = "respond" =>
      /\ kind[current] = "good" /\ Parts * current < from
      /\ \A k \in Answered : k < current

\* A ReadFull starts where a frame does, or after its first byte or its prefix.
FrameInv ==
    codec = "protobuf" =>
      /\ phase \in {"hello", "request"} =>
            from % Parts = 0 /\ read \in from .. from + 2 /\ (phase = "request" => read # from + 1)
      /\ phase = "respond" => read = from /\ from % Parts = 0

IndInv ==
    /\ TypeOK
    /\ EagerInv
    /\ HelloInv
    /\ RequestInv
    /\ CurrentInv
    /\ FrameInv
    /\ AnswersInOrder
    /\ OnlyEagerLinesLost

-----------------------------------------------------------------------------
(* Positions and sequences *)

LEMMA Division ==
  ASSUME NEW u \in Nat
  PROVE  /\ MessageAt(u) \in Nat /\ u % Parts \in 0 .. 2
         /\ u = Parts * MessageAt(u) + (u % Parts)
BY DEF MessageAt, Parts

LEMMA Here == \A u \in Nat : u \in u .. u + 2 /\ u # u + 1
OBVIOUS

LEMMA Appended ==
  ASSUME NEW S, NEW s \in Seq(S), NEW x \in S
  PROVE  /\ Append(s, x) \in Seq(S)
         /\ Append(s, x) # <<>>
         /\ Range(Append(s, x)) = Range(s) \cup {x}
         /\ DOMAIN Append(s, x) = 1 .. Len(s) + 1
         /\ Append(s, x)[Len(s) + 1] = x
         /\ \A i \in 1 .. Len(s) : Append(s, x)[i] = s[i] /\ s[i] \in Range(s)
         /\ DOMAIN s = 1 .. Len(s) /\ Len(s) \in Nat
<1>1. /\ Append(s, x) \in Seq(S) /\ Len(s) \in Nat
      /\ DOMAIN s = 1 .. Len(s) /\ Len(Append(s, x)) = Len(s) + 1
      /\ DOMAIN Append(s, x) = 1 .. Len(s) + 1
      /\ Append(s, x)[Len(s) + 1] = x
      /\ \A i \in 1 .. Len(s) : Append(s, x)[i] = s[i]
  OBVIOUS
<1>2. Append(s, x) # <<>>
  BY <1>1
<1>3. \A i \in 1 .. Len(s) : s[i] \in Range(s)
  BY <1>1 DEF Range
<1>4. Range(Append(s, x)) = Range(s) \cup {x}
  <2>1. ASSUME NEW y \in Range(Append(s, x)) PROVE y \in Range(s) \cup {x}
    <3>1. PICK i \in 1 .. Len(s) + 1 : y = Append(s, x)[i]
      BY <1>1, <2>1 DEF Range
    <3>2. i \in 1 .. Len(s) \/ i = Len(s) + 1
      BY <1>1
    <3> QED
      BY <1>1, <1>3, <3>1, <3>2
  <2>2. ASSUME NEW y \in Range(s) PROVE y \in Range(Append(s, x))
    <3>1. PICK i \in 1 .. Len(s) : y = s[i]
      BY <1>1, <2>2 DEF Range
    <3>2. i \in DOMAIN Append(s, x) /\ y = Append(s, x)[i]
      BY <1>1, <3>1
    <3> QED
      BY <3>2 DEF Range
  <2>3. x \in Range(Append(s, x))
    <3>1. Len(s) + 1 \in DOMAIN Append(s, x)
      BY <1>1
    <3> QED
      BY <1>1, <3>1 DEF Range
  <2> QED
    BY <2>1, <2>2, <2>3
<1> QED
  BY <1>1, <1>2, <1>3, <1>4

\* The answers stay in order when the next one is the handshake's, or follows it and is
\* for a later message.
LEMMA OrderKept ==
  ASSUME TypeOK, AnswersInOrder, kind' = kind, NEW k \in Messages,
         answers' = Append(answers, k),
         \/ answers = <<>> /\ k = 0 /\ kind[0] \in {"good", "refused"}
         \/ /\ answers # <<>> /\ kind[0] = "good" /\ kind[k] = "good"
            /\ \A a \in Answered : a < k
  PROVE  AnswersInOrder'
<1>0. answers \in Seq(Messages) /\ N \in Nat
  BY SessionAssumption DEF TypeOK
<1>1. /\ DOMAIN answers' = 1 .. Len(answers) + 1 /\ DOMAIN answers = 1 .. Len(answers)
      /\ answers'[Len(answers) + 1] = k /\ Len(answers) \in Nat
      /\ \A i \in 1 .. Len(answers) : answers'[i] = answers[i] /\ answers[i] \in Answered
      /\ Len(answers') = Len(answers) + 1
  <2>1. Len(answers') = Len(answers) + 1
    BY <1>0
  <2> QED
    BY <1>0, <2>1, Appended DEF Answered
<1>2. \A a \in Messages : a \in Nat
  BY <1>0 DEF Messages
<1>3. CASE answers = <<>> /\ k = 0 /\ kind[0] \in {"good", "refused"}
  <2>1. Len(answers) = 0
    BY <1>3
  <2> QED
    BY <1>1, <1>3, <2>1 DEF AnswersInOrder
<1>4. CASE /\ answers # <<>> /\ kind[0] = "good" /\ kind[k] = "good"
           /\ \A a \in Answered : a < k
  <2>1. Len(answers) > 0
    BY <1>0, <1>4
  <2>2. answers[1] = 0 /\ k > 0
    BY <1>1, <1>2, <1>4, <2>1 DEF AnswersInOrder
  <2>3. ASSUME NEW i \in 1 .. Len(answers) + 1
        PROVE  /\ i = 1 <=> answers'[i] = 0
               /\ i > 1 => answers'[i] > answers'[i - 1]
               /\ kind[answers'[i]] = "good"
    <3>1. CASE i \in 1 .. Len(answers)
      <4>1. i > 1 => i - 1 \in 1 .. Len(answers)
        BY <1>1, <3>1
      <4>2. answers'[i] = answers[i] /\ (i > 1 => answers'[i - 1] = answers[i - 1])
        BY <1>1, <3>1, <4>1
      <4>3. kind[0] # "refused"
        BY <1>4
      <4> QED
        BY <1>1, <3>1, <4>2, <4>3 DEF AnswersInOrder
    <3>2. CASE i = Len(answers) + 1
      <4>1. i - 1 \in 1 .. Len(answers) /\ i - 1 = Len(answers)
        BY <1>1, <2>1, <3>2
      <4>2. answers'[i] = k /\ answers'[i - 1] < k
        BY <1>1, <1>4, <3>2, <4>1
      <4>3. answers'[i - 1] \in Messages
        BY <1>0, <1>1, <4>1
      <4>7. i # 1
        BY <1>1, <2>1, <3>2
      <4>4. k \in Nat /\ answers'[i - 1] \in Nat
        BY <1>2, <4>3
      <4>5. answers'[i] > answers'[i - 1]
        BY <4>2, <4>4
      <4>6. kind[answers'[i]] = "good" /\ answers'[i] # 0
        BY <1>4, <2>2, <4>2, <4>4
      <4> QED
        BY <4>5, <4>6, <4>7
    <3> QED
      BY <1>1, <3>1, <3>2
  <2> QED
    BY <1>1, <2>3 DEF AnswersInOrder
<1> QED
  BY <1>3, <1>4

-----------------------------------------------------------------------------
(* The inductive invariant *)

LEMMA InitIndInv == Init => IndInv
<1> SUFFICES ASSUME Init PROVE IndInv
  OBVIOUS
<1>0. N \in Nat /\ Total \in Nat /\ 0 \in Messages
  BY SessionAssumption DEF Total, Parts, Messages
<1>1. answers = <<>> /\ Answered = {} /\ DOMAIN answers = {}
  BY DEF Init, Answered, Range
<1>2. TypeOK
  BY <1>0 DEF Init, TypeOK, Phases
<1>3. EagerInv
  <2>1. \A k \in Messages : ~(Parts * k < 0)
    BY <1>0 DEF Messages, Parts
  <2> QED
    BY <2>1 DEF Init, EagerInv
<1>4. HelloInv /\ RequestInv /\ CurrentInv /\ FrameInv
  BY DEF Init, HelloInv, RequestInv, CurrentInv, FrameInv
<1>5. AnswersInOrder /\ OnlyEagerLinesLost
  BY <1>1 DEF AnswersInOrder, OnlyEagerLinesLost
<1> QED
  BY <1>2, <1>3, <1>4, <1>5 DEF IndInv

\* What the type invariant says of positions
LEMMA Positions ==
  ASSUME TypeOK
  PROVE  /\ N \in Nat /\ Total \in Nat /\ sent \in Nat /\ read \in Nat /\ from \in Nat
         /\ from <= read /\ read <= sent /\ sent <= Total
         /\ current \in Nat
         /\ \A k \in Messages : k \in Nat /\ k <= N /\ End(k) \in Nat /\ End(k) = Parts * k + 3
<1>1. N \in Nat /\ Total \in Nat
  BY SessionAssumption DEF Total, Parts
<1>2. \A k \in Messages : k \in Nat /\ k <= N /\ End(k) \in Nat /\ End(k) = Parts * k + 3
  BY <1>1 DEF Messages, End, Parts
<1>3. sent \in Nat /\ sent <= Total
  BY <1>1 DEF TypeOK
<1>4. read \in Nat /\ read <= sent
  BY <1>3 DEF TypeOK
<1> QED
  BY <1>1, <1>2, <1>3, <1>4 DEF TypeOK

\* The session ends and answers nothing more.
LEMMA EndsKeeps ==
  ASSUME IndInv, EndSession, read' \in 0 .. sent, from' \in 0 .. read', late' \in BOOLEAN
  PROVE  IndInv'
<1>0. /\ phase' = "ended" /\ codec' = codec /\ current' = current /\ answers' = answers
      /\ format' = format /\ brace' = brace /\ kind' = kind /\ sent' = sent /\ hungup' = hungup
      /\ eager' = eager /\ Answered' = Answered
  BY DEF EndSession, client, Answered
<1>1. TypeOK'
  BY <1>0 DEF IndInv, TypeOK, Phases
<1>2. EagerInv' /\ AnswersInOrder' /\ OnlyEagerLinesLost'
  BY <1>0 DEF IndInv, EagerInv, AnswersInOrder, OnlyEagerLinesLost
<1>3. HelloInv' /\ RequestInv' /\ CurrentInv' /\ FrameInv'
  BY <1>0 DEF HelloInv, RequestInv, CurrentInv, FrameInv
<1> QED
  BY <1>1, <1>2, <1>3 DEF IndInv

LEMMA SendKeeps ==
  ASSUME IndInv, Send
  PROVE  IndInv'
<1>0. /\ phase' = phase /\ codec' = codec /\ current' = current /\ answers' = answers
      /\ format' = format /\ brace' = brace /\ kind' = kind /\ hungup' = hungup
      /\ read' = read /\ from' = from /\ Answered' = Answered /\ late' = late
      /\ sent' = sent + 1 /\ sent < Total /\ TypeOK
  BY DEF Send, Answered, IndInv
<1>1. /\ N \in Nat /\ Total \in Nat /\ sent \in Nat /\ read \in Nat /\ read <= sent
      /\ \A k \in Messages : k \in Nat
  BY <1>0, Positions
<1> DEFINE m == MessageAt(sent)
<1>2. m \in Nat /\ sent = 3 * m + (sent % 3) /\ sent % 3 \in 0 .. 2
  BY <1>1, Division DEF Parts
<1>3. m \in Messages
  BY <1>0, <1>1, <1>2 DEF Messages, Total, Parts
<1>4. /\ eager \subseteq eager' /\ eager' \subseteq eager \cup {m}
      /\ sent % 3 = 0 /\ m > 0 /\ m - 1 \notin Answered => m \in eager'
  BY DEF Send, Parts
<1> HIDE DEF m
<1>5. TypeOK'
  <2>1. sent' \in 0 .. Total /\ read' \in 0 .. sent'
    BY <1>0, <1>1
  <2>2. eager' \subseteq Messages
    BY <1>0, <1>3, <1>4 DEF TypeOK
  <2> QED
    BY <1>0, <2>1, <2>2 DEF TypeOK
<1>6. EagerInv'
  <2> SUFFICES ASSUME NEW k \in Messages \ {0}, Parts * k < sent'
               PROVE  k \in eager' \/ k - 1 \in Answered'
    BY DEF EagerInv
  <2>1. k \in Nat /\ k > 0
    BY <1>1
  <2>2. CASE Parts * k < sent
    BY <1>0, <1>4, <2>2 DEF IndInv, EagerInv
  <2>3. CASE ~(Parts * k < sent)
    <3>1. 3 * k = sent
      BY <1>0, <1>1, <2>1, <2>3 DEF Parts
    <3>2. k = m /\ sent % 3 = 0
      BY <1>2, <2>1, <3>1
    <3> QED
      BY <1>0, <1>4, <2>1, <3>2
  <2> QED
    BY <2>2, <2>3
<1>7. HelloInv' /\ CurrentInv' /\ FrameInv' /\ AnswersInOrder'
  BY <1>0 DEF IndInv, HelloInv, CurrentInv, FrameInv, AnswersInOrder
<1>8. RequestInv' /\ OnlyEagerLinesLost'
  BY <1>0, <1>4 DEF IndInv, RequestInv, OnlyEagerLinesLost, Passed
<1> QED
  BY <1>5, <1>6, <1>7, <1>8 DEF IndInv

LEMMA HangUpKeeps ==
  ASSUME IndInv, HangUp
  PROVE  IndInv'
<1>0. /\ phase' = phase /\ codec' = codec /\ current' = current /\ answers' = answers
      /\ format' = format /\ brace' = brace /\ kind' = kind /\ hungup' = TRUE
      /\ read' = read /\ from' = from /\ Answered' = Answered /\ sent' = sent /\ eager' = eager
      /\ late' = late
  BY DEF HangUp, Answered
<1>1. TypeOK'
  BY <1>0 DEF IndInv, TypeOK
<1> QED
  BY <1>0, <1>1 DEF IndInv, EagerInv, HelloInv, RequestInv, CurrentInv, FrameInv, AnswersInOrder,
                    OnlyEagerLinesLost, Passed

\* A read that completes no message: the scanner fills its buffer, or a ReadFull goes on
\* to the next part of its frame.
LEMMA ReadKeeps ==
  ASSUME IndInv, phase \in {"hello", "request"}, phase' = phase,
         UNCHANGED <<client, late, codec, from, current, answers>>,
         read' \in read + 1 .. sent,
         codec = "protobuf" => read' = from + 2
  PROVE  IndInv'
<1>0. /\ codec' = codec /\ current' = current /\ answers' = answers
      /\ format' = format /\ brace' = brace /\ kind' = kind /\ sent' = sent /\ hungup' = hungup
      /\ eager' = eager /\ Answered' = Answered /\ from' = from /\ late' = late /\ TypeOK
  BY DEF client, Answered, IndInv
<1>1. sent \in Nat /\ read \in Nat /\ from \in Nat /\ from <= read /\ read <= sent
  BY <1>0, Positions
<1>2. read' \in 0 .. sent /\ from \in 0 .. read' /\ read' > 0
  BY <1>1
<1>3. TypeOK'
  BY <1>0, <1>2 DEF TypeOK
<1>4. HelloInv'
  BY <1>0, <1>2 DEF IndInv, HelloInv
<1>5. FrameInv'
  <2>1. codec = "protobuf" => from % Parts = 0
    BY DEF IndInv, FrameInv
  <2>2. codec = "protobuf" => read' \in from .. from + 2 /\ read' # from + 1
    BY <1>1
  <2> QED
    BY <1>0, <2>1, <2>2 DEF FrameInv
<1>6. EagerInv' /\ AnswersInOrder' /\ OnlyEagerLinesLost'
  BY <1>0 DEF IndInv, EagerInv, AnswersInOrder, OnlyEagerLinesLost
<1>7. RequestInv' /\ CurrentInv'
  BY <1>0 DEF IndInv, RequestInv, CurrentInv, Passed
<1> QED
  BY <1>3, <1>4, <1>5, <1>6, <1>7 DEF IndInv

LEMMA ReadFirstKeeps ==
  ASSUME IndInv, ReadFirst
  PROVE  IndInv'
<1>0. /\ phase = "first" /\ phase' = "hello" /\ current' = current /\ answers' = answers
      /\ format' = format /\ brace' = brace /\ kind' = kind /\ sent' = sent /\ hungup' = hungup
      /\ eager' = eager /\ Answered' = Answered /\ from' = from /\ late' = late /\ TypeOK
      /\ codec' \in {"json", "protobuf"} /\ read' = read + 1 /\ read < sent
  BY DEF ReadFirst, Detect, client, Answered, IndInv
<1>1. /\ sent \in Nat /\ from = 0 /\ read = 0 /\ answers = <<>>
  BY <1>0, Positions DEF IndInv, HelloInv
<1>2. read' \in 0 .. sent /\ from \in 0 .. read' /\ read' = 1
  BY <1>0, <1>1
<1>3. TypeOK'
  BY <1>0, <1>2 DEF TypeOK, Phases
<1>4. HelloInv' /\ RequestInv' /\ CurrentInv'
  BY <1>0, <1>1, <1>2 DEF HelloInv, RequestInv, CurrentInv
<1>5. FrameInv'
  BY <1>0, <1>1, <1>2 DEF FrameInv, Parts
<1>6. EagerInv' /\ AnswersInOrder' /\ OnlyEagerLinesLost'
  BY <1>0 DEF IndInv, EagerInv, AnswersInOrder, OnlyEagerLinesLost
<1> QED
  BY <1>3, <1>4, <1>5, <1>6 DEF IndInv

\* A message is answered for the first time, and the messages before it have been passed.
LEMMA AnswerKeeps ==
  ASSUME IndInv, NEW k \in Messages, UNCHANGED client, answers' = Append(answers, k),
         \/ answers = <<>> /\ k = 0 /\ kind[0] \in {"good", "refused"}
         \/ /\ answers # <<>> /\ kind[0] = "good" /\ kind[k] = "good"
            /\ \A a \in Answered : a < k,
         \A j \in Messages : j < k => Passed(j)
  PROVE  /\ Answered' = Answered \cup {k} /\ answers' \in Seq(Messages) /\ answers' # <<>>
         /\ EagerInv' /\ AnswersInOrder' /\ OnlyEagerLinesLost'
<1>0. /\ format' = format /\ kind' = kind /\ sent' = sent /\ eager' = eager
      /\ TypeOK /\ AnswersInOrder /\ answers \in Seq(Messages)
  BY DEF client, IndInv, TypeOK
<1>1. Answered' = Answered \cup {k} /\ answers' \in Seq(Messages) /\ answers' # <<>>
  BY <1>0, Appended DEF Answered
<1>2. EagerInv'
  BY <1>0, <1>1 DEF IndInv, EagerInv
<1>3. AnswersInOrder'
  BY <1>0, OrderKept
<1>4. OnlyEagerLinesLost'
  <2> SUFFICES ASSUME NEW a \in Answered', NEW j \in 0 .. a - 1
               PROVE  Passed(j)'
    BY DEF OnlyEagerLinesLost, Passed
  <2>1. CASE a \in Answered
    BY <1>0, <1>1, <2>1 DEF IndInv, OnlyEagerLinesLost, Passed
  <2>2. CASE a = k
    <3>1. k \in Nat /\ k <= N /\ N \in Nat
      BY <1>0, Positions
    <3>2. j \in Messages /\ j < k
      BY <2>2, <3>1 DEF Messages
    <3> QED
      BY <1>0, <1>1, <3>2 DEF Passed
  <2> QED
    BY <1>1, <2>1, <2>2
<1> QED
  BY <1>1, <1>2, <1>3, <1>4

\* Message k, which starts where the buffer or the frame does, is complete, but for the
\* newline perhaps.  Nothing after it is dropped with it, unless the client speaks json.
LEMMA ReceiveKeeps ==
  ASSUME IndInv, NEW k \in Messages, from = Parts * k, ReceiveHello(k) \/ ReceiveRequest(k),
         late' \in BOOLEAN, read' \in 0 .. sent, from' \in 0 .. read', from < from',
         format = "json" \/ from' = End(k),
         codec = "protobuf" => read' = from' /\ from' % Parts = 0
  PROVE  IndInv'
<1>0. /\ codec' = codec
      /\ format' = format /\ brace' = brace /\ kind' = kind /\ sent' = sent /\ hungup' = hungup
      /\ eager' = eager /\ TypeOK /\ UNCHANGED client
  BY DEF ReceiveHello, ReceiveRequest, client, IndInv
<1>1. /\ sent \in Nat /\ from \in Nat /\ k \in Nat /\ k <= N /\ End(k) = 3 * k + 3 /\ from = 3 * k
      /\ \A j \in Messages : j \in Nat /\ End(j) = 3 * j + 3
  BY <1>0, Positions DEF Parts
<1>2. read' \in Nat /\ from' \in Nat /\ from' <= sent
  BY <1>1
<1>3. \* What is dropped behind k was begun too early.
      ASSUME NEW j \in Messages, j > k, Parts * j < from', \A a \in Answered : a < k
      PROVE  format = "json" /\ j \in eager
  <2>1. j \in Nat /\ j - 1 \notin Answered /\ 3 * j < from'
    BY <1>1, <1>3 DEF Parts
  <2>2. from' # End(k)
    BY <1>1, <1>3, <2>1
  <2>3. Parts * j < sent /\ j # 0
    BY <1>1, <1>2, <1>3, <2>1 DEF Parts
  <2> QED
    BY <2>1, <2>2, <2>3 DEF IndInv, EagerInv
<1>4. CASE phase = "hello"
  <2>0. from = 0 /\ answers = <<>> /\ k = 0 /\ Answered = {}
    <3>1. from = 0 /\ answers = <<>>
      BY <1>4 DEF IndInv, HelloInv
    <3>2. Answered = {}
      BY <3>1 DEF Answered, Range
    <3> QED
      BY <1>1, <3>1, <3>2
  <2>1. CASE phase' = "ended" /\ answers' = answers
    <3>1. EndSession
      BY <1>4, <2>1 DEF EndSession, ReceiveHello, ReceiveRequest, client
    <3> QED
      BY <3>1, EndsKeeps
  <2>2. CASE /\ kind[k] \in {"good", "refused"} /\ answers' = Append(answers, k)
             /\ current' = current
             /\ phase' = IF kind[k] = "good" THEN "request" ELSE "ended"
    <3>0. \A j \in Messages : ~(j < k)
      BY <1>1, <2>0
    <3>1. /\ Answered' = Answered \cup {k} /\ answers' \in Seq(Messages) /\ answers' # <<>>
          /\ EagerInv' /\ AnswersInOrder' /\ OnlyEagerLinesLost'
      BY <1>0, <2>0, <2>2, <3>0, AnswerKeeps
    <3>2. TypeOK'
      BY <1>0, <2>2, <3>1 DEF TypeOK, Phases
    <3>3. HelloInv' /\ CurrentInv'
      BY <2>2 DEF HelloInv, CurrentInv
    <3>4. FrameInv'
      <4>1. from' \in from' .. from' + 2 /\ from' # from' + 1
        BY <1>2, Here
      <4> QED
        BY <1>0, <2>2, <4>1 DEF FrameInv
    <3>5. CASE kind[k] = "good"
      <4>1. ASSUME NEW j \in Messages, Parts * j < from' PROVE Passed(j)'
        <5>1. CASE j = k
          BY <3>1, <5>1 DEF Passed
        <5>2. CASE j # k
          <6>1. j > k
            BY <1>1, <2>0, <5>2
          <6> QED
            BY <1>0, <1>3, <2>0, <4>1, <6>1 DEF Passed
        <5> QED
          BY <5>1, <5>2
      <4>2. \A a \in Answered' : Parts * a < from'
        BY <2>0, <3>1
      <4> QED
        BY <1>0, <2>0, <3>1, <3>2, <3>3, <3>4, <3>5, <4>1, <4>2 DEF IndInv, RequestInv
    <3>6. CASE kind[k] # "good"
      BY <2>2, <3>1, <3>2, <3>3, <3>4, <3>6 DEF IndInv, RequestInv
    <3> QED
      BY <3>5, <3>6
  <2> QED
    BY <1>4, <2>1, <2>2 DEF ReceiveHello, ReceiveRequest
<1>5. CASE phase = "request"
  <2>0. /\ answers # <<>> /\ kind[0] = "good"
        /\ \A a \in Answered : Parts * a < from
        /\ \A j \in Messages : Parts * j < from => Passed(j)
    BY <1>5 DEF IndInv, RequestInv
  <2>1. \A a \in Answered : a \in Messages /\ a < k
    <3>1. ASSUME NEW a \in Answered PROVE a \in Messages
      <4>1. answers \in Seq(Messages)
        BY <1>0 DEF TypeOK
      <4> QED
        BY <4>1 DEF Answered, Range
    <3>2. ASSUME NEW a \in Answered PROVE a < k
      <4>1. a \in Nat /\ 3 * a < from
        BY <1>1, <2>0, <3>1 DEF Parts
      <4> QED
        BY <1>1, <4>1
    <3> QED
      BY <3>1, <3>2
  <2>2. CASE phase' = "ended" /\ answers' = answers
    <3>1. EndSession
      BY <1>5, <2>2 DEF EndSession, ReceiveHello, ReceiveRequest, client
    <3> QED
      BY <3>1, EndsKeeps
  <2>3. CASE kind[k] = "good" /\ phase' = "respond" /\ current' = k /\ answers' = answers
    <3>0. Answered' = Answered
      BY <2>3 DEF Answered
    <3>1. TypeOK'
      BY <1>0, <2>3 DEF TypeOK, Phases
    <3>2. EagerInv' /\ AnswersInOrder' /\ OnlyEagerLinesLost'
      BY <1>0, <2>3, <3>0 DEF IndInv, EagerInv, AnswersInOrder, OnlyEagerLinesLost
    <3>3. HelloInv' /\ CurrentInv' /\ FrameInv'
      BY <1>0, <2>1, <2>3, <3>0 DEF HelloInv, CurrentInv, FrameInv
    <3>4. ASSUME NEW a \in Answered PROVE Parts * a < from'
      <4>1. a \in Nat /\ 3 * a < from
        BY <1>1, <2>0, <2>1 DEF Parts
      <4> QED
        BY <1>1, <1>2, <4>1 DEF Parts
    <3>5. ASSUME NEW j \in Messages, Parts * j < from' PROVE Passed(j)' \/ j = k
      <4>1. CASE j < k
        <5>1. Parts * j < from
          BY <1>1, <4>1 DEF Parts
        <5> QED
          BY <1>0, <2>0, <3>0, <5>1 DEF Passed
      <4>2. CASE j > k
        BY <1>0, <1>3, <2>1, <3>5, <4>2 DEF Passed
      <4> QED
        BY <1>1, <4>1, <4>2
    <3>6. RequestInv'
      BY <1>0, <2>0, <2>3, <3>0, <3>4, <3>5 DEF RequestInv
    <3> QED
      BY <3>1, <3>2, <3>3, <3>6 DEF IndInv
  <2> QED
    BY <1>5, <2>2, <2>3 DEF ReceiveHello, ReceiveRequest
<1> QED
  BY <1>4, <1>5 DEF ReceiveHello, ReceiveRequest

LEMMA ReceiveLate ==
  ASSUME TypeOK, NEW k \in Messages, Receive(k)
  PROVE  (ReceiveHello(k) \/ ReceiveRequest(k)) /\ late' \in BOOLEAN
BY DEF TypeOK, Receive, ReceiveHello, WriteFails

LEMMA FillKeeps ==
  ASSUME IndInv, Fill
  PROVE  IndInv'
<1>1. /\ phase \in {"hello", "request"} /\ phase' = phase /\ codec # "protobuf"
      /\ UNCHANGED <<client, late, codec, from, current, answers>> /\ read' \in read + 1 .. sent
  BY DEF Fill, Scanning
<1> QED
  BY <1>1, ReadKeeps

LEMMA ScanTooLongKeeps ==
  ASSUME IndInv, ScanTooLong
  PROVE  IndInv'
<1>1. /\ EndSession /\ read' = read /\ from' = from /\ read \in 0 .. sent /\ from \in 0 .. read
      /\ late' \in BOOLEAN
  BY DEF ScanTooLong, IndInv, TypeOK
<1> QED
  BY <1>1, EndsKeeps

LEMMA ScanLineKeeps ==
  ASSUME IndInv, ScanLine
  PROVE  IndInv'
<1>0. TypeOK /\ from' = read /\ read' = read /\ codec # "protobuf"
  BY DEF ScanLine, Scanning, IndInv
<1>1. /\ N \in Nat /\ sent \in Nat /\ read \in Nat /\ from \in Nat
      /\ from <= read /\ read <= sent /\ sent <= 3 * (N + 1)
  BY <1>0, Positions DEF Total, Parts
<1>2. read' \in 0 .. sent /\ from' \in 0 .. read'
  BY <1>0, <1>1
<1>3. PICK e \in from + 1 .. read : format = "json" /\ e % 3 = 0
  BY DEF ScanLine, LineEnds, Parts
<1>4. CASE from % Parts = 0 /\ Receive(MessageAt(from))
  <2> DEFINE k == MessageAt(from)
  <2>1. k \in Nat /\ from = 3 * k + (from % 3) /\ from % 3 = 0
    BY <1>1, <1>4, Division DEF Parts
  <2>2. e \in Nat /\ e > from /\ e <= read
    BY <1>1
  <2>3. PICK j \in Nat : e = 3 * j + (e % 3)
    BY <2>2, Division DEF Parts
  <2> HIDE DEF k
  <2>4. from = 3 * k /\ e = 3 * j
    BY <1>3, <2>1, <2>2, <2>3
  <2>5. e >= 3 * k + 3
    BY <2>1, <2>2, <2>3, <2>4
  <2>6. k \in Messages
    BY <1>1, <2>1, <2>2, <2>5 DEF Messages
  <2>7. from < from' /\ from = Parts * k
    BY <1>0, <1>1, <2>1, <2>2, <2>4, <2>5 DEF Parts
  <2>8. Receive(k)
    BY <1>4 DEF k
  <2>9. (ReceiveHello(k) \/ ReceiveRequest(k)) /\ late' \in BOOLEAN
    BY <1>0, <2>6, <2>8, ReceiveLate
  <2> QED
    BY <1>0, <1>2, <1>3, <2>6, <2>7, <2>9, ReceiveKeeps
<1>5. CASE EndSession /\ UNCHANGED late
  <2>1. late' \in BOOLEAN
    BY <1>0, <1>5 DEF TypeOK
  <2> QED
    BY <1>2, <1>5, <2>1, EndsKeeps
<1> QED
  BY <1>4, <1>5 DEF ScanLine

\* Where the frame being read lies
LEMMA FrameFacts ==
  ASSUME IndInv, Framing, Goal <= sent
  PROVE  /\ from = Parts * MessageAt(read) /\ from + 2 <= sent /\ MessageAt(read) \in Messages
         /\ read % Parts < 2 => Goal = from + 2 /\ read \in {from, from + 1}
         /\ read % Parts = 2 => Goal = from + 3
<1>0. /\ TypeOK /\ from % 3 = 0 /\ read \in from .. from + 2
  BY DEF IndInv, FrameInv, Framing, Parts
<1>1. /\ N \in Nat /\ sent \in Nat /\ read \in Nat /\ from \in Nat
      /\ from <= read /\ read <= sent /\ sent <= 3 * (N + 1)
  BY <1>0, Positions DEF Total, Parts
<1> DEFINE k == MessageAt(read)
           m == MessageAt(from)
<1>2. k \in Nat /\ read = 3 * k + (read % 3) /\ read % 3 \in 0 .. 2
  BY <1>1, Division DEF Parts
<1>3. m \in Nat /\ from = 3 * m
  <2>1. m \in Nat /\ from = 3 * m + (from % 3)
    BY <1>1, Division DEF Parts
  <2> HIDE DEF m
  <2> QED
    BY <1>0, <2>1
<1>4. Goal = IF read % 3 < 2 THEN 3 * k + 2 ELSE 3 * k + 3
  BY <1>2 DEF Goal, End, Parts
<1> HIDE DEF k, m
<1>5. k = m
  BY <1>0, <1>1, <1>2, <1>3
<1>6. from = 3 * k /\ from + 2 <= sent
  BY <1>1, <1>2, <1>3, <1>4, <1>5
<1>7. k \in Messages
  BY <1>1, <1>2, <1>6 DEF Messages
<1>8. read % 3 < 2 => Goal = from + 2 /\ read \in {from, from + 1}
  BY <1>1, <1>2, <1>4, <1>6
<1>9. read % 3 = 2 => Goal = from + 3
  BY <1>1, <1>2, <1>4, <1>6
<1> QED
  BY <1>6, <1>7, <1>8, <1>9 DEF Parts, k

LEMMA ReadPrefixKeeps ==
  ASSUME IndInv, ReadPrefix
  PROVE  IndInv'
<1>0. /\ TypeOK /\ phase \in {"hello", "request"} /\ codec = "protobuf" /\ Goal <= sent
      /\ read % Parts < 2 /\ read' = Goal /\ from' = from /\ Framing
      /\ late' = late /\ late' \in BOOLEAN
  BY DEF ReadPrefix, Framing, IndInv, TypeOK
<1>1. sent \in Nat /\ read \in Nat /\ from \in Nat
  BY <1>0, Positions
<1>2. read' = from + 2 /\ from + 2 <= sent /\ read \in {from, from + 1}
  BY <1>0, FrameFacts
<1>3. read' \in 0 .. sent /\ from' \in 0 .. read' /\ read' \in read + 1 .. sent
  BY <1>0, <1>1, <1>2
<1>4. CASE EndSession
  BY <1>0, <1>3, <1>4, EndsKeeps
<1>5. CASE UNCHANGED <<client, phase, codec, current, answers>>
  BY <1>0, <1>2, <1>3, <1>5, ReadKeeps
<1> QED
  BY <1>4, <1>5 DEF ReadPrefix

LEMMA ReadBodyKeeps ==
  ASSUME IndInv, ReadBody
  PROVE  IndInv'
<1>0. /\ TypeOK /\ codec = "protobuf" /\ Goal <= sent /\ Framing
      /\ read % Parts = 2 /\ read' = Goal /\ from' = Goal /\ Receive(MessageAt(read))
  BY DEF ReadBody, Framing, IndInv
<1>1. sent \in Nat /\ read \in Nat /\ from \in Nat
  BY <1>0, Positions
<1>2. /\ from = Parts * MessageAt(read) /\ MessageAt(read) \in Messages
      /\ Goal = from + 3 /\ from % Parts = 0
  BY <1>0, FrameFacts DEF IndInv, FrameInv, Framing
<1> DEFINE k == MessageAt(read)
<1> HIDE DEF k
<1>3. k \in Messages /\ from = Parts * k /\ Receive(k)
  BY <1>0, <1>2 DEF k
<1>4. k \in Nat /\ End(k) = 3 * k + 3 /\ from = 3 * k
  BY <1>0, <1>3, Positions DEF Parts
<1>5. from' = End(k) /\ read' = from' /\ End(k) <= sent
  BY <1>0, <1>1, <1>2, <1>4
<1>6. read' \in 0 .. sent /\ from' \in 0 .. read' /\ from < from'
  BY <1>1, <1>4, <1>5
<1>7. from' % Parts = 0
  BY <1>4, <1>5 DEF Parts
<1>8. (ReceiveHello(k) \/ ReceiveRequest(k)) /\ late' \in BOOLEAN
  BY <1>0, <1>3, ReceiveLate
<1> QED
  BY <1>3, <1>5, <1>6, <1>7, <1>8, ReceiveKeeps

LEMMA RespondKeeps ==
  ASSUME IndInv, Respond
  PROVE  IndInv'
<1>0. /\ TypeOK /\ phase = "respond" /\ UNCHANGED client
      /\ codec' = codec /\ current' = current /\ read' = read /\ from' = from
      /\ format' = format /\ brace' = brace /\ kind' = kind /\ sent' = sent /\ hungup' = hungup
      /\ eager' = eager /\ late' \in BOOLEAN
  BY DEF Respond, WriteFails, client, IndInv, TypeOK
<1>1. CASE phase' = "ended" /\ answers' = answers
  <2>1. EndSession /\ read' \in 0 .. sent /\ from' \in 0 .. read'
    BY <1>0, <1>1 DEF EndSession, TypeOK
  <2> QED
    BY <1>0, <2>1, EndsKeeps
<1>2. CASE phase' = "request" /\ answers' = Append(answers, current)
  <2>0. /\ current \in Messages /\ kind[current] = "good" /\ Parts * current < from
        /\ \A a \in Answered : a < current
        /\ answers # <<>> /\ kind[0] = "good"
        /\ \A a \in Answered : Parts * a < from
        /\ \A j \in Messages : Parts * j < from => Passed(j) \/ j = current
    BY <1>0 DEF IndInv, TypeOK, CurrentInv, RequestInv
  <2>1. ASSUME NEW j \in Messages, j < current PROVE Passed(j)
    <3>1. j \in Nat /\ current \in Nat /\ from \in Nat
      BY <1>0, Positions
    <3>2. Parts * j < from /\ j # current
      BY <2>0, <2>1, <3>1 DEF Parts
    <3> QED
      BY <2>0, <3>2
  <2>2. /\ Answered' = Answered \cup {current} /\ answers' \in Seq(Messages) /\ answers' # <<>>
        /\ EagerInv' /\ AnswersInOrder' /\ OnlyEagerLinesLost'
    BY <1>0, <1>2, <2>0, <2>1, AnswerKeeps
  <2>3. TypeOK'
    BY <1>0, <1>2, <2>2 DEF TypeOK, Phases
  <2>4. HelloInv' /\ CurrentInv'
    BY <1>2 DEF HelloInv, CurrentInv
  <2>5. FrameInv'
    <3>1. from \in from .. from + 2 /\ from # from + 1
      BY <1>0, Positions, Here
    <3>2. codec = "protobuf" => read = from /\ from % Parts = 0
      BY <1>0 DEF IndInv, FrameInv
    <3> QED
      BY <1>0, <1>2, <3>1, <3>2 DEF FrameInv
  <2>6. RequestInv'
    <3>1. \A a \in Answered' : Parts * a < from
      BY <2>0, <2>2
    <3>2. \A j \in Messages : Parts * j < from => Passed(j)'
      BY <1>0, <2>0, <2>2 DEF Passed
    <3> QED
      BY <1>0, <1>2, <2>0, <2>2, <3>1, <3>2 DEF RequestInv
  <2> QED
    BY <2>2, <2>3, <2>4, <2>5, <2>6 DEF IndInv
<1> QED
  BY <1>1, <1>2 DEF Respond

\* The last line of a buffer, without its newline, is a message.
LEMMA LastLineKeeps ==
  ASSUME IndInv, LastLine, read' = read, from' = read, late' \in BOOLEAN,
         ReceiveHello(MessageAt(from)) \/ ReceiveRequest(MessageAt(from))
  PROVE  IndInv'
<1>0. TypeOK /\ format = "json" /\ from % 3 = 0 /\ read = from + 2 /\ codec # "protobuf"
  BY DEF IndInv, LastLine, Scanning, Parts
<1>1. /\ N \in Nat /\ sent \in Nat /\ read \in Nat /\ from \in Nat
      /\ read <= sent /\ sent <= 3 * (N + 1)
  BY <1>0, Positions DEF Total, Parts
<1> DEFINE k == MessageAt(from)
<1>2. k \in Nat /\ from = 3 * k + (from % 3)
  BY <1>1, Division DEF Parts
<1>3. ReceiveHello(k) \/ ReceiveRequest(k)
  OBVIOUS
<1> HIDE DEF k
<1>4. from = 3 * k
  BY <1>0, <1>2
<1>5. k \in Messages /\ from = Parts * k
  BY <1>0, <1>1, <1>2, <1>4 DEF Messages, Parts
<1>6. read' \in 0 .. sent /\ from' \in 0 .. read' /\ from < from'
  BY <1>0, <1>1
<1> QED
  BY <1>0, <1>3, <1>5, <1>6, ReceiveKeeps

LEMMA ReadEOFKeeps ==
  ASSUME IndInv, ReadEOF
  PROVE  IndInv'
<1>0. read' = read /\ TypeOK /\ read \in 0 .. sent /\ from \in 0 .. read
  BY DEF ReadEOF, IndInv, TypeOK
<1>1. CASE LastLine /\ from' = read /\ Receive(MessageAt(from))
  <2>1. late' \in BOOLEAN
    BY <1>0, <1>1 DEF TypeOK, Receive, ReceiveHello, WriteFails
  <2>2. ReceiveHello(MessageAt(from)) \/ ReceiveRequest(MessageAt(from))
    BY <1>1 DEF Receive
  <2> QED
    BY <1>0, <1>1, <2>1, <2>2, LastLineKeeps
<1>2. CASE EndSession /\ UNCHANGED <<late, from>>
  <2>1. late' \in BOOLEAN
    BY <1>0, <1>2 DEF TypeOK
  <2> QED
    BY <1>0, <1>2, <2>1, EndsKeeps
<1> QED
  BY <1>1, <1>2 DEF ReadEOF

LEMMA ReadTimeoutKeeps ==
  ASSUME IndInv, ReadTimeout
  PROVE  IndInv'
<1>0. read' = read /\ read \in 0 .. sent /\ from \in 0 .. read /\ late' \in BOOLEAN
  BY DEF ReadTimeout, IndInv, TypeOK
<1>1. CASE LastLine /\ from' = read /\ ReceiveRequest(MessageAt(from))
  BY <1>0, <1>1, LastLineKeeps
<1>2. CASE EndSession /\ UNCHANGED from
  BY <1>0, <1>2, EndsKeeps
<1> QED
  BY <1>1, <1>2 DEF ReadTimeout

LEMMA NextKeeps == IndInv /\ [Next]_vars => IndInv'
<1> SUFFICES ASSUME IndInv, [Next]_vars PROVE IndInv'
  OBVIOUS
<1>1. CASE UNCHANGED vars
  BY <1>1 DEF vars, IndInv, TypeOK, EagerInv, HelloInv, RequestInv, CurrentInv, FrameInv,
              AnswersInOrder, OnlyEagerLinesLost, Passed, Answered
<1> QED
  BY <1>1, SendKeeps, HangUpKeeps, ReadFirstKeeps, FillKeeps, ScanTooLongKeeps, ScanLineKeeps,
     ReadPrefixKeeps, ReadBodyKeeps, RespondKeeps, ReadEOFKeeps, ReadTimeoutKeeps DEF Next, Server

LEMMA Invariance == Spec => []IndInv
BY InitIndInv, NextKeeps, PTL DEF Spec

-----------------------------------------------------------------------------

\* The variables of a connection keep their types: the codecs (codec.go:256-347) never
\* read past what the client has sent, and only messages of the stream are answered.
THEOREM TypeCorrect == Spec => []TypeOK
<1>1. IndInv => TypeOK
  BY DEF IndInv
<1> QED
  BY <1>1, Invariance, PTL

\* In a conversation of any length the handshake is answered first, every message at most
\* once and in the order of the stream, and only well-formed ones
\* (handleConn, server.go:174-233).
THEOREM InOrder == Spec => []AnswersInOrder
<1>1. IndInv => AnswersInOrder
  BY DEF IndInv
<1> QED
  BY <1>1, Invariance, PTL

\* In a conversation of any length a message that is skipped is a json line which the
\* client began before the previous answer (codec.go:282); no frame is ever skipped.
THEOREM LostLines == Spec => []OnlyEagerLinesLost
<1>1. IndInv => OnlyEagerLinesLost
  BY DEF IndInv
<1> QED
  BY <1>1, Invariance, PTL
=============================================================================

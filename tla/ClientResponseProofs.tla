------------------------- MODULE ClientResponseProofs -------------------------
(***************************************************************************)
(* For every body, limit and cut into chunks: the types of a call of the   *)
(* HTTP client, that its caller gets the bytes of the body once and in     *)
(* order, and that what it returns is what the response is.                *)
(*                                                                         *)
(* BytesOnceInOrder speaks of what the caller has got.  It holds because   *)
(* of what is still to come: the chunks kept for replay follow what the    *)
(* caller got without a gap, and reach to what was read from the wire.     *)
(* ReplyFits speaks of the whole body, which the call may never have seen: *)
(* it holds because of what was Inspected of the body when it was Decided. *)
(***************************************************************************)
EXTENDS ClientResponse, SequenceTheorems, TLAPS

Sniffing   == {"sniff", "blank", "candidate"}
Forwarding ==
  \/ pc \in Sniffing
  \/ pc = "returned" /\ result \in {"archive", "unrecognized"}

ResponseOK ==
  /\ call \in {"structured", "zip", "notZip"} /\ limit \in Limits
  /\ body \in Bodies /\ meaning \in Meanings
  /\ safe \in BOOLEAN /\ success \in BOOLEAN

ProgressOK ==
  /\ pc \in {"send", "buffer", "sniff", "blank", "candidate", "returned"}
  /\ raw \in {"live", "error", "spent"}
  /\ received \in 0 .. Len(body)
  /\ failure \in Failures \cup {"none"}
  /\ pc = "buffer" => call = "structured"
  /\ pc \in Sniffing => call # "structured"

ReadingOK ==
  /\ prefix \in Seq(1 .. MaxBody)
  /\ call = "structured" => Len(prefix) <= limit
  /\ replay \in Seq((1 .. MaxBody) \X (1 .. MaxBody))

ReplyOK ==
  /\ result \in Results \cup {"none"} /\ evidence \in Meanings \cup {"none"}
  /\ metadata \in BOOLEAN

StreamOK == out \in Seq(1 .. MaxBody) /\ last \in Failures \cup {"none", "end"}

(* What the caller has got. *)
Given ==
  /\ \A i \in 1 .. Len(out) : out[i] = i
  /\ pc # "returned" => last = "none"
  /\ pc = "send" => out = <<>> /\ replay = <<>> /\ received = 0 /\ raw = "live" /\ failure = "none"
  /\ last # "none" => Len(out) = received
  /\ last = "end" => failure = "none" /\ received = Len(body)
  /\ last \in Failures => last = failure

(* The chunks from first to end, without a gap. *)
Contiguous(chunks, first, end) ==
  /\ chunks = <<>> => first = end + 1
  /\ \A i \in 1 .. Len(chunks) :
       /\ chunks[i][1] <= chunks[i][2] /\ chunks[i][2] <= end
       /\ i = 1 => chunks[i][1] = first
       /\ i < Len(chunks) => chunks[i + 1][1] = chunks[i][2] + 1
       /\ i = Len(chunks) => chunks[i][2] = end

ToCome == Forwarding => Contiguous(replay, Len(out) + 1, received)

Wire ==
  Forwarding /\ last = "none" =>
    /\ raw = "live" => failure = "none"
    /\ raw = "error" => failure \in Failures
    /\ raw = "spent" => failure = "none" /\ received = Len(body)

Types == ResponseOK /\ ProgressOK /\ ReadingOK /\ ReplyOK /\ StreamOK
IInv  == Types /\ Given /\ ToCome /\ Wire

-----------------------------------------------------------------------------
LEMMA BodyLength == ASSUME body \in Bodies PROVE Len(body) \in 0 .. MaxBody
<1>1. PICK n \in 0 .. MaxBody : body \in [1 .. n -> {"sig", "blank", "lt", "text"}]
  BY DEF Bodies
<1>2. n \in Nat /\ Len(body) = n
  BY <1>1, ClientAssumption
<1> QED
  BY <1>1, <1>2

LEMMA ComingIs ==
  ASSUME received \in Nat, NEW k \in Nat, received + k <= MaxBody
  PROVE  /\ Coming(k) \in Seq(1 .. MaxBody)
         /\ Len(Coming(k)) = k
         /\ \A i \in 1 .. k : Coming(k)[i] = received + i
<1>1. \A i \in 1 .. k : received + i \in 1 .. MaxBody
  BY ClientAssumption
<1>2. Coming(k) \in [1 .. k -> 1 .. MaxBody]
  BY <1>1 DEF Coming
<1> QED
  BY <1>2 DEF Coming

LEMMA Longer ==
  ASSUME NEW S, NEW s \in Seq(S), NEW t \in Seq(S)
  PROVE  /\ s \o t \in Seq(S) /\ Len(s \o t) = Len(s) + Len(t)
         /\ \A i \in 1 .. Len(s \o t) :
              (s \o t)[i] = IF i <= Len(s) THEN s[i] ELSE t[i - Len(s)]
  BY ConcatProperties

(* A chunk of n bytes was read and kept for the caller. *)
LEMMA RetainedFollows ==
  ASSUME Types, Given, ToCome, Forwarding, NEW n \in Nat \ {0}, received + n <= Len(body),
         received' = received + n, Retained(n), UNCHANGED out
  PROVE  /\ replay' \in Seq((1 .. MaxBody) \X (1 .. MaxBody))
         /\ Contiguous(replay', Len(out') + 1, received')
<1>1. Len(body) \in 0 .. MaxBody /\ received \in Nat /\ Len(out) \in Nat /\ MaxBody \in Nat
  BY BodyLength, ClientAssumption DEF Types, ResponseOK, ProgressOK, StreamOK
<1> DEFINE next == <<received + 1, received + n>>
           S == (1 .. MaxBody) \X (1 .. MaxBody)
<1>2. next \in S /\ replay \in Seq(S) /\ replay' = Append(replay, next)
  BY <1>1 DEF Retained, Types, ReadingOK
<1>3. /\ replay' \in Seq(S) /\ Len(replay') = Len(replay) + 1 /\ Len(replay) \in Nat
      /\ replay'[Len(replay) + 1] = next
      /\ \A i \in 1 .. Len(replay) : replay'[i] = replay[i]
  BY <1>2, AppendProperties, LenProperties
<1>4. Contiguous(replay, Len(out) + 1, received)
  BY DEF ToCome
<1>5. Contiguous(replay', Len(out) + 1, received + n)
  <2>1. replay' # <<>>
    BY <1>3
  <2>2. CASE Len(replay) = 0
    <3>1. replay = <<>> /\ Len(out) + 1 = received + 1
      BY <1>2, <1>4, <2>2, EmptySeq DEF Contiguous
    <3> QED
      BY <1>1, <1>3, <2>1, <2>2, <3>1 DEF Contiguous
  <2>3. CASE Len(replay) # 0
    <3>1. /\ replay[1][1] = Len(out) + 1
          /\ replay[Len(replay)][2] = received
      BY <1>3, <1>4, <2>3 DEF Contiguous
    <3>2. \A i \in 1 .. Len(replay) :
            /\ replay'[i][1] <= replay'[i][2] /\ replay'[i][2] <= received + n
            /\ i = 1 => replay'[i][1] = Len(out) + 1
      <4> SUFFICES ASSUME NEW i \in 1 .. Len(replay)
                   PROVE  /\ replay[i][1] <= replay[i][2] /\ replay[i][2] <= received + n
                          /\ i = 1 => replay[i][1] = Len(out) + 1
        BY <1>3
      <4>1. replay[i] \in S
        BY <1>2, <1>3, ElementOfSeq
      <4> QED
        BY <1>1, <1>4, <4>1 DEF Contiguous
    <3>3. \A i \in 1 .. Len(replay) : replay'[i + 1][1] = replay'[i][2] + 1
      <4> SUFFICES ASSUME NEW i \in 1 .. Len(replay)
                   PROVE  replay'[i + 1][1] = replay[i][2] + 1
        BY <1>3
      <4>1. CASE i = Len(replay)
        BY <1>3, <3>1, <4>1
      <4>2. CASE i < Len(replay)
        <5>1. i + 1 \in 1 .. Len(replay)
          BY <1>3, <4>2
        <5> QED
          BY <1>3, <1>4, <4>2, <5>1 DEF Contiguous
      <4> QED
        BY <1>3, <4>1, <4>2
    <3>4. next[1] = received + 1 /\ next[2] = received + n
      OBVIOUS
    <3>5. ASSUME NEW i \in 1 .. Len(replay) + 1
          PROVE  /\ replay'[i][1] <= replay'[i][2] /\ replay'[i][2] <= received + n
                 /\ i = 1 => replay'[i][1] = Len(out) + 1
                 /\ i < Len(replay) + 1 => replay'[i + 1][1] = replay'[i][2] + 1
                 /\ i = Len(replay) + 1 => replay'[i][2] = received + n
      <4>1. CASE i \in 1 .. Len(replay)
        <5>1. i # Len(replay) + 1
          BY <1>3, <4>1
        <5> QED
          BY <3>2, <3>3, <4>1, <5>1
      <4>2. CASE i = Len(replay) + 1
        <5>1. i # 1
          BY <1>3, <2>3, <4>2
        <5> QED
          BY <1>1, <1>3, <3>4, <4>2, <5>1
      <4> QED
        BY <1>3, <4>1, <4>2
    <3> QED
      BY <1>3, <2>1, <3>5 DEF Contiguous
  <2> QED
    BY <1>3, <2>2, <2>3
<1> QED
  BY <1>3, <1>5


(* The caller gets the first of the chunks kept. *)
LEMMA ReplayedFollows ==
  ASSUME Types, Given, ToCome, Replay
  PROVE  /\ replay' \in Seq((1 .. MaxBody) \X (1 .. MaxBody))
         /\ out' \in Seq(1 .. MaxBody)
         /\ \A i \in 1 .. Len(out') : out'[i] = i
         /\ Contiguous(replay', Len(out') + 1, received)
<1>1. Len(body) \in 0 .. MaxBody /\ received \in Nat /\ Len(out) \in Nat /\ MaxBody \in Nat
  BY BodyLength, ClientAssumption DEF Types, ResponseOK, ProgressOK, StreamOK
<1> DEFINE S == (1 .. MaxBody) \X (1 .. MaxBody)
           first == Head(replay)[1]
           end   == Head(replay)[2]
           given == [i \in 1 .. end - first + 1 |-> first + i - 1]
<1>2. replay \in Seq(S) /\ replay # <<>> /\ replay' = Tail(replay) /\ out' = out \o given
  BY DEF Types, ReadingOK, Replay
<1>3. /\ Len(replay) \in Nat \ {0} /\ Head(replay) = replay[1]
      /\ replay' \in Seq(S) /\ Len(replay') = Len(replay) - 1
      /\ \A i \in 1 .. Len(replay) - 1 : replay'[i] = replay[i + 1]
  BY <1>2, HeadTailProperties, EmptySeq, LenProperties
<1>4. Contiguous(replay, Len(out) + 1, received)
  BY DEF ToCome, Replay, Streaming, Forwarding
<1>5. replay[1] \in S
  BY <1>2, <1>3, ElementOfSeq
<1>6. /\ first \in 1 .. MaxBody /\ end \in 1 .. MaxBody
      /\ first = Len(out) + 1 /\ first <= end /\ end <= received
      /\ Len(replay) = 1 => end = received
      /\ Len(replay) # 1 => replay[2][1] = end + 1
  <2>1. 1 \in 1 .. Len(replay) /\ (1 < Len(replay) <=> Len(replay) # 1)
    <3> DEFINE n == Len(replay)
    <3>1. n \in Nat \ {0}
      BY <1>3
    <3> HIDE DEF n
    <3>2. 1 \in 1 .. n /\ (1 < n <=> n # 1)
      BY <3>1
    <3> QED
      BY <3>2 DEF n
  <2>2. first = replay[1][1] /\ end = replay[1][2]
    BY <1>3
  <2>3. first \in 1 .. MaxBody /\ end \in 1 .. MaxBody
    BY <1>5, <2>2
  <2>4. /\ replay[1][1] <= replay[1][2] /\ replay[1][2] <= received
        /\ replay[1][1] = Len(out) + 1
        /\ 1 < Len(replay) => replay[1 + 1][1] = replay[1][2] + 1
        /\ 1 = Len(replay) => replay[1][2] = received
    BY <1>4, <2>1 DEF Contiguous
  <2> HIDE DEF first, end
  <2> QED
    BY <2>1, <2>2, <2>3, <2>4
<1> HIDE DEF first, end
<1>7. given \in Seq(1 .. MaxBody) /\ Len(given) = end - first + 1
  <2>1. end - first + 1 \in Nat /\ first \in Nat
    BY <1>1, <1>6
  <2>2. \A i \in 1 .. end - first + 1 : first + i - 1 \in 1 .. MaxBody
    BY <1>1, <1>6
  <2> HIDE DEF given
  <2>3. /\ [i \in 1 .. end - first + 1 |-> first + i - 1] \in Seq(1 .. MaxBody)
        /\ Len([i \in 1 .. end - first + 1 |-> first + i - 1]) = end - first + 1
    <3> DEFINE n == end - first + 1
    <3>1. n \in Nat /\ \A i \in 1 .. n : first + i - 1 \in 1 .. MaxBody
      BY <2>1, <2>2
    <3> HIDE DEF n
    <3>2. /\ [i \in 1 .. n |-> first + i - 1] \in Seq(1 .. MaxBody)
          /\ Len([i \in 1 .. n |-> first + i - 1]) = n
      <4>1. [i \in 1 .. n |-> first + i - 1] \in [1 .. n -> 1 .. MaxBody]
        BY <3>1
      <4> QED
        BY <3>1, <4>1
    <3> QED
      BY <3>2 DEF n
  <2> QED
    BY <2>3 DEF given
<1>8. \A i \in 1 .. Len(given) : given[i] = Len(out) + i
  BY <1>1, <1>6, <1>7
<1> HIDE DEF given
<1>9. out \in Seq(1 .. MaxBody) /\ \A i \in 1 .. Len(out) : out[i] = i
  BY DEF Types, StreamOK, Given
<1>10. out' \in Seq(1 .. MaxBody) /\ Len(out') = end
  <2>1. out' \in Seq(1 .. MaxBody) /\ Len(out') = Len(out) + Len(given)
    BY <1>2, <1>7, <1>9, Longer
  <2> QED
    BY <1>1, <1>6, <1>7, <2>1
<1>11. \A i \in 1 .. Len(out') : out'[i] = i
  <2> SUFFICES ASSUME NEW i \in 1 .. Len(out') PROVE out'[i] = i
    OBVIOUS
  <2>1. out'[i] = IF i <= Len(out) THEN out[i] ELSE given[i - Len(out)]
    BY <1>2, <1>7, <1>9, Longer
  <2>2. CASE i <= Len(out)
    BY <1>1, <1>9, <2>1, <2>2
  <2>3. CASE i > Len(out)
    <3>1. i - Len(out) \in 1 .. Len(given)
      BY <1>1, <1>6, <1>7, <1>10, <2>3
    <3> QED
      BY <1>1, <1>8, <2>1, <2>3, <3>1
  <2> QED
    BY <1>1, <2>2, <2>3
<1>12. Contiguous(replay', end + 1, received)
  <2>1. replay' = <<>> => end + 1 = received + 1
    BY <1>3, <1>6
  <2>2. ASSUME NEW i \in 1 .. Len(replay) - 1
        PROVE  /\ replay'[i][1] <= replay'[i][2] /\ replay'[i][2] <= received
               /\ i = 1 => replay'[i][1] = end + 1
               /\ i < Len(replay) - 1 => replay'[i + 1][1] = replay'[i][2] + 1
               /\ i = Len(replay) - 1 => replay'[i][2] = received
    <3>1. i + 1 \in 1 .. Len(replay) /\ replay'[i] = replay[i + 1]
      <4> DEFINE n == Len(replay)
      <4>1. n \in Nat \ {0} /\ i \in 1 .. n - 1
        BY <1>3
      <4>2. \A j \in 1 .. n - 1 : replay'[j] = replay[j + 1]
        BY <1>3
      <4> HIDE DEF n
      <4>3. i + 1 \in 1 .. n
        BY <4>1
      <4>4. replay'[i] = replay[i + 1]
        BY <4>1, <4>2, Zenon
      <4> QED
        BY <4>3, <4>4 DEF n
    <3>2. /\ replay[i + 1][1] <= replay[i + 1][2] /\ replay[i + 1][2] <= received
          /\ i + 1 < Len(replay) => replay[i + 2][1] = replay[i + 1][2] + 1
          /\ i + 1 = Len(replay) => replay[i + 1][2] = received
      <4>1. (i + 1) + 1 = i + 2
        OBVIOUS
      <4> QED
        BY <1>4, <3>1, <4>1 DEF Contiguous
    <3>3. i < Len(replay) - 1 => replay'[i + 1] = replay[i + 2]
      <4>1. (i + 1) + 1 = i + 2 /\ (i < Len(replay) - 1 => i + 1 \in 1 .. Len(replay) - 1)
        BY <1>3
      <4> QED
        BY <1>3, <4>1
    <3>4. i = 1 => replay'[i][1] = end + 1
      <4> SUFFICES ASSUME i = 1 PROVE replay[2][1] = end + 1
        BY <3>1
      <4>1. Len(replay) # 1
        <5> DEFINE n == Len(replay)
        <5>1. n \in Nat /\ 1 \in 1 .. n - 1
          OBVIOUS
        <5> HIDE DEF n
        <5>2. n # 1
          BY <5>1
        <5> QED
          BY <5>2 DEF n
      <4> QED
        BY <1>6, <4>1
    <3>5. i < Len(replay) - 1 => i + 1 < Len(replay)
      BY <1>3
    <3>6. i = Len(replay) - 1 => i + 1 = Len(replay)
      BY <1>3
    <3> QED
      BY <3>1, <3>2, <3>3, <3>4, <3>5, <3>6
  <2> QED
    BY <1>3, <2>1, <2>2 DEF Contiguous
<1> QED
  BY <1>3, <1>10, <1>11, <1>12

-----------------------------------------------------------------------------
LEMMA InitEstablishes == Init => IInv
<1> SUFFICES ASSUME Init PROVE IInv
  OBVIOUS
<1> USE DEF Init
<1>1. Len(body) \in 0 .. MaxBody
  BY BodyLength
<1>2. Types
  <2>1. ResponseOK
    BY DEF ResponseOK
  <2>2. ProgressOK
    BY <1>1 DEF ProgressOK, Sniffing
  <2>3. limit \in Nat /\ Len(<<>>) = 0
    BY ClientAssumption
  <2>4. ReadingOK
    BY <2>3 DEF ReadingOK
  <2>5. ReplyOK
    BY DEF ReplyOK
  <2>6. StreamOK
    BY EmptySeq DEF StreamOK
  <2> QED
    BY <2>1, <2>2, <2>4, <2>5, <2>6 DEF Types
<1>3. Given
  BY DEF Given, Failures
<1>4. ToCome /\ Wire
  BY DEF ToCome, Wire, Forwarding, Sniffing
<1> QED
  BY <1>2, <1>3, <1>4 DEF IInv

LEMMA SendKeeps == IInv /\ Send => IInv'
<1> SUFFICES ASSUME IInv, Send PROVE IInv'
  OBVIOUS
<1> USE DEF Send, Return
<1>1. ResponseOK' /\ StreamOK' /\ ReadingOK'
  BY DEF IInv, Types, ResponseOK, ReadingOK, StreamOK, response, stream, reading
<1>2. ReplyOK'
  BY DEF IInv, Types, ReplyOK, Results, reply
<1>3. ProgressOK'
  BY DEF IInv, Types, ResponseOK, ProgressOK, Sniffing, response
<1>4. Given'
  BY DEF IInv, Given, response, stream, Failures
<1>5. ToCome'
  <2>1. CASE pc' = "returned"
    BY <2>1 DEF ToCome, Forwarding, Sniffing, IInv, Types, ProgressOK
  <2>2. CASE pc' # "returned"
    <3>1. out' = <<>> /\ replay' = <<>> /\ received' = 0
      BY <2>2 DEF IInv, Given, reading, stream
    <3> QED
      BY <3>1 DEF ToCome, Contiguous
  <2> QED
    BY <2>1, <2>2
<1>6. Wire'
  BY DEF Wire, IInv, Given, Forwarding, Sniffing, reply, response, stream
<1> QED
  BY <1>1, <1>2, <1>3, <1>4, <1>5, <1>6 DEF IInv, Types

(* A call that is answered keeps what it has read. *)
Answered ==
  \/ Return("bodyLimit", TRUE) \/ Return("transport", TRUE)
  \/ \E what \in Meanings \cup {"archive", "unrecognized"} : Return(what, TRUE)
  \/ \E proof \in Meanings \cup {"none"} : HttpStatus(proof)

LEMMA AnsweredReply == Answered => ReplyOK' /\ pc' = "returned"
  BY DEF Answered, ReplyOK, Return, HttpStatus, Results, Meanings

LEMMA ClassifyAnswers ==
  ASSUME NEW what \in {"archive", "unrecognized", "status"}, Classify(what)
  PROVE  Answered
  BY DEF Classify, Answered, Meanings

(* An answer to a structured call: nothing is handed out. *)
LEMMA BufferAnswered ==
  ASSUME IInv, pc = "buffer", Answered, result' \notin {"archive", "unrecognized"},
         UNCHANGED <<response, replay, stream>>,
         prefix' \in Seq(1 .. MaxBody), Len(prefix') <= limit,
         raw' \in {"live", "error", "spent"}, received' \in 0 .. Len(body),
         failure' \in Failures \cup {"none"}
  PROVE  IInv'
<1>1. ReplyOK' /\ pc' = "returned"
  BY AnsweredReply
<1>2. ~ Forwarding'
  BY <1>1 DEF Forwarding, Sniffing
<1>3. Types'
  BY <1>1 DEF IInv, Types, ResponseOK, ReadingOK, StreamOK, ProgressOK, response, stream, Sniffing
<1>4. Given'
  BY <1>1 DEF IInv, Given, stream, response, Failures
<1> QED
  BY <1>2, <1>3, <1>4 DEF IInv, ToCome, Wire

LEMMA BufferKeeps == IInv /\ Buffer => IInv'
<1> SUFFICES ASSUME IInv, Buffer PROVE IInv'
  OBVIOUS
<1>1. PICK n \in 1 .. MaxBody :
        /\ Chunk(n)
        /\ IF Exceeds(n)
           THEN /\ IF success THEN Return("bodyLimit", TRUE) ELSE HttpStatus("none")
                /\ UNCHANGED prefix
           ELSE prefix' = prefix \o Coming(n) /\ UNCHANGED <<pc, reply>>
  BY DEF Buffer
<1>2. pc = "buffer" /\ UNCHANGED <<response, replay, stream>>
  BY DEF Buffer
<1>3. Len(body) \in 0 .. MaxBody /\ MaxBody \in Nat /\ limit \in Nat
  BY BodyLength, ClientAssumption DEF IInv, Types, ResponseOK
<1>4. /\ received' \in 0 .. Len(body) /\ received \in Nat /\ n \in Nat /\ received + n <= MaxBody
      /\ UNCHANGED <<raw, failure>>
  BY <1>1, <1>3 DEF Chunk, IInv, Types, ProgressOK
<1>5. prefix \in Seq(1 .. MaxBody) /\ Len(prefix) \in Nat
  BY DEF IInv, Types, ReadingOK
<1>6. Len(prefix) <= limit /\ raw \in {"live", "error", "spent"} /\ failure \in Failures \cup {"none"}
  BY <1>2 DEF IInv, Types, ReadingOK, ProgressOK
<1>7. CASE Exceeds(n)
  <2>1. Answered /\ result' \notin {"archive", "unrecognized"} /\ UNCHANGED prefix
    BY <1>1, <1>7 DEF Answered, Return, HttpStatus
  <2> QED
    BY <1>2, <1>4, <1>5, <1>6, <2>1, BufferAnswered
<1>8. CASE ~ Exceeds(n)
  <2>1. prefix' = prefix \o Coming(n) /\ UNCHANGED <<pc, reply>>
    BY <1>1, <1>8
  <2>2. Coming(n) \in Seq(1 .. MaxBody) /\ Len(Coming(n)) = n
    BY <1>4, ComingIs
  <2>3. prefix' \in Seq(1 .. MaxBody) /\ Len(prefix') = Len(prefix) + n
    BY <1>5, <2>1, <2>2, ConcatProperties
  <2>4. Len(prefix') <= limit
    BY <1>3, <1>4, <1>5, <1>8, <2>3 DEF Exceeds
  <2>5. Types'
    BY <1>2, <1>4, <2>1, <2>3, <2>4
       DEF IInv, Types, ResponseOK, ReadingOK, StreamOK, ProgressOK, ReplyOK, reply, response, stream,
           Sniffing
  <2>6. Given'
    BY <1>2, <2>1 DEF IInv, Given, stream, response, Failures
  <2>7. ~ Forwarding'
    BY <1>2, <2>1 DEF Forwarding, Sniffing
  <2> QED
    BY <2>5, <2>6, <2>7 DEF IInv, ToCome, Wire
<1> QED
  BY <1>7, <1>8

LEMMA BufferBreaksKeeps == IInv /\ BufferBreaks => IInv'
<1> SUFFICES ASSUME IInv, BufferBreaks PROVE IInv'
  OBVIOUS
<1>1. Answered /\ result' \notin {"archive", "unrecognized"} /\ pc = "buffer" /\ raw' = "spent"
  BY DEF BufferBreaks, Answered, Return, HttpStatus
<1>2. /\ UNCHANGED <<response, replay, stream>> /\ UNCHANGED <<prefix, received>>
      /\ failure' \in Failures
  BY DEF BufferBreaks, Break, reading
<1>3. /\ prefix \in Seq(1 .. MaxBody) /\ Len(prefix) <= limit
      /\ received \in 0 .. Len(body)
  BY <1>1 DEF IInv, Types, ProgressOK, ReadingOK
<1> QED
  BY <1>1, <1>2, <1>3, BufferAnswered

LEMMA InterpretKeeps == IInv /\ Interpret => IInv'
<1> SUFFICES ASSUME IInv, Interpret PROVE IInv'
  OBVIOUS
<1>1. meaning \in Meanings
  BY DEF IInv, Types, ResponseOK
<1>2. Answered /\ result' \notin {"archive", "unrecognized"}
  BY <1>1 DEF Interpret, Answered, Return, HttpStatus, Evidence, Meanings
<1>3. /\ UNCHANGED <<response, replay, stream>> /\ UNCHANGED <<prefix, received, failure>>
      /\ pc = "buffer" /\ raw' = "spent"
  BY DEF Interpret, EndOfBody, reading
<1>4. /\ prefix \in Seq(1 .. MaxBody) /\ Len(prefix) <= limit
      /\ received \in 0 .. Len(body) /\ failure \in Failures \cup {"none"}
  BY <1>3 DEF IInv, Types, ProgressOK, ReadingOK
<1> QED
  BY <1>2, <1>3, <1>4, BufferAnswered

-----------------------------------------------------------------------------
(* A binary response is read on, or told apart. *)

LEMMA ReadingKeeps ==
  ASSUME IInv, pc \in Sniffing, NEW n \in 1 .. MaxBody, NEW k \in 0 .. n,
         Chunk(n), prefix' = prefix \o Coming(k), Retained(n),
         UNCHANGED <<response, pc, reply, stream>>
  PROVE  IInv'
<1>1. Len(body) \in 0 .. MaxBody /\ MaxBody \in Nat
  BY BodyLength, ClientAssumption DEF IInv, Types, ResponseOK
<1>2. /\ received \in Nat /\ received' = received + n /\ received + n <= Len(body)
      /\ n \in Nat \ {0} /\ k \in Nat /\ received + k <= MaxBody
      /\ raw = "live" /\ UNCHANGED <<raw, failure>>
  BY <1>1 DEF Chunk, IInv, Types, ProgressOK
<1>3. prefix' \in Seq(1 .. MaxBody)
  <2>1. Coming(k) \in Seq(1 .. MaxBody)
    BY <1>2, ComingIs
  <2> QED
    BY <2>1, ConcatProperties DEF IInv, Types, ReadingOK
<1>4. UNCHANGED out /\ UNCHANGED body
  BY DEF stream, response
<1>5. Forwarding
  BY DEF Forwarding
<1>6. /\ replay' \in Seq((1 .. MaxBody) \X (1 .. MaxBody))
      /\ Contiguous(replay', Len(out') + 1, received')
  BY <1>2, <1>4, <1>5, RetainedFollows DEF IInv
<1>7. Types'
  <2>1. ResponseOK' /\ ReplyOK' /\ StreamOK'
    BY DEF IInv, Types, ResponseOK, ReplyOK, StreamOK, response, reply, stream
  <2>2. ProgressOK'
    BY <1>1, <1>2 DEF IInv, Types, ProgressOK, response
  <2>3. ReadingOK'
    BY <1>3, <1>6 DEF IInv, Types, ReadingOK, ProgressOK, response
  <2> QED
    BY <2>1, <2>2, <2>3 DEF Types
<1>8. Given' /\ last' = "none"
  BY DEF IInv, Given, stream, response, Sniffing, Failures
<1>9. Wire'
  BY <1>2, <1>5, <1>8 DEF IInv, Wire, Given, Sniffing
<1> QED
  BY <1>6, <1>7, <1>8, <1>9 DEF IInv, ToCome

LEMMA ToldApartKeeps ==
  ASSUME IInv, pc \in Sniffing,
         UNCHANGED wire \/ EndOfBody \/ \E kind \in Failures : Staged(kind),
         Answered \/ (pc' \in Sniffing /\ UNCHANGED reply),
         UNCHANGED <<response, reading, stream>>
  PROVE  IInv'
<1>1. ReplyOK' /\ (pc' = "returned" \/ pc' \in Sniffing)
  <2>1. CASE Answered
    BY <2>1, AnsweredReply
  <2>2. CASE pc' \in Sniffing /\ UNCHANGED reply
    BY <2>2 DEF IInv, Types, ReplyOK, reply
  <2> QED
    BY <2>1, <2>2
<1>2. /\ UNCHANGED received /\ raw' \in {"live", "error", "spent"}
      /\ failure' \in Failures \cup {"none"}
  BY DEF wire, EndOfBody, Staged, Break, IInv, Types, ProgressOK
<1>3. Types'
  BY <1>1, <1>2 DEF IInv, Types, ResponseOK, StreamOK, ReadingOK, ProgressOK, response, reading,
                    stream, Sniffing
<1>4. Given' /\ last = "none"
  BY <1>1 DEF IInv, Given, stream, response, Sniffing, Failures
<1>5. ToCome'
  <2>1. Contiguous(replay, Len(out) + 1, received)
    BY DEF IInv, ToCome, Forwarding
  <2>2. UNCHANGED <<replay, out, received>>
    BY <1>2 DEF reading, stream
  <2> QED
    BY <2>1, <2>2 DEF ToCome, Contiguous
<1>6. Wire'
  <2>1. /\ raw = "live" => failure = "none"
        /\ raw = "error" => failure \in Failures
        /\ raw = "spent" => failure = "none" /\ received = Len(body)
    BY <1>4 DEF IInv, Wire, Forwarding
  <2>2. UNCHANGED body
    BY DEF response
  <2>3. raw \in {"live", "error", "spent"}
    BY DEF IInv, Types, ProgressOK
  <2>4. CASE UNCHANGED wire
    BY <2>1, <2>2, <2>4 DEF Wire, wire
  <2>5. CASE EndOfBody
    BY <2>1, <2>2, <2>3, <2>5 DEF Wire, EndOfBody
  <2>6. CASE \E kind \in Failures : Staged(kind)
    BY <2>6 DEF Wire, Staged, Break
  <2> QED
    BY <2>4, <2>5, <2>6
<1> QED
  BY <1>3, <1>4, <1>5, <1>6 DEF IInv

LEMMA SniffKeeps == IInv /\ Sniff => IInv'
<1> SUFFICES ASSUME IInv, Sniff PROVE IInv'
  OBVIOUS
<1>1. PICK n \in 1 .. MaxBody :
        Chunk(n) /\ prefix' = prefix \o Coming(Sniffed(n)) /\ Retained(n)
  BY DEF Sniff
<1>2. limit \in Nat \ {0} /\ n \in Nat \ {0}
  BY ClientAssumption DEF IInv, Types, ResponseOK
<1>3. Sniffed(n) \in 0 .. n
  BY <1>2 DEF Sniffed, Lesser, Greater, SignatureLength
<1>4. pc \in Sniffing /\ UNCHANGED <<response, pc, reply, stream>>
  BY DEF Sniff, Sniffing
<1> QED
  BY <1>1, <1>3, <1>4, ReadingKeeps

LEMMA ReadOnKeeps == IInv /\ ReadOn => IInv'
<1> SUFFICES ASSUME IInv, ReadOn PROVE IInv'
  OBVIOUS
<1>1. PICK n \in 1 .. MaxBody :
        Chunk(n) /\ prefix' = prefix \o Coming(Limited(n)) /\ Retained(n)
  BY DEF ReadOn
<1>2. limit \in Nat \ {0} /\ n \in Nat \ {0} /\ Len(prefix) \in Nat /\ Len(prefix) <= limit
  BY ClientAssumption DEF IInv, Types, ResponseOK, ReadingOK, ReadOn, Reading
<1>3. Limited(n) \in 0 .. n
  BY <1>2 DEF Limited, Lesser
<1>4. pc \in Sniffing /\ UNCHANGED <<response, pc, reply, stream>>
  BY DEF ReadOn, Sniffing
<1> QED
  BY <1>1, <1>3, <1>4, ReadingKeeps

LEMMA SniffEndsKeeps == IInv /\ SniffEnds => IInv'
<1> SUFFICES ASSUME IInv, SniffEnds PROVE IInv'
  OBVIOUS
<1>1. pc \in Sniffing /\ UNCHANGED <<response, reading, stream>>
  BY DEF SniffEnds, Sniffing
<1>2. UNCHANGED wire \/ EndOfBody \/ \E kind \in Failures : Staged(kind)
  BY DEF SniffEnds
<1>3. Answered \/ (pc' \in Sniffing /\ UNCHANGED reply)
  <2>1. \/ Classify("archive") \/ Classify("unrecognized")
        \/ pc' = "blank" /\ UNCHANGED reply
    BY DEF SniffEnds
  <2>2. CASE Classify("archive") \/ Classify("unrecognized")
    BY <2>2, ClassifyAnswers
  <2>3. CASE pc' = "blank" /\ UNCHANGED reply
    BY <2>3 DEF Sniffing
  <2> QED
    BY <2>1, <2>2, <2>3
<1> QED
  BY <1>1, <1>2, <1>3, ToldApartKeeps

LEMMA ReadOnBreaksKeeps == IInv /\ ReadOnBreaks => IInv'
<1> SUFFICES ASSUME IInv, ReadOnBreaks PROVE IInv'
  OBVIOUS
<1>1. pc \in Sniffing /\ UNCHANGED <<response, reading, stream>>
  BY DEF ReadOnBreaks, Sniffing
<1>2. Answered
  BY ClassifyAnswers DEF ReadOnBreaks
<1>3. UNCHANGED wire \/ EndOfBody \/ \E kind \in Failures : Staged(kind)
  BY DEF ReadOnBreaks
<1>4. Answered \/ (pc' \in Sniffing /\ UNCHANGED reply)
  BY <1>2
<1> QED
  BY <1>1, <1>3, <1>4, ToldApartKeeps

LEMMA BlankEndsKeeps == IInv /\ BlankEnds => IInv'
<1> SUFFICES ASSUME IInv, BlankEnds PROVE IInv'
  OBVIOUS
<1>1. pc \in Sniffing /\ UNCHANGED <<response, reading, stream>>
  BY DEF BlankEnds, Sniffing
<1>2. UNCHANGED wire \/ EndOfBody
  BY DEF BlankEnds
<1>3. Answered \/ (pc' \in Sniffing /\ UNCHANGED reply)
  <2>1. Classify("unrecognized") \/ (pc' = "candidate" /\ UNCHANGED reply)
    BY DEF BlankEnds
  <2>2. CASE Classify("unrecognized")
    BY <2>2, ClassifyAnswers
  <2>3. CASE pc' = "candidate" /\ UNCHANGED reply
    BY <2>3 DEF Sniffing
  <2> QED
    BY <2>1, <2>2, <2>3
<1> QED
  BY <1>1, <1>2, <1>3, ToldApartKeeps

LEMMA CandidateEndsKeeps == IInv /\ CandidateEnds => IInv'
<1> SUFFICES ASSUME IInv, CandidateEnds PROVE IInv'
  OBVIOUS
<1>1. pc \in Sniffing /\ UNCHANGED <<response, reading, stream>>
  BY DEF CandidateEnds, Sniffing
<1>2. UNCHANGED wire \/ EndOfBody \/ \E kind \in Failures : Staged(kind)
  BY DEF CandidateEnds
<1>3. Answered \/ (pc' \in Sniffing /\ UNCHANGED reply)
  BY ClassifyAnswers DEF CandidateEnds
<1> QED
  BY <1>1, <1>2, <1>3, ToldApartKeeps

-----------------------------------------------------------------------------
(* The stream that the caller reads. *)

LEMMA ReplayKeeps == IInv /\ Replay => IInv'
<1> SUFFICES ASSUME IInv, Replay PROVE IInv'
  OBVIOUS
<1>1. /\ replay' \in Seq((1 .. MaxBody) \X (1 .. MaxBody))
      /\ out' \in Seq(1 .. MaxBody)
      /\ \A i \in 1 .. Len(out') : out'[i] = i
      /\ Contiguous(replay', Len(out') + 1, received)
  BY ReplayedFollows DEF IInv
<1>2. UNCHANGED <<response, pc, wire, prefix, reply, last>> /\ last = "none" /\ pc = "returned"
  BY DEF Replay, Streaming
<1>3. Types'
  BY <1>1, <1>2 DEF IInv, Types, ResponseOK, ReplyOK, StreamOK, ReadingOK, ProgressOK, response, reply,
                    wire
<1>4. Given'
  BY <1>1, <1>2 DEF Given, Failures
<1>5. ToCome'
  BY <1>1, <1>2 DEF ToCome, wire
<1>6. Wire'
  BY <1>2 DEF IInv, Wire, Forwarding, Sniffing, wire, reply, response
<1> QED
  BY <1>3, <1>4, <1>5, <1>6 DEF IInv

LEMMA RemainingKeeps == IInv /\ Remaining => IInv'
<1> SUFFICES ASSUME IInv, Remaining PROVE IInv'
  OBVIOUS
<1>1. /\ UNCHANGED <<response, pc, reading, reply>> /\ replay = <<>> /\ last = "none"
      /\ pc = "returned" /\ Forwarding
  BY DEF Remaining, Streaming, Forwarding
<1>2. Len(body) \in 0 .. MaxBody /\ MaxBody \in Nat
  BY BodyLength, ClientAssumption DEF IInv, Types, ResponseOK
<1>3. out \in Seq(1 .. MaxBody) /\ Len(out) \in Nat /\ Len(out) = received /\ received \in Nat
  <2>1. Len(out) + 1 = received + 1
    BY <1>1 DEF IInv, ToCome, Contiguous
  <2>2. out \in Seq(1 .. MaxBody) /\ received \in Nat
    BY <1>2 DEF IInv, Types, StreamOK, ProgressOK
  <2> QED
    BY <2>1, <2>2
<1>4. /\ raw = "live" => failure = "none"
      /\ raw = "error" => failure \in Failures
      /\ raw = "spent" => failure = "none" /\ received = Len(body)
  BY <1>1 DEF IInv, Wire
<1>5. \A i \in 1 .. Len(out) : out[i] = i
  BY DEF IInv, Given
<1>6. raw \in {"live", "error", "spent"} /\ received \in 0 .. Len(body) /\ failure \in Failures \cup {"none"}
  BY DEF IInv, Types, ProgressOK
<1>7. CASE \E n \in 1 .. MaxBody : Chunk(n) /\ out' = out \o Coming(n) /\ UNCHANGED last
  <2>1. PICK n \in 1 .. MaxBody : Chunk(n) /\ out' = out \o Coming(n) /\ UNCHANGED last
    BY <1>7
  <2>2. /\ n \in Nat \ {0} /\ received + n <= Len(body) /\ received' = received + n
        /\ received + n <= MaxBody /\ raw = "live" /\ UNCHANGED <<raw, failure>>
    BY <1>2, <1>3, <2>1 DEF Chunk
  <2>3. /\ Coming(n) \in Seq(1 .. MaxBody) /\ Len(Coming(n)) = n
        /\ \A i \in 1 .. n : Coming(n)[i] = received + i
    BY <1>3, <2>2, ComingIs
  <2>4. /\ out' \in Seq(1 .. MaxBody) /\ Len(out') = received'
        /\ \A i \in 1 .. Len(out') : out'[i] = IF i <= Len(out) THEN out[i] ELSE Coming(n)[i - Len(out)]
    <3>1. /\ out' \in Seq(1 .. MaxBody) /\ Len(out') = Len(out) + Len(Coming(n))
          /\ \A i \in 1 .. Len(out') :
               out'[i] = IF i <= Len(out) THEN out[i] ELSE Coming(n)[i - Len(out)]
      BY <1>3, <2>1, <2>3, Longer
    <3>2. Len(out) + Len(Coming(n)) = received'
      BY <1>3, <2>2, <2>3
    <3> QED
      BY <3>1, <3>2
  <2>5. \A i \in 1 .. Len(out') : out'[i] = i
    <3> SUFFICES ASSUME NEW i \in 1 .. Len(out') PROVE out'[i] = i
      OBVIOUS
    <3>1. CASE i <= Len(out)
      BY <1>3, <1>5, <2>4, <3>1
    <3>2. CASE i > Len(out)
      <4>1. i - Len(out) \in 1 .. n
        BY <1>3, <2>2, <2>4, <3>2
      <4> QED
        BY <1>3, <2>3, <2>4, <3>2, <4>1
    <3> QED
      BY <1>3, <3>1, <3>2
  <2>6. Types'
    BY <1>1, <1>2, <1>3, <2>1, <2>2, <2>4
       DEF IInv, Types, ResponseOK, ReplyOK, StreamOK, ReadingOK, ProgressOK, response, reply, reading
  <2>7. Given'
    BY <1>1, <2>1, <2>5 DEF Given, Failures
  <2>8. ToCome'
    BY <1>1, <2>4 DEF ToCome, Contiguous, reading
  <2>9. Wire'
    BY <1>4, <2>2 DEF Wire
  <2> QED
    BY <2>6, <2>7, <2>8, <2>9 DEF IInv
<1>8. CASE /\ UNCHANGED <<received, out>> /\ raw' = "spent" /\ last' # "none"
           /\ \/ \E kind \in Failures : Break(kind) /\ last' = kind
              \/ raw = "error" /\ last' = failure /\ UNCHANGED failure
              \/ EndOfBody /\ last' = "end"
  <2>1. /\ last' \in Failures => last' = failure'
        /\ last' = "end" => failure' = "none" /\ received = Len(body)
        /\ last' \in Failures \cup {"end"} /\ failure' \in Failures \cup {"none"}
    BY <1>4, <1>6, <1>8 DEF Break, EndOfBody, Failures
  <2>2. Types'
    BY <1>1, <1>6, <1>8, <2>1
       DEF IInv, Types, ResponseOK, ReplyOK, StreamOK, ReadingOK, ProgressOK, response, reply, reading
  <2>3. Given'
    BY <1>1, <1>3, <1>5, <1>8, <2>1 DEF Given, response
  <2>4. ToCome'
    BY <1>1, <1>3, <1>8 DEF ToCome, Contiguous, reading
  <2>5. Wire'
    BY <1>8 DEF Wire
  <2> QED
    BY <2>2, <2>3, <2>4, <2>5 DEF IInv
<1>9. \/ \E n \in 1 .. MaxBody : Chunk(n) /\ out' = out \o Coming(n) /\ UNCHANGED last
      \/ /\ UNCHANGED <<received, out>> /\ raw' = "spent" /\ last' # "none"
         /\ \/ \E kind \in Failures : Break(kind) /\ last' = kind
            \/ raw = "error" /\ last' = failure /\ UNCHANGED failure
            \/ EndOfBody /\ last' = "end"
  <2>1. \A kind \in Failures : kind # "none"
    BY DEF Failures
  <2> QED
    BY <1>4, <2>1 DEF Remaining, Break, EndOfBody
<1> QED
  BY <1>7, <1>8, <1>9

-----------------------------------------------------------------------------
LEMMA NextKeeps == IInv /\ [Next]_vars => IInv'
<1> SUFFICES ASSUME IInv, [Next]_vars PROVE IInv'
  OBVIOUS
<1>1. CASE UNCHANGED vars
  BY <1>1 DEF IInv, Types, ResponseOK, ReplyOK, StreamOK, ReadingOK, ProgressOK, Given, ToCome, Wire,
              Contiguous, Forwarding, vars, response, wire, reading, reply, stream
<1>2. CASE Next
  BY <1>2, SendKeeps, BufferKeeps, BufferBreaksKeeps, InterpretKeeps, SniffKeeps, SniffEndsKeeps,
     ReadOnKeeps, ReadOnBreaksKeeps, BlankEndsKeeps, CandidateEndsKeeps, ReplayKeeps, RemainingKeeps
     DEF Next
<1> QED
  BY <1>1, <1>2

LEMMA Invariance == Spec => []IInv
  BY InitEstablishes, NextKeeps, PTL DEF Spec

(* Every state of a call is type-correct, and what a structured call keeps *)
(* of a body is never longer than its limit (client.rs receive_structured).*)
THEOREM ClientTypeCorrect == Spec => []ClientTypeOK
<1>1. IInv => ClientTypeOK
  BY DEF IInv, Types, ResponseOK, ReplyOK, StreamOK, ReadingOK, ProgressOK, ClientTypeOK
<1> QED
  BY <1>1, Invariance, PTL

(* However the wire cuts the body and whenever it fails, the caller of     *)
(* execute_binary gets the bytes that arrived once and in order, and then  *)
(* the end or the error (client.rs BodyStream::poll_next).                 *)
THEOREM BytesArriveOnce == Spec => []BytesOnceInOrder
<1>1. IInv => BytesOnceInOrder
  BY DEF IInv, Given, BytesOnceInOrder
<1> QED
  BY <1>1, Invariance, PTL

-----------------------------------------------------------------------------
(* What was decided of the body, from what was inspected of it: the bytes  *)
(* kept are its first ones, and all that were read unless the limit and a  *)
(* whole signature are among them.                                         *)
Inspected ==
  /\ \A i \in 1 .. Len(prefix) : prefix[i] = i
  /\ Len(prefix) <= received
  /\ Len(prefix) < received =>
       pc # "buffer" /\ Len(prefix) > limit /\ Len(prefix) >= SignatureLength

Signed == Len(body) >= SignatureLength /\ \A i \in 1 .. SignatureLength : body[i] = "sig"

Decided ==
  /\ pc = "send" => prefix = <<>>
  /\ pc # "returned" => result = "none" /\ ~ metadata
  /\ pc = "returned" /\ call = "structured" => result \notin {"archive", "unrecognized"}
  /\ pc = "buffer" => raw = "live" /\ failure = "none"
  /\ pc \in Sniffing \cup {"buffer"} => Inspected
  /\ pc \in {"blank", "candidate"} =>
       ~ Signed /\ (raw = "live" => Len(prefix) >= SignatureLength)
  /\ pc = "candidate" => LeadsWith("lt")

(* The parts of ReplyFits. *)
MetadataFits ==
  /\ metadata /\ ~ success => result = "httpStatus"
  /\ result = "httpStatus" => metadata /\ ~ success
  /\ result \in {"archive", "unrecognized", "bodyLimit"} \cup Meanings => metadata

StructuredFits ==
  pc = "returned" /\ call = "structured" /\ metadata =>
    /\ success /\ Complete => result = meaning
    /\ result \in Meanings => Complete
    /\ result = "bodyLimit" => received > limit
    /\ ~ success => evidence = IF Complete THEN Evidence ELSE "none"

BinaryFits ==
  pc = "returned" /\ call = "zip" /\ metadata /\ last = "none" /\ out = <<>> =>
    /\ success => result = CASE IsArchive -> "archive"
                             [] IsEnvelope -> "status"
                             [] OTHER -> "unrecognized"
    /\ ~ success => evidence = IF IsEnvelope /\ safe THEN "status" ELSE "none"

RInv == Decided /\ MetadataFits /\ StructuredFits /\ BinaryFits

LEMMA Numbers ==
  ASSUME IInv
  PROVE  /\ received \in Nat /\ Len(body) \in Nat /\ received <= Len(body) /\ Len(body) <= MaxBody
         /\ MaxBody \in Nat /\ limit \in Nat \ {0}
         /\ prefix \in Seq(1 .. MaxBody) /\ Len(prefix) \in Nat
<1>1. Len(body) \in 0 .. MaxBody /\ MaxBody \in Nat /\ limit \in Nat \ {0}
  BY BodyLength, ClientAssumption DEF IInv, Types, ResponseOK
<1>2. received \in 0 .. Len(body) /\ prefix \in Seq(1 .. MaxBody)
  BY DEF IInv, Types, ProgressOK, ReadingOK
<1> QED
  BY <1>1, <1>2

(* A body does not begin with a signature and lead with something else. *)
LEMMA OneBeginning ==
  ASSUME IInv PROVE ~ (Signed /\ LeadsWith("lt"))
<1> SUFFICES ASSUME Signed, LeadsWith("lt") PROVE FALSE
  OBVIOUS
<1>1. PICK i \in 1 .. Len(body) : body[i] = "lt" /\ \A j \in 1 .. i - 1 : body[j] = "blank"
  BY DEF LeadsWith
<1>2. body[1] = "sig"
  BY DEF Signed, SignatureLength
<1>3. i # 1
  BY <1>1, <1>2
<1>4. 1 \in 1 .. i - 1
  BY <1>3, Numbers
<1> QED
  BY <1>1, <1>2, <1>4

LEMMA KeptIs ==
  ASSUME IInv, Inspected
  PROVE  /\ DOMAIN Kept = 1 .. Len(prefix) /\ Len(Kept) = Len(prefix)
         /\ Len(prefix) <= Len(body)
         /\ \A i \in 1 .. Len(prefix) : Kept[i] = body[i]
<1>1. Len(prefix) <= Len(body) /\ Len(prefix) \in Nat
  BY Numbers DEF Inspected
<1>2. DOMAIN Kept = 1 .. Len(prefix) /\ \A i \in 1 .. Len(prefix) : Kept[i] = body[i]
  BY DEF Kept, Inspected
<1>3. Len(Kept) = Len(prefix)
  BY <1>1 DEF Kept
<1> QED
  BY <1>1, <1>2, <1>3

(* What the bytes kept lead with, the body leads with. *)
LEMMA CandidateLeads ==
  ASSUME IInv, Inspected, Candidate
  PROVE  LeadsWith("lt")
<1>1. PICK i \in 1 .. Len(prefix) : Kept[i] = "lt" /\ \A j \in 1 .. i - 1 : Kept[j] = "blank"
  BY KeptIs DEF Candidate
<1>2. i \in 1 .. Len(body) /\ \A j \in 1 .. i - 1 : j \in 1 .. Len(prefix)
  BY KeptIs, Numbers
<1>3. body[i] = "lt" /\ \A j \in 1 .. i - 1 : body[j] = "blank"
  BY <1>1, <1>2, KeptIs
<1> QED
  BY <1>2, <1>3 DEF LeadsWith

(* And of a whole body within the limit nothing is left out. *)
LEMMA WholeCandidate ==
  ASSUME IInv, Inspected, received = Len(body), Len(body) <= limit, LeadsWith("lt")
  PROVE  Candidate
<1>1. Len(prefix) = Len(body)
  BY Numbers DEF Inspected
<1>2. PICK i \in 1 .. Len(body) : body[i] = "lt" /\ \A j \in 1 .. i - 1 : body[j] = "blank"
  BY DEF LeadsWith
<1>3. i \in DOMAIN Kept /\ \A j \in 1 .. i - 1 : j \in 1 .. Len(prefix)
  BY <1>1, KeptIs, Numbers
<1>4. Kept[i] = "lt" /\ \A j \in 1 .. i - 1 : Kept[j] = "blank"
  BY <1>1, <1>2, <1>3, KeptIs
<1> QED
  BY <1>3, <1>4 DEF Candidate

LEMMA InitDecides == Init => RInv
<1> SUFFICES ASSUME Init PROVE RInv
  OBVIOUS
<1>1. Decided
  BY DEF Init, Decided, Sniffing
<1>2. MetadataFits
  BY DEF Init, MetadataFits, Meanings
<1>3. StructuredFits /\ BinaryFits
  BY DEF Init, StructuredFits, BinaryFits
<1> QED
  BY <1>1, <1>2, <1>3 DEF RInv

LEMMA SendFits == IInv /\ RInv /\ Send => RInv'
<1> SUFFICES ASSUME IInv, RInv, Send PROVE RInv'
  OBVIOUS
<1> USE DEF Send
<1>1. /\ pc = "send" /\ prefix = <<>> /\ received = 0 /\ raw = "live" /\ failure = "none"
      /\ result = "none" /\ ~ metadata /\ call \in {"structured", "zip", "notZip"}
  BY DEF RInv, Decided, IInv, Given, Types, ResponseOK
<1>2. UNCHANGED <<response, raw, received, prefix, replay, stream>>
  BY DEF reading
<1>3. CASE pc' = "returned"
  <2>1. ~ metadata' /\ result' \in {"representation", "transport"}
    BY <1>1, <1>3 DEF Return
  <2>2. Decided'
    BY <1>3, <2>1 DEF Decided, Sniffing
  <2> QED
    BY <2>1, <2>2 DEF RInv, MetadataFits, StructuredFits, BinaryFits, Meanings
<1>4. CASE pc' # "returned"
  <2>1. /\ pc' \in {"buffer", "sniff"} /\ UNCHANGED <<failure, reply>>
    BY <1>1, <1>4 DEF Return
  <2>2. Len(prefix') = 0 /\ received' = 0
    BY <1>1, <1>2
  <2>3. Inspected'
    BY <2>2 DEF Inspected
  <2>4. Decided'
    BY <1>1, <1>2, <2>1, <2>3 DEF Decided, reply
  <2> QED
    BY <1>1, <2>1, <2>4 DEF RInv, MetadataFits, StructuredFits, BinaryFits, Meanings, reply
<1> QED
  BY <1>3, <1>4

-----------------------------------------------------------------------------
(* The answers to a structured call. *)

LEMMA BufferFits == IInv /\ RInv /\ Buffer => RInv'
<1> SUFFICES ASSUME IInv, RInv, Buffer PROVE RInv'
  OBVIOUS
<1>1. PICK n \in 1 .. MaxBody :
        /\ Chunk(n)
        /\ IF Exceeds(n)
           THEN /\ IF success THEN Return("bodyLimit", TRUE) ELSE HttpStatus("none")
                /\ UNCHANGED prefix
           ELSE prefix' = prefix \o Coming(n) /\ UNCHANGED <<pc, reply>>
  BY DEF Buffer
<1>2. /\ pc = "buffer" /\ UNCHANGED <<response, replay, stream>> /\ call = "structured"
      /\ result = "none" /\ ~ metadata /\ raw = "live" /\ failure = "none" /\ Inspected
  BY DEF Buffer, RInv, Decided, IInv, Types, ProgressOK
<1>3. /\ received' = received + n /\ UNCHANGED <<raw, failure>> /\ n \in Nat \ {0}
      /\ Len(prefix) = received /\ received + n <= Len(body)
  BY <1>1, <1>2, Numbers DEF Chunk, Inspected
<1>4. CASE Exceeds(n)
  <2>1. received' > limit /\ received' <= Len(body)
    BY <1>3, <1>4, Numbers DEF Exceeds
  <2>2. ~ Complete'
    BY <1>2, <2>1, Numbers DEF Complete, response
  <2>3. /\ pc' = "returned" /\ metadata' /\ evidence' = "none"
        /\ result' = IF success THEN "bodyLimit" ELSE "httpStatus"
    BY <1>1, <1>4 DEF Return, HttpStatus
  <2>4. Decided'
    BY <1>2, <2>3 DEF Decided, Sniffing
  <2>5. StructuredFits'
    BY <1>2, <2>1, <2>2, <2>3 DEF StructuredFits, response, Meanings
  <2>6. MetadataFits' /\ BinaryFits'
    BY <1>2, <2>3 DEF MetadataFits, BinaryFits, response, Meanings
  <2> QED
    BY <2>4, <2>5, <2>6 DEF RInv
<1>5. CASE ~ Exceeds(n)
  <2>1. prefix' = prefix \o Coming(n) /\ UNCHANGED <<pc, reply>>
    BY <1>1, <1>5
  <2>2. received + n <= MaxBody
    BY <1>3, Numbers
  <2>3. /\ Coming(n) \in Seq(1 .. MaxBody) /\ Len(Coming(n)) = n
        /\ \A i \in 1 .. n : Coming(n)[i] = received + i
    BY <1>3, <2>2, ComingIs, Numbers
  <2>4. /\ Len(prefix') = Len(prefix) + n
        /\ \A i \in 1 .. Len(prefix') :
             prefix'[i] = IF i <= Len(prefix) THEN prefix[i] ELSE Coming(n)[i - Len(prefix)]
    <3> DEFINE S    == 1 .. MaxBody
               more == Coming(n)
    <3>1. prefix \in Seq(S) /\ more \in Seq(S) /\ Len(more) = n
      BY <2>3, Numbers
    <3> HIDE DEF S, more
    <3>2. /\ Len(prefix \o more) = Len(prefix) + n
          /\ \A i \in 1 .. Len(prefix \o more) :
               (prefix \o more)[i] = IF i <= Len(prefix) THEN prefix[i] ELSE more[i - Len(prefix)]
      BY <3>1, Longer
    <3>3. prefix' = prefix \o more
      BY <2>1 DEF more
    <3> QED
      BY <3>2, <3>3 DEF more
  <2>5. Inspected'
    <3>1. \A i \in 1 .. Len(prefix') : prefix'[i] = i
      <4> SUFFICES ASSUME NEW i \in 1 .. Len(prefix') PROVE prefix'[i] = i
        OBVIOUS
      <4>1. CASE i <= Len(prefix)
        BY <1>2, <2>4, <4>1, Numbers DEF Inspected
      <4>2. CASE i > Len(prefix)
        <5>1. i - Len(prefix) \in 1 .. n
          BY <1>3, <2>4, <4>2, Numbers
        <5> QED
          BY <1>3, <2>3, <2>4, <4>2, <5>1, Numbers
      <4> QED
        BY <4>1, <4>2, Numbers
    <3>2. Len(prefix') = received'
      BY <1>3, <2>4
    <3> QED
      BY <3>1, <3>2, Numbers DEF Inspected
  <2>6. Decided'
    BY <1>2, <1>3, <2>1, <2>5 DEF Decided, reply
  <2> QED
    BY <1>2, <2>1, <2>6 DEF RInv, MetadataFits, StructuredFits, BinaryFits, Meanings, reply
<1> QED
  BY <1>4, <1>5

LEMMA BufferBreaksFits == IInv /\ RInv /\ BufferBreaks => RInv'
<1> SUFFICES ASSUME IInv, RInv, BufferBreaks PROVE RInv'
  OBVIOUS
<1>1. /\ pc = "buffer" /\ call = "structured" /\ UNCHANGED <<response, stream>>
      /\ failure' \in Failures
  BY DEF BufferBreaks, Break, IInv, Types, ProgressOK
<1>2. ~ Complete'
  BY <1>1 DEF Complete, Failures
<1>3. /\ pc' = "returned" /\ metadata' /\ evidence' = "none"
      /\ result' = IF success THEN "transport" ELSE "httpStatus"
  BY DEF BufferBreaks, Return, HttpStatus
<1>4. Decided'
  BY <1>1, <1>3 DEF Decided, Sniffing
<1>5. StructuredFits'
  BY <1>1, <1>2, <1>3 DEF StructuredFits, response, Meanings
<1>6. MetadataFits' /\ BinaryFits'
  BY <1>1, <1>3 DEF MetadataFits, BinaryFits, response, Meanings
<1> QED
  BY <1>4, <1>5, <1>6 DEF RInv

LEMMA InterpretFits == IInv /\ RInv /\ Interpret => RInv'
<1> SUFFICES ASSUME IInv, RInv, Interpret PROVE RInv'
  OBVIOUS
<1>1. /\ pc = "buffer" /\ call = "structured" /\ UNCHANGED <<response, stream>>
      /\ raw = "live" /\ failure = "none" /\ Inspected /\ meaning \in Meanings
      /\ UNCHANGED <<received, failure>> /\ received = Len(body)
  BY DEF Interpret, EndOfBody, IInv, Types, ProgressOK, ResponseOK, RInv, Decided
<1>2. Len(body) <= limit
  <2>1. Len(prefix) <= limit
    BY <1>1 DEF IInv, Types, ReadingOK
  <2>2. Len(prefix) = received
    BY <1>1, Numbers DEF Inspected
  <2> QED
    BY <1>1, <2>1, <2>2
<1>3. Complete'
  BY <1>1, <1>2 DEF Complete, response
<1>4. /\ pc' = "returned" /\ metadata' /\ result' = (IF success THEN meaning ELSE "httpStatus")
      /\ evidence' = IF success THEN "none" ELSE Evidence
  BY DEF Interpret, Return, HttpStatus
<1>5. result' # "bodyLimit" /\ result' \notin {"archive", "unrecognized"}
  BY <1>1, <1>4 DEF Meanings
<1>6. Decided'
  BY <1>4, <1>5 DEF Decided, Sniffing
<1>7. StructuredFits'
  BY <1>1, <1>3, <1>4, <1>5 DEF StructuredFits, response, Evidence
<1>8. MetadataFits' /\ BinaryFits'
  BY <1>1, <1>4 DEF MetadataFits, BinaryFits, response, Meanings
<1> QED
  BY <1>6, <1>7, <1>8 DEF RInv

-----------------------------------------------------------------------------
(* The answers to a binary call. *)

(* An answer that tells the body apart as it is. *)
LEMMA ClassifiedFits ==
  ASSUME IInv, RInv, pc \in Sniffing,
         NEW what \in {"archive", "unrecognized", "status"}, Classify(what),
         IsArchive' <=> what = "archive", IsEnvelope' <=> what = "status",
         UNCHANGED <<response, reading, stream>>
  PROVE  RInv'
<1>1. call # "structured" /\ UNCHANGED <<call, success, safe>>
  BY DEF IInv, Types, ProgressOK, response
<1>2. /\ pc' = "returned" /\ metadata' /\ result' = (IF success THEN what ELSE "httpStatus")
      /\ ~ success => evidence' = IF what = "status" /\ safe THEN "status" ELSE "none"
  BY DEF Classify, Return, HttpStatus
<1>3. Decided'
  BY <1>1, <1>2 DEF Decided, Sniffing
<1>4. MetadataFits' /\ StructuredFits'
  BY <1>1, <1>2 DEF MetadataFits, StructuredFits, Meanings
<1>5. what = CASE IsArchive' -> "archive" [] IsEnvelope' -> "status" [] OTHER -> "unrecognized"
  OBVIOUS
<1>6. BinaryFits'
  BY <1>1, <1>2, <1>5 DEF BinaryFits
<1> QED
  BY <1>3, <1>4, <1>6 DEF RInv

(* More of the body is inspected. *)
LEMMA ReadFits ==
  ASSUME IInv, RInv, pc \in Sniffing, Len(prefix) = received,
         NEW n \in 1 .. MaxBody, NEW k \in 0 .. n,
         k < n => Len(prefix) + k > limit /\ Len(prefix) + k >= SignatureLength,
         Chunk(n), prefix' = prefix \o Coming(k),
         UNCHANGED <<response, pc, reply, stream>>
  PROVE  RInv'
<1>1. /\ received' = received + n /\ UNCHANGED <<raw, failure>> /\ raw = "live"
      /\ n \in Nat \ {0} /\ k \in Nat /\ received + n <= Len(body) /\ received + k <= MaxBody
  BY Numbers DEF Chunk
<1>2. Inspected
  BY DEF RInv, Decided
<1>3. /\ Coming(k) \in Seq(1 .. MaxBody) /\ Len(Coming(k)) = k
      /\ \A i \in 1 .. k : Coming(k)[i] = received + i
  BY <1>1, ComingIs, Numbers
<1>4. /\ Len(prefix') = Len(prefix) + k
      /\ \A i \in 1 .. Len(prefix') :
           prefix'[i] = IF i <= Len(prefix) THEN prefix[i] ELSE Coming(k)[i - Len(prefix)]
  <2> DEFINE more == Coming(k)
  <2>1. prefix \in Seq(1 .. MaxBody) /\ more \in Seq(1 .. MaxBody)
    BY <1>3, Numbers
  <2> HIDE DEF more
  <2>2. /\ Len(prefix \o more) = Len(prefix) + Len(more)
        /\ \A i \in 1 .. Len(prefix \o more) :
             (prefix \o more)[i] = IF i <= Len(prefix) THEN prefix[i] ELSE more[i - Len(prefix)]
    BY <2>1, Longer
  <2>3. prefix' = prefix \o more
    BY DEF more
  <2> QED
    BY <1>3, <2>2, <2>3 DEF more
<1>5. Inspected'
  <2>1. \A i \in 1 .. Len(prefix') : prefix'[i] = i
    <3> SUFFICES ASSUME NEW i \in 1 .. Len(prefix') PROVE prefix'[i] = i
      OBVIOUS
    <3>1. CASE i <= Len(prefix)
      BY <1>2, <1>4, <3>1, Numbers DEF Inspected
    <3>2. CASE i > Len(prefix)
      <4>1. i - Len(prefix) \in 1 .. k
        BY <1>1, <1>4, <3>2, Numbers
      <4>2. prefix'[i] = Coming(k)[i - Len(prefix)]
        BY <1>4, <3>2, Numbers
      <4>3. Coming(k)[i - Len(prefix)] = received + (i - Len(prefix))
        BY <1>3, <4>1
      <4> QED
        BY <4>2, <4>3, Numbers
    <3> QED
      BY <3>1, <3>2, Numbers
  <2>2. Len(prefix') <= received' /\ (Len(prefix') < received' => k < n)
    BY <1>1, <1>4, Numbers
  <2>3. pc' # "buffer" /\ UNCHANGED limit
    BY DEF Sniffing, response
  <2> QED
    BY <1>4, <2>1, <2>2, <2>3 DEF Inspected
<1>6. Decided'
  <2>1. /\ result = "none" /\ ~ metadata /\ pc \notin {"send", "buffer", "returned"}
        /\ pc \in {"blank", "candidate"} => ~ Signed /\ Len(prefix) >= SignatureLength
        /\ pc = "candidate" => LeadsWith("lt")
    BY <1>1 DEF RInv, Decided, Sniffing
  <2>2. pc \in {"blank", "candidate"} => Len(prefix') >= SignatureLength
    BY <1>1, <1>4, <2>1, Numbers DEF SignatureLength
  <2>3. UNCHANGED <<pc, result, metadata, body>>
    BY DEF reply, response
  <2>4. Signed' = Signed /\ LeadsWith("lt")' = LeadsWith("lt")
    BY <2>3 DEF Signed, LeadsWith
  <2> QED
    BY <1>5, <2>1, <2>2, <2>3, <2>4 DEF Decided
<1>7. pc # "returned" /\ result = "none" /\ ~ metadata
  BY DEF RInv, Decided, Sniffing
<1> QED
  BY <1>6, <1>7 DEF RInv, MetadataFits, StructuredFits, BinaryFits, Meanings, reply

LEMMA SniffFits == IInv /\ RInv /\ Sniff => RInv'
<1> SUFFICES ASSUME IInv, RInv, Sniff PROVE RInv'
  OBVIOUS
<1>1. PICK n \in 1 .. MaxBody :
        Chunk(n) /\ prefix' = prefix \o Coming(Sniffed(n)) /\ Retained(n)
  BY DEF Sniff
<1>2. /\ pc \in Sniffing /\ UNCHANGED <<response, pc, reply, stream>>
      /\ Len(prefix) < SignatureLength
  BY DEF Sniff, Sniffing
<1>3. n \in Nat \ {0} /\ limit \in Nat \ {0} /\ Len(prefix) \in Nat
  BY Numbers
<1>4. Sniffed(n) \in 0 .. n
  BY <1>3 DEF Sniffed, Lesser, Greater, SignatureLength
<1>5. Sniffed(n) < n => Sniffed(n) > limit /\ Sniffed(n) >= SignatureLength
  BY <1>3 DEF Sniffed, Lesser, Greater, SignatureLength
<1>6. Sniffed(n) < n => Len(prefix) + Sniffed(n) > limit /\ Len(prefix) + Sniffed(n) >= SignatureLength
  BY <1>3, <1>4, <1>5 DEF SignatureLength
<1>7. Len(prefix) = received
  BY <1>2, Numbers DEF RInv, Decided, Inspected, SignatureLength
<1> QED
  BY <1>1, <1>2, <1>4, <1>6, <1>7, ReadFits

LEMMA ReadOnFits == IInv /\ RInv /\ ReadOn => RInv'
<1> SUFFICES ASSUME IInv, RInv, ReadOn PROVE RInv'
  OBVIOUS
<1>1. PICK n \in 1 .. MaxBody :
        Chunk(n) /\ prefix' = prefix \o Coming(Limited(n)) /\ Retained(n)
  BY DEF ReadOn
<1>2. /\ pc \in Sniffing /\ UNCHANGED <<response, pc, reply, stream>> /\ Len(prefix) <= limit
      /\ pc \in {"blank", "candidate"}
  BY DEF ReadOn, Sniffing, Reading
<1>3. n \in Nat \ {0} /\ limit \in Nat \ {0} /\ Len(prefix) \in Nat
  BY Numbers
<1>4. Limited(n) \in 0 .. n /\ (Limited(n) < n => Len(prefix) + Limited(n) = limit + 1)
  BY <1>2, <1>3 DEF Limited, Lesser
<1>5. Len(prefix) >= SignatureLength
  BY <1>1, <1>2 DEF Chunk, RInv, Decided
<1>6. Limited(n) < n => Len(prefix) + Limited(n) > limit /\ Len(prefix) + Limited(n) >= SignatureLength
  BY <1>3, <1>4, <1>5 DEF SignatureLength
<1>7. Len(prefix) = received
  BY <1>2, Numbers DEF RInv, Decided, Inspected
<1> QED
  BY <1>1, <1>2, <1>4, <1>6, <1>7, ReadFits

LEMMA SniffEndsFits == IInv /\ RInv /\ SniffEnds => RInv'
<1> SUFFICES ASSUME IInv, RInv, SniffEnds PROVE RInv'
  OBVIOUS
<1>1. /\ pc = "sniff" /\ pc \in Sniffing /\ UNCHANGED <<response, reading, stream>> /\ Inspected
      /\ result = "none" /\ ~ metadata /\ last = "none"
  BY DEF SniffEnds, Sniffing, RInv, Decided, IInv, Given
<1>2. UNCHANGED <<body, prefix>> /\ Signed' = Signed
  BY <1>1 DEF response, reading, Signed
<1>3. ASSUME pc' = "blank", UNCHANGED reply, UNCHANGED received, ~ Signed,
             raw' = "live" => Len(prefix) >= SignatureLength
      PROVE  RInv'
  <2>1. Inspected'
    BY <1>1, <1>2, <1>3 DEF Inspected, response
  <2>2. Decided'
    BY <1>1, <1>2, <1>3, <2>1 DEF Decided, reply
  <2> QED
    BY <1>1, <1>3, <2>2 DEF RInv, MetadataFits, StructuredFits, BinaryFits, Meanings, reply
<1>4. CASE /\ Len(prefix) >= SignatureLength
           /\ IF SupportedSignature THEN Classify("archive") ELSE pc' = "blank" /\ UNCHANGED reply
           /\ UNCHANGED wire
  <2>1. SupportedSignature <=> Signed
    <3>1. \A i \in 1 .. SignatureLength : i \in 1 .. Len(prefix)
      BY <1>4, Numbers DEF SignatureLength
    <3>2. \A i \in 1 .. SignatureLength : Kept[i] = body[i]
      BY <1>1, <3>1, KeptIs
    <3>3. Len(Kept) >= SignatureLength /\ Len(body) >= SignatureLength
      <4>1. Len(Kept) = Len(prefix) /\ Len(prefix) <= Len(body)
        BY <1>1, KeptIs
      <4> QED
        BY <1>4, <4>1, Numbers DEF SignatureLength
    <3> QED
      BY <3>2, <3>3 DEF SupportedSignature, Signed
  <2>2. UNCHANGED <<raw, received, failure>>
    BY <1>4 DEF wire
  <2>3. CASE Signed
    <3>1. Len(prefix) <= received
      BY <1>1 DEF Inspected
    <3>2. IsArchive'
      BY <1>2, <1>4, <2>2, <2>3, <3>1, Numbers DEF IsArchive, Signed, SignatureLength
    <3>3. ~ LeadsWith("lt")'
      <4>1. ~ LeadsWith("lt")
        BY <2>3, OneBeginning
      <4> QED
        BY <1>2, <4>1 DEF LeadsWith
    <3>4. ~ IsEnvelope'
      BY <3>3 DEF IsEnvelope
    <3>5. Classify("archive")
      BY <1>4, <2>1, <2>3
    <3> QED
      BY <1>1, <3>2, <3>4, <3>5, ClassifiedFits
  <2>4. CASE ~ Signed
    BY <1>3, <1>4, <2>1, <2>2, <2>4
  <2> QED
    BY <2>3, <2>4
<1>5. CASE /\ Len(prefix) < SignatureLength /\ EndOfBody
           /\ pc' = "blank" /\ UNCHANGED reply
  <2>1. received = Len(prefix)
    BY <1>1, <1>5, Numbers DEF Inspected, SignatureLength
  <2>2. received = Len(body) /\ UNCHANGED received /\ raw' = "spent"
    BY <1>1, <1>5 DEF EndOfBody, IInv, Wire, Forwarding, Types, ProgressOK
  <2>3. ~ Signed
    BY <1>5, <2>1, <2>2, Numbers DEF Signed, SignatureLength
  <2> QED
    BY <1>3, <1>5, <2>2, <2>3
<1>6. CASE /\ Len(prefix) < SignatureLength /\ \E kind \in Failures : Staged(kind)
           /\ Classify("unrecognized")
  <2>1. received = Len(prefix)
    BY <1>1, <1>6, Numbers DEF Inspected, SignatureLength
  <2>2. received' = received /\ failure' \in Failures
    BY <1>6 DEF Staged, Break
  <2>3. ~ IsArchive'
    BY <1>6, <2>1, <2>2, Numbers DEF IsArchive, SignatureLength
  <2>4. ~ IsEnvelope'
    BY <2>2 DEF IsEnvelope, Complete, Failures
  <2> QED
    BY <1>1, <1>6, <2>3, <2>4, ClassifiedFits
<1> QED
  BY <1>4, <1>5, <1>6 DEF SniffEnds

LEMMA ReadOnBreaksFits == IInv /\ RInv /\ ReadOnBreaks => RInv'
<1> SUFFICES ASSUME IInv, RInv, ReadOnBreaks PROVE RInv'
  OBVIOUS
<1>1. /\ pc \in Sniffing /\ UNCHANGED <<response, reading, stream>> /\ ~ Signed
      /\ Classify("unrecognized")
  BY DEF ReadOnBreaks, Sniffing, RInv, Decided
<1>2. received' = received /\ failure' \in Failures
  BY DEF ReadOnBreaks, Staged, Break
<1>3. ~ IsArchive'
  BY <1>1, <1>2, Numbers DEF IsArchive, Signed, response, SignatureLength
<1>4. ~ IsEnvelope'
  BY <1>2 DEF IsEnvelope, Complete, Failures
<1> QED
  BY <1>1, <1>3, <1>4, ClassifiedFits

LEMMA BlankEndsFits == IInv /\ RInv /\ BlankEnds => RInv'
<1> SUFFICES ASSUME IInv, RInv, BlankEnds PROVE RInv'
  OBVIOUS
<1>1. /\ pc = "blank" /\ pc \in Sniffing /\ UNCHANGED <<response, reading, stream>> /\ ~ Signed
      /\ Inspected /\ result = "none" /\ ~ metadata
      /\ raw = "live" => Len(prefix) >= SignatureLength
  BY DEF BlankEnds, Sniffing, RInv, Decided
<1>2. received' = received /\ (raw' = "live" => raw = "live")
  BY DEF BlankEnds, EndOfBody, wire
<1>3. UNCHANGED <<body, prefix, limit>> /\ Signed' = Signed /\ LeadsWith("lt")' = LeadsWith("lt")
  BY <1>1 DEF response, reading, Signed, LeadsWith
<1>4. CASE Candidate
  <2>1. pc' = "candidate" /\ UNCHANGED reply
    BY <1>4 DEF BlankEnds
  <2>2. LeadsWith("lt")
    BY <1>1, <1>4, CandidateLeads
  <2>3. Inspected'
    BY <1>1, <1>2, <1>3, <2>1 DEF Inspected
  <2>4. Decided'
    BY <1>1, <1>2, <1>3, <2>1, <2>2, <2>3 DEF Decided, reply
  <2> QED
    BY <1>1, <2>1, <2>4 DEF RInv, MetadataFits, StructuredFits, BinaryFits, Meanings, reply
<1>5. CASE ~ Candidate
  <2>1. Classify("unrecognized")
    BY <1>5 DEF BlankEnds
  <2>2. ~ IsArchive'
    BY <1>1, <1>2, <1>3, Numbers DEF IsArchive, Signed, SignatureLength
  <2>3. ~ IsEnvelope'
    <3> SUFFICES ASSUME IsEnvelope' PROVE FALSE
      OBVIOUS
    <3>1. received = Len(body) /\ Len(body) <= limit /\ LeadsWith("lt")
      BY <1>2, <1>3 DEF IsEnvelope, Complete
    <3> QED
      BY <1>1, <1>5, <3>1, WholeCandidate
  <2> QED
    BY <1>1, <2>1, <2>2, <2>3, ClassifiedFits
<1> QED
  BY <1>4, <1>5

LEMMA CandidateEndsFits == IInv /\ RInv /\ CandidateEnds => RInv'
<1> SUFFICES ASSUME IInv, RInv, CandidateEnds PROVE RInv'
  OBVIOUS
<1>1. /\ pc \in Sniffing /\ UNCHANGED <<response, reading, stream>> /\ ~ Signed
      /\ Inspected /\ LeadsWith("lt") /\ pc # "returned"
  BY DEF CandidateEnds, Sniffing, RInv, Decided
<1>2. UNCHANGED <<body, prefix, limit, meaning>> /\ LeadsWith("lt")' = LeadsWith("lt")
  BY <1>1 DEF response, reading, LeadsWith
<1>3. UNCHANGED <<received, failure>>
  BY DEF CandidateEnds, EndOfBody, wire
<1>4. ~ IsArchive'
  BY <1>1, <1>2, <1>3, Numbers DEF IsArchive, Signed, SignatureLength
<1>5. CASE Reading
  <2>1. EndOfBody
    BY <1>5 DEF CandidateEnds
  <2>2. received = Len(body) /\ failure = "none"
    <3>1. /\ raw = "live" => failure = "none"
          /\ raw = "spent" => failure = "none" /\ received = Len(body)
      BY <1>1 DEF IInv, Wire, Given, Forwarding
    <3> QED
      BY <2>1, <3>1 DEF EndOfBody, IInv, Types, ProgressOK
  <2>3. Len(body) <= limit
    BY <1>1, <1>5, <2>2, Numbers DEF Inspected, Reading
  <2>4. Complete'
    BY <1>2, <1>3, <2>2, <2>3 DEF Complete
  <2>5. IsEnvelope' <=> meaning = "status"
    BY <1>1, <1>2, <2>4 DEF IsEnvelope
  <2>6. Classify(IF meaning = "status" THEN "status" ELSE "unrecognized")
    BY <1>5 DEF CandidateEnds
  <2>7. CASE meaning = "status"
    BY <1>1, <1>4, <2>5, <2>6, <2>7, ClassifiedFits
  <2>8. CASE meaning # "status"
    BY <1>1, <1>4, <2>5, <2>6, <2>8, ClassifiedFits
  <2> QED
    BY <2>7, <2>8
<1>6. CASE ~ Reading
  <2>1. received > limit
    BY <1>1, <1>6, Numbers DEF Inspected, Reading
  <2>2. ~ IsEnvelope'
    BY <1>2, <1>3, <2>1, Numbers DEF IsEnvelope, Complete
  <2>3. Classify("unrecognized")
    BY <1>6 DEF CandidateEnds
  <2> QED
    BY <1>1, <1>4, <2>2, <2>3, ClassifiedFits
<1> QED
  BY <1>5, <1>6

(* What the call returned stays, whatever becomes of its stream. *)
LEMMA StreamedFits ==
  ASSUME IInv, RInv, Streaming, UNCHANGED <<response, pc, reply>>, out' # <<>> \/ last' # "none"
  PROVE  RInv'
<1>1. pc = "returned" /\ result \in {"archive", "unrecognized"}
  BY DEF Streaming
<1>2. call # "structured"
  BY <1>1 DEF RInv, Decided
<1>3. UNCHANGED <<call, success, result, metadata, pc>>
  BY DEF response, reply
<1>4. Decided'
  BY <1>1, <1>2, <1>3 DEF Decided, Sniffing
<1>5. MetadataFits'
  BY <1>3 DEF RInv, MetadataFits
<1>6. StructuredFits' /\ BinaryFits'
  BY <1>2, <1>3 DEF StructuredFits, BinaryFits
<1> QED
  BY <1>4, <1>5, <1>6 DEF RInv

LEMMA ReplayFits == IInv /\ RInv /\ Replay => RInv'
<1> SUFFICES ASSUME IInv, RInv, Replay PROVE RInv'
  OBVIOUS
<1> DEFINE first == Head(replay)[1]
           end   == Head(replay)[2]
           given == [i \in 1 .. end - first + 1 |-> first + i - 1]
<1>1. Streaming /\ UNCHANGED <<response, pc, reply>> /\ out' = out \o given /\ replay # <<>>
  BY DEF Replay
<1>2. /\ Contiguous(replay, Len(out) + 1, received)
      /\ replay \in Seq((1 .. MaxBody) \X (1 .. MaxBody))
  BY <1>1 DEF Streaming, IInv, ToCome, Forwarding, Types, ReadingOK
<1>3. first <= end /\ first \in 1 .. MaxBody /\ end \in 1 .. MaxBody
  <2>1. 1 \in 1 .. Len(replay) /\ Head(replay) = replay[1]
    <3>1. Len(replay) \in Nat /\ Len(replay) # 0 /\ Head(replay) = replay[1]
      BY <1>1, <1>2, EmptySeq, LenProperties, HeadTailProperties
    <3> QED
      BY <3>1
  <2>2. replay[1] \in (1 .. MaxBody) \X (1 .. MaxBody)
    BY <1>2, <2>1, ElementOfSeq
  <2>3. replay[1][1] <= replay[1][2]
    BY <1>2, <2>1 DEF Contiguous
  <2> QED
    BY <2>1, <2>2, <2>3
<1> HIDE DEF first, end
<1>4. given \in Seq(Nat) /\ Len(given) # 0
  <2>1. PICK n \in Nat \ {0} : n = end - first + 1
    BY <1>3
  <2>2. [i \in 1 .. n |-> first + i - 1] \in [1 .. n -> Nat]
    BY <1>3
  <2>3. [i \in 1 .. n |-> first + i - 1] \in Seq(Nat)
    <3> DEFINE f == [i \in 1 .. n |-> first + i - 1]
    <3>1. n \in Nat /\ f \in [1 .. n -> Nat]
      BY <2>1, <2>2
    <3> HIDE DEF f
    <3>2. f \in Seq(Nat)
      BY <3>1
    <3> QED
      BY <3>2 DEF f
  <2>4. Len([i \in 1 .. n |-> first + i - 1]) = n
    BY <2>1, <2>3
  <2> QED
    BY <2>1, <2>3, <2>4
<1> HIDE DEF given
<1>5. out \in Seq(Nat)
  <2>1. out \in Seq(1 .. MaxBody) /\ 1 .. MaxBody \subseteq Nat
    BY Numbers DEF IInv, Types, StreamOK
  <2>2. Len(out) \in Nat /\ out \in [1 .. Len(out) -> 1 .. MaxBody]
    BY <2>1, LenProperties
  <2>3. out \in [1 .. Len(out) -> Nat]
    BY <2>1, <2>2
  <2> QED
    BY <2>2, <2>3
<1>6. out' # <<>>
  <2>1. Len(out') = Len(out) + Len(given)
    BY <1>1, <1>4, <1>5, ConcatProperties
  <2>2. Len(out') # 0
    BY <1>4, <1>5, <2>1, LenProperties
  <2> QED
    BY <2>2
<1> QED
  BY <1>1, <1>6, StreamedFits

LEMMA RemainingFits == IInv /\ RInv /\ Remaining => RInv'
<1> SUFFICES ASSUME IInv, RInv, Remaining PROVE RInv'
  OBVIOUS
<1>1. Streaming /\ UNCHANGED <<response, pc, reply>> /\ last = "none"
  BY DEF Remaining, Streaming
<1>2. out' # <<>> \/ last' # "none"
  <2>1. CASE \E n \in 1 .. MaxBody : Chunk(n) /\ out' = out \o Coming(n) /\ UNCHANGED last
    <3>1. PICK n \in 1 .. MaxBody : Chunk(n) /\ out' = out \o Coming(n)
      BY <2>1
    <3>2. n \in Nat \ {0} /\ received + n <= MaxBody
      BY <3>1, Numbers DEF Chunk
    <3>3. Coming(n) \in Seq(1 .. MaxBody) /\ Len(Coming(n)) = n
      BY <3>2, ComingIs, Numbers
    <3>4. out \in Seq(1 .. MaxBody)
      BY DEF IInv, Types, StreamOK
    <3>5. Len(out') = Len(out) + n /\ Len(out) \in Nat
      BY <3>1, <3>3, <3>4, ConcatProperties, LenProperties
    <3>6. Len(out') # 0
      BY <3>2, <3>5
    <3> QED
      BY <3>6
  <2>2. CASE \/ \E kind \in Failures : Break(kind) /\ last' = kind
             \/ raw = "error" /\ last' = failure
             \/ last' = "end"
    <3>1. raw = "error" => failure \in Failures
      BY <1>1 DEF IInv, Wire, Forwarding, Streaming
    <3> QED
      BY <2>2, <3>1 DEF Failures
  <2> QED
    BY <2>1, <2>2 DEF Remaining
<1> QED
  BY <1>1, <1>2, StreamedFits

LEMMA NextFits == IInv /\ RInv /\ [Next]_vars => RInv'
<1> SUFFICES ASSUME IInv, RInv, [Next]_vars PROVE RInv'
  OBVIOUS
<1>1. CASE UNCHANGED vars
  <2>1. UNCHANGED <<response, pc, wire, reading, reply, stream>>
    BY <1>1 DEF vars
  <2>2. Decided' = Decided
    BY <2>1 DEF Decided, Inspected, Signed, LeadsWith, response, wire, reading, reply
  <2>3. MetadataFits' = MetadataFits /\ StructuredFits' = StructuredFits
    BY <2>1 DEF MetadataFits, StructuredFits, Complete, Evidence, response, wire, reply
  <2>4. /\ IsArchive' = IsArchive /\ IsEnvelope' = IsEnvelope
        /\ UNCHANGED <<pc, call, metadata, last, out, success, result, evidence, safe>>
    BY <2>1 DEF IsArchive, IsEnvelope, Complete, LeadsWith, response, wire, reply, stream
  <2>5. BinaryFits' = BinaryFits
    BY <2>4 DEF BinaryFits
  <2> QED
    BY <2>2, <2>3, <2>5 DEF RInv
<1>2. CASE Next
  BY <1>2, SendFits, BufferFits, BufferBreaksFits, InterpretFits, SniffFits, SniffEndsFits,
     ReadOnFits, ReadOnBreaksFits, BlankEndsFits, CandidateEndsFits, ReplayFits, RemainingFits
     DEF Next
<1> QED
  BY <1>1, <1>2

(* Whatever the response, however the wire cuts it and whenever it fails,  *)
(* what a call returns is what the response is: the interpretation of a    *)
(* whole body within the limit, an archive by its whole signature, a       *)
(* failing status with its metadata (client.rs receive_structured,         *)
(* classify_binary, http_status_error).                                    *)
THEOREM ReplyAlwaysFits == Spec => []ReplyFits
<1>1. RInv => ReplyFits
  BY DEF RInv, MetadataFits, StructuredFits, BinaryFits, ReplyFits
<1> QED
  BY <1>1, InitEstablishes, NextKeeps, InitDecides, NextFits, PTL DEF Spec

-----------------------------------------------------------------------------
(* The end of a call. *)

(* The places that a call may still go through. *)
Ahead(place) ==
  CASE place = "send" -> 4
    [] place \in {"buffer", "sniff"} -> 3
    [] place = "blank" -> 2
    [] place = "candidate" -> 1
    [] OTHER -> 0

(* The steps that a call and its stream may still take: a byte to come may *)
(* be a chunk to read and one to replay.                                   *)
Left ==
  2 * (Len(body) - received) + Len(replay) + Ahead(pc) + (IF last = "none" THEN 1 ELSE 0)

(* A step reads a chunk, goes on, gives a chunk to the caller, or ends the *)
(* caller's stream.                                                        *)
Reads ==
  /\ \E n \in Nat \ {0} : received' = received + n
  /\ Len(replay') \in {Len(replay), Len(replay) + 1}
  /\ Ahead(pc') <= Ahead(pc) /\ UNCHANGED last
GoesOn == UNCHANGED <<received, replay, last>> /\ Ahead(pc') < Ahead(pc)
Gives  == UNCHANGED <<received, pc, last>> /\ replay # <<>> /\ replay' = Tail(replay)
Ends   == UNCHANGED <<received, replay, pc>> /\ last = "none" /\ last' # "none"

LEMMA NextAdvances == IInv /\ Next => UNCHANGED body /\ (Reads \/ GoesOn \/ Gives \/ Ends)
<1> SUFFICES ASSUME IInv, Next PROVE UNCHANGED body /\ (Reads \/ GoesOn \/ Gives \/ Ends)
  OBVIOUS
<1>1. \A place : Ahead(place) \in 0 .. 4 /\ Ahead("returned") = 0
  BY DEF Ahead
<1>2. \A n : Chunk(n) => n \in Nat \ {0} /\ received' = received + n
  BY Numbers DEF Chunk
<1>3. ASSUME NEW n, Retained(n) PROVE Len(replay') = Len(replay) + 1
  BY <1>3, AppendProperties DEF Retained, IInv, Types, ReadingOK
<1>4. \A what : Classify(what) => pc' = "returned"
  BY DEF Classify, Return, HttpStatus
<1>5. CASE Send
  BY <1>5 DEF Send, Return, GoesOn, Ahead, response, reading, stream, reply
<1>6. CASE Buffer
  <2>1. PICK n : /\ Chunk(n) /\ pc' \in {pc, "returned"}
    BY <1>6 DEF Buffer, Return, HttpStatus
  <2>2. pc = "buffer" /\ UNCHANGED <<body, replay, last>>
    BY <1>6 DEF Buffer, response, stream
  <2>3. Ahead(pc') <= Ahead(pc)
    BY <2>1, <2>2 DEF Ahead
  <2> QED
    BY <1>2, <2>1, <2>2, <2>3 DEF Reads
<1>7. CASE BufferBreaks \/ Interpret
  <2>1. /\ pc = "buffer" /\ pc' = "returned" /\ UNCHANGED <<body, received, replay, last>>
    BY <1>7 DEF BufferBreaks, Interpret, Break, EndOfBody, Return, HttpStatus, response, reading, stream
  <2> QED
    BY <2>1 DEF GoesOn, Ahead
<1>8. CASE Sniff \/ ReadOn
  <2>1. PICK n : Chunk(n) /\ Retained(n)
    BY <1>8 DEF Sniff, ReadOn
  <2>2. UNCHANGED <<body, pc, last>>
    BY <1>8 DEF Sniff, ReadOn, response, stream
  <2>3. Ahead(pc') <= Ahead(pc)
    BY <1>1, <2>2
  <2> QED
    BY <1>2, <1>3, <2>1, <2>2, <2>3 DEF Reads
<1>9. CASE SniffEnds
  <2>1. pc = "sniff" /\ pc' \in {"blank", "returned"}
    BY <1>4, <1>9 DEF SniffEnds
  <2>2. UNCHANGED <<body, received, replay, last>>
    BY <1>9 DEF SniffEnds, EndOfBody, Staged, Break, wire, response, reading, stream
  <2> QED
    BY <2>1, <2>2 DEF GoesOn, Ahead
<1>10. CASE ReadOnBreaks
  <2>1. pc \in {"blank", "candidate"} /\ pc' = "returned"
    BY <1>4, <1>10 DEF ReadOnBreaks
  <2>2. UNCHANGED <<body, received, replay, last>>
    BY <1>10 DEF ReadOnBreaks, Staged, Break, response, reading, stream
  <2> QED
    BY <2>1, <2>2 DEF GoesOn, Ahead
<1>11. CASE BlankEnds
  <2>1. pc = "blank" /\ pc' \in {"candidate", "returned"}
    BY <1>4, <1>11 DEF BlankEnds
  <2>2. UNCHANGED <<body, received, replay, last>>
    BY <1>11 DEF BlankEnds, EndOfBody, wire, response, reading, stream
  <2> QED
    BY <2>1, <2>2 DEF GoesOn, Ahead
<1>12. CASE CandidateEnds
  <2>1. pc = "candidate" /\ pc' = "returned"
    BY <1>4, <1>12 DEF CandidateEnds
  <2>2. UNCHANGED <<body, received, replay, last>>
    BY <1>12 DEF CandidateEnds, EndOfBody, wire, response, reading, stream
  <2> QED
    BY <2>1, <2>2 DEF GoesOn, Ahead
<1>13. CASE Replay
  BY <1>13 DEF Replay, Gives, response, wire
<1>14. CASE Remaining
  <2>1. /\ Streaming /\ last = "none" /\ Forwarding /\ UNCHANGED <<body, pc, replay>>
    BY <1>14 DEF Remaining, Streaming, Forwarding, response, reading
  <2>2. CASE \E n \in 1 .. MaxBody : Chunk(n) /\ UNCHANGED last
    <3>1. Ahead(pc') <= Ahead(pc)
      BY <1>1, <2>1
    <3> QED
      BY <1>2, <2>1, <2>2, <3>1 DEF Reads
  <2>3. CASE \E kind \in Failures : Break(kind) /\ last' = kind
    BY <2>1, <2>3 DEF Ends, Break, Failures
  <2>4. CASE raw = "error" /\ last' = failure /\ UNCHANGED received
    <3>1. failure \in Failures
      BY <2>1, <2>4 DEF IInv, Wire
    <3> QED
      BY <2>1, <2>4, <3>1 DEF Ends, Failures
  <2>5. CASE EndOfBody /\ last' = "end"
    BY <2>1, <2>5 DEF Ends, EndOfBody
  <2> QED
    BY <1>14, <2>2, <2>3, <2>4, <2>5 DEF Remaining
<1> QED
  BY <1>5, <1>6, <1>7, <1>8, <1>9, <1>10, <1>11, <1>12, <1>13, <1>14 DEF Next

LEMMA LeftNumber == IInv => Left \in Nat
<1> SUFFICES ASSUME IInv PROVE Left \in Nat
  OBVIOUS
<1>1. Len(body) \in Nat /\ received \in Nat /\ received <= Len(body) /\ Len(replay) \in Nat
  BY Numbers, BodyLength, LenProperties, ClientAssumption DEF IInv, Types, ResponseOK, ProgressOK, ReadingOK
<1>2. Ahead(pc) \in 0 .. 4
  BY DEF Ahead
<1> DEFINE ahead == Ahead(pc)
           open  == IF last = "none" THEN 1 ELSE 0
           bytes == Len(body)
           kept  == Len(replay)
<1>3. Left = 2 * (bytes - received) + kept + ahead + open /\ open \in 0 .. 1
  BY DEF Left
<1> HIDE DEF ahead, open, bytes, kept
<1> QED
  BY <1>1, <1>2, <1>3 DEF ahead, bytes, kept

(* A call ends and so does its stream: each step leaves fewer to take,     *)
(* however the wire cuts the body (client.rs execute to poll_next: no loop *)
(* goes round without a chunk).                                            *)
THEOREM CallAdvances ==
  Spec => [](Left \in Nat) /\ [][Left' \in 0 .. Left - 1]_vars
<1>1. IInv /\ IInv' /\ [Next]_vars => [Left' \in 0 .. Left - 1]_vars
  <2> SUFFICES ASSUME IInv, IInv', Next PROVE Left' \in 0 .. Left - 1
    OBVIOUS
  <2>1. UNCHANGED body /\ (Reads \/ GoesOn \/ Gives \/ Ends)
    BY NextAdvances
  <2>2. Left \in Nat /\ Left' \in Nat
    <3>1. (Left \in Nat)'
      BY LeftNumber, PTL
    <3> QED
      BY <3>1, LeftNumber
  <2>3. /\ Len(body) \in Nat /\ received \in Nat /\ Len(replay) \in Nat
        /\ received' \in Nat /\ Len(replay') \in Nat
    BY Numbers, BodyLength, LenProperties, ClientAssumption DEF IInv, Types, ResponseOK, ProgressOK, ReadingOK
  <2>4. Ahead(pc) \in 0 .. 4 /\ Ahead(pc') \in 0 .. 4
    BY DEF Ahead
  <2> DEFINE ahead == Ahead(pc)
             next  == Ahead(pc')
             open  == IF last = "none" THEN 1 ELSE 0
             still == IF last' = "none" THEN 1 ELSE 0
             bytes == Len(body)
             kept  == Len(replay)
             left  == Len(replay')
  <2>5. /\ Left  = 2 * (bytes - received) + kept + ahead + open
        /\ Left' = 2 * (bytes - received') + left + next + still
        /\ open \in 0 .. 1 /\ still \in 0 .. 1
    BY <2>1 DEF Left
  <2>6. CASE Reads
    <3>1. PICK n \in Nat \ {0} : received' = received + n
      BY <2>6 DEF Reads
    <3>2. left \in {kept, kept + 1} /\ next <= ahead /\ still = open
      BY <2>6 DEF Reads
    <3>3. bytes \in Nat /\ kept \in Nat /\ ahead \in Nat /\ next \in Nat
      BY <2>3, <2>4
    <3> HIDE DEF ahead, next, open, still, bytes, kept, left
    <3> QED
      BY <2>2, <2>3, <2>5, <3>1, <3>2, <3>3
  <2>7. CASE GoesOn
    <3>1. left = kept /\ next < ahead /\ still = open /\ received' = received
      BY <2>7 DEF GoesOn
    <3>2. bytes \in Nat /\ kept \in Nat /\ ahead \in Nat /\ next \in Nat
      BY <2>3, <2>4
    <3> HIDE DEF ahead, next, open, still, bytes, kept, left
    <3> QED
      BY <2>2, <2>3, <2>5, <3>1, <3>2
  <2>8. CASE Gives
    <3>1. left = kept - 1
      BY <2>8, HeadTailProperties DEF Gives, IInv, Types, ReadingOK
    <3>2. next = ahead /\ still = open /\ received' = received
      BY <2>8 DEF Gives
    <3>3. bytes \in Nat /\ kept \in Nat /\ ahead \in Nat
      BY <2>3, <2>4
    <3> HIDE DEF ahead, next, open, still, bytes, kept, left
    <3> QED
      BY <2>2, <2>3, <2>5, <3>1, <3>2, <3>3
  <2>9. CASE Ends
    <3>1. left = kept /\ next = ahead /\ open = 1 /\ still = 0 /\ received' = received
      BY <2>9 DEF Ends
    <3>2. bytes \in Nat /\ kept \in Nat /\ ahead \in Nat
      BY <2>3, <2>4
    <3> HIDE DEF ahead, next, open, still, bytes, kept, left
    <3> QED
      BY <2>2, <2>3, <2>5, <3>1, <3>2
  <2> QED
    BY <2>1, <2>6, <2>7, <2>8, <2>9
<1> QED
  BY <1>1, LeftNumber, InitEstablishes, NextKeeps, PTL DEF Spec
=============================================================================

---------------------------- MODULE ClientResponse ----------------------------
(***************************************************************************)
(* One call of the SDK's HTTP client (sdk/rust/crates/opendart/src/        *)
(* client.rs) from the sending of the request to the last byte taken from  *)
(* its response.  execute and execute_raw buffer a bounded body and read   *)
(* its envelope.  execute_binary reads as much as it takes to tell a ZIP   *)
(* archive, a status envelope in XML and anything else apart, and hands    *)
(* out a stream that gives what it had read again before the rest.         *)
(*                                                                         *)
(* The bytes of a body are known by their class.  The wire cuts the body   *)
(* into chunks as it likes, and fails or passes the deadline at any read.  *)
(* A byte order mark is blank: like white space it decides nothing.        *)
(*                                                                         *)
(* An operator Mutant<X> is X with a plausible slip in the code.  No       *)
(* specification uses it: it replaces X when a property is shown to fail   *)
(* without what the code does.                                             *)
(***************************************************************************)
EXTENDS Integers, Sequences

CONSTANTS
  MaxBody,  (* the length of the longest body                              *)
  Limits    (* the values of envelope_limit                                *)

ASSUME ClientAssumption == MaxBody \in Nat /\ Limits \subseteq Nat \ {0}

SignatureLength == 4

VARIABLES
  call,      (* the request: structured, a binary one, or one without ZIP   *)
  limit,     (* WireInspector.max_envelope_bytes                            *)
  body,      (* the classes of the bytes of the response                    *)
  meaning,   (* what the inspector makes of the whole body                  *)
  safe,      (* the envelope does not repeat the API key                    *)
  success,   (* the HTTP status is one of 200 to 299                        *)
  pc,        (* where the call is                                           *)
  raw,       (* the raw stream: live, one error ahead, or at its end        *)
  received,  (* the bytes read from the wire                                *)
  failure,   (* how the wire failed                                         *)
  prefix,    (* the positions of the bytes kept for inspection              *)
  replay,    (* the chunks read by classify_binary, first and last position *)
  out,       (* the positions of the bytes that the caller got              *)
  result,    (* what the call returned                                      *)
  evidence,  (* the evidence in an HttpStatus error                         *)
  metadata,  (* the response metadata came with the result                  *)
  last       (* how the caller's stream ended                               *)

response == <<call, limit, body, meaning, safe, success>>
wire     == <<raw, received, failure>>
reading  == <<prefix, replay>>
reply    == <<result, evidence, metadata>>
stream   == <<out, last>>
vars     == <<response, pc, wire, reading, reply, stream>>

Meanings == {"success", "status", "malformed", "mismatch"}
Failures == {"timeout", "transport"}
Results  == {"success", "status", "malformed", "mismatch", "archive", "unrecognized",
             "representation", "transport", "httpStatus", "bodyLimit"}

(* A signature stands at the start of a body or it is no signature. *)
Bodies == UNION {{b \in [1 .. n -> {"sig", "blank", "lt", "text"}] :
                   \A i \in 1 .. n : b[i] = "sig" =>
                      i <= SignatureLength /\ \A j \in 1 .. i : b[j] = "sig"}
                 : n \in 0 .. MaxBody}

(* The type of the state.  A structured call never keeps more than its     *)
(* limit, however many chunks the body comes in.                           *)
ClientTypeOK ==
  /\ call \in {"structured", "zip", "notZip"} /\ limit \in Limits
  /\ body \in Bodies /\ meaning \in Meanings
  /\ safe \in BOOLEAN /\ success \in BOOLEAN
  /\ pc \in {"send", "buffer", "sniff", "blank", "candidate", "returned"}
  /\ raw \in {"live", "error", "spent"}
  /\ received \in 0 .. Len(body)
  /\ failure \in Failures \cup {"none"}
  /\ prefix \in Seq(1 .. MaxBody)
  /\ call = "structured" => Len(prefix) <= limit
  /\ replay \in Seq((1 .. MaxBody) \X (1 .. MaxBody))
  /\ out \in Seq(1 .. MaxBody)
  /\ result \in Results \cup {"none"} /\ evidence \in Meanings \cup {"none"}
  /\ metadata \in BOOLEAN
  /\ last \in Failures \cup {"none", "end"}

Init ==
  /\ call \in {"structured", "zip", "notZip"} /\ limit \in Limits
  /\ body \in Bodies /\ meaning \in Meanings
  /\ safe \in BOOLEAN /\ success \in BOOLEAN
  /\ pc = "send" /\ raw = "live" /\ received = 0 /\ failure = "none"
  /\ prefix = <<>> /\ replay = <<>> /\ out = <<>>
  /\ result = "none" /\ evidence = "none" /\ metadata = FALSE /\ last = "none"

-----------------------------------------------------------------------------
(* The wire: a response and ReqwestBodyStream. *)

Chunk(n) ==
  /\ raw = "live"
  /\ n \in 1 .. Len(body) - received
  /\ received' = received + n
  /\ UNCHANGED <<raw, failure>>

(* The deadline has passed, or the transport failed. *)
Break(kind) ==
  /\ raw = "live"
  /\ failure' = kind
  /\ UNCHANGED received

EndOfBody ==
  /\ raw = "live" => received = Len(body)
  /\ raw # "error"
  /\ raw' = "spent"
  /\ UNCHANGED <<received, failure>>

(* The positions of the first n bytes that come next. *)
Coming(n) == [i \in 1 .. n |-> received + i]
Lesser(a, b)  == IF a < b THEN a ELSE b
Greater(a, b) == IF a < b THEN b ELSE a

Return(what, known) ==
  /\ pc' = "returned"
  /\ result' = what
  /\ evidence' = "none"
  /\ metadata' = known

MutantHttpStatus(proof) == Return("transport", TRUE)
(* http_status_error: the status wins over what became of the body. *)
HttpStatus(proof) ==
  /\ pc' = "returned"
  /\ result' = "httpStatus"
  /\ evidence' = proof
  /\ metadata' = TRUE

(* The refusal of a request without ZIP; the failure before any header.    *)
Send ==
  /\ pc = "send"
  /\ \/ call = "notZip" /\ Return("representation", FALSE) /\ UNCHANGED failure
     \/ /\ call # "notZip"
        /\ \/ /\ \E kind \in Failures : failure' = kind
              /\ Return("transport", FALSE)
           \/ /\ pc' = IF call = "structured" THEN "buffer" ELSE "sniff"
              /\ UNCHANGED <<failure, reply>>
  /\ UNCHANGED <<response, raw, received, reading, stream>>

-----------------------------------------------------------------------------
(* receive_structured, then interpret_response or inspect_response. *)

MutantExceeds(n) == n > limit
Exceeds(n) == Len(prefix) + n > limit

Buffer ==
  /\ pc = "buffer"
  /\ \E n \in 1 .. MaxBody :
       /\ Chunk(n)
       /\ IF Exceeds(n)
          THEN /\ IF success THEN Return("bodyLimit", TRUE) ELSE HttpStatus("none")
               /\ UNCHANGED prefix
          ELSE prefix' = prefix \o Coming(n) /\ UNCHANGED <<pc, reply>>
  /\ UNCHANGED <<response, replay, stream>>

BufferBreaks ==
  /\ pc = "buffer"
  /\ \E kind \in Failures : Break(kind)
  /\ raw' = "spent"
  /\ IF success THEN Return("transport", TRUE) ELSE HttpStatus("none")
  /\ UNCHANGED <<response, reading, stream>>

(* Evidence: what can be read, and does not repeat the key. *)
Evidence == IF safe /\ meaning \in {"success", "status"} THEN meaning ELSE "none"

Interpret ==
  /\ pc = "buffer"
  /\ EndOfBody
  /\ IF success THEN Return(meaning, TRUE) ELSE HttpStatus(Evidence)
  /\ UNCHANGED <<response, reading, stream>>

-----------------------------------------------------------------------------
(* classify_binary *)

Kept == [i \in 1 .. Len(prefix) |-> body[prefix[i]]]

(* supported_zip_signature *)
SupportedSignature ==
  Len(Kept) >= SignatureLength /\ \A i \in 1 .. SignatureLength : Kept[i] = "sig"

(* xml_prefix_state *)
Inconclusive == \A i \in DOMAIN Kept : Kept[i] = "blank"
Candidate ==
  \E i \in DOMAIN Kept : Kept[i] = "lt" /\ \A j \in 1 .. i - 1 : Kept[j] = "blank"

MutantSniffed(n) == Lesser(n, limit + 1)
(* A whole signature is kept even when the limit is shorter. *)
Sniffed(n) == Lesser(n, Greater(limit + 1, SignatureLength))

(* One byte more than the limit tells that it is exceeded. *)
Limited(n) == Lesser(n, limit + 1 - Len(prefix))

MutantRetained(n) == UNCHANGED replay
(* Whole chunks are kept for the caller, whatever is inspected of them. *)
Retained(n) == replay' = Append(replay, <<received + 1, received + n>>)

MutantStaged(kind) == Break(kind) /\ raw' = "spent"
(* OneErrorStream: the error is put ahead again. *)
Staged(kind) == Break(kind) /\ raw' = "error"

Classify(what) ==
  IF success THEN Return(what, TRUE)
  ELSE HttpStatus(IF what = "status" /\ safe THEN "status" ELSE "none")

Reading == Len(prefix) <= limit

Sniff ==
  /\ pc = "sniff"
  /\ Len(prefix) < SignatureLength
  /\ \E n \in 1 .. MaxBody :
       Chunk(n) /\ prefix' = prefix \o Coming(Sniffed(n)) /\ Retained(n)
  /\ UNCHANGED <<response, pc, reply, stream>>

(* The first loop ends; the read of an error decides that nothing more is  *)
(* read, and without a whole signature that nothing is recognized.         *)
SniffEnds ==
  /\ pc = "sniff"
  /\ \/ /\ Len(prefix) >= SignatureLength
        /\ IF SupportedSignature THEN Classify("archive") ELSE pc' = "blank" /\ UNCHANGED reply
        /\ UNCHANGED wire
     \/ /\ Len(prefix) < SignatureLength /\ EndOfBody
        /\ pc' = "blank" /\ UNCHANGED reply
     \/ /\ Len(prefix) < SignatureLength /\ \E kind \in Failures : Staged(kind)
        /\ Classify("unrecognized")
  /\ UNCHANGED <<response, reading, stream>>

(* The second loop, while there is only white space, and the third, over   *)
(* what may be XML, read alike.                                            *)
ReadOn ==
  /\ pc \in {"blank", "candidate"}
  /\ pc = "blank" => Inconclusive
  /\ Reading
  /\ \E n \in 1 .. MaxBody :
       Chunk(n) /\ prefix' = prefix \o Coming(Limited(n)) /\ Retained(n)
  /\ UNCHANGED <<response, pc, reply, stream>>

ReadOnBreaks ==
  /\ pc \in {"blank", "candidate"}
  /\ pc = "blank" => Inconclusive
  /\ Reading
  /\ \E kind \in Failures : Staged(kind)
  /\ Classify("unrecognized")
  /\ UNCHANGED <<response, reading, stream>>

BlankEnds ==
  /\ pc = "blank"
  /\ \/ Inconclusive /\ Reading /\ EndOfBody
     \/ ~ (Inconclusive /\ Reading) /\ UNCHANGED wire
  /\ IF Candidate THEN pc' = "candidate" /\ UNCHANGED reply
     ELSE Classify("unrecognized")
  /\ UNCHANGED <<response, reading, stream>>

CandidateEnds ==
  /\ pc = "candidate"
  /\ \/ Reading /\ EndOfBody
     \/ ~ Reading /\ UNCHANGED wire
  /\ Classify(IF Reading /\ meaning = "status" THEN "status" ELSE "unrecognized")
  /\ UNCHANGED <<response, reading, stream>>

-----------------------------------------------------------------------------
(* BodyStream::poll_next, called for the caller. *)

Streaming == pc = "returned" /\ result \in {"archive", "unrecognized"} /\ last = "none"

Replay ==
  /\ Streaming /\ replay # <<>>
  /\ out' = out \o [i \in 1 .. Head(replay)[2] - Head(replay)[1] + 1
                      |-> Head(replay)[1] + i - 1]
  /\ replay' = Tail(replay)
  /\ UNCHANGED <<response, pc, wire, prefix, reply, last>>

Remaining ==
  /\ Streaming /\ replay = <<>>
  /\ \/ \E n \in 1 .. MaxBody : Chunk(n) /\ out' = out \o Coming(n) /\ UNCHANGED last
     \/ /\ \E kind \in Failures : Break(kind) /\ last' = kind
        /\ raw' = "spent" /\ UNCHANGED out
     \/ /\ raw = "error" /\ last' = failure
        /\ raw' = "spent" /\ UNCHANGED <<received, failure, out>>
     \/ EndOfBody /\ last' = "end" /\ UNCHANGED out
  /\ UNCHANGED <<response, pc, reading, reply>>

Next ==
  \/ Send
  \/ Buffer \/ BufferBreaks \/ Interpret
  \/ Sniff \/ SniffEnds \/ ReadOn \/ ReadOnBreaks \/ BlankEnds \/ CandidateEnds
  \/ Replay \/ Remaining

Spec == Init /\ [][Next]_vars

-----------------------------------------------------------------------------
(* The bytes that the caller gets are those of the body, in order and      *)
(* once, though classify_binary has read some of them before.  The stream  *)
(* ends after the last byte, or with the error that befell the wire after  *)
(* every byte that had arrived before it.                                  *)
BytesOnceInOrder ==
  /\ \A i \in 1 .. Len(out) : out[i] = i
  /\ last # "none" => Len(out) = received
  /\ last = "end" => failure = "none" /\ received = Len(body)
  /\ last \in Failures => last = failure

(* What a call returns depends on the response alone and never on how the  *)
(* wire cut it into chunks: an archive begins with a whole signature, only *)
(* a whole body within the limit is a status or is interpreted, and a      *)
(* status other than success is reported with the metadata, whatever       *)
(* becomes of the body.                                                    *)
LeadsWith(class) ==
  \E i \in 1 .. Len(body) : body[i] = class /\ \A j \in 1 .. i - 1 : body[j] = "blank"
Complete   == failure = "none" /\ received = Len(body) /\ Len(body) <= limit
IsArchive  == received >= SignatureLength /\ \A i \in 1 .. SignatureLength : body[i] = "sig"
IsEnvelope == Complete /\ LeadsWith("lt") /\ meaning = "status"

ReplyFits ==
  /\ metadata /\ ~ success => result = "httpStatus"
  /\ result = "httpStatus" => metadata /\ ~ success
  /\ result \in {"archive", "unrecognized", "bodyLimit"} \cup Meanings => metadata
  /\ pc = "returned" /\ call = "structured" /\ metadata =>
       /\ success /\ Complete => result = meaning
       /\ result \in Meanings => Complete
       /\ result = "bodyLimit" => received > limit
       /\ ~ success => evidence = IF Complete THEN Evidence ELSE "none"
  /\ pc = "returned" /\ call = "zip" /\ metadata /\ last = "none" /\ out = <<>> =>
       /\ success => result = CASE IsArchive -> "archive"
                                [] IsEnvelope -> "status"
                                [] OTHER -> "unrecognized"
       /\ ~ success => evidence = IF IsEnvelope /\ safe THEN "status" ELSE "none"
=============================================================================

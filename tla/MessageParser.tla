---------------------------- MODULE MessageParser ----------------------------
(***************************************************************************)
(* MessageParser (src/netlib/serialization.h): one end sends messages, the *)
(* other collects what recv gives it and cuts messages off the front.      *)
(*                                                                         *)
(* A byte is its position in the stream.  The stream is known by its       *)
(* length and by what each call wrote: from where on, and how much of each *)
(* of its parts.  A byte that is not the first of a struct is content, and *)
(* when the parser looks for a type there it may find any.                 *)
(*                                                                         *)
(* X_Flaw, before a definition X, is X with a plausible mistake in it.     *)
(***************************************************************************)
EXTENDS Integers, Sequences, FiniteSets

CONSTANTS
  REQUEST, RESPONSE, HEADER,   \* sizes of the packed structs
  RECV,                        \* size of temp_buf
  Payloads,                    \* sizes of payloads (bound)
  MaxSends,                    \* calls of the send functions (bound)
  MaxBreaks                    \* those in which a send fails (bound)

ASSUME SizesAssumption ==
  /\ REQUEST \in Nat \ {0} /\ RESPONSE \in Nat \ {0} /\ HEADER \in Nat \ {0}
  /\ RECV \in Nat \ {0}
  /\ Payloads \in SUBSET Nat
  /\ MaxSends \in Nat
  /\ MaxBreaks \in Nat

\* What a call sends: a type, and the size of what follows the struct.
AuthRequest  == [type |-> "AUTH_REQUEST", data_size |-> 0]
AuthResponse == [type |-> "AUTH_RESPONSE", data_size |-> 0]
DataPkt(n)   == [type |-> "DATA_PKT", data_size |-> n]
Messages     == {AuthRequest, AuthResponse} \cup {DataPkt(n) : n \in Payloads}

\* The size of the struct, and what the parser waits for in all.
StructSize(msg) ==
  CASE msg.type = "AUTH_REQUEST"  -> REQUEST
    [] msg.type = "AUTH_RESPONSE" -> RESPONSE
    [] msg.type = "DATA_PKT"      -> HEADER
Size(msg) == StructSize(msg) + msg.data_size

\* sendDataPkt sends the header, and sendPacketPayload sends it once more
\* before the payload.
SecondSize(msg) == IF msg.type = "DATA_PKT" THEN HEADER ELSE 0

VARIABLES
  sent,            \* the calls of the send functions: what, and from where on
  written,         \* the length of the stream
  closed,          \* the sender's end is closed, or broken
  received,        \* recv_buffer_.size(): the buffer is never compacted
  parsed_bytes_,
  reading,         \* readMessage: "no", or its argument, "wait" or "once"
  results          \* what readMessage has returned with true

vars == <<sent, written, closed, received, parsed_bytes_, reading, results>>

Calls == 1..MaxSends

\* A call: the message, where in the stream it begins, and what was written
\* of the struct, of the second header and of the payload.
Sent == [msg : Messages, at : Nat, first : Nat, second : Nat, rest : Nat]
Length(s) == s.first + s.second + s.rest
Whole(s) == /\ s.first = StructSize(s.msg) /\ s.second = SecondSize(s.msg)
            /\ s.rest = s.msg.data_size

\* A result: the message, the call that wrote its struct (0 if none did), and
\* where the parser has taken it from.
Result(msg, call, at) == [msg |-> msg, call |-> call, at |-> at]
Results == [msg : Messages, call : Calls \cup {0}, at : Nat]

TypeOK ==
  /\ sent \in Seq(Sent) /\ Len(sent) <= MaxSends
  /\ written \in Nat /\ received \in Nat /\ parsed_bytes_ \in Nat
  /\ parsed_bytes_ <= received /\ received <= written
  /\ closed \in BOOLEAN
  /\ reading \in {"no", "wait", "once"}
  /\ results \in Seq(Results)

Init ==
  /\ sent = << >> /\ written = 0 /\ closed = FALSE
  /\ received = 0 /\ parsed_bytes_ = 0 /\ reading = "no" /\ results = << >>

-----------------------------------------------------------------------------
(* The sending end.                                                        *)

Calling(s) ==
  /\ ~closed /\ Len(sent) < MaxSends
  /\ sent' = Append(sent, s)
  /\ written' = written + Length(s)
  /\ UNCHANGED <<closed, received, parsed_bytes_, reading, results>>

\* sendAuthRequest, sendAuthResponce, sendDataPkt: sendAll goes on until the
\* socket has taken everything.
Send(msg) ==
  Calling([msg |-> msg, at |-> written, first |-> StructSize(msg),
           second |-> SecondSize(msg), rest |-> msg.data_size])

\* A send() fails, and with it the part it belongs to.  Nobody looks at what
\* sendAll returns: the call goes on with its next part, the caller with its
\* next call.
SendBreaks(msg) ==
  /\ Cardinality({k \in 1..Len(sent) : ~Whole(sent[k])}) < MaxBreaks
  /\ \E first \in 0..StructSize(msg), second \in 0..SecondSize(msg),
        rest \in 0..msg.data_size :
       LET s == [msg |-> msg, at |-> written, first |-> first,
                 second |-> second, rest |-> rest]
       IN  ~Whole(s) /\ Calling(s)

\* Nothing is written behind it.
CloseSender ==
  /\ ~closed
  /\ closed' = TRUE
  /\ UNCHANGED <<sent, written, received, parsed_bytes_, reading, results>>

-----------------------------------------------------------------------------
(* The receiving end.                                                      *)

ReadMessage ==
  /\ reading = "no"
  /\ reading' \in {"wait", "once"}
  /\ UNCHANGED <<sent, written, closed, received, parsed_bytes_, results>>

\* The calls that have written the beginning of a struct at p.
StructsAt(p) ==
  {k \in 1..Len(sent) :
     \/ p = sent[k].at /\ sent[k].first > 0
     \/ p = sent[k].at + sent[k].first /\ sent[k].second > 0}

\* The struct at p is all there.
Intact(s, p) ==
  \/ p = s.at /\ s.first = StructSize(s.msg)
  \/ p = s.at + s.first /\ s.second = HEADER

\* What tryParseMessage may take the bytes at p for.  Of a struct that was cut
\* off it sees the type, and other bytes in place of the data_size; in the
\* middle of content it sees anything.
Found(p) ==
  IF StructsAt(p) = {} THEN {Result(msg, 0, p) : msg \in Messages}
  ELSE UNION {IF Intact(sent[k], p) THEN {Result(sent[k].msg, k, p)}
              ELSE {Result(msg, 0, p) :
                      msg \in {m \in Messages : m.type = sent[k].msg.type}}
                : k \in StructsAt(p)}

\* required_size of an AuthResponse, copied from parseAuthRequest.
Required_CopyPaste(msg) == IF msg = AuthResponse THEN REQUEST ELSE Size(msg)

\* required_size, or total_size of a data packet.
Required(msg) == Size(msg)

Complete(msg, size) == size - parsed_bytes_ >= Required(msg)

\* parseAuthRequest, parseAuthResponse, parseDataPacket.
Parse(result, size) ==
  IF Complete(result.msg, size)
    THEN /\ results' = Append(results, result)
         /\ parsed_bytes_' = parsed_bytes_ + Required(result.msg)
         /\ reading' = "no"
    ELSE UNCHANGED <<parsed_bytes_, results, reading>>

\* A message that has begun in an earlier recv is not looked at again.
TryParseMessage_Fresh(size) ==
  IF parsed_bytes_ < received
    THEN UNCHANGED <<parsed_bytes_, results, reading>>
    ELSE \E result \in Found(parsed_bytes_) : Parse(result, size)

\* One message at most, or one byte of an unknown type.
TryParseMessage(size) ==
  \/ \E result \in Found(parsed_bytes_) : Parse(result, size)
  \/ /\ StructsAt(parsed_bytes_) = {}
     /\ parsed_bytes_' = parsed_bytes_ + 1
     /\ UNCHANGED <<results, reading>>

\* recv gives something: it is appended, and there is one attempt to parse.
Receive ==
  /\ reading # "no"
  /\ \E n \in 1..RECV :
       /\ received + n <= written
       /\ received' = received + n
       /\ TryParseMessage(received + n)
  /\ UNCHANGED <<sent, written, closed>>

\* EAGAIN, and the caller did not want to wait; otherwise recv is called
\* again.
Timeout ==
  /\ reading = "once"
  /\ received = written /\ ~closed
  /\ reading' = "no"
  /\ UNCHANGED <<sent, written, closed, received, parsed_bytes_, results>>

\* The end of the stream: false, whatever is in the buffer.
EndOfStream ==
  /\ reading # "no"
  /\ received = written /\ closed
  /\ reading' = "no"
  /\ UNCHANGED <<sent, written, closed, received, parsed_bytes_, results>>

Next ==
  \/ \E msg \in Messages : Send(msg) \/ SendBreaks(msg)
  \/ CloseSender
  \/ ReadMessage \/ Receive \/ Timeout \/ EndOfStream

SafetySpec == Init /\ [][Next]_vars

\* The application reads in a loop, and what was written arrives.
Spec == SafetySpec /\ WF_vars(ReadMessage) /\ WF_vars(Receive)

-----------------------------------------------------------------------------
\* Among the calls before the k-th there is none with a part missing, and no
\* data packet: the second header comes before its payload, and behind it the
\* parser is out of step.
InStep(k) ==
  \A i \in 1..Len(sent) : i < k => Whole(sent[i]) /\ sent[i].msg.type # "DATA_PKT"

\* Wherever recv cuts the stream, and whether or not readMessage returns in
\* the middle of a message, the structs come out as they were sent and in
\* their order, up to that of the first data packet.  Of that packet it is
\* the header only: PayloadDamaged is about the payload.
StructsInOrder ==
  \A k \in 1..Len(results) :
    InStep(k) =>
      /\ k <= Len(sent)
      /\ Whole(sent[k]) => results[k] = Result(sent[k].msg, k, sent[k].at)

\* Where the payload of a call went, and where parseDataPacket takes one from.
PayloadSent(s)  == LET from == s.at + s.first + s.second
                   IN  from .. (from + s.rest - 1)
PayloadTaken(r) == (r.at + HEADER) .. (r.at + HEADER + r.msg.data_size - 1)

\* The first data packet never comes out with the payload that was sent: what
\* stands behind its header is the second header (serialization.h:204, 101,
\* 263).
PayloadDamaged ==
  \A k \in 1..Len(results) :
    InStep(k) /\ Whole(sent[k]) /\ sent[k].msg.data_size > 0 =>
      PayloadTaken(results[k]) # PayloadSent(sent[k])

\* The next message is returned when its last byte has come.  (It is not if
\* the last byte came together with the message before it: readMessage calls
\* recv before it looks into the buffer, serialization.h:129.)
MessageReturned ==
  \A k \in Calls :
    /\ k <= Len(sent) /\ InStep(k) /\ Whole(sent[k]) /\ Len(results) = k - 1
    /\ received < sent[k].at + Size(sent[k].msg)
    /\ sent[k].at + Size(sent[k].msg) <= written
    ~> Len(results) >= k
=============================================================================

------------------------- MODULE MessageParserProofs -------------------------
(***************************************************************************)
(* Theorems about MessageParser, for every size of the structs, of the     *)
(* payloads and of what recv gives at a time.                              *)
(***************************************************************************)
EXTENDS MessageParser, SequenceTheorems, TLAPS

-----------------------------------------------------------------------------
(* Sizes.                                                                  *)

IsData(msg) == msg.type = "DATA_PKT"

LEMMA Sizes ==
  ASSUME NEW msg \in Messages
  PROVE  /\ StructSize(msg) \in Nat \ {0} /\ SecondSize(msg) \in Nat
         /\ msg.data_size \in Nat
         /\ Size(msg) \in Nat \ {0}
         /\ IsData(msg) => (StructSize(msg) = HEADER /\ SecondSize(msg) = HEADER)
         /\ ~IsData(msg) => SecondSize(msg) = 0
<1>1. msg.data_size \in Nat /\ msg.type \in {"AUTH_REQUEST", "AUTH_RESPONSE", "DATA_PKT"}
  BY SizesAssumption DEF Messages, AuthRequest, AuthResponse, DataPkt
<1>2. StructSize(msg) \in Nat \ {0}
  BY <1>1, SizesAssumption DEF StructSize
<1> QED
  BY <1>1, <1>2, SizesAssumption DEF Size, SecondSize, StructSize, IsData

LEMMA Lengths ==
  ASSUME NEW s \in Sent
  PROVE  /\ Length(s) \in Nat /\ s.at \in Nat /\ s.msg \in Messages
         /\ s.first \in Nat /\ s.second \in Nat /\ s.rest \in Nat
         /\ Whole(s) => s.first > 0
         /\ Whole(s) /\ ~IsData(s.msg) => Length(s) = Size(s.msg)
<1>1. /\ s.at \in Nat /\ s.msg \in Messages
      /\ s.first \in Nat /\ s.second \in Nat /\ s.rest \in Nat
  BY DEF Sent
<1> QED
  BY <1>1, Sizes DEF Length, Whole, Size

-----------------------------------------------------------------------------
(* Types.                                                                  *)

LEMMA TypeInit == Init => TypeOK
<1>1. << >> \in Seq(Sent) /\ << >> \in Seq(Results) /\ Len(<< >>) = 0
  BY EmptySeq
<1>2. Init => closed \in BOOLEAN /\ reading \in {"no", "wait", "once"}
  BY DEF Init
<1>3. Init => /\ sent \in Seq(Sent) /\ results \in Seq(Results) /\ Len(sent) <= MaxSends
  BY <1>1, SizesAssumption DEF Init
<1>4. Init => /\ written \in Nat /\ received \in Nat /\ parsed_bytes_ \in Nat
              /\ parsed_bytes_ <= received /\ received <= written
  BY DEF Init
<1> QED
  BY <1>2, <1>3, <1>4 DEF TypeOK

LEMMA FoundType ==
  ASSUME TypeOK, NEW p \in Nat, NEW result \in Found(p)
  PROVE  result \in Results
<1>1. \A k \in 1..Len(sent) : sent[k] \in Sent /\ k \in Calls
  BY SizesAssumption DEF TypeOK, Calls
<1>2. \A k \in 1..Len(sent) : sent[k].msg \in Messages
  BY <1>1 DEF Sent
<1>3. CASE StructsAt(p) = {}
  BY <1>3 DEF Found, Result, Results
<1>4. CASE StructsAt(p) # {}
  <2>1. PICK k \in StructsAt(p) :
          result \in IF Intact(sent[k], p) THEN {Result(sent[k].msg, k, p)}
                    ELSE {Result(msg, 0, p) :
                            msg \in {m \in Messages : m.type = sent[k].msg.type}}
    BY <1>4 DEF Found
  <2>2. k \in Calls /\ sent[k].msg \in Messages
    BY <1>1, <1>2 DEF StructsAt
  <2> QED
    BY <2>1, <2>2 DEF Result, Results
<1> QED
  BY <1>3, <1>4

\* What every call does, whole or not.
LEMMA CallIs ==
  ASSUME TypeOK, NEW msg \in Messages, Send(msg) \/ SendBreaks(msg)
  PROVE  \E s \in Sent : s.at = written /\ Calling(s)
<1>1. written \in Nat
  BY DEF TypeOK
<1>2. CASE Send(msg)
  <2> DEFINE c == [msg |-> msg, at |-> written, first |-> StructSize(msg),
                   second |-> SecondSize(msg), rest |-> msg.data_size]
  <2>1. c \in Sent /\ c.at = written
    BY <1>1, Sizes DEF Sent
  <2>2. Calling(c)
    BY <1>2 DEF Send
  <2> HIDE DEF c
  <2> QED
    BY <2>1, <2>2
<1>3. CASE SendBreaks(msg)
  <2>1. PICK first \in 0..StructSize(msg), second \in 0..SecondSize(msg),
             rest \in 0..msg.data_size :
          Calling([msg |-> msg, at |-> written, first |-> first,
                   second |-> second, rest |-> rest])
    BY <1>3 DEF SendBreaks
  <2> DEFINE c == [msg |-> msg, at |-> written, first |-> first,
                   second |-> second, rest |-> rest]
  <2>2. c \in Sent /\ c.at = written
    BY <1>1, Sizes DEF Sent
  <2>3. Calling(c)
    BY <2>1
  <2> HIDE DEF c
  <2> QED
    BY <2>2, <2>3
<1> QED
  BY <1>2, <1>3

LEMMA CallAppends ==
  ASSUME TypeOK, NEW s \in Sent, s.at = written, Calling(s)
  PROVE  /\ sent' \in Seq(Sent)
         /\ Len(sent) \in Nat /\ Len(sent') = Len(sent) + 1
         /\ \A i \in 1..Len(sent) : sent'[i] = sent[i]
         /\ sent'[Len(sent) + 1] = s
<1>1. sent' = Append(sent, s)
  BY DEF Calling
<1>2. sent \in Seq(Sent)
  BY DEF TypeOK
<1> QED
  BY <1>1, <1>2, AppendProperties, LenProperties

LEMMA TypeCall ==
  ASSUME TypeOK, NEW s \in Sent, s.at = written, Calling(s)
  PROVE  TypeOK'
<1> USE DEF TypeOK
<1>1. sent' \in Seq(Sent) /\ Len(sent') = Len(sent) + 1
  BY CallAppends
<1>2. Len(sent') <= MaxSends
  BY <1>1, LenProperties, SizesAssumption DEF Calling
<1>3. written' \in Nat /\ written <= written'
  BY Lengths DEF Calling
<1> QED
  BY <1>1, <1>2, <1>3 DEF Calling

LEMMA TypeReceive == ASSUME TypeOK, Receive PROVE TypeOK'
<1> USE DEF TypeOK
<1>1. PICK n \in 1..RECV :
        /\ received + n <= written /\ received' = received + n
        /\ TryParseMessage(received + n)
  BY DEF Receive
<1>2. received' \in Nat /\ received' <= written /\ received < received'
  BY <1>1, SizesAssumption
<1>3. CASE \E result \in Found(parsed_bytes_) : Parse(result, received + n)
  <2>1. PICK result \in Found(parsed_bytes_) : Parse(result, received + n)
    BY <1>3
  <2>2. result \in Results
    BY <2>1, FoundType
  <2>3. CASE Complete(result.msg, received + n)
    <3>1. Size(result.msg) \in Nat
      BY <2>2, Sizes DEF Results
    <3>2. parsed_bytes_' \in Nat /\ parsed_bytes_' <= received'
      BY <1>1, <2>1, <2>3, <3>1 DEF Parse, Complete, Required
    <3>3. results' \in Seq(Results)
      BY <2>1, <2>2, <2>3 DEF Parse
    <3> QED
      BY <1>2, <2>1, <2>3, <3>2, <3>3 DEF Parse, Receive
  <2>4. CASE ~Complete(result.msg, received + n)
    BY <1>2, <2>1, <2>4 DEF Parse, Receive
  <2> QED
    BY <2>3, <2>4
<1>4. CASE parsed_bytes_' = parsed_bytes_ + 1 /\ UNCHANGED <<results, reading>>
  BY <1>2, <1>4 DEF Receive
<1> QED
  BY <1>1, <1>3, <1>4 DEF TryParseMessage

Quiet == CloseSender \/ ReadMessage \/ Timeout \/ EndOfStream \/ UNCHANGED vars

LEMMA QuietKeeps ==
  Quiet => UNCHANGED <<sent, written, received, parsed_bytes_, results>> /\ (closed => closed')
BY DEF Quiet, CloseSender, ReadMessage, Timeout, EndOfStream, vars

LEMMA TypeQuiet == TypeOK /\ Quiet => TypeOK'
BY DEF Quiet, CloseSender, ReadMessage, Timeout, EndOfStream, vars, TypeOK

LEMMA StepSplit ==
  TypeOK /\ [Next]_vars =>
    (\E s \in Sent : s.at = written /\ Calling(s)) \/ Receive \/ Quiet
BY CallIs DEF Next, Quiet

LEMMA TypeStep == TypeOK /\ [Next]_vars => TypeOK'
BY StepSplit, TypeCall, TypeReceive, TypeQuiet

\* The parser never reads past what it has received (parseAuthRequest,
\* parseAuthResponse, parseDataPacket), not even out of step.
THEOREM ParserTypeCorrect == SafetySpec => []TypeOK
BY TypeInit, TypeStep, PTL DEF SafetySpec

-----------------------------------------------------------------------------
(* The inductive invariant.                                                *)

\* The calls write one behind the other.
Layout ==
  /\ \A i, j \in 1..Len(sent) : i < j => sent[i].at + Length(sent[i]) <= sent[j].at
  /\ \A i \in 1..Len(sent) :
       /\ sent[i].at + Length(sent[i]) <= written
       /\ i < Len(sent) => sent[i + 1].at = sent[i].at + Length(sent[i])
       /\ i = Len(sent) => sent[i].at + Length(sent[i]) = written
  /\ sent = << >> => written = 0

\* While it is in step, the parser stands where the next call began, if that
\* has written all of its parts.
Front ==
  InStep(Len(results) + 1) =>
    /\ Len(results) <= Len(sent)
    /\ Len(results) < Len(sent) /\ Whole(sent[Len(results) + 1]) =>
         parsed_bytes_ = sent[Len(results) + 1].at
    /\ Len(results) = Len(sent) => parsed_bytes_ = written

Inv == TypeOK /\ Layout /\ Front /\ StructsInOrder

LEMMA InvInit == Init => Inv
BY TypeInit DEF Init, Inv, Layout, Front, StructsInOrder

\* What is known of the calls.
LEMMA CallTypes ==
  ASSUME TypeOK
  PROVE  /\ Len(sent) \in Nat /\ Len(results) \in Nat
         /\ \A i \in 1..Len(sent) :
              /\ sent[i] \in Sent
              /\ sent[i].msg \in Messages /\ sent[i].at \in Nat
              /\ Length(sent[i]) \in Nat /\ Size(sent[i].msg) \in Nat \ {0}
<1>1. sent \in Seq(Sent) /\ results \in Seq(Results)
  BY DEF TypeOK
<1>2. Len(sent) \in Nat /\ Len(results) \in Nat
  BY <1>1, LenProperties
<1>3. \A i \in 1..Len(sent) : sent[i] \in Sent
  BY <1>1, ElementOfSeq
<1>4. \A i \in 1..Len(sent) : sent[i].msg \in Messages /\ sent[i].at \in Nat
  BY <1>3 DEF Sent
<1> QED
  BY <1>2, <1>3, <1>4, Sizes, Lengths

-----------------------------------------------------------------------------
(* A call.                                                                 *)

LEMMA LayoutCall ==
  ASSUME TypeOK, Layout, NEW s \in Sent, s.at = written, Calling(s)
  PROVE  Layout'
<1> DEFINE n == Len(sent)
<1>1. /\ n \in Nat /\ Len(sent') = n + 1 /\ sent' # << >>
      /\ \A i \in 1..n : sent'[i] = sent[i]
      /\ sent'[n + 1] = s
  <2>1. /\ sent' \in Seq(Sent) /\ n \in Nat /\ Len(sent') = n + 1
        /\ \A i \in 1..n : sent'[i] = sent[i]
        /\ sent'[n + 1] = s
    BY CallAppends
  <2>2. Len(<< >>) = 0
    BY EmptySeq
  <2>3. sent' # << >>
    BY <2>1, <2>2
  <2> QED
    BY <2>1, <2>3
<1>2. /\ written \in Nat /\ Length(s) \in Nat
      /\ written' = written + Length(s)
  BY Lengths DEF Calling, TypeOK
<1>3. \A i \in 1..n : /\ sent[i].at \in Nat /\ Length(sent[i]) \in Nat
                     /\ sent[i].at + Length(sent[i]) <= written
  BY CallTypes DEF Layout
<1>4. \A i, j \in 1..(n + 1) :
        i < j => sent'[i].at + Length(sent'[i]) <= sent'[j].at
  <2> SUFFICES ASSUME NEW i \in 1..(n + 1), NEW j \in 1..(n + 1), i < j
               PROVE  sent'[i].at + Length(sent'[i]) <= sent'[j].at
    OBVIOUS
  <2>1. i \in 1..n
    BY <1>1
  <2>2. CASE j = n + 1
    BY <1>1, <1>3, <2>1, <2>2
  <2>3. CASE j # n + 1
    <3>1. j \in 1..n
      BY <1>1, <2>3
    <3> QED
      BY <1>1, <2>1, <3>1 DEF Layout
  <2> QED
    BY <2>2, <2>3
<1>5. ASSUME NEW i \in 1..(n + 1)
      PROVE  /\ sent'[i].at + Length(sent'[i]) <= written'
             /\ i < n + 1 => sent'[i + 1].at = sent'[i].at + Length(sent'[i])
             /\ i = n + 1 => sent'[i].at + Length(sent'[i]) = written'
  <2>1. CASE i = n + 1
    BY <1>1, <1>2, <2>1
  <2>2. CASE i = n
    <3>1. i \in 1..n /\ i + 1 = n + 1
      BY <1>1, <2>2
    <3>2. sent'[i] = sent[i] /\ sent'[i + 1].at = written
      BY <1>1, <3>1
    <3>3. written = sent[i].at + Length(sent[i])
      BY <2>2, <3>1 DEF Layout
    <3> QED
      BY <1>1, <1>2, <1>3, <2>2, <3>1, <3>2, <3>3
  <2>3. CASE i < n
    <3>1. i \in 1..n /\ i + 1 \in 1..n
      BY <1>1, <2>3
    <3>2. sent'[i] = sent[i] /\ sent'[i + 1] = sent[i + 1]
      BY <1>1, <3>1
    <3>3. sent[i + 1].at = sent[i].at + Length(sent[i])
      BY <2>3, <3>1 DEF Layout
    <3> QED
      BY <1>1, <1>2, <1>3, <2>3, <3>1, <3>2, <3>3
  <2> QED
    BY <1>1, <2>1, <2>2, <2>3
<1> QED
  BY <1>1, <1>4, <1>5 DEF Layout

\* A call leaves alone what the parser has to do with the calls before it.
LEMMA InStepCall ==
  ASSUME TypeOK, NEW s \in Sent, s.at = written, Calling(s),
         NEW k \in Nat, InStep(k)'
  PROVE  InStep(k)
<1>1. /\ Len(sent) \in Nat /\ Len(sent') = Len(sent) + 1
      /\ \A i \in 1..Len(sent) : sent'[i] = sent[i]
  BY CallAppends
<1>2. \A i \in 1..Len(sent') :
        i < k => Whole(sent'[i]) /\ sent'[i].msg.type # "DATA_PKT"
  BY DEF InStep
<1> QED
  BY <1>1, <1>2 DEF InStep

LEMMA FrontCall ==
  ASSUME Inv, NEW s \in Sent, s.at = written, Calling(s)
  PROVE  Front' /\ StructsInOrder'
<1> DEFINE n == Len(sent)
           m == Len(results)
<1>1. /\ n \in Nat /\ Len(sent') = n + 1
      /\ \A i \in 1..n : sent'[i] = sent[i]
      /\ sent'[n + 1] = s
  BY CallAppends DEF Inv
<1>2. m \in Nat /\ results' = results /\ parsed_bytes_' = parsed_bytes_
  BY CallTypes DEF Inv, Calling
<1>3. Front'
  <2> SUFFICES ASSUME InStep(m + 1)'
               PROVE  /\ m <= n + 1
                      /\ m < n + 1 /\ Whole(sent'[m + 1]) =>
                           parsed_bytes_ = sent'[m + 1].at
                      /\ m # n + 1
    BY <1>1, <1>2 DEF Front
  <2>1. InStep(m + 1)
    BY <1>2, InStepCall DEF Inv
  <2>2. /\ m <= n
        /\ m < n /\ Whole(sent[m + 1]) => parsed_bytes_ = sent[m + 1].at
        /\ m = n => parsed_bytes_ = written
    BY <2>1 DEF Inv, Front
  <2>3. CASE m = n
    BY <1>1, <2>2, <2>3
  <2>4. CASE m < n
    <3>1. sent'[m + 1] = sent[m + 1]
      BY <1>1, <1>2, <2>4
    <3> QED
      BY <1>1, <1>2, <2>2, <2>4, <3>1
  <2> QED
    BY <1>1, <1>2, <2>2, <2>3, <2>4
<1>4. StructsInOrder'
  <2> SUFFICES ASSUME NEW k \in 1..m, InStep(k)'
               PROVE  /\ k <= n + 1
                      /\ Whole(sent'[k]) => results[k] = Result(sent'[k].msg, k, sent'[k].at)
    BY <1>1, <1>2 DEF StructsInOrder
  <2>1. k \in Nat /\ InStep(k)
    BY <1>2, InStepCall DEF Inv
  <2>2. k <= n /\ (Whole(sent[k]) => results[k] = Result(sent[k].msg, k, sent[k].at))
    BY <2>1 DEF Inv, StructsInOrder
  <2> QED
    BY <1>1, <1>2, <2>1, <2>2
<1> QED
  BY <1>3, <1>4

-----------------------------------------------------------------------------
(* A message comes off the front of the stream.                            *)

LEMMA LayoutReceive == ASSUME Layout, Receive PROVE Layout'
BY DEF Layout, Receive

\* In step, what stands at the front is the next message, and nothing else.
LEMMA FoundInStep ==
  ASSUME Inv, InStep(Len(results) + 1), parsed_bytes_ < written
  PROVE  /\ Len(results) < Len(sent)
         /\ Whole(sent[Len(results) + 1]) =>
              /\ parsed_bytes_ = sent[Len(results) + 1].at
              /\ StructsAt(parsed_bytes_) # {}
              /\ Found(parsed_bytes_) =
                   {Result(sent[Len(results) + 1].msg, Len(results) + 1, parsed_bytes_)}
<1> DEFINE n == Len(sent)
           m == Len(results)
           p == parsed_bytes_
<1>1. /\ n \in Nat /\ m \in Nat /\ p \in Nat
      /\ \A i \in 1..n : sent[i] \in Sent
  BY CallTypes DEF Inv, TypeOK
<1>2. \A i \in 1..n : /\ sent[i].at \in Nat /\ Length(sent[i]) \in Nat
                     /\ sent[i].first \in Nat /\ sent[i].second \in Nat
                     /\ sent[i].rest \in Nat
  BY <1>1, Lengths
<1>3. m < n /\ m + 1 \in 1..n
  BY <1>1 DEF Inv, Front, TypeOK
<1> SUFFICES ASSUME Whole(sent[m + 1])
             PROVE  /\ p = sent[m + 1].at
                    /\ StructsAt(p) # {}
                    /\ Found(p) = {Result(sent[m + 1].msg, m + 1, p)}
  BY <1>3
<1>4. p = sent[m + 1].at /\ sent[m + 1].first > 0
  <2>1. sent[m + 1] \in Sent
    BY <1>1, <1>3
  <2>2. sent[m + 1].first > 0
    BY <2>1, Lengths
  <2> QED
    BY <1>3, <2>2 DEF Inv, Front
<1>5. m + 1 \in StructsAt(p)
  BY <1>3, <1>4 DEF StructsAt
<1>6. ASSUME NEW j \in StructsAt(p) PROVE j = m + 1
  <2>1. /\ j \in 1..n
        /\ p >= sent[j].at /\ p < sent[j].at + Length(sent[j])
    <3>1. /\ j \in 1..n
          /\ \/ p = sent[j].at /\ sent[j].first > 0
             \/ p = sent[j].at + sent[j].first /\ sent[j].second > 0
      BY DEF StructsAt
    <3>2. /\ sent[j].at \in Nat /\ sent[j].first \in Nat
          /\ sent[j].second \in Nat /\ sent[j].rest \in Nat
      BY <1>2, <3>1
    <3>3. Length(sent[j]) = sent[j].first + sent[j].second + sent[j].rest
      BY DEF Length
    <3> HIDE DEF p
    <3>4. CASE p = sent[j].at /\ sent[j].first > 0
      BY <3>1, <3>2, <3>3, <3>4
    <3>5. CASE p = sent[j].at + sent[j].first /\ sent[j].second > 0
      BY <3>1, <3>2, <3>3, <3>5
    <3> QED
      BY <3>1, <3>4, <3>5
  <2>2. CASE j < m + 1
    <3>1. sent[j].at + Length(sent[j]) <= sent[m + 1].at
      BY <1>3, <2>1, <2>2 DEF Inv, Layout
    <3> QED
      BY <1>1, <1>2, <1>3, <1>4, <2>1, <3>1
  <2>3. CASE j > m + 1
    <3>1. sent[m + 1].at + Length(sent[m + 1]) <= sent[j].at
      BY <1>3, <2>1, <2>3 DEF Inv, Layout
    <3>2. Length(sent[m + 1]) >= sent[m + 1].first
      BY <1>2, <1>3 DEF Length
    <3> QED
      BY <1>1, <1>2, <1>3, <1>4, <2>1, <3>1, <3>2
  <2> QED
    BY <1>1, <2>1, <2>2, <2>3
<1>7. StructsAt(p) = {m + 1}
  BY <1>5, <1>6
<1>8. Intact(sent[m + 1], p)
  BY <1>4 DEF Intact, Whole
<1>9. Found(p) = UNION {{Result(sent[k].msg, k, p)} : k \in {m + 1}}
  BY <1>7, <1>8 DEF Found
<1> QED
  BY <1>4, <1>7, <1>9

LEMMA FrontReceive ==
  ASSUME Inv, Receive
  PROVE  Front' /\ StructsInOrder'
<1> DEFINE n == Len(sent)
           m == Len(results)
<1>1. n \in Nat /\ m \in Nat /\ results \in Seq(Results)
  BY CallTypes DEF Inv, TypeOK
<1>2. sent' = sent /\ written' = written
  BY DEF Receive
<1>3. PICK d \in 1..RECV :
        received + d <= written /\ received' = received + d /\ TryParseMessage(received + d)
  BY DEF Receive
<1>4. parsed_bytes_ < written
  BY <1>3, SizesAssumption DEF Inv, TypeOK
<1>5. parsed_bytes_' \in Nat /\ parsed_bytes_' <= written
  BY <1>2, TypeReceive DEF Inv, TypeOK
<1>6. \A k : InStep(k)' <=> InStep(k)
  BY <1>2 DEF InStep
\* Not complete: the parser keeps its place.
<1>7. CASE UNCHANGED <<parsed_bytes_, results>>
  BY <1>2, <1>6, <1>7 DEF Inv, Front, StructsInOrder
\* A byte is skipped: out of step, or of a call that was cut off.
<1>8. CASE /\ StructsAt(parsed_bytes_) = {}
           /\ UNCHANGED results
  <2>1. InStep(m + 1) => m < n /\ ~Whole(sent[m + 1])
    BY <1>4, <1>8, FoundInStep
  <2> QED
    BY <1>1, <1>2, <1>6, <1>8, <2>1 DEF Inv, Front, StructsInOrder
\* A message is returned.
<1>9. ASSUME NEW result \in Found(parsed_bytes_),
             results' = Append(results, result),
             parsed_bytes_' = parsed_bytes_ + Required(result.msg)
      PROVE  Front' /\ StructsInOrder'
  <2>1. result \in Results
    BY FoundType DEF Inv, TypeOK
  <2>2. /\ Len(results') = m + 1
        /\ \A k \in 1..m : results'[k] = results[k]
        /\ results'[m + 1] = result
    BY <1>1, <1>9, <2>1, AppendProperties
  <2>3. InStep(m + 1) =>
          /\ m < n
          /\ Whole(sent[m + 1]) =>
               /\ parsed_bytes_ = sent[m + 1].at
               /\ result = Result(sent[m + 1].msg, m + 1, sent[m + 1].at)
    BY <1>1, <1>4, <1>9, FoundInStep
  <2>4. StructsInOrder'
    <3> SUFFICES ASSUME NEW k \in 1..(m + 1), InStep(k)
                 PROVE  /\ k <= n
                        /\ Whole(sent[k]) => results'[k] = Result(sent[k].msg, k, sent[k].at)
      BY <1>2, <1>6, <2>2 DEF StructsInOrder
    <3>1. CASE k = m + 1
      BY <1>1, <2>2, <2>3, <3>1
    <3>2. CASE k \in 1..m
      BY <2>2, <3>2 DEF Inv, StructsInOrder
    <3> QED
      BY <1>1, <3>1, <3>2
  <2>5. Front'
    <3> SUFFICES ASSUME InStep(m + 2)
                 PROVE  /\ m + 1 <= n
                        /\ m + 1 < n /\ Whole(sent[m + 2]) =>
                             parsed_bytes_' = sent[m + 2].at
                        /\ m + 1 = n => parsed_bytes_' = written
      <4>1. (m + 1) + 1 = m + 2
        BY <1>1
      <4> QED
        BY <1>2, <1>6, <2>2, <4>1 DEF Front
    <3>1. InStep(m + 1)
      BY <1>1 DEF InStep
    <3>2. m < n /\ m + 1 \in 1..n
      BY <1>1, <2>3, <3>1
    <3>3. Whole(sent[m + 1]) /\ ~IsData(sent[m + 1].msg)
      BY <1>1, <3>2 DEF InStep, IsData
    <3>4. parsed_bytes_' = sent[m + 1].at + Length(sent[m + 1])
      <4>1. parsed_bytes_ = sent[m + 1].at /\ result.msg = sent[m + 1].msg
        BY <2>3, <3>1, <3>3 DEF Result
      <4>2. sent[m + 1] \in Sent
        BY <3>2, CallTypes DEF Inv
      <4>3. Length(sent[m + 1]) = Size(sent[m + 1].msg)
        BY <3>3, <4>2, Lengths
      <4> QED
        BY <1>9, <4>1, <4>3 DEF Required
    <3>5. CASE m + 1 < n
      <4>1. sent[(m + 1) + 1].at = sent[m + 1].at + Length(sent[m + 1])
        BY <3>2, <3>5 DEF Inv, Layout
      <4>2. (m + 1) + 1 = m + 2
        BY <1>1
      <4> QED
        BY <1>1, <3>4, <3>5, <4>1, <4>2
    <3>6. CASE m + 1 = n
      BY <3>2, <3>4, <3>6 DEF Inv, Layout
    <3> QED
      BY <1>1, <3>2, <3>5, <3>6
  <2> QED
    BY <2>4, <2>5
<1> QED
  BY <1>3, <1>7, <1>8, <1>9 DEF TryParseMessage, Parse

-----------------------------------------------------------------------------
(* The theorem.                                                            *)

LEMMA QuietInv == Inv /\ Quiet => Inv'
<1> SUFFICES ASSUME Inv, Quiet PROVE Inv'
  OBVIOUS
<1>1. UNCHANGED <<sent, written, parsed_bytes_, results>> /\ (closed => closed')
  BY QuietKeeps
<1>2. TypeOK'
  BY TypeQuiet DEF Inv
<1>3. Layout'
  BY <1>1 DEF Inv, Layout
<1>4. Front' /\ StructsInOrder'
  BY <1>1 DEF Inv, Front, StructsInOrder, InStep
<1> QED
  BY <1>2, <1>3, <1>4 DEF Inv

LEMMA InvStep == Inv /\ [Next]_vars => Inv'
<1> SUFFICES ASSUME Inv, [Next]_vars PROVE Inv'
  OBVIOUS
<1>1. TypeOK'
  BY TypeStep DEF Inv
<1>2. ASSUME NEW s \in Sent, s.at = written, Calling(s) PROVE Inv'
  <2>1. Layout'
    BY <1>2, LayoutCall DEF Inv
  <2>2. Front' /\ StructsInOrder'
    BY <1>2, FrontCall
  <2> QED
    BY <1>1, <2>1, <2>2 DEF Inv
<1>3. CASE Receive
  <2>1. Layout'
    BY <1>3, LayoutReceive DEF Inv
  <2>2. Front' /\ StructsInOrder'
    BY <1>3, FrontReceive
  <2> QED
    BY <1>1, <2>1, <2>2 DEF Inv
<1>4. CASE Quiet
  BY <1>4, QuietInv
<1> QED
  BY <1>2, <1>3, <1>4, StepSplit DEF Inv

\* Wherever recv cuts the stream, readMessage returns the structs that were
\* sent, in their order, up to a call that was cut off and up to and including
\* the header of the first data packet (tryParseMessage and the three parsers,
\* against sendAuthRequest, sendAuthResponce and sendDataPkt).
THEOREM ParserStructsInOrder == SafetySpec => []StructsInOrder
<1>1. Inv => StructsInOrder
  BY DEF Inv
<1> QED
  BY <1>1, InvInit, InvStep, PTL DEF SafetySpec

LEMMA InvPayload == Inv => PayloadDamaged
<1> SUFFICES ASSUME Inv, NEW k \in 1..Len(results), InStep(k),
                    Whole(sent[k]), sent[k].msg.data_size > 0
             PROVE  PayloadTaken(results[k]) # PayloadSent(sent[k])
  BY DEF PayloadDamaged
<1> DEFINE s == sent[k]
<1>1. k \in 1..Len(sent) /\ results[k] = Result(s.msg, k, s.at)
  BY CallTypes DEF Inv, StructsInOrder
<1>2. s \in Sent /\ s.msg \in Messages /\ s.at \in Nat
  BY <1>1, CallTypes DEF Inv
<1>3. s.msg.data_size \in Nat \ {0} /\ s.first = HEADER /\ s.second = HEADER
  <2>1. IsData(s.msg)
    BY <1>2, SizesAssumption DEF Messages, AuthRequest, AuthResponse, DataPkt, IsData
  <2> QED
    BY <1>2, <2>1, Sizes DEF Whole
<1> HIDE DEF s
\* The first byte behind the header is taken, and is none of the payload.
<1>4. s.at + HEADER \in PayloadTaken(results[k])
  BY <1>1, <1>2, <1>3, SizesAssumption DEF PayloadTaken, Result
<1>5. s.at + HEADER \notin PayloadSent(s)
  BY <1>2, <1>3, SizesAssumption DEF PayloadSent
<1> QED
  BY <1>4, <1>5 DEF s

\* A data packet never arrives with the payload that was sent, whatever its
\* size: sendPacketPayload puts the header once more between the header and the
\* payload, and parseDataPacket takes data_size bytes from there.
THEOREM ParserPayloadDamaged == SafetySpec => []PayloadDamaged
BY InvPayload, InvInit, InvStep, PTL DEF SafetySpec

-----------------------------------------------------------------------------
(* A message is returned with its last byte.                               *)

\* Where the k-th message ends, for the parser.
EndOf(k) == sent[k].at + Size(sent[k].msg)

\* The recv that completes the next message returns it.
ReturnedWithLastByte ==
  \A k \in 1..Len(sent) :
    /\ InStep(k) /\ Whole(sent[k]) /\ Len(results) = k - 1
    /\ received < EndOf(k) /\ EndOf(k) <= received'
    => /\ results' = Append(results, Result(sent[k].msg, k, sent[k].at))
       /\ reading' = "no"

LEMMA ReturnedStep == Inv /\ [Next]_vars => ReturnedWithLastByte
<1> SUFFICES ASSUME Inv, [Next]_vars, NEW k \in 1..Len(sent),
                    InStep(k), Whole(sent[k]), Len(results) = k - 1,
                    received < EndOf(k), EndOf(k) <= received'
             PROVE  /\ results' = Append(results, Result(sent[k].msg, k, sent[k].at))
                    /\ reading' = "no"
  BY DEF ReturnedWithLastByte
<1>1. /\ Len(sent) \in Nat /\ k \in Nat /\ received \in Nat /\ parsed_bytes_ \in Nat
      /\ sent[k].at \in Nat /\ Size(sent[k].msg) \in Nat
  BY CallTypes DEF Inv, TypeOK
<1>2. Receive
  <2>1. received' # received
    BY <1>1 DEF EndOf
  <2> QED BY <2>1, StepSplit, QuietKeeps DEF Calling, Inv
<1>3. PICK d \in 1..RECV :
        received + d <= written /\ received' = received + d /\ TryParseMessage(received + d)
  BY <1>2 DEF Receive
<1>4. parsed_bytes_ < written
  BY <1>3, SizesAssumption DEF Inv, TypeOK
<1>5. Len(results) + 1 = k
  BY <1>1
<1>6. StructsAt(parsed_bytes_) # {} /\ parsed_bytes_ = sent[k].at
  BY <1>4, <1>5, FoundInStep
<1>7. Found(parsed_bytes_) = {Result(sent[k].msg, k, sent[k].at)}
  BY <1>4, <1>5, <1>6, FoundInStep
<1>8. Parse(Result(sent[k].msg, k, sent[k].at), received + d)
  BY <1>3, <1>6, <1>7 DEF TryParseMessage
<1>9. Complete(sent[k].msg, received + d)
  BY <1>1, <1>3, <1>6 DEF Complete, Required, EndOf
<1> QED BY <1>8, <1>9 DEF Parse, Result

\* While the parser is in step, readMessage returns a message in the very recv
\* that brings its last byte, however recv has cut it up before: it never
\* takes an incomplete message and never keeps a complete one for the next
\* recv (readMessage and tryParseMessage; what comes behind it in the same
\* recv does wait, serialization.h:129).
THEOREM MessageNotHeldBack == SafetySpec => [][ReturnedWithLastByte]_vars
<1>1. Inv /\ [Next]_vars => [ReturnedWithLastByte]_vars
  BY ReturnedStep
<1> QED
  BY <1>1, InvInit, InvStep, PTL DEF SafetySpec
=============================================================================

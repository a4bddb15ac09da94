-------------------------- MODULE UnaryCallsProofs --------------------------
(***************************************************************************)
(* Proofs about UnaryCalls: what a handler reports is what the server      *)
(* moved, nothing it could have read goes missing, and the two protocols   *)
(* report the same of calls that moved messages.                           *)
(***************************************************************************)
EXTENDS UnaryCalls, SequenceTheorems, TLAPS

-----------------------------------------------------------------------------
(* The inductive invariant.                                                *)

(***************************************************************************)
(* What the handler reports when the server accepts the call.              *)
(***************************************************************************)
Reported(c) == IF route(request[c]) = "grpc" THEN GrpcReport(c) ELSE observe(c)

(***************************************************************************)
(* Where a handler is, what the server answered and did, and what the      *)
(* client and the sink were told, stand in this relation: a server's       *)
(* acceptance is what it moved, and what the sink was told is determined   *)
(* by the request and the answer alone.                                    *)
(***************************************************************************)
CallKeeps(c) ==
    /\ handler[c] # "idle" => request[c] \in Requests
    /\ handler[c] \in {"idle", "reading", "forwarding"} => answer[c] = NoAnswer
    /\ handler[c] = "answered" => answer[c] # NoAnswer
    /\ answer[c].status = "ok" => moved[c] = answer[c].messages
                                  /\ moved[c] \in Moves(request[c])
    /\ handler[c] # "done" => response[c] = "none" /\ observed[c] = <<>>
    /\ handler[c] = "done" => IF answer[c] = NoAnswer
                                THEN response[c] = "refused"
                                ELSE response[c] = answer[c].status
    /\ observed[c] = IF response[c] = "ok" THEN Reported(c) ELSE <<>>

UnaryInv ==
    /\ UnaryTypeOK
    /\ observed = [c \in Calls |-> observed[c]]
    /\ \A c \in Calls : CallKeeps(c)
-----------------------------------------------------------------------------
(* What is reported.                                                       *)

(* A handler's report depends on its own request and answer only.          *)
LEMMA SameReport ==
    ASSUME NEW c \in Calls, request'[c] = request[c], answer'[c] = answer[c]
    PROVE  Reported(c)' = Reported(c)
BY DEF Reported, GrpcReport, observe, Report

(* What a server moves is a number of messages, none for a request it does *)
(* not know.                                                               *)
LEMMA MovesCounts ==
    ASSUME NEW r \in Requests
    PROVE  /\ Moves(r) \subseteq Nat
           /\ \A n \in Moves(r) :
                Asks(r) \notin {"publish", "pull", "acknowledge"} => n = 0
<1>1. Len(r.entries) \in Nat
  BY CallsAssumption, LenProperties DEF Request
<1>2. 0..MaxPulled \subseteq Nat
  BY CallsAssumption
<1>3. CASE Asks(r) = "pull"
  BY <1>2, <1>3 DEF Moves
<1>4. CASE Asks(r) \in {"publish", "acknowledge"}
  BY <1>1, <1>4 DEF Moves
<1>5. CASE Asks(r) \notin {"publish", "pull", "acknowledge"}
  BY <1>5 DEF Moves
<1>6. QED
  BY <1>3, <1>4, <1>5

(* The captured payloads: one for every message, each cut at the cap.      *)
LEMMA CapturedType ==
    ASSUME NEW r \in Requests
    PROVE  /\ captured_messages(r) \in Seq(Captured)
           /\ Len(captured_messages(r)) = Len(r.entries)
<1>1. r.entries \in Seq(Entry)
  BY CallsAssumption DEF Request
<1>2. ASSUME NEW i \in 1..Len(r.entries)
      PROVE  capture(decode_base64(r.entries[i])) \in Captured
  <2>1. r.entries[i] \in Entry
    BY <1>1, ElementOfSeq
  <2>2. decode_base64(r.entries[i]) \in Nat
    BY <2>1 DEF decode_base64, Entry
  <2>3. QED
    BY <2>2, CallsAssumption DEF capture, Captured
<1>3. DOMAIN r.entries = 1..Len(r.entries) /\ Len(r.entries) \in Nat
  BY <1>1, LenProperties
<1>4. captured_messages(r) \in [1..Len(r.entries) -> Captured]
  BY <1>2, <1>3 DEF captured_messages
<1>5. QED
  BY <1>3, <1>4, LenProperties, SeqDef

(* A call asks for one of the three operations that move messages exactly  *)
(* when the handlers recognise it as one.                                  *)
LEMMA AsksKnown ==
    ASSUME NEW r \in Requests
    PROVE  /\ route(r) = "grpc" => Asks(r) = r.path.verb
           /\ route(r) # "grpc" =>
                \/ Asks(r) = "other"
                \/ /\ r.path.prefix = "v1" /\ r.method = "POST"
                   /\ Asks(r) = r.path.verb
                   /\ <<r.path.resource, r.path.verb>> \in
                        {<<"topic", "publish">>, <<"subscription", "pull">>,
                         <<"subscription", "acknowledge">>}
BY DEF Asks

(* A report has the type of its kind, and is about the call's own peer.    *)
LEMMA ReportType ==
    ASSUME UnaryTypeOK, NEW c \in Calls, request[c] \in Requests,
           answer[c].status = "ok"
    PROVE  /\ Reported(c) # <<>> =>
                /\ Len(Reported(c)) = 1 /\ DOMAIN Reported(c) = {1}
                /\ IF Reported(c)[1].kind = "Publish"
                     THEN Reported(c)[1] \in PublishReport
                     ELSE Reported(c)[1] \in CountReport
           /\ Reported(c) \in {<<>>, GrpcReport(c)}
<1>1. Reported(c) \in {<<>>, GrpcReport(c)}
  BY DEF Reported, observe
<1>2. /\ captured_messages(request[c]) \in Seq(Captured)
      /\ Len(request[c].entries) \in Nat
      /\ answer[c].messages \in Nat
      /\ request[c].path.resource \in {"topic", "subscription"}
      /\ PeerOf[c] \in {PeerOf[d] : d \in Calls}
  <2>1. request[c] \in Request
    BY CallsAssumption
  <2>2. answer[c].messages \in Nat
    BY DEF UnaryTypeOK, Answer, NoAnswer
  <2>3. Len(request[c].entries) \in Nat
    BY <2>1, LenProperties DEF Request
  <2>4. request[c].path.resource \in {"topic", "subscription"}
    BY <2>1 DEF Request, Path
  <2>5. QED
    BY <2>2, <2>3, <2>4, CapturedType
<1>3. CASE request[c].path.verb = "publish"
  <2>1. GrpcReport(c) = Report(c, "Publish", captured_messages(request[c]))
    BY <1>3 DEF GrpcReport
  <2>2. QED
    BY <1>1, <1>2, <2>1 DEF Report, PublishReport
<1>4. CASE request[c].path.verb = "pull"
  <2>1. GrpcReport(c) = Report(c, "Deliver", answer[c].messages)
    BY <1>4 DEF GrpcReport
  <2>2. QED
    BY <1>1, <1>2, <2>1 DEF Report, CountReport
<1>5. CASE request[c].path.verb = "acknowledge"
  <2>1. GrpcReport(c) = Report(c, "Ack", Len(request[c].entries))
    BY <1>5 DEF GrpcReport
  <2>2. QED
    BY <1>1, <1>2, <2>1 DEF Report, CountReport
<1>6. CASE request[c].path.verb \notin {"publish", "pull", "acknowledge"}
  <2>1. GrpcReport(c) = <<>>
    BY <1>6 DEF GrpcReport
  <2>2. QED
    BY <1>1, <2>1
<1>7. QED
  BY <1>3, <1>4, <1>5, <1>6
-----------------------------------------------------------------------------
(* The invariant is inductive.                                             *)

(* Before the first step of a call nothing is promised.                    *)
LEMMA UnaryInitially == UnaryInit => UnaryInv
BY DEF UnaryInit, UnaryInv, UnaryTypeOK, Answer, NoAnswer, CallKeeps

(* Reading the request, sending it on, and refusing it.                    *)
LEMMA RequestStep ==
    ASSUME UnaryInv, NEW c \in Calls, Start(c) \/ Forward(c) \/ Refuse(c)
    PROVE  UnaryTypeOK' /\ CallKeeps(c)'
<1>1. UnaryTypeOK /\ CallKeeps(c)
  BY DEF UnaryInv
<1>2. UnaryTypeOK'
  BY <1>1 DEF UnaryTypeOK, Start, Forward, Refuse
<1>3. answer[c] = NoAnswer /\ answer'[c] = NoAnswer /\ answer'[c].status = "none"
      /\ observed[c] = <<>> /\ observed'[c] = <<>>
  BY <1>1 DEF CallKeeps, Start, Forward, Refuse, NoAnswer
<1>4. CallKeeps(c)'
  BY <1>1, <1>3 DEF CallKeeps, Start, Forward, Refuse, UnaryTypeOK
<1>5. QED
  BY <1>2, <1>4

(* The server accepts, rejects or fails the call.                          *)
LEMMA AnswerStep ==
    ASSUME UnaryInv, NEW c \in Calls, Accept(c) \/ Reject(c) \/ Fail(c)
    PROVE  UnaryTypeOK' /\ CallKeeps(c)'
<1>1. UnaryTypeOK /\ CallKeeps(c)
  BY DEF UnaryInv
<1>2. handler[c] = "forwarding" /\ request[c] \in Requests
  BY <1>1 DEF CallKeeps, Accept, Reject, Fail
<1>3. Moves(request[c]) \cup {0} \subseteq Nat
  BY <1>2, MovesCounts
<1>4. /\ handler' = [handler EXCEPT ![c] = "answered"]
      /\ UNCHANGED <<request, response, observed>>
  BY DEF Accept, Reject, Fail
<1>5. /\ answer'[c] \in Answer \ {NoAnswer}
      /\ answer' = [answer EXCEPT ![c] = answer'[c]]
      /\ moved'[c] \in Moves(request[c]) \cup {0} \cup {moved[c]}
      /\ moved' = [moved EXCEPT ![c] = moved'[c]]
      /\ answer'[c].status = "ok" =>
           moved'[c] = answer'[c].messages /\ moved'[c] \in Moves(request[c])
  <2>1. CASE Accept(c)
    <3>1. PICK n \in Moves(request[c]), readable \in BOOLEAN :
            /\ moved' = [moved EXCEPT ![c] = n]
            /\ answer' = [answer EXCEPT ![c] =
                 [status |-> "ok", messages |-> n, readable |-> readable]]
      BY <2>1 DEF Accept
    <3>2. QED
      BY <1>1, <1>3, <3>1 DEF UnaryTypeOK, Answer, NoAnswer
  <2>2. CASE Reject(c)
    BY <1>1, <2>2 DEF Reject, UnaryTypeOK, Answer, NoAnswer
  <2>3. CASE Fail(c)
    BY <1>1, <1>3, <2>3 DEF Fail, UnaryTypeOK, Answer, NoAnswer
  <2>4. QED
    BY <2>1, <2>2, <2>3
<1>6. UnaryTypeOK'
  BY <1>1, <1>3, <1>4, <1>5 DEF UnaryTypeOK
<1>7. CallKeeps(c)'
  BY <1>1, <1>2, <1>4, <1>5 DEF CallKeeps, UnaryTypeOK
<1>8. QED
  BY <1>6, <1>7

(* The handler resumes with the answer, reports, and answers the client.   *)
LEMMA RespondStep ==
    ASSUME UnaryInv, NEW c \in Calls, Respond(c)
    PROVE  UnaryTypeOK' /\ CallKeeps(c)'
<1>1. UnaryTypeOK /\ CallKeeps(c) /\ observed = [d \in Calls |-> observed[d]]
  BY DEF UnaryInv
<1>2. /\ request[c] \in Requests /\ answer[c] \in Answer \ {NoAnswer}
      /\ UNCHANGED <<request, answer, moved>>
      /\ handler' = [handler EXCEPT ![c] = "done"]
      /\ response' = [response EXCEPT ![c] = answer[c].status]
      /\ observed' = [observed EXCEPT ![c] =
           IF answer[c].status # "ok" THEN <<>> ELSE Reported(c)]
  BY <1>1 DEF CallKeeps, Respond, UnaryTypeOK, Reported
<1>3. answer[c].status \in {"ok", "rejected", "failed"}
  BY <1>2 DEF Answer
<1>4. /\ response'[c] = answer[c].status
      /\ observed'[c] = IF answer[c].status # "ok" THEN <<>> ELSE Reported(c)
      /\ handler'[c] = "done"
      /\ \A d \in Calls \ {c} : observed'[d] = observed[d]
  BY <1>1, <1>2 DEF UnaryTypeOK
<1>5. ASSUME NEW d \in Calls, NEW i \in DOMAIN observed'[d]
      PROVE  IF observed'[d][i].kind = "Publish"
               THEN observed'[d][i] \in PublishReport
               ELSE observed'[d][i] \in CountReport
  <2>1. CASE d # c
    BY <1>1, <1>4, <1>5, <2>1 DEF UnaryTypeOK
  <2>2. CASE d = c
    <3>1. answer[c].status = "ok" /\ observed'[c] = Reported(c) /\ Reported(c) # <<>>
      BY <1>4, <1>5, <2>2
    <3>2. i = 1
      BY <1>1, <1>2, <1>5, <2>2, <3>1, ReportType
    <3>3. QED
      BY <1>1, <1>2, <2>2, <3>1, <3>2, ReportType
  <2>3. QED
    BY <2>1, <2>2
<1>6. UnaryTypeOK'
  BY <1>1, <1>2, <1>3, <1>5 DEF UnaryTypeOK
<1>7. Reported(c)' = Reported(c)
  BY <1>2, SameReport
<1>8. CallKeeps(c)'
  BY <1>1, <1>2, <1>3, <1>4, <1>7 DEF CallKeeps
<1>9. QED
  BY <1>6, <1>8

(* The handler is dropped at its await.                                    *)
LEMMA CancelStep ==
    ASSUME UnaryInv, NEW c \in Calls, Cancel(c)
    PROVE  UnaryTypeOK' /\ CallKeeps(c)'
<1>1. UnaryTypeOK /\ CallKeeps(c)
  BY DEF UnaryInv
<1>2. /\ handler[c] \in {"reading", "forwarding", "answered"}
      /\ handler' = [handler EXCEPT ![c] = "cancelled"]
      /\ UNCHANGED <<request, answer, response, observed>>
  BY DEF Cancel
<1>3. request[c] \in Requests
  BY <1>1, <1>2 DEF CallKeeps
<1>4. /\ moved' \in [Calls -> Nat]
      /\ handler[c] # "forwarding" => moved'[c] = moved[c]
  BY <1>1, <1>3, MovesCounts DEF Cancel, UnaryTypeOK
<1>5. UnaryTypeOK'
  BY <1>1, <1>2, <1>4 DEF UnaryTypeOK
<1>6. CallKeeps(c)'
  BY <1>1, <1>2, <1>3, <1>4 DEF CallKeeps, UnaryTypeOK, NoAnswer
<1>7. QED
  BY <1>5, <1>6

(* Every step of a call preserves the invariant, whatever the other calls  *)
(* are doing: they share no state.                                         *)
LEMMA UnaryStep == UnaryInv /\ [UnaryNext]_callVars => UnaryInv'
<1> SUFFICES ASSUME UnaryInv, [UnaryNext]_callVars PROVE UnaryInv'
  OBVIOUS
<1>1. CASE UNCHANGED callVars
  <2>1. ASSUME NEW c \in Calls PROVE CallKeeps(c)'
    <3>1. Reported(c)' = Reported(c)
      BY <1>1, SameReport DEF callVars
    <3>2. QED
      BY <1>1, <3>1 DEF callVars, UnaryInv, CallKeeps
  <2>2. QED
    BY <1>1, <2>1 DEF callVars, UnaryInv, UnaryTypeOK
<1>2. CASE UnaryNext
  <2>1. PICK c \in Calls :
          \/ Start(c) \/ Forward(c) \/ Refuse(c)
          \/ Accept(c) \/ Reject(c) \/ Fail(c)
          \/ Respond(c) \/ Cancel(c)
    BY <1>2 DEF UnaryNext
  <2>2. UnaryTypeOK' /\ CallKeeps(c)'
    BY <2>1, RequestStep, AnswerStep, RespondStep, CancelStep
  <2>3. /\ observed' = [d \in Calls |-> observed'[d]]
        /\ \A d \in Calls \ {c} :
             /\ handler'[d] = handler[d] /\ request'[d] = request[d]
             /\ answer'[d] = answer[d] /\ moved'[d] = moved[d]
             /\ response'[d] = response[d] /\ observed'[d] = observed[d]
    BY <2>1 DEF UnaryInv, UnaryTypeOK, Start, Forward, Refuse, Accept, Reject,
                Fail, Respond, Cancel
  <2>4. ASSUME NEW d \in Calls PROVE CallKeeps(d)'
    <3>1. CASE d = c
      BY <2>2, <3>1
    <3>2. CASE d # c
      <4>1. Reported(d)' = Reported(d)
        BY <2>3, <3>2, SameReport
      <4>2. QED
        BY <2>3, <3>2, <4>1 DEF UnaryInv, CallKeeps
    <3>3. QED
      BY <3>1, <3>2
  <2>5. QED
    BY <2>2, <2>3, <2>4 DEF UnaryInv
<1>3. QED
  BY <1>1, <1>2
-----------------------------------------------------------------------------
(* What the invariant is for.                                              *)

(* The invariant always holds.                                             *)
LEMMA UnaryInvariant == UnarySpec => []UnaryInv
BY UnaryInitially, UnaryStep, PTL DEF UnarySpec

(* A handler's variables and its reports always have their types, whatever *)
(* the requests: every captured payload is at most --max-payload-bytes     *)
(* long (capture and decode_base64, src/src/proxy).                        *)
THEOREM UnaryTypeCorrect == UnarySpec => []UnaryTypeOK
<1>1. UnaryInv => UnaryTypeOK
  BY DEF UnaryInv
<1>2. QED
  BY <1>1, UnaryInvariant, PTL

(* The number of messages in a report is what the server moved, although   *)
(* it is read from the request for Publish and Acknowledge.                *)
LEMMA AmountIsMoved ==
    ASSUME UnaryInv, NEW c \in Calls, response[c] = "ok", Reported(c) # <<>>
    PROVE  LET messages == Reported(c)[1].messages
           IN  (IF Reported(c)[1].kind = "Publish" THEN Len(messages)
                                                   ELSE messages) = moved[c]
<1>1. /\ handler[c] = "done" /\ request[c] \in Requests
      /\ answer[c].status = "ok" /\ moved[c] = answer[c].messages
      /\ moved[c] \in Moves(request[c])
  BY DEF UnaryInv, CallKeeps
<1>2. Reported(c) = GrpcReport(c)
  BY <1>1, ReportType DEF UnaryInv
<1>3. request[c].path.verb \in {"publish", "pull", "acknowledge"}
  BY <1>2 DEF GrpcReport
<1>4. Asks(request[c]) = request[c].path.verb
  <2>1. CASE route(request[c]) = "grpc"
    BY <1>1, <2>1, AsksKnown
  <2>2. CASE route(request[c]) # "grpc"
    <3>1. observe(c) # <<>>
      BY <2>2 DEF Reported
    <3>2. /\ request[c].method = "POST" /\ request[c].path.prefix = "v1"
          /\ <<request[c].path.resource, request[c].path.verb>> \in
               {<<"topic", "publish">>, <<"subscription", "pull">>,
                <<"subscription", "acknowledge">>}
      BY <3>1 DEF observe, HasVerb
    <3>3. QED
      BY <3>2 DEF Asks, route
  <2>3. QED
    BY <2>1, <2>2
<1>5. CASE request[c].path.verb = "publish"
  <2>1. Reported(c)[1].kind = "Publish"
        /\ Reported(c)[1].messages = captured_messages(request[c])
    BY <1>2, <1>5 DEF GrpcReport, Report
  <2>2. moved[c] = Len(request[c].entries)
    BY <1>1, <1>4, <1>5 DEF Moves
  <2>3. QED
    BY <1>1, <2>1, <2>2, CapturedType
<1>6. CASE request[c].path.verb = "pull"
  <2>1. Reported(c)[1].kind = "Deliver"
        /\ Reported(c)[1].messages = answer[c].messages
    BY <1>2, <1>6 DEF GrpcReport, Report
  <2>2. QED
    BY <1>1, <2>1
<1>7. CASE request[c].path.verb = "acknowledge"
  <2>1. Reported(c)[1].kind = "Ack"
        /\ Reported(c)[1].messages = Len(request[c].entries)
    BY <1>2, <1>7 DEF GrpcReport, Report
  <2>2. moved[c] = Len(request[c].entries)
    BY <1>1, <1>4, <1>7 DEF Moves
  <2>3. QED
    BY <2>1, <2>2
<1>8. QED
  BY <1>3, <1>5, <1>6, <1>7

(* A call is reported at most once, only when the server accepted it and   *)
(* the client was told so, and with exactly the messages that moved: on    *)
(* both protocols, for every request, answer, failure and cancellation     *)
(* (the gRPC handlers, RestProxy::handle and RestProxy::observe).          *)
THEOREM ReportsWhatMoved == UnarySpec => []CountedIsMoved
<1>1. UnaryInv => CountedIsMoved
  <2> SUFFICES ASSUME UnaryInv, NEW c \in Calls, observed[c] # <<>>
               PROVE  /\ Len(observed[c]) = 1
                      /\ Amount(c) = moved[c]
                      /\ response[c] = "ok"
    BY DEF CountedIsMoved
  <2>1. response[c] = "ok" /\ observed[c] = Reported(c)
    BY DEF UnaryInv, CallKeeps
  <2>2. UnaryTypeOK /\ request[c] \in Requests /\ answer[c].status = "ok"
    BY <2>1 DEF UnaryInv, CallKeeps
  <2>3. Len(observed[c]) = 1
    BY <2>1, <2>2, ReportType
  <2>4. Amount(c) = moved[c]
    BY <2>1, AmountIsMoved DEF Amount
  <2>5. QED
    BY <2>1, <2>3, <2>4
<1>2. QED
  BY <1>1, UnaryInvariant, PTL

(* A call whose client was told of success is never missing from the       *)
(* observations, if the server moved messages for it and the proxy could   *)
(* read the body concerned.                                                *)
THEOREM NothingMissing == UnarySpec => []SuccessIsCounted
<1>1. UnaryInv => SuccessIsCounted
  <2> SUFFICES ASSUME UnaryInv, NEW c \in Calls, response[c] = "ok", moved[c] > 0,
                      route(request[c]) = "rest" =>
                        IF Asks(request[c]) = "pull" THEN answer[c].readable
                        ELSE decoded(request[c]) /\ request[c].json
               PROVE  observed[c] # <<>>
    BY DEF SuccessIsCounted
  <2>1. /\ observed[c] = Reported(c) /\ request[c] \in Requests
        /\ answer[c].status = "ok" /\ moved[c] = answer[c].messages
        /\ moved[c] \in Moves(request[c])
    BY DEF UnaryInv, CallKeeps
  <2>2. Asks(request[c]) \in {"publish", "pull", "acknowledge"}
    BY <2>1, MovesCounts
  <2>3. Asks(request[c]) # "pull" => moved[c] = Len(request[c].entries)
    BY <2>1, <2>2 DEF Moves
  <2>4. Asks(request[c]) = request[c].path.verb
    BY <2>1, <2>2, AsksKnown
  <2>5. GrpcReport(c) # <<>>
    BY <2>2, <2>4 DEF GrpcReport, Report
  <2>6. CASE route(request[c]) = "grpc"
    BY <2>1, <2>5, <2>6 DEF Reported
  <2>7. CASE route(request[c]) # "grpc"
    <3>1. /\ request[c].method = "POST" /\ request[c].path.prefix = "v1"
          /\ <<request[c].path.resource, request[c].path.verb>> \in
               {<<"topic", "publish">>, <<"subscription", "pull">>,
                <<"subscription", "acknowledge">>}
      BY <2>1, <2>2, <2>7, AsksKnown
    <3>2. HasVerb(request[c])
      BY <2>2, <2>4, <3>1 DEF HasVerb
    <3>3. route(request[c]) = "rest"
      BY <2>7 DEF route
    <3>4. observe(c) = GrpcReport(c)
      <4>1. CASE request[c].path.verb = "pull"
        BY <2>1, <2>4, <3>1, <3>2, <3>3, <4>1 DEF observe
      <4>2. CASE request[c].path.verb # "pull"
        BY <2>3, <2>4, <3>1, <3>2, <3>3, <4>2 DEF observe, json_array_len
      <4>3. QED
        BY <4>1, <4>2
    <3>5. QED
      BY <2>1, <2>5, <2>7, <3>4 DEF Reported
  <2>8. QED
    BY <2>6, <2>7
<1>2. QED
  BY <1>1, UnaryInvariant, PTL

(* Payloads of the same sizes are captured alike, whatever the alphabet.   *)
LEMMA SameCaptured ==
    ASSUME NEW r \in Requests, NEW q \in Requests, SameAsked(r, q),
           route(r) = "grpc",
           \A i \in DOMAIN q.entries : q.entries[i].base64 # "invalid"
    PROVE  captured_messages(r) = captured_messages(q)
<1>1. r.entries \in Seq(Entry) /\ q.entries \in Seq(Entry)
  BY CallsAssumption DEF Request
<1>2. DOMAIN r.entries = DOMAIN q.entries
  BY <1>1, LenProperties DEF SameAsked
<1>3. ASSUME NEW i \in DOMAIN r.entries
      PROVE  decode_base64(r.entries[i]) = decode_base64(q.entries[i])
  <2>1. r.entries[i].base64 = "raw" /\ q.entries[i].base64 # "invalid"
    BY <1>2, CallsAssumption
  <2>2. r.entries[i].size = q.entries[i].size
    BY DEF SameAsked
  <2>3. QED
    BY <2>1, <2>2 DEF decode_base64
<1>4. QED
  BY <1>2, <1>3 DEF captured_messages

(* Of calls that moved messages both taps report the same.                 *)
LEMMA SameReportButForPeer ==
    ASSUME UnaryInv, NEW c \in Calls, NEW d \in Calls, Counterparts(c, d),
           answer[d].messages > 0
    PROVE  ButForPeer(c) = ButForPeer(d)
<1> DEFINE r == request[c]
           q == request[d]
           verb == r.path.verb
<1>1. /\ r \in Requests /\ q \in Requests
      /\ observed[c] = GrpcReport(c) /\ observed[d] = observe(d)
      /\ moved[d] = answer[d].messages /\ moved[d] \in Moves(q)
  BY DEF Counterparts, UnaryInv, CallKeeps, Reported, NoAnswer
<1>2. Asks(q) \in {"publish", "pull", "acknowledge"}
  BY <1>1, MovesCounts
<1>3. Asks(q) # "pull" => moved[d] = Len(q.entries)
  BY <1>1, <1>2 DEF Moves
<1>4. /\ q.method = "POST" /\ q.path.prefix = "v1" /\ Asks(q) = q.path.verb
      /\ <<q.path.resource, q.path.verb>> \in
           {<<"topic", "publish">>, <<"subscription", "pull">>,
            <<"subscription", "acknowledge">>}
  <2>1. route(q) # "grpc"
    BY DEF Counterparts
  <2>2. QED
    BY <1>1, <1>2, <2>1, AsksKnown
<1>5. Asks(r) = verb /\ verb = q.path.verb /\ r.path.resource = q.path.resource
      /\ Len(r.entries) = Len(q.entries)
  BY <1>1, <1>4, AsksKnown DEF Counterparts, SameAsked
<1>6. HasVerb(q)
  BY <1>2, <1>4 DEF HasVerb
<1>7. observe(d) = GrpcReport(d)
  <2>1. CASE q.path.verb = "pull"
    BY <1>4, <1>6, <2>1 DEF Counterparts, observe
  <2>2. CASE q.path.verb # "pull"
    BY <1>1, <1>3, <1>4, <1>6, <2>2 DEF Counterparts, observe, json_array_len
  <2>3. QED
    BY <2>1, <2>2
<1>8. captured_messages(r) = captured_messages(q)
  BY <1>1, SameCaptured DEF Counterparts
<1>9. PICK kind, messages :
        /\ observed[c] = Report(c, kind, messages)
        /\ observed[d] = Report(d, kind, messages)
  <2>1. CASE verb = "publish"
    BY <1>1, <1>5, <1>7, <1>8, <2>1 DEF GrpcReport
  <2>2. CASE verb = "pull"
    BY <1>1, <1>5, <1>7, <2>2 DEF Counterparts, GrpcReport
  <2>3. CASE verb = "acknowledge"
    BY <1>1, <1>5, <1>7, <2>3 DEF GrpcReport
  <2>4. QED
    BY <1>2, <1>4, <1>5, <2>1, <2>2, <2>3
<1> DEFINE Anonymous == [kind |-> kind, resource |-> r.path.resource,
                         peer |-> "any", messages |-> messages]
<1>10. /\ DOMAIN observed[c] = {1} /\ [observed[c][1] EXCEPT !.peer = "any"] = Anonymous
       /\ DOMAIN observed[d] = {1} /\ [observed[d][1] EXCEPT !.peer = "any"] = Anonymous
  BY <1>5, <1>9 DEF Report
<1>11. QED
  BY <1>10 DEF ButForPeer

(* Of a call that moved nothing the relay reports nothing.                 *)
LEMMA RelayIsSilent ==
    ASSUME UnaryInv, NEW d \in Calls, response[d] = "ok",
           route(request[d]) = "rest", ~(answer[d].messages > 0)
    PROVE  observed[d] = <<>>
<1> DEFINE q == request[d]
<1>1. /\ q \in Requests /\ observed[d] = observe(d)
      /\ moved[d] = answer[d].messages /\ moved[d] \in Moves(q)
      /\ moved[d] \in Nat
  BY DEF UnaryInv, UnaryTypeOK, CallKeeps, Reported, NoAnswer
<1>2. SUFFICES ASSUME observe(d) # <<>> PROVE FALSE
  BY <1>1
<1>3. /\ q.path.prefix = "v1" /\ q.method = "POST"
      /\ <<q.path.resource, q.path.verb>> \in
           {<<"topic", "publish">>, <<"subscription", "acknowledge">>}
      /\ json_array_len(q) > 0
  BY <1>2 DEF observe, HasVerb
<1>4. Asks(q) = q.path.verb
  BY <1>3 DEF Asks, route
<1>5. Asks(q) \in {"publish", "acknowledge"}
  BY <1>3, <1>4
<1>6. moved[d] = Len(q.entries)
  BY <1>1, <1>5 DEF Moves
<1>7. QED
  BY <1>1, <1>3, <1>6 DEF json_array_len

(* Of a gRPC call and a REST call that ask the same of one resource and    *)
(* are answered the same, the two taps report the same but for the peer's  *)
(* address, captured payloads included, if the call moved messages; if it  *)
(* moved none, the gRPC tap reports zero if anything and the relay reports *)
(* nothing (publisher.rs, subscriber.rs; RestProxy::observe).  That is for *)
(* every such pair of requests, in any content-encoding the relay knows    *)
(* and either base64 alphabet.                                             *)
THEOREM ProtocolsReportAlike == UnarySpec => []ProtocolsAgree
<1>1. UnaryInv => ProtocolsAgree
  <2> SUFFICES ASSUME UnaryInv, NEW c \in Calls, NEW d \in Calls,
                      Counterparts(c, d)
               PROVE  IF answer[d].messages > 0
                      THEN ButForPeer(c) = ButForPeer(d)
                      ELSE /\ observed[c] # <<>> => Amount(c) = 0
                           /\ observed[d] = <<>>
    BY DEF ProtocolsAgree
  <2>1. CASE answer[d].messages > 0
    BY <2>1, SameReportButForPeer
  <2>2. CASE ~(answer[d].messages > 0)
    <3>1. observed[d] = <<>>
      BY <2>2, RelayIsSilent DEF Counterparts
    <3>2. moved[c] = 0
      <4>1. /\ answer[d].status = "ok" /\ answer[c] = answer[d]
            /\ moved[c] = answer[c].messages /\ moved[c] \in Nat
        BY DEF Counterparts, UnaryInv, UnaryTypeOK, CallKeeps, NoAnswer
      <4>2. QED
        BY <2>2, <4>1
    <3>3. observed[c] # <<>> => Amount(c) = moved[c]
      BY AmountIsMoved DEF UnaryInv, CallKeeps, Counterparts, Amount
    <3>4. QED
      BY <2>2, <3>1, <3>2, <3>3
  <2>3. QED
    BY <2>1, <2>2
<1>2. QED
  BY <1>1, UnaryInvariant, PTL
=============================================================================

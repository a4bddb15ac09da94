----------------------------- MODULE UnaryCalls -----------------------------
(***************************************************************************)
(* The proxy's unary calls, on both protocols of its one port: gRPC        *)
(* (src/src/proxy/publisher.rs, subscriber.rs, forward.rs) and the         *)
(* REST/JSON relay (src/src/proxy/rest.rs).  A handler reads the request,  *)
(* forwards it, and on the server's answer reports what moved to the sink  *)
(* and answers the client.  Its future is dropped at whichever await it is *)
(* suspended when the client goes away.                                    *)
(*                                                                         *)
(* A payload is its size; headers and statuses are kept only as far as     *)
(* something depends on them.                                              *)
(***************************************************************************)
EXTENDS Naturals, Sequences

CONSTANTS
    Calls,              \* calls made to the proxy
    PeerOf,             \* the client address of each call
    Requests,           \* the requests clients make
    PayloadCap,         \* --max-payload-bytes
    MaxPulled           \* bound: messages in one Pull response

(***************************************************************************)
(* A request.  Its entries are the messages published or the ack ids sent. *)
(* base64: the alphabet a REST payload's data is in, if it is base64.      *)
(* encoding: the content-encoding, "torn" for gzip that breaks off.        *)
(* fault: the body is larger than MAX_MESSAGE_SIZE or breaks off, or       *)
(* (REST) the path does not make a URI.                                    *)
(***************************************************************************)
Entry == [size : Nat, base64 : {"raw", "standard", "url_safe", "invalid"}]

Path == [prefix : {"google.pubsub.v1", "v1", "elsewhere"},
         resource : {"topic", "subscription"},
         verb : {"publish", "pull", "acknowledge", "other", "absent"}]

Request == [path : Path,
            method : {"POST", "GET"},
            encoding : {"none", "identity", "gzip", "torn", "br"},
            json : BOOLEAN,
            entries : Seq(Entry),
            fault : {"none", "body", "uri"}]

\* serve: the gRPC services claim their paths, the relay has all the others.
route(r) == IF r.path.prefix = "google.pubsub.v1" THEN "grpc" ELSE "rest"

\* The body of a gRPC request carries the bytes themselves.
ASSUME CallsAssumption ==
    /\ Requests \subseteq Request
    /\ \A r \in Requests : route(r) = "grpc" =>
         \A i \in DOMAIN r.entries : r.entries[i].base64 = "raw"
    /\ PayloadCap \in Nat
    /\ MaxPulled \in Nat

NoRequest == [path |-> "none"]
NoAnswer == [status |-> "none"]

VARIABLES
    handler,    \* where a call's handler is
    request,    \* the call's request
    answer,     \* what the server answered
    moved,      \* messages the server published, delivered or acked
    response,   \* what the client was answered
    observed    \* the call's reports to the sink

callVars == <<handler, request, answer, moved, response, observed>>

Answer ==
    {NoAnswer} \cup [status : {"rejected", "failed"}]
    \cup [status : {"ok"}, messages : Nat, readable : BOOLEAN]

Captured == [data : 0..PayloadCap, original_len : Nat, truncated : BOOLEAN]

PublishReport ==
    [kind : {"Publish"}, resource : {"topic", "subscription"},
     peer : {PeerOf[c] : c \in Calls}, messages : Seq(Captured)]

CountReport ==
    [kind : {"Deliver", "Ack"}, resource : {"topic", "subscription"},
     peer : {PeerOf[c] : c \in Calls}, messages : Nat]

UnaryTypeOK ==
    /\ handler \in [Calls -> {"idle", "reading", "forwarding", "answered",
                              "done", "cancelled"}]
    /\ request \in [Calls -> Requests \cup {NoRequest}]
    /\ answer \in [Calls -> Answer]
    /\ moved \in [Calls -> Nat]
    /\ response \in [Calls -> {"none", "ok", "rejected", "failed", "refused"}]
    /\ \A c \in Calls : \A i \in DOMAIN observed[c] :
         IF observed[c][i].kind = "Publish" THEN observed[c][i] \in PublishReport
                                            ELSE observed[c][i] \in CountReport

UnaryInit ==
    /\ handler  = [c \in Calls |-> "idle"]
    /\ request  = [c \in Calls |-> NoRequest]
    /\ answer   = [c \in Calls |-> NoAnswer]
    /\ moved    = [c \in Calls |-> 0]
    /\ response = [c \in Calls |-> "none"]
    /\ observed = [c \in Calls |-> <<>>]

-----------------------------------------------------------------------------
(* What is captured of a call.                                             *)

\* Mutation of capture: the payload is kept whole.
CaptureWhole(size) ==
    [data |-> size, original_len |-> size, truncated |-> size > PayloadCap]

\* capture: the payload up to the cap, its true length, and whether it was cut.
capture(size) ==
    [data |-> IF size <= PayloadCap THEN size ELSE PayloadCap,
     original_len |-> size,
     truncated |-> size > PayloadCap]

\* Mutation of decode_base64: only the standard alphabet is known.
StandardAlphabetOnly(entry) == IF entry.base64 = "url_safe" THEN 0 ELSE entry.size

\* How many bytes a payload decodes to: none if it is not base64.
decode_base64(entry) == IF entry.base64 = "invalid" THEN 0 ELSE entry.size

captured_messages(r) ==
    [i \in DOMAIN r.entries |-> capture(decode_base64(r.entries[i]))]

\* What the Pub/Sub API takes a request for.
Asks(r) ==
    CASE route(r) = "grpc" -> r.path.verb
      [] /\ r.path.prefix = "v1" /\ r.method = "POST"
         /\ <<r.path.resource, r.path.verb>> \in
               {<<"topic", "publish">>, <<"subscription", "pull">>,
                <<"subscription", "acknowledge">>} -> r.path.verb
      [] OTHER -> "other"

\* How many messages the server moves when it accepts a request; a Pull
\* moves whatever it returns.
Moves(r) ==
    CASE Asks(r) = "pull" -> 0..MaxPulled
      [] Asks(r) \in {"publish", "acknowledge"} -> {Len(r.entries)}
      [] OTHER -> {0}

Report(c, kind, messages) ==
    <<[kind |-> kind, resource |-> request[c].path.resource, peer |-> PeerOf[c],
       messages |-> messages]>>

(***************************************************************************)
(* The gRPC handlers report every call the server accepted, empty ones     *)
(* too.  Methods made by proxy_service! report nothing.                    *)
(***************************************************************************)
GrpcReport(c) ==
    CASE request[c].path.verb = "publish" ->
            Report(c, "Publish", captured_messages(request[c]))
      [] request[c].path.verb = "pull" -> Report(c, "Deliver", answer[c].messages)
      [] request[c].path.verb = "acknowledge" ->
            Report(c, "Ack", Len(request[c].entries))
      [] OTHER -> <<>>

\* resource_and_verb finds neither in another shape of path.
HasVerb(r) == r.path.prefix = "v1" /\ r.path.verb # "absent"

\* decoded: a content-encoding the relay can undo.
decoded(r) == r.encoding \in {"none", "identity", "gzip"}

\* json_array_len: the messages or ack ids of a body that is JSON.
json_array_len(r) == IF r.json THEN Len(r.entries) ELSE 0

\* Mutation of observe: acknowledgements are forgotten.
AcksForgotten(c) ==
    IF /\ request[c].path.verb # "acknowledge"
       /\ decoded(request[c]) /\ answer[c].readable /\ answer[c].messages > 0
    THEN GrpcReport(c) ELSE <<>>

(***************************************************************************)
(* The REST relay reports a call only if it can read the body concerned    *)
(* (the request's, or for a Pull the response's) and something moved.      *)
(***************************************************************************)
observe(c) ==
    LET r == request[c]
        CarriesRequest ==
            /\ <<r.path.resource, r.path.verb>> \in
                  {<<"topic", "publish">>, <<"subscription", "acknowledge">>}
            /\ decoded(r)
            /\ json_array_len(r) > 0
        CarriesResponse ==
            /\ <<r.path.resource, r.path.verb>> = <<"subscription", "pull">>
            /\ answer[c].readable
            /\ answer[c].messages > 0
    IN  IF /\ r.method = "POST"
           /\ HasVerb(r)
           /\ CarriesRequest \/ CarriesResponse
        THEN GrpcReport(c) ELSE <<>>

-----------------------------------------------------------------------------
Start(c) ==
    /\ handler[c] = "idle"
    /\ \E r \in Requests : request' = [request EXCEPT ![c] = r]
    /\ handler' = [handler EXCEPT ![c] = "reading"]
    /\ UNCHANGED <<answer, moved, response, observed>>

\* The body is collected (REST) or decoded (gRPC) and sent on.
Forward(c) ==
    /\ handler[c] = "reading"
    /\ request[c].fault = "none"
    /\ handler' = [handler EXCEPT ![c] = "forwarding"]
    /\ UNCHANGED <<request, answer, moved, response, observed>>

\* 413 or 502 (REST), or a decoding status (gRPC): the server sees nothing.
Refuse(c) ==
    /\ handler[c] = "reading"
    /\ request[c].fault # "none"
    /\ handler' = [handler EXCEPT ![c] = "done"]
    /\ response' = [response EXCEPT ![c] = "refused"]
    /\ UNCHANGED <<request, answer, moved, observed>>

\* The server accepts the request, and answers with a body that may be in
\* an encoding the relay does not know.
Accept(c) ==
    /\ handler[c] = "forwarding"
    /\ \E n \in Moves(request[c]), readable \in BOOLEAN :
         /\ moved' = [moved EXCEPT ![c] = n]
         /\ answer' = [answer EXCEPT ![c] =
              [status |-> "ok", messages |-> n, readable |-> readable]]
    /\ handler' = [handler EXCEPT ![c] = "answered"]
    /\ UNCHANGED <<request, response, observed>>

Reject(c) ==
    /\ handler[c] = "forwarding"
    /\ answer' = [answer EXCEPT ![c] = [status |-> "rejected"]]
    /\ handler' = [handler EXCEPT ![c] = "answered"]
    /\ UNCHANGED <<request, moved, response, observed>>

\* No answer, or one that breaks off; the server may or may not have acted.
Fail(c) ==
    /\ handler[c] = "forwarding"
    /\ \E n \in Moves(request[c]) \cup {0} : moved' = [moved EXCEPT ![c] = n]
    /\ answer' = [answer EXCEPT ![c] = [status |-> "failed"]]
    /\ handler' = [handler EXCEPT ![c] = "answered"]
    /\ UNCHANGED <<request, response, observed>>

\* Mutation of Respond: a Publish is reported whatever the server answers.
PublishAlwaysReported(c) ==
    /\ handler[c] = "answered"
    /\ observed' = [observed EXCEPT ![c] =
         IF answer[c].status # "ok" /\ request[c].path.verb # "publish" THEN <<>>
         ELSE GrpcReport(c)]
    /\ response' = [response EXCEPT ![c] = answer[c].status]
    /\ handler' = [handler EXCEPT ![c] = "done"]
    /\ UNCHANGED <<request, answer, moved>>

\* The handler resumes with the answer.  There is no await between its
\* report and its return.
Respond(c) ==
    /\ handler[c] = "answered"
    /\ observed' = [observed EXCEPT ![c] =
         IF answer[c].status # "ok" THEN <<>>
         ELSE IF route(request[c]) = "grpc" THEN GrpcReport(c)
         ELSE observe(c)]
    /\ response' = [response EXCEPT ![c] = answer[c].status]
    /\ handler' = [handler EXCEPT ![c] = "done"]
    /\ UNCHANGED <<request, answer, moved>>

\* The client goes away, or its deadline passes: the handler is dropped at
\* its await.  The server may have acted, and may still act.
Cancel(c) ==
    /\ handler[c] \in {"reading", "forwarding", "answered"}
    /\ handler' = [handler EXCEPT ![c] = "cancelled"]
    /\ IF handler[c] = "forwarding"
          THEN \E n \in Moves(request[c]) \cup {0} :
                 moved' = [moved EXCEPT ![c] = n]
          ELSE UNCHANGED moved
    /\ UNCHANGED <<request, answer, response, observed>>

UnaryNext ==
    \E c \in Calls :
        \/ Start(c) \/ Forward(c) \/ Refuse(c)
        \/ Accept(c) \/ Reject(c) \/ Fail(c)
        \/ Respond(c) \/ Cancel(c)

UnarySpec == UnaryInit /\ [][UnaryNext]_callVars

-----------------------------------------------------------------------------
\* The number of messages a call reported.
Amount(c) ==
    LET messages == observed[c][1].messages
    IN  IF observed[c][1].kind = "Publish" THEN Len(messages) ELSE messages

(* "A rejected call moved no messages, so it must not be counted"          *)
(* (RestProxy::observe).  A call is reported at most once, only if the     *)
(* server accepted it, and with exactly the number of messages the server  *)
(* moved - although the count is taken from the request for Publish and    *)
(* Acknowledge and from the response for Pull, and although calls fail,    *)
(* are cut off and are cancelled at any await.                             *)
CountedIsMoved ==
    \A c \in Calls : observed[c] # <<>> =>
        /\ Len(observed[c]) = 1
        /\ Amount(c) = moved[c]
        /\ response[c] = "ok"

(* Conversely, a call whose client was told of success is never missing:   *)
(* if the server moved messages for it and the proxy could read the body   *)
(* concerned, it has been reported by the time the client is answered.     *)
SuccessIsCounted ==
    \A c \in Calls :
        /\ response[c] = "ok"
        /\ moved[c] > 0
        /\ route(request[c]) = "rest" =>
             IF Asks(request[c]) = "pull" THEN answer[c].readable
             ELSE decoded(request[c]) /\ request[c].json
        => observed[c] # <<>>

SameAsked(r, q) ==
    /\ Asks(r) = Asks(q) /\ r.path.resource = q.path.resource
    /\ Len(r.entries) = Len(q.entries)
    /\ \A i \in DOMAIN r.entries : r.entries[i].size = q.entries[i].size

\* A gRPC call and a REST call that ask the same of one resource and are
\* answered the same, with bodies that the relay can read.
Counterparts(c, d) ==
    /\ response[c] = "ok" /\ response[d] = "ok"
    /\ route(request[c]) = "grpc" /\ route(request[d]) = "rest"
    /\ SameAsked(request[c], request[d])
    /\ decoded(request[d]) /\ request[d].json
    /\ \A i \in DOMAIN request[d].entries :
          request[d].entries[i].base64 # "invalid"
    /\ answer[c] = answer[d] /\ answer[d].readable

ButForPeer(c) ==
    [i \in DOMAIN observed[c] |-> [observed[c][i] EXCEPT !.peer = "any"]]

(* What architecture.md says of the two protocols ("indistinguishable but  *)
(* for its peer address") is true of calls that moved messages: both taps  *)
(* report the same, captured payloads included, in whatever                *)
(* content-encoding the REST body comes, and in either of the base64       *)
(* alphabets.  It is not true of a call that moved none, an empty Pull     *)
(* say: the gRPC tap reports a movement of zero, which makes an entry for  *)
(* its subscription, or nothing, and the REST tap always nothing.          *)
ProtocolsAgree ==
    \A c, d \in Calls : Counterparts(c, d) =>
        IF answer[d].messages > 0
        THEN ButForPeer(c) = ButForPeer(d)
        ELSE /\ observed[c] # <<>> => Amount(c) = 0
             /\ observed[d] = <<>>
=============================================================================

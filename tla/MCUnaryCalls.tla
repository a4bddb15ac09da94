---------------------------- MODULE MCUnaryCalls ----------------------------
(***************************************************************************)
(* Two calls, so that the two protocols can be compared with each other.   *)
(***************************************************************************)
EXTENDS UnaryCalls

CONSTANTS k1, k2, p1, p2

Peer == [c \in Calls |-> IF c = k1 THEN p1 ELSE p2]

At(prefix, resource, verb) == [prefix |-> prefix, resource |-> resource, verb |-> verb]

Grpc(path, entries) ==
    [path |-> path, method |-> "POST", encoding |-> "none", json |-> FALSE,
     entries |-> entries, fault |-> "none"]

Rest(path, entries) == [Grpc(path, entries) EXCEPT !.json = TRUE]

Of(base64, sizes) ==
    [i \in DOMAIN sizes |-> [size |-> sizes[i], base64 |-> base64]]

\* Empty, one message within the cap, and two with one beyond it.
Sizes == {<<>>, <<1>>, <<2, 3>>}

Verbs == {<<"topic", "publish">>, <<"subscription", "pull">>,
          <<"subscription", "acknowledge">>, <<"topic", "other">>}

GrpcRequests ==
    {Grpc(At("google.pubsub.v1", v[1], v[2]), Of("raw", sizes)) :
        v \in Verbs, sizes \in Sizes}

RestRequests ==
    {Rest(At("v1", v[1], v[2]), Of("standard", sizes)) : v \in Verbs, sizes \in Sizes}

Publication == Rest(At("v1", "topic", "publish"), Of("standard", <<1>>))
Acknowledgement == Rest(At("v1", "subscription", "acknowledge"), Of("standard", <<1>>))

\* One thing different about a REST request at a time.
Variants ==
    UNION {{[r EXCEPT !.encoding = "gzip"], [r EXCEPT !.encoding = "torn"],
            [r EXCEPT !.encoding = "br"], [r EXCEPT !.json = FALSE],
            [r EXCEPT !.method = "GET"], [r EXCEPT !.fault = "uri"],
            [r EXCEPT !.path.prefix = "elsewhere"], [r EXCEPT !.path.verb = "absent"]} :
           r \in {Publication, Acknowledgement}}
    \cup {[Publication EXCEPT !.entries = Of(base64, <<2, 3>>)] :
             base64 \in {"url_safe", "invalid"}}
    \cup {[Publication EXCEPT !.path.resource = "subscription"]}

AllRequests ==
    GrpcRequests \cup RestRequests \cup Variants
    \cup {[r EXCEPT !.fault = "body"] :
             r \in {Publication, Acknowledgement} \cup GrpcRequests}
=============================================================================

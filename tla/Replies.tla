------------------------------- MODULE Replies -------------------------------
(***************************************************************************)
(* What the request handlers of the servers (internal/server) do with a    *)
(* request and with what Route returns for it, and what they write.        *)
(*                                                                         *)
(* Writes to a connection that fail for its own reasons are left out.      *)
(***************************************************************************)
EXTENDS Naturals

CONSTANTS UDPSizes,  \* the sizes that clients advertise, 0 for none
          Lengths    \* the lengths of the responses that are packed

ASSUME RepliesAssumption == UDPSizes \subseteq Nat /\ Lengths \subseteq Nat

MinMsgSize == 512
MaxDNSMessageSize == 65535
\* The payload of a UDP packet over IPv4, the empty reply to the longest name.
MaxDatagram == 65507
EmptyLength == 271

\* A request that could be read, with a question or without.
Queries == [question : BOOLEAN, udpSize : UDPSizes]

\* What router.Route returns: an error, or a response, which may not be
\* possible to pack.  A message that was received compressed can become longer
\* than any that can be received; Truncate compresses it again before it cuts.
Failed       == [rcode |-> "error", packs |-> FALSE, length |-> 0]
Responses    == [rcode : {"noerror", "nxdomain"}, packs : BOOLEAN, length : Lengths]
RouteResults == {Failed} \cup Responses

\* What the handler writes: nothing, an HTTP error status, or a message; what
\* precedes it as its length; whether it says that it is truncated.
Silence   == [kind |-> "none"]
HTTPError == [kind |-> "status"]

Message(rcode, length, announced, tc, id) ==
    [kind |-> "message", rcode |-> rcode, length |-> length,
     announced |-> announced, tc |-> tc, id |-> id]

Whole(result, id) == Message(result.rcode, result.length, result.length, FALSE, id)
ServFail(id)      == Message("servfail", EmptyLength, EmptyLength, FALSE, id)

\* A request that reaches the router.
Routed(q) == q.question

\* The largest response the client takes over UDP.
UDPResponseSize(q) == IF q.udpSize >= MinMsgSize THEN q.udpSize ELSE MinMsgSize

\* Leaves out what is too long, and says so.
Truncate(result, size) ==
    IF result.length > size THEN Message(result.rcode, size, size, TRUE, "own")
    ELSE Whole(result, "own")

\* ServeDNS, over UDP: no question and an error from Route are SERVFAIL.
\* WriteMsg fails when the response does not pack or the packet is too large.
ServeUDP(q, result) ==
    LET reply == Truncate(result, UDPResponseSize(q)) IN
    IF ~Routed(q) \/ result = Failed THEN ServFail("own")
    ELSE IF ~result.packs \/ reply.length > MaxDatagram THEN Silence
    ELSE reply

\* ServeDNS, over TCP and TLS: nothing truncates, and WriteMsg refuses to
\* write what the length prefix cannot hold.
ServeTCP(q, result) ==
    IF ~Routed(q) \/ result = Failed THEN ServFail("own")
    ELSE IF ~result.packs \/ result.length > MaxDNSMessageSize THEN Silence
    ELSE Whole(result, "own")

\* A length prefix has two bytes.
TwoBytes == 65536
Prefixed(rcode, length, tc) == Message(rcode, length, length % TwoBytes, tc, "zero")

\* Mutant: the length of the response is not checked.
HandleQuicStream_Unchecked(q, result) ==
    IF ~Routed(q) THEN Silence
    ELSE IF result = Failed THEN Prefixed("servfail", EmptyLength, FALSE)
    ELSE IF ~result.packs THEN Silence
    ELSE Prefixed(result.rcode, result.length, FALSE)

\* No question and a response that does not pack: the stream ends.  What the
\* prefix cannot hold is replaced by an empty, truncated reply, which is NOERROR
\* whatever Route returned.
HandleQuicStream(q, result) ==
    IF ~Routed(q) THEN Silence
    ELSE IF result = Failed THEN Prefixed("servfail", EmptyLength, FALSE)
    ELSE IF ~result.packs THEN Silence
    ELSE IF result.length > MaxDNSMessageSize THEN Prefixed("noerror", EmptyLength, TRUE)
    ELSE Prefixed(result.rcode, result.length, FALSE)

\* Path, method, media type, encoding and body are checked; a status says what
\* is wrong.  Nothing limits the length of the response, which Content-Length
\* announces.
ServeHTTP(q, result) ==
    IF ~Routed(q) THEN HTTPError
    ELSE IF result = Failed THEN ServFail("own")
    ELSE IF ~result.packs THEN HTTPError
    ELSE Whole(result, "own")
=============================================================================

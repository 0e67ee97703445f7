--------------------------- MODULE HostExtractor ---------------------------
(***************************************************************************)
(* The Host extractor (src/util/extractor.rs) over the requests hyper      *)
(* hands to a handler.  A name is a host with its port; what matters is    *)
(* where it was found.                                                     *)
(***************************************************************************)
CONSTANT Names

VARIABLES request, answer

vars == <<request, answer>>

\* "opaque" is a header value with bytes that to_str() refuses.
Requests ==
    [header : Names \cup {"absent", "opaque"}, authority : Names \cup {"absent"}]

NoAnswer == "none"
Rejected == "rejected"   \* AppError, a 500 response

TypeOK ==
    /\ request \in Requests
    /\ answer \in Names \cup {NoAnswer, Rejected}

Init == request \in Requests /\ answer = NoAnswer

\* from_request_parts: a readable Host header, else the URI's authority, which
\* for HTTP/2 is the :authority pseudo-header.
HostOf(r) ==
    CASE r.header \in Names -> r.header
      [] r.header \notin Names /\ r.authority \in Names -> r.authority
      [] OTHER -> Rejected

Extract ==
    /\ answer = NoAnswer
    /\ answer' = HostOf(request)
    /\ UNCHANGED request

Next == Extract

Spec == Init /\ [][Next]_vars

-----------------------------------------------------------------------------
\* What the type's documentation (extractor.rs:31) and a test of its own
\* (test_authority_precedence, extractor.rs:133-145) say: when a request has
\* both, the authority is the host.
AuthorityPrecedence ==
    answer # NoAnswer /\ request.authority \in Names => answer = request.authority
=============================================================================

----------------------------- MODULE FrontDoors -----------------------------
(***************************************************************************)
(* What comes in through a front door and is dialed: a SOCKS5 request      *)
(* (internal/proxy/socks5.go), a plain HTTP request with its headers both  *)
(* ways (httpProxy.ServeHTTP and removeHopByHop, internal/proxy/http.go),  *)
(* or any other caller of DialContext.  Dial is the call they make.        *)
(***************************************************************************)
EXTENDS Dial

CONSTANTS
    Field,      \* header names other than Connection
    HopByHop,   \* those of hopByHopHeaders
    MaxLines    \* bound: Connection headers in a message

ASSUME FrontDoorsAssumption == HopByHop \subseteq Field /\ MaxLines \in Nat

\* The headers of a request or a response: fields, and Connection line by line.
Message ==
    [fields : SUBSET Field, connection : UNION {[1 .. n -> SUBSET Field] : n \in 0 .. MaxLines}]

VARIABLES
    door,       \* socks5, plain, other
    asked,      \* the target the client gave; "path" for a URI without a host
    stage,      \* arrived, dial, relay, done
    request,    \* what the client sent
    sent,       \* Seq(Message): what was sent upstream, at most one
    response,   \* what the upstream answered
    relayed,    \* Seq(Message): what the client of "plain" got of it, at most one
    code        \* what a client of "plain" is told: none, 400, 502, upstream's

httpVars == <<door, asked, stage, request, sent, response, relayed, code>>
allVars  == <<vars, httpVars>>

Empty == [fields |-> {}, connection |-> <<>>]

DoorsInit ==
    /\ Init
    /\ door \in {"socks5", "plain", "other"}
    /\ door # "other" => target # "noport"
    /\ door = "plain" => ~usable    \* bound: resolvers are tried through the others
    /\ asked \in {target} \cup IF door = "plain" THEN {"path"} ELSE {}
    /\ request \in IF door = "plain" THEN Message ELSE {Empty}
    /\ stage = "arrived" /\ code = "none"
    /\ sent = <<>> /\ response = Empty /\ relayed = <<>>
----------------------------------------------------------------------------
\* Mutant: only the first Connection line counts.
RemoveHopByHopFirst(m) ==
    [fields |-> (IF m.connection = <<>> THEN m.fields ELSE m.fields \ Head(m.connection))
                \ HopByHop,
     connection |-> <<>>]

\* Line by line what Connection names ...
DeleteNamed(fields, lines) == FoldLeft(LAMBDA h, line : h \ line, fields, lines)

\* ... then the fixed list.
RemoveHopByHop(m) ==
    [fields |-> DeleteNamed(m.fields, m.connection) \ HopByHop,
     connection |-> <<>>]

\* passthroughResolver gives no address: what is dialed is what was asked for.
Resolve(t) == t

\* ServeSOCKS5, or whoever else calls DialContext.
Pass ==
    /\ stage = "arrived" /\ door # "plain"
    /\ target' = IF door = "socks5" THEN Resolve(asked) ELSE asked
    /\ stage' = "dial"
    /\ UNCHANGED <<usable, heard, pc, rest, got, addrs, tried>>
    /\ UNCHANGED <<door, asked, request, sent, response, relayed, code>>

Refuse ==
    /\ stage = "arrived" /\ door = "plain" /\ asked = "path"
    /\ stage' = "done" /\ code' = "400"
    /\ UNCHANGED <<vars, door, asked, request, sent, response, relayed>>

Prepare ==
    /\ stage = "arrived" /\ door = "plain" /\ asked # "path"
    /\ sent' = <<RemoveHopByHop(request)>>
    /\ stage' = "dial"
    /\ UNCHANGED <<vars, door, asked, request, response, relayed, code>>

DialStep == stage = "dial" /\ Next /\ UNCHANGED httpVars

\* RoundTrip dials, or takes a connection from the pool.
Connected == pc \in {"split", "connected"}

RoundTrip ==
    /\ stage = "dial" /\ door = "plain" /\ Connected
    /\ response' \in Message
    /\ stage' = "relay"
    /\ UNCHANGED <<vars, door, asked, request, sent, relayed, code>>

RoundTripFails ==
    /\ stage = "dial" /\ door = "plain" /\ (Connected \/ pc = "failed")
    /\ stage' = "done" /\ code' = "502"
    /\ UNCHANGED <<vars, door, asked, request, sent, response, relayed>>

Relay ==
    /\ stage = "relay"
    /\ relayed' = <<RemoveHopByHop(response)>>
    /\ stage' = "done" /\ code' = "upstream's"
    /\ UNCHANGED <<vars, door, asked, request, sent, response>>
----------------------------------------------------------------------------
DoorsNext == Pass \/ Refuse \/ Prepare \/ DialStep \/ RoundTrip \/ RoundTripFails \/ Relay

DoorsSpec == DoorsInit /\ [][DoorsNext]_allVars
----------------------------------------------------------------------------
\* RFC 7230, section 6.1: what is neither hop-by-hop nor named by any Connection.
EndToEnd(m) == {f \in m.fields \ HopByHop : \A line \in Range(m.connection) : f \notin line}

\* Between the client and what it asked for nothing is lost and nothing slips
\* through: every end-to-end header passes, both ways, and no other
\* (http.go:100-102); a name is dialed as it was given, so that the tailnet resolves
\* it (socks5.go:11-15); what is refused or failed is neither dialed nor relayed.
ForwardsEndToEnd ==
    /\ \A m \in Range(sent) : m = [fields |-> EndToEnd(request), connection |-> <<>>]
    /\ \A m \in Range(relayed) : m = [fields |-> EndToEnd(response), connection |-> <<>>]
    /\ tried # <<>> => target = asked
    /\ code = "400" => tried = <<>> /\ sent = <<>>
    /\ code = "502" => relayed = <<>>
=============================================================================

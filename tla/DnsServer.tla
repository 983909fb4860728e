----------------------------- MODULE DnsServer -----------------------------
(***************************************************************************)
(* The UDP DNS server: ServeDNSUDP in internal/proxy/dns.go and DNSQuery   *)
(* in internal/tsnode/dns.go.                                              *)
(*                                                                         *)
(* One goroutine reads datagrams into the one buffer it has, copies each   *)
(* out of it and starts a goroutine (a worker) that asks the resolver, for *)
(* five seconds at most, and sends the answer back.  The network loses,    *)
(* duplicates and reorders datagrams; the resolver may answer late, fail   *)
(* or never answer; the socket may be closed and ctx cancelled meanwhile.  *)
(***************************************************************************)
EXTENDS Naturals, FiniteSets

CONSTANTS
    Client,
    Query,        \* what a client can ask
    Oversized,    \* the queries longer than maxDNSMessage
    Cut,          \* what such a query is in the buffer, cut off at its end
    None,         \* no query
    Worker,       \* bound: goroutines that answer queries at one time
    MaxSent       \* bound: datagrams that the clients and the network make

ASSUME DnsAssumption ==
    /\ Oversized \subseteq Query
    /\ Cut \notin Query
    /\ None \notin Query \cup {Cut}
    /\ IsFiniteSet(Worker)
    /\ MaxSent \in Nat

Content  == Query \cup {Cut}
Exchange == Client \X Content
Datagram == Client \X Query

VARIABLES
    sent,       \* datagrams made so far
    net,        \* [Datagram -> Nat]: on their way to the socket, or queued in it
    socket,     \* open, closed
    ctxDone,    \* the context of the run is cancelled
    loop,       \* the reading goroutine: read, copy, returned
    buf,        \* the contents of its buffer
    from,       \* who sent them
    pc,         \* [Worker -> {"none", "start", "ask", "reply"}]
    query,      \* [Worker -> Content]: the worker's copy of the query
    to,         \* [Worker -> Client]: who gets the answer
    question,   \* [Worker -> Content \cup {None}]: what the resolver was asked
    expired,    \* [Worker -> BOOLEAN]: the five seconds are over
    received,   \* [Exchange -> Nat]: history, what the loop has read
    replied     \* [Exchange -> Nat]: history, what was sent to whom

netVars  == <<sent, net>>
mainVars == <<socket, ctxDone>>
loopVars == <<loop, buf, from, received>>
workVars == <<pc, query, to, question, expired>>
vars == <<netVars, mainVars, loopVars, workVars, replied>>

TypeOK ==
    /\ sent \in 0 .. MaxSent
    /\ net \in [Datagram -> Nat]
    /\ socket \in {"open", "closed"}
    /\ ctxDone \in BOOLEAN
    /\ loop \in {"read", "copy", "returned"}
    /\ buf \in Content \cup {None}
    /\ from \in Client
    /\ loop = "copy" => buf \in Content
    /\ pc \in [Worker -> {"none", "start", "ask", "reply"}]
    /\ query \in [Worker -> Content \cup {None}]
    /\ to \in [Worker -> Client]
    /\ question \in [Worker -> Content \cup {None}]
    /\ expired \in [Worker -> BOOLEAN]
    /\ received \in [Exchange -> Nat]
    /\ replied \in [Exchange -> Nat]

Init ==
    /\ sent = 0 /\ net = [d \in Datagram |-> 0]
    /\ socket = "open" /\ ctxDone = FALSE
    /\ loop = "read" /\ buf = None /\ from \in Client
    /\ pc = [w \in Worker |-> "none"]
    /\ query = [w \in Worker |-> None]
    /\ to = [w \in Worker |-> from]
    /\ question = [w \in Worker |-> None]
    /\ expired = [w \in Worker |-> FALSE]
    /\ received = [x \in Exchange |-> 0]
    /\ replied = [x \in Exchange |-> 0]
----------------------------------------------------------------------------
(* The reading goroutine.                                                  *)

\* Mutant: a buffer of length 0 with room for maxDNSMessage bytes.
InBufferEmpty(q) == None

\* What ReadFrom leaves in a buffer of maxDNSMessage bytes.
InBuffer(q) == IF q \in Oversized THEN Cut ELSE q

\* Mutant: the server reads on after an error, also from a socket that is closed.
ReadFailsGoesOn == loop = "read" /\ UNCHANGED vars

\* A failing read ends the server: the socket was closed, or any other error.
ReadFails ==
    /\ loop = "read"
    /\ loop' = "returned"
    /\ UNCHANGED <<netVars, mainVars, buf, from, received, workVars, replied>>

ReadFrom(d) ==
    /\ loop = "read" /\ socket = "open"
    /\ net[d] > 0
    /\ net' = [net EXCEPT ![d] = @ - 1]
    /\ buf' = InBuffer(d[2])
    /\ from' = d[1]
    /\ received' = [received EXCEPT ![<<d[1], InBuffer(d[2])>>] = @ + 1]
    /\ loop' = "copy"
    /\ UNCHANGED <<sent, mainVars, workVars, replied>>

\* Mutant: the loop starts a worker that does not get the query.
CopyForgotten(w) ==
    /\ loop = "copy"
    /\ pc[w] = "none"
    /\ pc' = [pc EXCEPT ![w] = "start"]
    /\ to' = [to EXCEPT ![w] = from]
    /\ loop' = "read"
    /\ UNCHANGED <<netVars, mainVars, buf, from, received, query, question, expired, replied>>

\* The query is copied out of the buffer, and a goroutine answers it.
CopyAndGo(w) ==
    /\ loop = "copy"
    /\ pc[w] = "none"
    /\ pc' = [pc EXCEPT ![w] = "start"]
    /\ query' = [query EXCEPT ![w] = buf]
    /\ to' = [to EXCEPT ![w] = from]
    /\ loop' = "read"
    /\ UNCHANGED <<netVars, mainVars, buf, from, received, question, expired, replied>>
----------------------------------------------------------------------------
(* A worker.                                                               *)
Finish(w) ==
    /\ pc' = [pc EXCEPT ![w] = "none"]
    /\ query' = [query EXCEPT ![w] = None]
    /\ question' = [question EXCEPT ![w] = None]
    /\ expired' = [expired EXCEPT ![w] = FALSE]

\* Mutant: the goroutine reads the shared buffer instead of a copy.
AskedBuffer(w) == buf

\* DNSQuery hands the resolver what is in the worker's own slice.
Asked(w) == query[w]

Ask(w) ==
    /\ pc[w] = "start"
    /\ question' = [question EXCEPT ![w] = Asked(w)]
    /\ pc' = [pc EXCEPT ![w] = "ask"]
    /\ UNCHANGED <<netVars, mainVars, loopVars, query, to, expired, replied>>

\* Mutant: a query runs under the context of the run alone.
ExpireNever(w) == FALSE /\ UNCHANGED vars

\* context.WithTimeout: five seconds have passed.
Expire(w) ==
    /\ pc[w] \in {"start", "ask"} /\ ~expired[w]
    /\ expired' = [expired EXCEPT ![w] = TRUE]
    /\ UNCHANGED <<netVars, mainVars, loopVars, pc, query, to, question, replied>>

\* The resolver answers, possibly in the moment in which the time is over ...
Answered(w) ==
    /\ pc[w] = "ask"
    /\ pc' = [pc EXCEPT ![w] = "reply"]
    /\ UNCHANGED <<netVars, mainVars, loopVars, query, to, question, expired, replied>>

\* ... or fails, and there is no reply.
QueryFails(w) ==
    /\ pc[w] = "ask"
    /\ Finish(w)
    /\ UNCHANGED <<netVars, mainVars, loopVars, to, replied>>

\* What a query does at the latest when its context is over, its own or the run's.
QueryGivesUp(w) == (expired[w] \/ ctxDone) /\ QueryFails(w)

\* Mutant: the answer is sent and the worker sends it again.
ReplyAgain(w) ==
    /\ pc[w] = "reply"
    /\ socket = "open"
    /\ replied' = [replied EXCEPT ![<<to[w], question[w]>>] = @ + 1]
    /\ UNCHANGED <<netVars, mainVars, loopVars, workVars>>

Reply(w) ==
    /\ pc[w] = "reply"
    /\ socket = "open"
    /\ replied' = [replied EXCEPT ![<<to[w], question[w]>>] = @ + 1]
    /\ Finish(w)
    /\ UNCHANGED <<netVars, mainVars, loopVars, to>>

\* The socket is closed, or the system refuses to send.
ReplyFails(w) ==
    /\ pc[w] = "reply"
    /\ Finish(w)
    /\ UNCHANGED <<netVars, mainVars, loopVars, to, replied>>
----------------------------------------------------------------------------
(* The network, and the main goroutine of run.go.                          *)

\* A client sends, or the network makes a second datagram of one it carries.
Send(d) ==
    /\ sent < MaxSent /\ sent' = sent + 1
    /\ net' = [net EXCEPT ![d] = @ + 1]
    /\ UNCHANGED <<mainVars, loopVars, workVars, replied>>

Lose(d) ==
    /\ net[d] > 0 /\ net' = [net EXCEPT ![d] = @ - 1]
    /\ UNCHANGED <<sent, mainVars, loopVars, workVars, replied>>

Cancel ==
    /\ ~ctxDone /\ ctxDone' = TRUE
    /\ UNCHANGED <<netVars, socket, loopVars, workVars, replied>>

Close ==
    /\ socket = "open" /\ socket' = "closed"
    /\ UNCHANGED <<netVars, ctxDone, loopVars, workVars, replied>>
----------------------------------------------------------------------------
LoopStep == ReadFails \/ (\E d \in Datagram : ReadFrom(d)) \/ (\E w \in Worker : CopyAndGo(w))

WorkerStep(w) == Ask(w) \/ Expire(w) \/ Answered(w) \/ QueryFails(w)
                 \/ Reply(w) \/ ReplyFails(w)

Environment == Cancel \/ Close \/ \E d \in Datagram : Send(d) \/ Lose(d)

Next == LoopStep \/ (\E w \in Worker : WorkerStep(w)) \/ Environment

Spec == Init /\ [][Next]_vars

\* The goroutines run, timers fire, a resolver whose context is over returns, and
\* a read from a closed socket does.  Nothing is assumed of a resolver in time.
Fairness ==
    /\ WF_vars(socket = "closed" /\ ReadFails)
    /\ WF_vars(\E w \in Worker : CopyAndGo(w))
    /\ \A w \in Worker :
        /\ WF_vars(Ask(w)) /\ WF_vars(Expire(w)) /\ WF_vars(QueryGivesUp(w))
        /\ WF_vars(Reply(w) \/ ReplyFails(w))

FairSpec == Spec /\ Fairness
----------------------------------------------------------------------------
\* Whoever gets a reply asked, and asked for this: no answer goes to another
\* client, and none is to the query that came in after it, whichever worker is
\* slow and whatever the buffer holds by then (dns.go:27-39).
RepliesWereAsked ==
    \A x \in Exchange : replied[x] > 0 => received[x] > 0

\* What it rests on: the buffer and every worker hold something that was read.
Holds(c, q) == <<c, q>> \in Exchange /\ received[<<c, q>>] > 0

DnsPlace ==
    /\ RepliesWereAsked
    /\ loop = "copy" => Holds(from, buf)
    /\ \A w \in Worker :
        /\ pc[w] \in {"start", "ask", "reply"} => Holds(to[w], query[w])
        /\ pc[w] \in {"ask", "reply"} => Holds(to[w], question[w])
        /\ pc[w] \in {"ask", "reply"} => question[w] = query[w]

\* Every datagram read is in the buffer, with one worker, answered, or given up.
InHand(x)  == {w \in Worker : pc[w] # "none" /\ to[w] = x[1] /\ query[w] = x[2]}
Waiting(x) == IF loop = "copy" /\ from = x[1] /\ buf = x[2] THEN 1 ELSE 0

DnsCount ==
    \A x \in Exchange : replied[x] + Cardinality(InHand(x)) + Waiting(x) <= received[x]

DnsInv == DnsPlace /\ DnsCount

\* At most one reply for each datagram read, duplicates of the network counted as
\* datagrams (dns.go:29-42): a query that failed or ran out of time has none.
Service == INSTANCE DnsService WITH asked <- received, answered <- replied
RefinesService == Service!Spec

\* "bounds a single lookup, so a stuck resolver cannot pile up goroutines"
\* (dns.go:15-17): every worker ends, though no resolver need ever answer.
WorkersEnd == \A w \in Worker : pc[w] # "none" ~> pc[w] = "none"

\* The deferred pc.Close of run.go:55 takes the server down: the loop returns and
\* no worker is left, wherever they were.
CloseEndsAll ==
    socket = "closed" ~> loop = "returned" /\ \A w \in Worker : pc[w] = "none"
=============================================================================

-------------------------------- MODULE Dial --------------------------------
(***************************************************************************)
(* How a name becomes a connection: one call of Node.DialContext           *)
(* (internal/tsnode/node.go) with the LookupIP, lookup and parseAddrs of   *)
(* internal/tsnode/dns.go under it.  Each resolver answer and each dial    *)
(* may fail, and an answer may be broken at any record.                    *)
(***************************************************************************)
EXTENDS Naturals, Sequences, SequencesExt

CONSTANTS
    IP,             \* addresses
    Literal,        \* the address of a target that is written as one
    Name,           \* the target as it was given, when it is a name
    MaxRecords      \* bound: records in an answer

ASSUME DialAssumption == MaxRecords \in Nat

\* Records of an answer.  "other" is of a type that is passed over; at "broken"
\* the parser fails, whichever of its calls that is.
Address == {"A", "AAAA"} \X IP
Record  == Address \cup {<<"other">>, <<"broken">>}
Records == UNION {[1 .. n -> Record] : n \in 0 .. MaxRecords}

Failure == <<<<"failed">>>>   \* what stands for no answer

Types == <<"A", "AAAA">>      \* asked in this order

VARIABLES
    target,     \* what is dialed: "literal", "name", "noport"
    usable,     \* there is a DNS subsystem, and the name fits a DNS message
    heard,      \* Seq(Records \cup {Failure}): the answers of the resolver so far
    pc,         \* split, query, parse, dial, fallback, connected, failed
    rest,       \* records of the answer not parsed yet
    got,        \* addresses of this answer
    addrs,      \* addresses of the answers before; those still to dial
    tried       \* what has been dialed, in order

vars == <<target, usable, heard, pc, rest, got, addrs, tried>>

TypeOK ==
    /\ target \in {"literal", "name", "noport"} /\ usable \in BOOLEAN
    /\ pc \in {"split", "query", "parse", "dial", "fallback", "connected", "failed"}
    /\ heard \in Seq(Records \cup {Failure}) /\ Len(heard) <= Len(Types)
    /\ rest \in Seq(Record) /\ got \in Seq(IP) /\ addrs \in Seq(IP)
    /\ tried \in Seq(IP \cup {Literal, Name})

Init ==
    /\ target \in {"literal", "name", "noport"} /\ usable \in BOOLEAN
    /\ pc = "split"
    /\ heard = <<>> /\ rest = <<>> /\ got = <<>> /\ addrs = <<>> /\ tried = <<>>
----------------------------------------------------------------------------
Goto(l) == pc' = l

\* A dial of tsnet: it connects, or the call goes on at l.
Attempt(a, l) ==
    /\ tried' = Append(tried, a)
    /\ Goto("connected") \/ Goto(l)

\* SplitHostPort, and the targets that need no resolver.
Split ==
    /\ pc = "split"
    /\ \/ target = "noport" /\ Goto("failed") /\ UNCHANGED tried
       \/ target = "literal" /\ Attempt(Literal, "failed")
       \/ target = "name" /\ Goto(IF usable THEN "query" ELSE "fallback") /\ UNCHANGED tried
    /\ UNCHANGED <<target, usable, heard, rest, got, addrs>>

\* After n answers: the next type, or the dials, or nothing to dial.
AfterAnswer(n, found) ==
    IF n < Len(Types) THEN "query"
    ELSE IF found = <<>> THEN "fallback" ELSE "dial"

\* One lookup: no answer, or one that says the name is wrong ...
QueryFails ==
    /\ pc = "query"
    /\ heard' = Append(heard, Failure)
    /\ Goto(AfterAnswer(Len(heard) + 1, addrs))
    /\ UNCHANGED <<target, usable, rest, got, addrs, tried>>

\* ... or records.
QueryAnswered ==
    /\ pc = "query"
    /\ \E r \in Records : heard' = Append(heard, r) /\ rest' = r
    /\ got' = <<>>
    /\ Goto("parse")
    /\ UNCHANGED <<target, usable, addrs, tried>>

\* parseAddrs takes A and AAAA whatever was asked, and passes over the rest.
ParseRecord ==
    /\ pc = "parse" /\ rest # <<>> /\ Head(rest) # <<"broken">>
    /\ rest' = Tail(rest)
    /\ got' = IF Head(rest) \in Address THEN Append(got, Head(rest)[2]) ELSE got
    /\ UNCHANGED <<target, usable, heard, pc, addrs, tried>>

\* Mutant: the addresses before a broken record are used.
ParseFailsKeeping ==
    /\ pc = "parse" /\ rest # <<>> /\ Head(rest) = <<"broken">>
    /\ addrs' = addrs \o got
    /\ Goto(AfterAnswer(Len(heard), addrs \o got))
    /\ UNCHANGED <<target, usable, heard, rest, got, tried>>

\* A broken record costs the whole answer.
ParseFails ==
    /\ pc = "parse" /\ rest # <<>> /\ Head(rest) = <<"broken">>
    /\ Goto(AfterAnswer(Len(heard), addrs))
    /\ UNCHANGED <<target, usable, heard, rest, got, addrs, tried>>

ParseDone ==
    /\ pc = "parse" /\ rest = <<>>
    /\ addrs' = addrs \o got
    /\ Goto(AfterAnswer(Len(heard), addrs \o got))
    /\ UNCHANGED <<target, usable, heard, rest, got, tried>>

\* Mutant: the first address that refuses ends the dial.
DialNextOnce ==
    /\ pc = "dial"
    /\ Attempt(Head(addrs), "failed")
    /\ addrs' = Tail(addrs)
    /\ UNCHANGED <<target, usable, heard, rest, got>>

\* Each address in turn, until one connects.
DialNext ==
    /\ pc = "dial"
    /\ Attempt(Head(addrs), IF Tail(addrs) = <<>> THEN "failed" ELSE "dial")
    /\ addrs' = Tail(addrs)
    /\ UNCHANGED <<target, usable, heard, rest, got>>

\* tsnet's own resolution of the name.
Fallback ==
    /\ pc = "fallback"
    /\ Attempt(Name, "failed")
    /\ UNCHANGED <<target, usable, heard, rest, got, addrs>>
----------------------------------------------------------------------------
Next == \/ Split \/ QueryFails \/ QueryAnswered \/ ParseRecord \/ ParseFails \/ ParseDone
        \/ DialNext \/ Fallback

Spec == Init /\ [][Next]_vars
----------------------------------------------------------------------------
\* The reference: the addresses among the first k records of an answer, in order ...
Places(answer, k) == {i \in 1 .. k : answer[i] \in Address}

Ranked(places, n) == {i \in places : Cardinality({j \in places : j <= i}) = n}

Nth(places, n) == CHOOSE i \in Ranked(places, n) : TRUE

Among(answer, k) ==
    LET places == Places(answer, k)
    IN  [n \in 1 .. Cardinality(places) |-> answer[Nth(places, n)][2]]

\* ... those of an answer, none when it failed or is broken ...
AddressesOf(answer) ==
    IF {<<"broken">>, <<"failed">>} \cap Range(answer) # {}
      THEN <<>> ELSE Among(answer, Len(answer))

\* ... and those of both.
AnswerTo(n) == IF n <= Len(heard) THEN AddressesOf(heard[n]) ELSE <<>>

Candidates == AnswerTo(1) \o AnswerTo(2)

\* What may be dialed, in which order, once the resolver has said all it will.
Plan == CASE target = "noport"  -> <<>>
          [] target = "literal" -> <<Literal>>
          [] OTHER -> IF Candidates = <<>> THEN <<Name>> ELSE Candidates

\* docs/proxies.md:72-76: a literal is dialed as it is; of a name each address is
\* tried in turn, those of the answer to A first; the name itself only when there is
\* none.  An answer that fails or is broken does not touch what the other one gave.
DialsByThePlan == IsPrefix(tried, Plan)

\* A dial fails only when all of the plan has been tried, never at the first
\* address that refuses (node.go:210-219).
FailsOnlyAfterAll == pc = "failed" => tried = Plan
=============================================================================

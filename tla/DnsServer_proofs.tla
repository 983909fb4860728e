-------------------------- MODULE DnsServer_proofs --------------------------
(***************************************************************************)
(* Theorems about DnsServer, for any clients, queries and workers.         *)
(***************************************************************************)
EXTENDS DnsServer, FiniteSetTheorems, TLAPS

\* A datagram in the buffer is content (dns.go:11-13, 23).
LEMMA Buffered == \A q \in Query : InBuffer(q) \in Content
  BY DEF InBuffer, Content

\* Every variable of the server keeps its type.
THEOREM DnsTypeCorrect == Spec => []TypeOK
<1>1. Init => TypeOK
  <2> SUFFICES ASSUME Init PROVE TypeOK
    OBVIOUS
  <2>1. sent \in 0 .. MaxSent
    BY DnsAssumption DEF Init
  <2>2. net \in [Datagram -> Nat] /\ received \in [Exchange -> Nat] /\ replied \in [Exchange -> Nat]
    BY DEF Init
  <2> QED
    BY <2>1, <2>2 DEF Init, TypeOK
<1>2. TypeOK /\ [Next]_vars => TypeOK'
  <2> SUFFICES ASSUME TypeOK, [Next]_vars PROVE TypeOK'
    OBVIOUS
  <2> USE DEF TypeOK, netVars, mainVars, loopVars, workVars, vars
  <2>1. CASE ReadFails
    BY <2>1 DEF ReadFails
  <2>2. ASSUME NEW d \in Datagram, ReadFrom(d) PROVE TypeOK'
    <3>1. d[1] \in Client /\ d[2] \in Query
      BY DEF Datagram
    <3>2. <<d[1], InBuffer(d[2])>> \in Exchange /\ InBuffer(d[2]) \in Content
      BY <3>1, Buffered DEF Exchange
    <3>3. net' \in [Datagram -> Nat]
      BY <2>2 DEF ReadFrom
    <3>4. received' \in [Exchange -> Nat]
      BY <2>2, <3>2 DEF ReadFrom
    <3> QED
      BY <2>2, <3>1, <3>2, <3>3, <3>4 DEF ReadFrom
  <2>3. ASSUME NEW w \in Worker, CopyAndGo(w) PROVE TypeOK'
    BY <2>3 DEF CopyAndGo
  <2>4. ASSUME NEW w \in Worker, WorkerStep(w) PROVE TypeOK'
    <3>1. CASE Ask(w)
      BY <3>1 DEF Ask, Asked
    <3>2. CASE Expire(w)
      BY <3>2 DEF Expire
    <3>3. CASE Answered(w)
      BY <3>3 DEF Answered
    <3>4. CASE QueryFails(w)
      BY <3>4 DEF QueryFails, Finish
    <3>5. CASE Reply(w)
      <4>1. replied' \in [Exchange -> Nat]
        <5>1. \A x \in Exchange : replied'[x] \in Nat
          BY <3>5 DEF Reply
        <5>2. replied' = [x \in Exchange |-> replied'[x]]
          BY <3>5 DEF Reply
        <5> QED
          BY <5>1, <5>2
      <4> QED
        BY <3>5, <4>1 DEF Reply, Finish
    <3>6. CASE ReplyFails(w)
      BY <3>6 DEF ReplyFails, Finish
    <3> QED
      BY <2>4, <3>1, <3>2, <3>3, <3>4, <3>5, <3>6 DEF WorkerStep
  <2>5. CASE Cancel \/ Close
    BY <2>5 DEF Cancel, Close
  <2>6. ASSUME NEW d \in Datagram, Send(d) PROVE TypeOK'
    BY <2>6, DnsAssumption DEF Send
  <2>7. ASSUME NEW d \in Datagram, Lose(d) PROVE TypeOK'
    BY <2>7 DEF Lose
  <2>8. CASE UNCHANGED vars
    BY <2>8
  <2> QED
    BY <2>1, <2>2, <2>3, <2>4, <2>5, <2>6, <2>7, <2>8 DEF Next, LoopStep, Environment
<1> QED
  BY <1>1, <1>2, PTL DEF Spec

\* No step forgets that a query was read.
LEMMA StillHolds ==
    ASSUME TypeOK, [Next]_vars, NEW c, NEW q, Holds(c, q) PROVE Holds(c, q)'
<1> USE DEF Holds, TypeOK, vars, netVars, mainVars, loopVars, workVars
<1>1. ASSUME NEW d \in Datagram, ReadFrom(d) PROVE Holds(c, q)'
  <2>1. <<d[1], InBuffer(d[2])>> \in Exchange
    BY Buffered DEF Datagram, Exchange
  <2>2. received'[<<c, q>>] >= received[<<c, q>>]
    BY <1>1, <2>1 DEF ReadFrom
  <2> QED
    BY <1>1, <2>2, <2>1 DEF ReadFrom
<1>2. CASE UNCHANGED received
  BY <1>2
<1> QED
  BY <1>1, <1>2 DEF Next, LoopStep, WorkerStep, Environment, ReadFails, CopyAndGo, Ask, Expire,
     Answered, QueryFails, Reply, ReplyFails, Cancel, Close, Send, Lose

\* Buffer and workers hold what was read, for whom it was read.
LEMMA DnsPlaceHolds == Spec => []DnsPlace
<1>1. Init => DnsPlace
  BY DEF Init, DnsPlace, RepliesWereAsked
<1>2. TypeOK /\ DnsPlace /\ [Next]_vars => DnsPlace'
  <2> SUFFICES ASSUME TypeOK, DnsPlace, [Next]_vars PROVE DnsPlace'
    OBVIOUS
  <2>1. \A c, q : Holds(c, q) => Holds(c, q)'
    BY StillHolds
  <2>2. \A x \in Exchange : received[x] > 0 => received'[x] > 0
    <3> SUFFICES ASSUME NEW x \in Exchange, received[x] > 0 PROVE received'[x] > 0
      OBVIOUS
    <3>1. x = <<x[1], x[2]>>
      BY DEF Exchange
    <3>2. Holds(x[1], x[2])
      BY <3>1 DEF Holds
    <3> QED
      BY <2>1, <3>1, <3>2 DEF Holds
  <2>3. RepliesWereAsked'
    <3>1. ASSUME NEW w \in Worker, Reply(w) PROVE RepliesWereAsked'
      <4>1. Holds(to[w], question[w])
        BY <3>1 DEF DnsPlace, Reply
      <4>2. \A x \in Exchange : x # <<to[w], question[w]>> => replied'[x] = replied[x]
        BY <3>1 DEF Reply, TypeOK
      <4> QED
        BY <4>1, <4>2, <2>2 DEF RepliesWereAsked, DnsPlace, Holds
    <3>2. CASE UNCHANGED replied
      BY <3>2, <2>2 DEF RepliesWereAsked, DnsPlace
    <3> QED
      BY <3>1, <3>2 DEF Next, LoopStep, WorkerStep, Environment, ReadFails, ReadFrom, CopyAndGo,
         Ask, Expire, Answered, QueryFails, ReplyFails, Cancel, Close, Send, Lose, vars
  <2>4. (loop = "copy" => Holds(from, buf))'
    <3>1. ASSUME NEW d \in Datagram, ReadFrom(d) PROVE Holds(from, buf)'
      <4>1. <<d[1], InBuffer(d[2])>> \in Exchange
        BY Buffered DEF Datagram, Exchange
      <4>2. received'[<<d[1], InBuffer(d[2])>>] > 0
        BY <3>1, <4>1 DEF ReadFrom, TypeOK
      <4> QED
        BY <3>1, <4>1, <4>2 DEF ReadFrom, Holds
    <3>2. ASSUME UNCHANGED <<from, buf>>, loop' = "copy" => loop = "copy"
          PROVE  (loop = "copy" => Holds(from, buf))'
      BY <3>2, <2>1 DEF DnsPlace, Holds
    <3> QED
      BY <3>1, <3>2 DEF Next, LoopStep, WorkerStep, Environment, ReadFails, CopyAndGo, Ask, Expire,
         Answered, QueryFails, Reply, ReplyFails, Cancel, Close, Send, Lose, vars, loopVars
  <2>5. ASSUME NEW v \in Worker
        PROVE  /\ (pc[v] \in {"start", "ask", "reply"} => Holds(to[v], query[v]))'
               /\ (pc[v] \in {"ask", "reply"} => Holds(to[v], question[v]))'
               /\ (pc[v] \in {"ask", "reply"} => question[v] = query[v])'
    <3> DEFINE Keeps == /\ (pc[v] \in {"start", "ask", "reply"} => Holds(to[v], query[v]))'
                        /\ (pc[v] \in {"ask", "reply"} => Holds(to[v], question[v]))'
                        /\ (pc[v] \in {"ask", "reply"} => question[v] = query[v])'
    <3>1. ASSUME pc'[v] = pc[v], to'[v] = to[v], query'[v] = query[v], question'[v] = question[v]
          PROVE  Keeps
      BY <3>1, <2>1 DEF DnsPlace, Holds
    <3>2. ASSUME NEW w \in Worker, CopyAndGo(w) PROVE Keeps
      <4>1. CASE v = w
        BY <3>2, <4>1, <2>1 DEF CopyAndGo, DnsPlace, Holds, TypeOK
      <4>2. CASE v # w
        BY <3>1, <3>2, <4>2 DEF CopyAndGo, TypeOK
      <4> QED
        BY <4>1, <4>2
    <3>3. ASSUME NEW w \in Worker, WorkerStep(w) PROVE Keeps
      <4>1. CASE v # w
        BY <3>1, <3>3, <4>1 DEF WorkerStep, Ask, Expire, Answered, QueryFails, Reply, ReplyFails,
           Finish, workVars, TypeOK
      <4>2. CASE v = w /\ (Ask(w) \/ Answered(w))
        BY <2>1, <4>2 DEF Ask, Asked, Answered, DnsPlace, Holds, TypeOK
      <4>3. CASE v = w /\ Expire(w)
        BY <3>1, <4>3 DEF Expire
      <4>4. CASE v = w /\ (QueryFails(w) \/ Reply(w) \/ ReplyFails(w))
        <5>1. pc'[v] = "none"
          BY <4>4 DEF QueryFails, Reply, ReplyFails, Finish, TypeOK
        <5> QED
          BY <5>1
      <4> QED
        BY <3>3, <4>1, <4>2, <4>3, <4>4 DEF WorkerStep
    <3>4. CASE UNCHANGED workVars
      BY <3>1, <3>4 DEF workVars
    <3> QED
      BY <3>2, <3>3, <3>4 DEF Next, LoopStep, Environment, ReadFails, ReadFrom, Cancel, Close, Send,
         Lose, vars
  <2> QED
    BY <2>3, <2>4, <2>5 DEF DnsPlace
<1> QED
  BY <1>1, <1>2, DnsTypeCorrect, PTL DEF Spec


LEMMA InHandFinite ==
    ASSUME NEW x PROVE /\ IsFiniteSet(InHand(x)) /\ Cardinality(InHand(x)) \in Nat
                       /\ IsFiniteSet(InHand(x)')
                       /\ Cardinality(InHand(x)') \in Nat
<1>1. IsFiniteSet(Worker) /\ InHand(x) \in SUBSET Worker /\ InHand(x)' \in SUBSET Worker
  BY DnsAssumption DEF InHand
<1> QED
  BY <1>1, FS_Subset, FS_CardinalityType

\* A datagram is read into the buffer once, given to one worker, and leaves its hand
\* with one reply or none.
LEMMA CountKept ==
    ASSUME TypeOK, DnsPlace, DnsCount, [Next]_vars, NEW x \in Exchange
    PROVE  (replied[x] + Cardinality(InHand(x)) + Waiting(x) <= received[x])'
<1> USE DEF netVars, mainVars, loopVars, workVars, vars
<1>1. /\ replied[x] \in Nat /\ received[x] \in Nat /\ Waiting(x) \in {0, 1}
      /\ replied[x] + Cardinality(InHand(x)) + Waiting(x) <= received[x]
  BY DEF TypeOK, DnsCount, Waiting
<1>2. /\ IsFiniteSet(InHand(x)) /\ Cardinality(InHand(x)) \in Nat
      /\ Cardinality(InHand(x)') \in Nat
  BY InHandFinite
<1>3. CASE UNCHANGED <<loopVars, pc, query, to, replied>>
  <2>1. InHand(x)' = InHand(x) /\ Waiting(x)' = Waiting(x)
    BY <1>3 DEF InHand, Waiting
  <2> QED
    BY <1>1, <1>3, <2>1
<1>4. CASE ReadFails
  <2>1. InHand(x)' = InHand(x) /\ Waiting(x)' = 0
    BY <1>4 DEF ReadFails, InHand, Waiting
  <2> QED
    BY <1>1, <1>2, <1>4, <2>1 DEF ReadFails
<1>5. ASSUME NEW d \in Datagram, ReadFrom(d)
      PROVE  (replied[x] + Cardinality(InHand(x)) + Waiting(x) <= received[x])'
  <2>1. InHand(x)' = InHand(x) /\ Waiting(x) = 0 /\ replied' = replied
    BY <1>5 DEF ReadFrom, InHand, Waiting
  <2>2. x = <<x[1], x[2]>>
    BY DEF Exchange
  <2>3. Waiting(x)' = IF x = <<d[1], InBuffer(d[2])>> THEN 1 ELSE 0
    BY <1>5, <2>2 DEF ReadFrom, Waiting
  <2>4. received'[x] = IF x = <<d[1], InBuffer(d[2])>> THEN received[x] + 1 ELSE received[x]
    BY <1>5 DEF ReadFrom, TypeOK
  <2> QED
    BY <1>1, <1>2, <2>1, <2>3, <2>4
<1>6. ASSUME NEW w \in Worker, CopyAndGo(w)
      PROVE  (replied[x] + Cardinality(InHand(x)) + Waiting(x) <= received[x])'
  <2>1. w \notin InHand(x) /\ Waiting(x)' = 0 /\ UNCHANGED <<replied, received>>
    BY <1>6 DEF CopyAndGo, InHand, Waiting
  <2>2. InHand(x)' = IF Waiting(x) = 1 THEN InHand(x) \cup {w} ELSE InHand(x)
    BY <1>6 DEF CopyAndGo, InHand, Waiting, TypeOK
  <2>3. Cardinality(InHand(x) \cup {w}) = Cardinality(InHand(x)) + 1
    BY <1>2, <2>1, FS_AddElement
  <2> QED
    BY <1>1, <1>2, <2>1, <2>2, <2>3
<1>7. ASSUME NEW w \in Worker, Ask(w) \/ Expire(w) \/ Answered(w)
      PROVE  (replied[x] + Cardinality(InHand(x)) + Waiting(x) <= received[x])'
  <2>1. InHand(x)' = InHand(x)
    BY <1>7 DEF Ask, Expire, Answered, InHand, TypeOK
  <2>2. Waiting(x)' = Waiting(x) /\ UNCHANGED <<replied, received>>
    BY <1>7 DEF Ask, Expire, Answered, Waiting
  <2> QED
    BY <1>1, <2>1, <2>2
<1>8. ASSUME NEW w \in Worker, QueryFails(w) \/ Reply(w) \/ ReplyFails(w)
      PROVE  (replied[x] + Cardinality(InHand(x)) + Waiting(x) <= received[x])'
  <2>1. InHand(x)' = InHand(x) \ {w} /\ pc[w] # "none"
    BY <1>8 DEF QueryFails, Reply, ReplyFails, Finish, InHand, TypeOK
  <2>2. Waiting(x)' = Waiting(x) /\ UNCHANGED received
    BY <1>8 DEF QueryFails, Reply, ReplyFails, Waiting
  <2>3. Cardinality(InHand(x)') = IF w \in InHand(x) THEN Cardinality(InHand(x)) - 1
                                                     ELSE Cardinality(InHand(x))
    BY <1>2, <2>1, FS_RemoveElement
  <2>4. replied'[x] = replied[x] \/ (w \in InHand(x) /\ replied'[x] = replied[x] + 1)
    <3>1. CASE Reply(w)
      <4>1. question[w] = query[w] /\ x = <<x[1], x[2]>>
        BY <3>1 DEF Reply, DnsPlace, Exchange
      <4> QED
        BY <2>1, <3>1, <4>1 DEF Reply, InHand, TypeOK
    <3>2. CASE QueryFails(w) \/ ReplyFails(w)
      BY <3>2 DEF QueryFails, ReplyFails
    <3> QED
      BY <1>8, <3>1, <3>2
  <2> QED
    BY <1>1, <1>2, <2>2, <2>3, <2>4
<1>9. CASE Environment
  BY <1>3, <1>9 DEF Environment, Cancel, Close, Send, Lose
<1> QED
  BY <1>3, <1>4, <1>5, <1>6, <1>7, <1>8, <1>9 DEF Next, LoopStep, WorkerStep

\* The inductive invariant: what was read is kept with its sender, and nothing is
\* answered that is not in somebody's hand.
THEOREM DnsInvHolds == Spec => []DnsInv
<1>1. Init => DnsCount
  <2> SUFFICES ASSUME Init, NEW x \in Exchange
               PROVE  replied[x] + Cardinality(InHand(x)) + Waiting(x) <= received[x]
    BY DEF DnsCount
  <2>1. InHand(x) = {} /\ Waiting(x) = 0 /\ replied[x] = 0 /\ received[x] = 0
    BY DEF Init, InHand, Waiting
  <2> QED
    BY <2>1, FS_EmptySet
<1>2. TypeOK /\ DnsPlace /\ DnsCount /\ [Next]_vars => DnsCount'
  BY CountKept DEF DnsCount
<1>3. DnsPlace /\ DnsCount <=> DnsInv
  BY DEF DnsInv
<1> QED
  BY <1>1, <1>2, <1>3, DnsPlaceHolds, DnsTypeCorrect, PTL DEF Spec

\* The server implements DnsService (dns.go:29-42): each datagram read is answered at
\* most once, to its sender, with as many goroutines under way as there may be.
THEOREM ServiceRefined == Spec => RefinesService
<1>1. Init => Service!Init
  BY DEF Init, Service!Init
<1>2. TypeOK /\ DnsInv /\ [Next]_vars => [Service!Next]_(Service!vars)
  <2> SUFFICES ASSUME TypeOK, DnsInv, [Next]_vars PROVE [Service!Next]_(Service!vars)
    OBVIOUS
  <2> USE DEF netVars, mainVars, loopVars, workVars, vars
  <2>1. CASE UNCHANGED <<received, replied>>
    BY <2>1 DEF Service!vars
  <2>2. ASSUME NEW d \in Datagram, ReadFrom(d) PROVE [Service!Next]_(Service!vars)
    <3>1. <<d[1], InBuffer(d[2])>> \in Exchange
      BY Buffered DEF Datagram, Exchange
    <3>2. Service!Ask(<<d[1], InBuffer(d[2])>>)
      BY <2>2 DEF ReadFrom, Service!Ask
    <3> QED
      BY <3>1, <3>2 DEF Service!Next
  <2>3. ASSUME NEW w \in Worker, Reply(w) PROVE [Service!Next]_(Service!vars)
    <3> DEFINE x == <<to[w], question[w]>>
    <3>1. pc[w] = "reply" /\ x \in Exchange /\ question[w] = query[w]
      BY <2>3 DEF Reply, DnsInv, DnsPlace, Holds
    <3>2. w \in InHand(x)
      BY <3>1 DEF InHand
    <3>3. Cardinality(InHand(x)) \in Nat \ {0}
      BY <3>2, InHandFinite, FS_EmptySet
    <3>4. replied[x] < received[x]
      <4>1. replied[x] + Cardinality(InHand(x)) + Waiting(x) <= received[x]
        BY <3>1 DEF DnsInv, DnsCount
      <4>2. replied[x] \in Nat /\ received[x] \in Nat /\ Waiting(x) \in {0, 1}
        BY <3>1 DEF TypeOK, Waiting
      <4> QED
        BY <3>3, <4>1, <4>2
    <3>5. Service!Answer(x)
      BY <2>3, <3>4 DEF Reply, Service!Answer
    <3> QED
      BY <3>1, <3>5 DEF Service!Next
  <2> QED
    BY <2>1, <2>2, <2>3 DEF Next, LoopStep, WorkerStep, Environment, ReadFails, CopyAndGo, Ask,
       Expire, Answered, QueryFails, ReplyFails, Cancel, Close, Send, Lose
<1> QED
  BY <1>1, <1>2, DnsTypeCorrect, DnsInvHolds, PTL DEF Spec, RefinesService, Service!Spec

\* Nobody gets a reply to what they did not ask (dns.go:27-39).
THEOREM RepliesWereAskedHolds == Spec => []RepliesWereAsked
<1>1. DnsInv => RepliesWereAsked
  BY DEF DnsInv, DnsPlace
<1> QED
  BY <1>1, DnsInvHolds, PTL
=============================================================================

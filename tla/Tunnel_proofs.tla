--------------------------- MODULE Tunnel_proofs ---------------------------
(***************************************************************************)
(* Theorems about Tunnel, for any number of bytes and any buffer.          *)
(***************************************************************************)
EXTENDS Tunnel, Integers, SequenceTheorems, TLAPS

\* s is a stretch of the numbers that ends with last.
Run(s, last) == \A i \in 1 .. Len(s) : s[i] = last - Len(s) + i

\* Client to upstream: every place on the way holds a stretch of what the client
\* wrote, each ends where the next one starts, and as long as the upstream is
\* there they make up all of it.
UpInv ==
    /\ Run(rawIn, clSent)
    /\ Run(buf, clSent - Len(rawIn))
    /\ Run(upHand, clSent - Len(rawIn) - Len(buf))
    /\ Run(upIn, Len(upGot) + Len(upIn))
    /\ Run(upGot, Len(upGot))
    /\ upstream # "closed" =>
         Len(upGot) + Len(upIn) + Len(upHand) + Len(buf) + Len(rawIn) = clSent

\* Upstream to client: the same, with the status line as number 0, written before
\* anything else is taken.
DownInv ==
    /\ Run(upOut, upSent)
    /\ Run(clHand, upSent - Len(upOut))
    /\ Run(clIn, Len(clGot) + Len(clIn) - 1)
    /\ Run(clGot, Len(clGot) - 1)
    /\ answer = "ok" /\ client # "closed" =>
         Len(clGot) + Len(clIn) + Len(clHand) + Len(upOut) = upSent + 1
    /\ answer # "ok" =>
         clHand = <<>> /\ clIn = <<>> /\ clGot = <<>> /\ Len(upOut) = upSent

\* Where the handler is, what it has answered, and that it leaves the copy only
\* when there is nothing left to copy or an end is gone.
HandlerInv ==
    /\ pc \in {"dial", "hijack", "answer"} => answer = "none"
    /\ pc = "copy" => answer = "ok"
    /\ answer = "ok" /\ pc # "copy" =>
         \/ client = "closed" \/ upstream = "closed"
         \/ clHand = <<>> /\ upOut = <<>> /\ upstream = "fin"

TunnelInv == UpInv /\ DownInv /\ HandlerInv
----------------------------------------------------------------------------
(* Queues and stretches.                                                   *)

\* What is taken from a queue, and what is put into one.
LEMMA Taken ==
  ASSUME NEW S, NEW s \in Seq(S), s # <<>>
  PROVE  /\ Head(s) \in S /\ Tail(s) \in Seq(S) /\ Len(Tail(s)) = Len(s) - 1
         /\ <<Head(s)>> \in Seq(S) /\ Len(<<Head(s)>>) = 1
  BY HeadTailProperties

LEMMA Put ==
  ASSUME NEW S, NEW s \in Seq(S), NEW x \in S
  PROVE  Append(s, x) \in Seq(S) /\ Len(Append(s, x)) = Len(s) + 1 /\ Len(s) \in Nat
  OBVIOUS

LEMMA TailAppend ==
  ASSUME NEW S, NEW s \in Seq(S), NEW x \in S, s # <<>>
  PROVE  Append(s, x) # <<>> /\ Tail(Append(s, x)) = Append(Tail(s), x)
<1> DEFINE t == Append(s, x)
<1>1. t \in Seq(S) /\ Len(t) = Len(s) + 1 /\ Len(s) \in Nat \ {0}
  BY Put, EmptySeq
<1>2. t # <<>>
  BY <1>1, EmptySeq
<1>3. /\ Tail(t) \in Seq(S) /\ Len(Tail(t)) = Len(s)
      /\ \A i \in 1 .. Len(Tail(t)) : Tail(t)[i] = t[i + 1]
  <2> HIDE DEF t
  <2> QED
    BY <1>1, <1>2, HeadTailProperties
<1>4. /\ Tail(s) \in Seq(S) /\ Len(Tail(s)) = Len(s) - 1
      /\ \A i \in 1 .. Len(Tail(s)) : Tail(s)[i] = s[i + 1]
  BY HeadTailProperties
<1>5. Append(Tail(s), x) \in Seq(S) /\ Len(Append(Tail(s), x)) = Len(s)
  BY <1>1, <1>4, Put
<1>6. ASSUME NEW i \in 1 .. Len(s) PROVE Tail(t)[i] = Append(Tail(s), x)[i]
  <2>1. Tail(t)[i] = t[i + 1] /\ i + 1 \in 1 .. Len(s) + 1
    BY <1>1, <1>3
  <2>2. CASE i = Len(s)
    <3>1. t[Len(s) + 1] = x
      OBVIOUS
    <3>2. Append(Tail(s), x)[Len(Tail(s)) + 1] = x
      BY <1>4
    <3> QED
      BY <1>1, <1>4, <2>1, <2>2, <3>1, <3>2
  <2>3. CASE i \in 1 .. Len(s) - 1
    <3>1. t[i + 1] = s[i + 1]
      BY <1>1, <2>3
    <3>2. Append(Tail(s), x)[i] = Tail(s)[i]
      BY <1>4, <2>3
    <3> QED
      BY <1>1, <1>4, <2>1, <2>3, <3>1, <3>2
  <2> QED
    BY <1>1, <2>2, <2>3
<1> QED
  BY <1>1, <1>2, <1>3, <1>5, <1>6, SeqEqual

LEMMA RunEmpty == ASSUME NEW last PROVE Run(<<>>, last)
  BY DEF Run

LEMMA RunSingle == ASSUME NEW x \in Int PROVE Run(<<x>>, x)
  BY DEF Run

LEMMA RunAppend ==
  ASSUME NEW S, S \subseteq Int, NEW s \in Seq(S), NEW last \in Int, Run(s, last),
         NEW x \in S, x = last + 1
  PROVE  Run(Append(s, x), x)
<1>1. /\ Len(Append(s, x)) = Len(s) + 1
      /\ \A i \in 1 .. Len(s) : Append(s, x)[i] = s[i]
      /\ Append(s, x)[Len(s) + 1] = x
  OBVIOUS
<1>2. Len(s) \in Nat
  OBVIOUS
<1> QED
  BY <1>1, <1>2 DEF Run

LEMMA RunTail ==
  ASSUME NEW S, S \subseteq Int, NEW s \in Seq(S), NEW last \in Int, Run(s, last), s # <<>>
  PROVE  Run(Tail(s), last) /\ Head(s) = last - Len(s) + 1
<1>1. /\ Len(Tail(s)) = Len(s) - 1
      /\ \A i \in 1 .. Len(Tail(s)) : Tail(s)[i] = s[i + 1]
  BY HeadTailProperties
<1>2. Len(s) \in Nat \ {0}
  BY EmptySeq
<1>3. Head(s) = s[1]
  BY <1>2
<1>4. Head(s) = last - Len(s) + 1
  BY <1>2, <1>3 DEF Run
<1>5. ASSUME NEW i \in 1 .. Len(Tail(s)) PROVE Tail(s)[i] = last - Len(Tail(s)) + i
  <2>1. i + 1 \in 1 .. Len(s) /\ i \in Int
    BY <1>1, <1>2
  <2>2. s[i + 1] = last - Len(s) + (i + 1)
    BY <2>1 DEF Run
  <2> QED
    BY <1>1, <1>2, <2>1, <2>2
<1> QED
  BY <1>4, <1>5 DEF Run
----------------------------------------------------------------------------
\* Every variable of the tunnel keeps its type, and no socket holds more than its
\* buffer.
THEOREM TunnelTypeCorrect == Spec => []TypeOK
<1>1. Init => TypeOK
  BY TunnelAssumption DEF Init, TypeOK, Bytes, End
<1>2. TypeOK /\ [Next]_vars => TypeOK'
  <2> SUFFICES ASSUME TypeOK, [Next]_vars PROVE TypeOK'
    OBVIOUS
  <2> USE TunnelAssumption DEF TypeOK, End, upVars, downVars, peerVars, connVars
  <2>1. CASE HandlerStep
    <3>1. CASE Dial
      BY <3>1 DEF Dial
    <3>2. CASE Hijack
      BY <3>2 DEF Hijack
    <3>3. CASE Answer
      <4>1. Append(clIn, Ok) \in Seq(0 .. M)
        BY Put DEF Ok
      <4> QED
        BY <3>3, <4>1 DEF Answer
    <3>4. CASE HandlerReads
      BY <3>4 DEF HandlerReads
    <3>5. CASE HandlerWrites
      <4>1. clHand # <<>> /\ Head(clHand) \in 0 .. M
        BY <3>5, Taken DEF HandlerWrites
      <4>2. Append(clIn, Head(clHand)) \in Seq(0 .. M)
        BY <4>1, Put
      <4>3. clIn' \in Seq(0 .. M)
        BY <3>5, <4>2 DEF HandlerWrites
      <4>4. clHand' \in Seq(1 .. M) /\ Len(clHand') <= 1
        BY <3>5 DEF HandlerWrites
      <4> QED
        BY <3>5, <4>3, <4>4 DEF HandlerWrites
    <3>6. CASE HandlerEOF
      BY <3>6 DEF HandlerEOF
    <3>7. CASE HandlerFails
      BY <3>7 DEF HandlerFails
    <3>8. CASE CloseClient \/ CloseUpstream
      BY <3>8 DEF CloseClient, CloseUpstream
    <3> QED
      BY <2>1, <3>1, <3>2, <3>3, <3>4, <3>5, <3>6, <3>7, <3>8 DEF HandlerStep
  <2>2. CASE CopierStep
    <3>1. CASE CopierReads
      <4>1. CASE buf # <<>>
        <5>1. upHand' = <<Head(buf)>> /\ buf' = Tail(buf) /\ rawIn' = rawIn
          BY <3>1, <4>1 DEF CopierReads, Source, Consume
        <5>2. upHand' \in Seq(1 .. N) /\ Len(upHand') = 1 /\ buf' \in Seq(1 .. N)
          BY <4>1, <5>1, Taken
        <5> QED
          BY <3>1, <5>1, <5>2 DEF CopierReads
      <4>2. CASE buf = <<>>
        <5>1. rawIn # <<>> /\ upHand' = <<Head(rawIn)>> /\ rawIn' = Tail(rawIn) /\ buf' = buf
          BY <3>1, <4>2 DEF CopierReads, Source, Consume
        <5>2. /\ upHand' \in Seq(1 .. N) /\ Len(upHand') = 1
              /\ rawIn' \in Seq(1 .. N) /\ Len(rawIn') <= Cap
          BY <5>1, Taken
        <5> QED
          BY <3>1, <5>1, <5>2 DEF CopierReads
      <4> QED
        BY <4>1, <4>2
    <3>2. CASE CopierWrites
      <4>1. upHand # <<>> /\ Head(upHand) \in 1 .. N
        BY <3>2, Taken DEF CopierWrites
      <4>2. /\ Append(upIn, Head(upHand)) \in Seq(1 .. N)
            /\ Len(Append(upIn, Head(upHand))) = Len(upIn) + 1 /\ Len(upIn) \in Nat
        BY <4>1, Put
      <4>3. CASE upIn' = Append(upIn, Head(upHand)) /\ Len(upIn) < Cap
        BY <3>2, <4>2, <4>3 DEF CopierWrites
      <4>4. CASE upIn' = upIn
        BY <3>2, <4>4 DEF CopierWrites
      <4> QED
        BY <3>2, <4>3, <4>4 DEF CopierWrites
    <3>3. CASE CopierEOF \/ CopierFails
      BY <3>3 DEF CopierEOF, CopierFails
    <3> QED
      BY <2>2, <3>1, <3>2, <3>3 DEF CopierStep
  <2>3. CASE ServerBuffers
    BY <2>3 DEF ServerBuffers
  <2>4. CASE PeerStep
    <3>1. CASE ClientSends
      BY <3>1 DEF ClientSends
    <3>2. CASE ClientReads
      <4>1. Head(clIn) \in 0 .. M /\ Tail(clIn) \in Seq(0 .. M)
        BY <3>2, Taken DEF ClientReads
      <4>2. Append(clGot, Head(clIn)) \in Seq(0 .. M)
        BY <4>1, Put
      <4>3. clIn' \in Seq(0 .. M) /\ clGot' \in Seq(0 .. M)
        BY <3>2, <4>1, <4>2 DEF ClientReads
      <4> QED
        BY <3>2, <4>3 DEF ClientReads
    <3>3. CASE UpstreamSends
      BY <3>3 DEF UpstreamSends
    <3>4. CASE UpstreamReads
      <4>1. /\ Head(upIn) \in 1 .. N /\ Tail(upIn) \in Seq(1 .. N)
            /\ Len(Tail(upIn)) = Len(upIn) - 1 /\ Len(upIn) \in Nat
        BY <3>4, Taken DEF UpstreamReads
      <4>2. Append(upGot, Head(upIn)) \in Seq(1 .. N)
        BY <4>1, Put
      <4>3. upIn' \in Seq(1 .. N) /\ Len(upIn') <= Cap /\ upGot' \in Seq(1 .. N)
        BY <3>4, <4>1, <4>2 DEF UpstreamReads
      <4> QED
        BY <3>4, <4>3 DEF UpstreamReads
    <3>5. CASE ClientCloses \/ UpstreamCloses
      BY <3>5 DEF ClientCloses, UpstreamCloses
    <3> QED
      BY <2>4, <3>1, <3>2, <3>3, <3>4, <3>5 DEF PeerStep
  <2>5. CASE UNCHANGED vars
    BY <2>5 DEF vars
  <2> QED
    BY <2>1, <2>2, <2>3, <2>4, <2>5 DEF Next
<1> QED
  BY <1>1, <1>2, PTL DEF Spec
----------------------------------------------------------------------------
(* Client to upstream.                                                     *)
LEMMA UpFrame ==
  ASSUME UpInv, UNCHANGED <<upVars, clSent, upstream>> PROVE UpInv'
  BY DEF UpInv, upVars, Run

\* What the steps below use of the types and of the invariant.
LEMMA UpFacts ==
  ASSUME TypeOK, UpInv
  PROVE  /\ 1 .. N \subseteq Int /\ clSent \in Int
         /\ Len(rawIn) \in Nat /\ Len(buf) \in Nat /\ Len(upHand) \in {0, 1}
         /\ Len(upIn) \in Nat /\ Len(upGot) \in Nat
         /\ rawIn \in Seq(1 .. N) /\ buf \in Seq(1 .. N) /\ upHand \in Seq(1 .. N)
         /\ upIn \in Seq(1 .. N) /\ upGot \in Seq(1 .. N)
         /\ clSent - Len(rawIn) \in Int /\ clSent - Len(rawIn) - Len(buf) \in Int
         /\ Len(upGot) + Len(upIn) \in Int /\ Len(upGot) \in Int
         /\ Run(rawIn, clSent) /\ Run(buf, clSent - Len(rawIn))
         /\ Run(upHand, clSent - Len(rawIn) - Len(buf))
         /\ Run(upIn, Len(upGot) + Len(upIn)) /\ Run(upGot, Len(upGot))
<1>1. Len(upHand) \in Nat /\ Len(upHand) <= 1
  BY DEF TypeOK
<1>2. Len(upHand) \in {0, 1}
  BY <1>1
<1> QED
  BY <1>2, TunnelAssumption DEF TypeOK, UpInv

LEMMA UpCopierReads ==
  ASSUME TypeOK, UpInv, CopierReads PROVE UpInv'
<1>1. /\ upHand = <<>> /\ Len(upHand) = 0
      /\ UNCHANGED <<clSent, upstream, upIn, upGot>>
  BY DEF CopierReads, peerVars
<1>2. CASE buf # <<>>
  <2>1. upHand' = <<Head(buf)>> /\ buf' = Tail(buf) /\ rawIn' = rawIn
    BY <1>2 DEF CopierReads, Source, Consume
  <2>2. Len(buf') = Len(buf) - 1 /\ Len(upHand') = 1
    BY <1>2, <2>1, Taken, UpFacts
  <2>3. /\ Run(buf', clSent - Len(rawIn))
        /\ Head(buf) = clSent - Len(rawIn) - Len(buf) + 1
    BY <1>2, <2>1, RunTail, UpFacts
  <2>4. Run(upHand', Head(buf))
    <3>1. Head(buf) \in 1 .. N
      BY <1>2, Taken, UpFacts
    <3> QED
      BY <2>1, <3>1, RunSingle, UpFacts
  <2>5. Head(buf) = clSent' - Len(rawIn') - Len(buf')
    BY <1>1, <2>1, <2>2, <2>3, UpFacts
  <2>6. upstream' # "closed" =>
          Len(upGot') + Len(upIn') + Len(upHand') + Len(buf') + Len(rawIn') = clSent'
    <3>1. /\ Len(upGot) \in Nat /\ Len(upIn) \in Nat /\ Len(buf) \in Nat /\ Len(rawIn) \in Nat
          /\ upstream # "closed" =>
               Len(upGot) + Len(upIn) + Len(upHand) + Len(buf) + Len(rawIn) = clSent
      BY UpFacts DEF UpInv
    <3>2. /\ Len(upHand) = 0 /\ Len(upHand') = 1 /\ Len(buf') = Len(buf) - 1
          /\ UNCHANGED <<clSent, upstream, rawIn, upIn, upGot>>
      BY <1>1, <2>1, <2>2
    <3> QED
      BY <3>1, <3>2
  <2>7. UNCHANGED <<clSent, rawIn, upIn, upGot>>
    BY <1>1, <2>1
  <2> QED
    BY <2>3, <2>4, <2>5, <2>6, <2>7, UpFacts DEF UpInv
<1>3. CASE buf = <<>>
  <2>1. rawIn # <<>> /\ upHand' = <<Head(rawIn)>> /\ rawIn' = Tail(rawIn) /\ buf' = buf
    BY <1>3 DEF CopierReads, Source, Consume
  <2>2. Len(rawIn') = Len(rawIn) - 1 /\ Len(upHand') = 1 /\ Len(buf) = 0
    BY <1>3, <2>1, Taken, UpFacts
  <2>3. Run(rawIn', clSent) /\ Head(rawIn) = clSent - Len(rawIn) + 1
    BY <2>1, RunTail, UpFacts
  <2>4. Run(upHand', Head(rawIn))
    <3>1. Head(rawIn) \in 1 .. N
      BY <2>1, Taken, UpFacts
    <3> QED
      BY <2>1, <3>1, RunSingle, UpFacts
  <2>5. Head(rawIn) = clSent' - Len(rawIn') - Len(buf')
    BY <1>1, <2>1, <2>2, <2>3, UpFacts
  <2>6. Run(buf', clSent' - Len(rawIn'))
    BY <1>3, <2>1, RunEmpty
  <2> QED
    BY <1>1, <2>1, <2>2, <2>3, <2>4, <2>5, <2>6, UpFacts DEF UpInv
<1> QED
  BY <1>2, <1>3

LEMMA UpCopierWrites ==
  ASSUME TypeOK, UpInv, CopierWrites PROVE UpInv'
<1>1. /\ upHand # <<>> /\ upHand' = <<>> /\ Len(upHand') = 0
      /\ UNCHANGED <<clSent, upstream, rawIn, buf, upGot>>
  BY DEF CopierWrites, peerVars
<1>2. Len(upHand) = 1
  BY <1>1, EmptySeq, UpFacts
<1>3. Run(upHand', clSent' - Len(rawIn') - Len(buf'))
  BY <1>1, RunEmpty
<1>4. CASE upstream = "closed" /\ upIn' = upIn
  BY <1>1, <1>3, <1>4, UpFacts DEF UpInv
<1>5. CASE upstream # "closed" /\ upIn' = Append(upIn, Head(upHand))
  <2>1. Head(upHand) \in 1 .. N /\ Head(upHand) = clSent - Len(rawIn) - Len(buf)
    <3>1. /\ Head(upHand) \in 1 .. N
          /\ Head(upHand) = (clSent - Len(rawIn) - Len(buf)) - Len(upHand) + 1
      BY <1>1, RunTail, Taken, UpFacts, Zenon
    <3> QED
      BY <1>2, <3>1, UpFacts
  <2>2. Head(upHand) = Len(upGot) + Len(upIn) + 1
    BY <1>2, <1>5, <2>1, UpFacts DEF UpInv
  <2>3. Len(upIn') = Len(upIn) + 1
    BY <1>5, <2>1, Put, UpFacts
  <2>4. Run(upIn', Head(upHand))
    BY <1>5, <2>1, <2>2, RunAppend, UpFacts
  <2>5. Head(upHand) = Len(upGot') + Len(upIn')
    BY <1>1, <2>2, <2>3, UpFacts
  <2> QED
    BY <1>1, <1>2, <1>3, <1>5, <2>3, <2>4, <2>5, UpFacts DEF UpInv
<1> QED
  BY <1>4, <1>5 DEF CopierWrites

LEMMA UpServerBuffers ==
  ASSUME TypeOK, UpInv, ServerBuffers PROVE UpInv'
<1>1. /\ rawIn # <<>> /\ buf' = Append(buf, Head(rawIn)) /\ rawIn' = Tail(rawIn)
      /\ UNCHANGED <<clSent, upstream, upHand, upIn, upGot>>
  BY DEF ServerBuffers, peerVars
<1>2. /\ Head(rawIn) \in 1 .. N /\ Len(rawIn') = Len(rawIn) - 1 /\ Len(buf') = Len(buf) + 1
  BY <1>1, Taken, Put, UpFacts
<1>3. Run(rawIn', clSent) /\ Head(rawIn) = clSent - Len(rawIn) + 1
  BY <1>1, RunTail, UpFacts
<1>4. Run(buf', Head(rawIn))
  BY <1>1, <1>2, <1>3, RunAppend, UpFacts
<1>5. /\ Head(rawIn) = clSent' - Len(rawIn')
      /\ clSent' - Len(rawIn') - Len(buf') = clSent - Len(rawIn) - Len(buf)
      /\ Len(buf') + Len(rawIn') = Len(buf) + Len(rawIn)
  <2>1. clSent' = clSent /\ clSent \in Int /\ Len(rawIn) \in Int /\ Len(buf) \in Int
    BY <1>1, UpFacts
  <2>2. Len(rawIn') = Len(rawIn) - 1 /\ Len(buf') = Len(buf) + 1
    BY <1>2
  <2>3. Head(rawIn) = clSent - Len(rawIn) + 1
    BY <1>3
  <2> QED
    BY <2>1, <2>2, <2>3
<1> QED
  BY <1>1, <1>2, <1>3, <1>4, <1>5, UpFacts DEF UpInv

LEMMA UpClientSends ==
  ASSUME TypeOK, UpInv, ClientSends PROVE UpInv'
<1>1. clSent + 1 \in 1 .. N
  BY TunnelAssumption DEF TypeOK, ClientSends
<1>2. /\ clSent' = clSent + 1 /\ rawIn' = Append(rawIn, clSent + 1)
      /\ UNCHANGED <<upstream, buf, upHand, upIn, upGot>>
  BY DEF ClientSends
<1>3. Len(rawIn') = Len(rawIn) + 1
  BY <1>1, <1>2, Put, UpFacts
<1>4. Run(rawIn', clSent')
  BY <1>1, <1>2, RunAppend, UpFacts
<1>5. clSent' - Len(rawIn') = clSent - Len(rawIn)
  BY <1>2, <1>3, UpFacts
<1> QED
  BY <1>1, <1>2, <1>3, <1>4, <1>5, UpFacts DEF UpInv

LEMMA UpUpstreamReads ==
  ASSUME TypeOK, UpInv, UpstreamReads PROVE UpInv' /\ Head(upIn) = Len(upGot) + 1
<1>1. /\ upIn # <<>> /\ upGot' = Append(upGot, Head(upIn)) /\ upIn' = Tail(upIn)
      /\ UNCHANGED <<clSent, upstream, rawIn, buf, upHand>>
  BY DEF UpstreamReads, peerVars
<1>2. Head(upIn) \in 1 .. N /\ Len(upIn') = Len(upIn) - 1 /\ Len(upGot') = Len(upGot) + 1
  BY <1>1, Taken, Put, UpFacts
<1>3. Run(upIn', Len(upGot) + Len(upIn)) /\ Head(upIn) = Len(upGot) + 1
  <2>1. /\ Run(Tail(upIn), Len(upGot) + Len(upIn))
        /\ Head(upIn) = (Len(upGot) + Len(upIn)) - Len(upIn) + 1
    BY <1>1, RunTail, UpFacts, Zenon
  <2> QED
    BY <1>1, <2>1, UpFacts
<1>4. Run(upGot', Len(upGot'))
  <2>1. Run(Append(upGot, Head(upIn)), Head(upIn))
    BY <1>2, <1>3, RunAppend, UpFacts, Zenon
  <2> QED
    BY <1>1, <1>2, <1>3, <2>1
<1>5. Len(upGot') + Len(upIn') = Len(upGot) + Len(upIn)
  BY <1>2, UpFacts
<1> QED
  BY <1>1, <1>2, <1>3, <1>4, <1>5, UpFacts DEF UpInv

LEMMA UpStep == ASSUME TypeOK, UpInv, [Next]_vars PROVE UpInv'
<1> USE DEF peerVars
<1>1. CASE HandlerStep
  <2>1. UNCHANGED <<upVars, clSent, upstream>>
    BY <1>1 DEF HandlerStep, Dial, Hijack, Answer, HandlerReads, HandlerWrites, HandlerEOF,
                HandlerFails, CloseClient, CloseUpstream
  <2> QED
    BY <2>1, UpFrame
<1>2. CASE CopierEOF \/ CopierFails \/ UNCHANGED vars
  BY <1>2, UpFrame DEF CopierEOF, CopierFails, vars
<1>3. CASE ClientReads \/ ClientCloses \/ UpstreamSends
  BY <1>3, UpFrame DEF ClientReads, ClientCloses, UpstreamSends, upVars
<1>4. CASE UpstreamCloses
  <2>1. UNCHANGED <<upVars, clSent>> /\ upstream # "closed"
    BY <1>4 DEF UpstreamCloses
  <2> QED
    BY <2>1 DEF UpInv, upVars
<1> QED
  BY <1>1, <1>2, <1>3, <1>4, UpCopierReads, UpCopierWrites, UpServerBuffers, UpClientSends,
     UpUpstreamReads DEF Next, CopierStep, PeerStep
----------------------------------------------------------------------------
(* Upstream to client.                                                     *)
LEMMA DownFacts ==
  ASSUME TypeOK, DownInv
  PROVE  /\ 1 .. M \subseteq Int /\ 0 .. M \subseteq Int /\ upSent \in Int
         /\ Len(upOut) \in Nat /\ Len(clHand) \in {0, 1} /\ Len(clIn) \in Nat /\ Len(clGot) \in Nat
         /\ upOut \in Seq(1 .. M) /\ clHand \in Seq(1 .. M)
         /\ clIn \in Seq(0 .. M) /\ clGot \in Seq(0 .. M)
         /\ upSent - Len(upOut) \in Int /\ Len(clGot) + Len(clIn) - 1 \in Int /\ Len(clGot) - 1 \in Int
         /\ Run(upOut, upSent) /\ Run(clHand, upSent - Len(upOut))
         /\ Run(clIn, Len(clGot) + Len(clIn) - 1) /\ Run(clGot, Len(clGot) - 1)
<1>1. Len(clHand) \in Nat /\ Len(clHand) <= 1
  BY DEF TypeOK
<1>2. Len(clHand) \in {0, 1}
  BY <1>1
<1>3. /\ 1 .. M \subseteq Int /\ 0 .. M \subseteq Int /\ upSent \in Int
      /\ Len(upOut) \in Nat /\ Len(clIn) \in Nat /\ Len(clGot) \in Nat
  BY TunnelAssumption DEF TypeOK
<1>4. upSent - Len(upOut) \in Int /\ Len(clGot) + Len(clIn) - 1 \in Int /\ Len(clGot) - 1 \in Int
  BY <1>3
<1> QED
  BY <1>2, <1>3, <1>4 DEF TypeOK, DownInv

LEMMA DownFrame ==
  ASSUME DownInv, UNCHANGED <<downVars, upSent, client>>, answer' = "ok" <=> answer = "ok"
  PROVE  DownInv'
  BY DEF DownInv, downVars, Run

LEMMA DownAnswer ==
  ASSUME TypeOK, DownInv, HandlerInv, Answer PROVE DownInv'
<1>1. /\ clHand = <<>> /\ clIn = <<>> /\ clGot = <<>> /\ Len(upOut) = upSent
      /\ UNCHANGED <<client, upSent, upOut, clHand, clGot>>
  BY DEF Answer, HandlerInv, DownInv, peerVars
<1>2. CASE UNCHANGED <<answer, clIn>>
  BY <1>1, <1>2, DownFrame DEF downVars
<1>3. CASE answer' = "ok" /\ client = "closed" /\ clIn' = clIn
  BY <1>1, <1>3 DEF DownInv
<1>4. CASE answer' = "ok" /\ clIn' = Append(clIn, Ok)
  <2>1. clIn' = <<0>>
    BY <1>1, <1>4 DEF Ok
  <2>2. Run(clIn', 0) /\ Len(clIn') = 1
    BY <2>1, RunSingle
  <2>3. Len(clGot') + Len(clIn') - 1 = 0 /\ Len(clHand') = 0 /\ Len(clGot') = 0
    BY <1>1, <2>2
  <2>4. Len(upOut') = upSent' /\ upSent' \in Int
    BY <1>1, DownFacts
  <2>5. Len(clGot') + Len(clIn') + Len(clHand') + Len(upOut') = upSent' + 1
    BY <2>2, <2>3, <2>4
  <2>6. UNCHANGED <<upSent, upOut, clHand, clGot>>
    BY <1>1
  <2> QED
    BY <1>4, <2>2, <2>3, <2>5, <2>6 DEF DownInv
<1> QED
  BY <1>2, <1>3, <1>4 DEF Answer

LEMMA DownHandlerReads ==
  ASSUME TypeOK, DownInv, HandlerInv, HandlerReads PROVE DownInv'
<1>1. /\ clHand = <<>> /\ upOut # <<>> /\ clHand' = <<Head(upOut)>> /\ upOut' = Tail(upOut)
      /\ answer = "ok" /\ UNCHANGED <<answer, client, upSent, clIn, clGot>>
  BY DEF HandlerReads, HandlerInv, peerVars
<1>2. Head(upOut) \in 1 .. M /\ Len(upOut') = Len(upOut) - 1 /\ Len(clHand') = 1 /\ Len(clHand) = 0
  BY <1>1, Taken, DownFacts
<1>3. Run(upOut', upSent) /\ Head(upOut) = upSent - Len(upOut) + 1
  BY <1>1, RunTail, DownFacts
<1>4. Run(clHand', Head(upOut))
  BY <1>1, <1>2, RunSingle, DownFacts
<1>5. UNCHANGED <<answer, client, upSent, clIn, clGot>> /\ answer = "ok"
  BY <1>1
<1>6. Head(upOut) = upSent' - Len(upOut')
  <2>1. upSent \in Int /\ Len(upOut) \in Int
    BY DownFacts
  <2> QED
    BY <1>2, <1>3, <1>5, <2>1
<1>7. client # "closed" =>
        Len(clGot') + Len(clIn') + Len(clHand') + Len(upOut') = upSent' + 1
  <2>1. /\ Len(clGot) \in Nat /\ Len(clIn) \in Nat /\ Len(upOut) \in Nat
        /\ client # "closed" => Len(clGot) + Len(clIn) + Len(clHand) + Len(upOut) = upSent + 1
    BY <1>5, DownFacts DEF DownInv
  <2> QED
    BY <1>2, <1>5, <2>1
<1> QED
  BY <1>3, <1>4, <1>5, <1>6, <1>7 DEF DownInv

LEMMA DownHandlerWrites ==
  ASSUME TypeOK, DownInv, HandlerInv, HandlerWrites PROVE DownInv'
<1>1. /\ clHand # <<>> /\ clHand' = <<>> /\ Len(clHand') = 0
      /\ answer = "ok" /\ UNCHANGED <<answer, client, upSent, upOut, clGot>>
  BY DEF HandlerWrites, HandlerInv, peerVars
<1>2. Len(clHand) = 1
  BY <1>1, EmptySeq, DownFacts
<1>3. Run(clHand', upSent' - Len(upOut'))
  BY <1>1, RunEmpty
<1>4. CASE client = "closed" /\ clIn' = clIn
  BY <1>1, <1>3, <1>4 DEF DownInv
<1>5. CASE client # "closed" /\ clIn' = Append(clIn, Head(clHand))
  <2>1. Head(clHand) \in 1 .. M /\ Head(clHand) = upSent - Len(upOut)
    <3>1. Head(clHand) \in 1 .. M /\ Head(clHand) = (upSent - Len(upOut)) - Len(clHand) + 1
      BY <1>1, RunTail, Taken, DownFacts, Zenon
    <3> QED
      BY <1>2, <3>1, DownFacts
  <2>2. /\ Len(clGot) \in Nat /\ Len(clIn) \in Nat /\ Len(upOut) \in Nat /\ upSent \in Int
        /\ Len(clGot) + Len(clIn) + Len(clHand) + Len(upOut) = upSent + 1
    BY <1>1, <1>5, DownFacts DEF DownInv
  <2>3. Head(clHand) = (Len(clGot) + Len(clIn) - 1) + 1 /\ Head(clHand) = Len(clGot) + Len(clIn)
    BY <1>2, <2>1, <2>2
  <2>4. Head(clHand) \in 0 .. M
    BY <2>1, TunnelAssumption
  <2>5. Len(clIn') = Len(clIn) + 1
    BY <1>5, <2>4, Put, DownFacts
  <2>6. Run(Append(clIn, Head(clHand)), Head(clHand))
    BY <2>3, <2>4, RunAppend, DownFacts, Zenon
  <2>7. Head(clHand) = Len(clGot') + Len(clIn') - 1
    BY <1>1, <2>2, <2>3, <2>5
  <2>8. Len(clGot') + Len(clIn') + Len(clHand') + Len(upOut') = upSent' + 1
    BY <1>1, <1>2, <2>2, <2>5
  <2> QED
    BY <1>1, <1>3, <1>5, <2>6, <2>7, <2>8 DEF DownInv
<1> QED
  BY <1>4, <1>5 DEF HandlerWrites

LEMMA DownUpstreamSends ==
  ASSUME TypeOK, DownInv, UpstreamSends PROVE DownInv'
<1>1. upSent + 1 \in 1 .. M
  BY TunnelAssumption DEF TypeOK, UpstreamSends
<1>2. /\ upSent' = upSent + 1 /\ upOut' = Append(upOut, upSent + 1)
      /\ UNCHANGED <<answer, client, clHand, clIn, clGot>>
  BY DEF UpstreamSends
<1>3. Len(upOut') = Len(upOut) + 1
  BY <1>1, <1>2, Put, DownFacts
<1>4. Run(upOut', upSent')
  BY <1>1, <1>2, RunAppend, DownFacts
<1>5. upSent' - Len(upOut') = upSent - Len(upOut)
  BY <1>2, <1>3, DownFacts
<1>6. answer = "ok" /\ client # "closed" =>
        Len(clGot) + Len(clIn) + Len(clHand) + Len(upOut') = upSent' + 1
  <2>1. /\ Len(clGot) \in Nat /\ Len(clIn) \in Nat /\ Len(upOut) \in Nat /\ Len(clHand) \in Int
        /\ upSent \in Int
        /\ answer = "ok" /\ client # "closed" =>
             Len(clGot) + Len(clIn) + Len(clHand) + Len(upOut) = upSent + 1
    BY DownFacts DEF DownInv
  <2>2. upSent' = upSent + 1
    BY <1>2
  <2> QED
    BY <1>3, <2>1, <2>2
<1>7. answer # "ok" => Len(upOut') = upSent'
  BY <1>2, <1>3 DEF DownInv
<1>8. UNCHANGED <<answer, client, clHand, clIn, clGot>>
  BY <1>2
<1> QED
  BY <1>4, <1>5, <1>6, <1>7, <1>8 DEF DownInv

LEMMA DownClientReads ==
  ASSUME TypeOK, DownInv, ClientReads PROVE DownInv' /\ Head(clIn) = Len(clGot)
<1>1. /\ clIn # <<>> /\ clGot' = Append(clGot, Head(clIn)) /\ clIn' = Tail(clIn) /\ client # "closed"
      /\ answer = "ok" /\ UNCHANGED <<answer, client, upSent, upOut, clHand>>
  BY DEF ClientReads, DownInv, peerVars
<1>2. Head(clIn) \in 0 .. M /\ Len(clIn') = Len(clIn) - 1 /\ Len(clGot') = Len(clGot) + 1
  BY <1>1, Taken, Put, DownFacts
<1>3. Len(clGot) \in Int /\ Len(clIn) \in Int
  BY DownFacts
<1>4. Run(clIn', Len(clGot) + Len(clIn) - 1) /\ Head(clIn) = Len(clGot)
  <2>1. /\ Run(Tail(clIn), Len(clGot) + Len(clIn) - 1)
        /\ Head(clIn) = (Len(clGot) + Len(clIn) - 1) - Len(clIn) + 1
    BY <1>1, RunTail, DownFacts, Zenon
  <2> QED
    BY <1>1, <1>3, <2>1
<1>5. Run(clGot', Len(clGot') - 1)
  <2>1. Head(clIn) = (Len(clGot) - 1) + 1
    BY <1>3, <1>4
  <2>2. Run(Append(clGot, Head(clIn)), Head(clIn))
    BY <1>2, <2>1, RunAppend, DownFacts, Zenon
  <2>3. Head(clIn) = Len(clGot') - 1
    BY <1>2, <1>3, <1>4
  <2> QED
    BY <1>1, <2>2, <2>3
<1>6. Len(clGot') + Len(clIn') = Len(clGot) + Len(clIn)
  BY <1>2, <1>3
<1>7. UNCHANGED <<answer, client, upSent, upOut, clHand>> /\ answer = "ok"
  BY <1>1
<1> QED
  BY <1>4, <1>5, <1>6, <1>7 DEF DownInv

LEMMA DownStep == ASSUME TypeOK, DownInv, HandlerInv, [Next]_vars PROVE DownInv'
<1> USE DEF peerVars
<1>1. CASE Dial \/ Hijack
  <2>1. UNCHANGED <<downVars, upSent, client>> /\ answer # "ok" /\ answer' # "ok"
    BY <1>1 DEF Dial, Hijack, HandlerInv
  <2> QED
    BY <2>1, DownFrame
<1>2. CASE HandlerEOF \/ HandlerFails \/ CloseClient \/ CloseUpstream \/ CopierStep \/ ServerBuffers
  <2>1. UNCHANGED <<downVars, upSent, client, answer>>
    BY <1>2 DEF HandlerEOF, HandlerFails, CloseClient, CloseUpstream, CopierStep, CopierReads,
                CopierWrites, CopierEOF, CopierFails, ServerBuffers
  <2> QED
    BY <2>1, DownFrame
<1>3. CASE ClientSends \/ UpstreamReads \/ UpstreamCloses \/ UNCHANGED vars
  <2>1. UNCHANGED <<downVars, upSent, client, answer>>
    BY <1>3 DEF ClientSends, UpstreamReads, UpstreamCloses, vars
  <2> QED
    BY <2>1, DownFrame
<1>4. CASE ClientCloses
  <2>1. UNCHANGED <<downVars, upSent, answer>> /\ client # "closed"
    BY <1>4 DEF ClientCloses
  <2> QED
    BY <2>1 DEF DownInv, downVars
<1> QED
  BY <1>1, <1>2, <1>3, <1>4, DownAnswer, DownHandlerReads, DownHandlerWrites, DownUpstreamSends,
     DownClientReads DEF Next, HandlerStep, PeerStep
----------------------------------------------------------------------------
(* The handler, and all of it.                                             *)
LEMMA HandlerInvStep == ASSUME TypeOK, HandlerInv, [Next]_vars PROVE HandlerInv'
<1> USE DEF HandlerInv, peerVars, downVars
<1>1. CASE HandlerStep
  <2>1. CASE Dial \/ Hijack \/ Answer
    BY <2>1 DEF Dial, Hijack, Answer
  <2>2. CASE HandlerReads \/ HandlerWrites
    BY <2>2 DEF HandlerReads, HandlerWrites
  <2>3. CASE HandlerEOF
    <3>1. upstream # "open" /\ upstream \in End
      BY <2>3 DEF HandlerEOF, TypeOK
    <3> QED
      BY <2>3, <3>1 DEF HandlerEOF, End
  <2>4. CASE HandlerFails
    BY <2>4 DEF HandlerFails
  <2>5. CASE CloseClient \/ CloseUpstream
    BY <2>5 DEF CloseClient, CloseUpstream
  <2> QED
    BY <1>1, <2>1, <2>2, <2>3, <2>4, <2>5 DEF HandlerStep
<1>2. CASE CopierStep \/ ServerBuffers
  BY <1>2 DEF CopierStep, CopierReads, CopierWrites, CopierEOF, CopierFails, ServerBuffers
<1>3. CASE ClientSends \/ ClientReads \/ UpstreamReads \/ UNCHANGED vars
  BY <1>3 DEF ClientSends, ClientReads, UpstreamReads, vars
<1>4. CASE ClientCloses
  BY <1>4 DEF ClientCloses
<1>5. CASE UpstreamSends
  <2>1. upstream = "open" /\ UNCHANGED <<pc, answer, client, upstream, clHand>>
    BY <1>5 DEF UpstreamSends
  <2> QED
    BY <2>1
<1>6. CASE UpstreamCloses
  BY <1>6 DEF UpstreamCloses
<1> QED
  BY <1>1, <1>2, <1>3, <1>4, <1>5, <1>6 DEF Next, PeerStep

\* The order of the bytes in both directions and what the handler still owes, in
\* every state (http.go:80-97).
THEOREM TunnelInvHolds == Spec => []TunnelInv
<1>1. Init => TunnelInv
  <2> SUFFICES ASSUME Init PROVE TunnelInv
    OBVIOUS
  <2>1. clSent \in Nat /\ Len(buf) = clSent /\ Run(buf, clSent)
    BY TunnelAssumption DEF Init, Bytes, Run
  <2>2. Len(<<>>) = 0 /\ \A last : Run(<<>>, last)
    BY RunEmpty
  <2>3. UpInv
    BY <2>1, <2>2 DEF Init, UpInv
  <2>4. DownInv
    BY <2>2 DEF Init, DownInv
  <2> QED
    BY <2>3, <2>4 DEF Init, HandlerInv, TunnelInv
<1>2. TypeOK /\ TunnelInv /\ [Next]_vars => TunnelInv'
  BY UpStep, DownStep, HandlerInvStep DEF TunnelInv
<1> QED
  BY <1>1, <1>2, TunnelTypeCorrect, PTL DEF Spec
----------------------------------------------------------------------------
\* The client sees 200 first, and nothing of the upstream before it was told 200
\* (http.go:86-97).
THEOREM AnswerFirst == Spec => []AnswerComesFirst
<1>1. TypeOK /\ TunnelInv => AnswerComesFirst
  <2> SUFFICES ASSUME TypeOK, TunnelInv PROVE AnswerComesFirst
    OBVIOUS
  <2> USE DEF TunnelInv
  <2> DEFINE seen == clGot \o clIn
  <2>1. /\ Len(seen) = Len(clGot) + Len(clIn)
        /\ \A i \in 1 .. Len(clGot) + Len(clIn) :
             seen[i] = IF i <= Len(clGot) THEN clGot[i] ELSE clIn[i - Len(clGot)]
    BY ConcatProperties, DownFacts
  <2>2. Len(clGot) \in Nat /\ Len(clIn) \in Nat
    BY DownFacts
  <2>3. ASSUME NEW i \in 1 .. Len(seen) PROVE seen[i] = i - 1
    <3>1. i \in 1 .. Len(clGot) + Len(clIn) /\ i \in Int
      BY <2>1, <2>2
    <3>2. CASE i <= Len(clGot)
      <4>1. seen[i] = clGot[i] /\ i \in 1 .. Len(clGot)
        BY <2>1, <2>2, <3>1, <3>2
      <4>2. clGot[i] = (Len(clGot) - 1) - Len(clGot) + i
        BY <4>1, DownFacts DEF Run
      <4> QED
        BY <2>2, <3>1, <4>1, <4>2
    <3>3. CASE ~(i <= Len(clGot))
      <4>1. seen[i] = clIn[i - Len(clGot)] /\ i - Len(clGot) \in 1 .. Len(clIn)
        BY <2>1, <2>2, <3>1, <3>3
      <4>2. clIn[i - Len(clGot)] = (Len(clGot) + Len(clIn) - 1) - Len(clIn) + (i - Len(clGot))
        BY <4>1, DownFacts DEF Run
      <4> QED
        BY <2>2, <3>1, <4>1, <4>2
    <3> QED
      BY <3>2, <3>3
  <2>4. ASSUME seen # <<>> PROVE answer = "ok" /\ seen[1] = Ok
    <3>1. clGot # <<>> \/ clIn # <<>>
      BY <2>4, ConcatEmptySeq, DownFacts
    <3>2. answer = "ok"
      BY <3>1 DEF DownInv
    <3>3. Len(seen) \in Nat \ {0}
      <4>1. seen \in Seq(0 .. M)
        BY ConcatProperties, DownFacts
      <4> QED
        BY <2>4, <4>1, EmptySeq
    <3> QED
      BY <2>3, <3>2, <3>3 DEF Ok
  <2>5. ASSUME NEW i \in 2 .. Len(seen) PROVE seen[i] # Ok
    BY <2>1, <2>2, <2>3 DEF Ok
  <2> QED
    BY <2>4, <2>5 DEF AnswerComesFirst
<1> QED
  BY <1>1, TunnelTypeCorrect, TunnelInvHolds, PTL

\* An upstream that ends in an orderly way has been heard to the end when the handler
\* gives up on a client that is still there (http.go:96-97).
THEOREM HeardToTheEnd == Spec => []UpstreamHeardToTheEnd
<1>1. TypeOK /\ TunnelInv => UpstreamHeardToTheEnd
  <2> SUFFICES ASSUME TypeOK, TunnelInv, answer = "ok", client # "closed", upstream # "closed",
                      pc \in {"closeClient", "closeUpstream", "done"}
               PROVE  Len(clGot \o clIn) = 1 + upSent
    BY DEF UpstreamHeardToTheEnd
  <2> USE DEF TunnelInv
  <2>1. clHand = <<>> /\ upOut = <<>>
    BY DEF HandlerInv
  <2>2. Len(clGot) + Len(clIn) + Len(clHand) + Len(upOut) = upSent + 1
    BY DEF DownInv
  <2>3. Len(clGot \o clIn) = Len(clGot) + Len(clIn)
    BY ConcatProperties, DownFacts
  <2>4. Len(clGot) \in Nat /\ Len(clIn) \in Nat /\ upSent \in Int
        /\ Len(clHand) = 0 /\ Len(upOut) = 0
    BY <2>1, DownFacts
  <2> QED
    BY <2>2, <2>3, <2>4
<1> QED
  BY <1>1, TunnelTypeCorrect, TunnelInvHolds, PTL
----------------------------------------------------------------------------
(* Both directions implement Pipe.                                         *)
LEMMA BytesFacts ==
  ASSUME NEW n \in Nat
  PROVE  /\ Len(Bytes(n)) = n /\ \A i \in 1 .. n : Bytes(n)[i] = i
         /\ Bytes(n + 1) = Append(Bytes(n), n + 1)
         /\ \A k \in Nat : n <= k => Bytes(n) \in Seq(1 .. k)
<1>1. Len(Bytes(n)) = n /\ \A i \in 1 .. n : Bytes(n)[i] = i
  BY DEF Bytes
<1>2. ASSUME NEW m \in Nat, NEW k \in Nat, m <= k PROVE Bytes(m) \in Seq(1 .. k)
  BY <1>2 DEF Bytes
<1>3. Bytes(n + 1) = Append(Bytes(n), n + 1)
  <2>1. Bytes(n) \in Seq(1 .. n + 1) /\ Bytes(n + 1) \in Seq(1 .. n + 1)
    BY <1>2
  <2>2. Append(Bytes(n), n + 1) \in Seq(1 .. n + 1)
    BY <2>1
  <2>3. Len(Bytes(n + 1)) = n + 1 /\ Len(Append(Bytes(n), n + 1)) = n + 1
    BY <1>1, <2>1 DEF Bytes
  <2>4. ASSUME NEW i \in 1 .. n + 1 PROVE Bytes(n + 1)[i] = Append(Bytes(n), n + 1)[i]
    <3>1. Bytes(n + 1)[i] = i
      BY DEF Bytes
    <3>2. CASE i \in 1 .. n
      BY <1>1, <2>1, <3>1, <3>2
    <3>3. CASE i = n + 1
      <4>1. Append(Bytes(n), n + 1)[Len(Bytes(n)) + 1] = n + 1
        BY <2>1
      <4> QED
        BY <1>1, <3>1, <3>3, <4>1
    <3>4. i \in 1 .. n \/ i = n + 1
      OBVIOUS
    <3> QED
      BY <3>2, <3>3, <3>4, Zenon
  <2> QED
    BY <2>1, <2>2, <2>3, <2>4, SeqEqual
<1> QED
  BY <1>1, <1>2, <1>3

\* What the upstream reads is what the client wrote, in order and without a gap
\* (http.go:89-92).
THEOREM UpRefinesPipe == Spec => UpIsPipe
<1>1. Init => Up!Init
  <2> SUFFICES ASSUME Init PROVE Up!Init
    OBVIOUS
  <2>1. clSent \in Nat /\ N \in Nat /\ clSent <= N
    BY TunnelAssumption DEF Init
  <2>2. Bytes(clSent) \in Seq(1 .. N)
    BY <2>1, BytesFacts
  <2> QED
    BY <2>2 DEF Init, Up!Init
<1>2. TypeOK /\ TunnelInv /\ [Next]_vars => [Up!Next]_(Up!vars)
  <2> SUFFICES ASSUME TypeOK, TunnelInv, [Next]_vars PROVE [Up!Next]_(Up!vars)
    OBVIOUS
  <2> USE DEF TunnelInv, peerVars, upVars
  <2>1. CASE ClientSends
    <3>1. clSent' = clSent + 1 /\ UNCHANGED upGot
      BY <2>1 DEF ClientSends
    <3>2. clSent + 1 \in 1 .. N /\ clSent \in Nat
      BY <2>1, TunnelAssumption DEF ClientSends, TypeOK
    <3>3. Bytes(clSent') = Append(Bytes(clSent), clSent + 1)
      BY <3>1, <3>2, BytesFacts
    <3>4. Up!Send(clSent + 1)
      BY <3>1, <3>3 DEF Up!Send
    <3> QED
      BY <3>2, <3>4 DEF Up!Next
  <2>2. CASE UpstreamReads
    <3>1. upGot' = Append(upGot, Head(upIn)) /\ clSent' = clSent /\ upstream # "closed" /\ upIn # <<>>
      BY <2>2 DEF UpstreamReads
    <3>2. Head(upIn) = Len(upGot) + 1
      BY <2>2, UpUpstreamReads
    <3>3. Len(upGot) + 1 \in 1 .. clSent /\ clSent \in Nat
      <4>1. Len(upIn) \in Nat \ {0}
        BY <3>1, EmptySeq, UpFacts
      <4>2. /\ Len(upGot) \in Nat /\ Len(upHand) \in Nat /\ Len(buf) \in Nat /\ Len(rawIn) \in Nat
            /\ Len(upGot) + Len(upIn) + Len(upHand) + Len(buf) + Len(rawIn) = clSent
        BY <3>1, UpFacts DEF UpInv
      <4> QED
        BY <4>1, <4>2
    <3>4. /\ Len(Bytes(clSent)) = clSent
          /\ Bytes(clSent)[Len(upGot) + 1] = Len(upGot) + 1
      BY <3>3, BytesFacts
    <3>5. Len(upGot) < Len(Bytes(clSent))
      BY <3>3, <3>4, UpFacts
    <3>6. Up!Deliver
      BY <3>1, <3>2, <3>4, <3>5 DEF Up!Deliver
    <3> QED
      BY <3>6 DEF Up!Next
  <2>3. CASE UNCHANGED <<clSent, upGot>>
    BY <2>3 DEF Up!vars
  <2> QED
    BY <2>1, <2>2, <2>3 DEF Next, vars, HandlerStep, Dial, Hijack, Answer, HandlerReads,
       HandlerWrites, HandlerEOF, HandlerFails, CloseClient, CloseUpstream, CopierStep, CopierReads,
       CopierWrites, CopierEOF, CopierFails, ServerBuffers, PeerStep, ClientReads, ClientCloses,
       UpstreamSends, UpstreamCloses
<1> QED
  BY <1>1, <1>2, TunnelTypeCorrect, TunnelInvHolds, PTL DEF Spec, UpIsPipe, Up!Spec

\* What the client has read behind the status line.
Heard == IF clGot = <<>> THEN <<>> ELSE Tail(clGot)

\* What the client reads behind the status line is what the upstream wrote, in order
\* and without a gap (http.go:86, 97).
THEOREM DownRefinesPipe == Spec => DownIsPipe
<1>1. Init => Down!Init
  <2> SUFFICES ASSUME Init PROVE Down!Init
    OBVIOUS
  <2>1. upSent = 0 /\ clGot = <<>> /\ M \in Nat
    BY TunnelAssumption DEF Init
  <2>2. Bytes(upSent) \in Seq(1 .. M)
    BY <2>1, BytesFacts
  <2> QED
    BY <2>1, <2>2 DEF Down!Init
<1>2. TypeOK /\ TunnelInv /\ [Next]_vars => [Down!Next]_(Down!vars)
  <2> SUFFICES ASSUME TypeOK, TunnelInv, [Next]_vars PROVE [Down!Next]_(Down!vars)
    OBVIOUS
  <2> USE DEF TunnelInv, peerVars, downVars
  <2>1. CASE UpstreamSends
    <3>1. upSent' = upSent + 1 /\ UNCHANGED clGot
      BY <2>1 DEF UpstreamSends
    <3>2. upSent + 1 \in 1 .. M /\ upSent \in Nat
      BY <2>1, TunnelAssumption DEF UpstreamSends, TypeOK
    <3>3. Bytes(upSent') = Append(Bytes(upSent), upSent + 1)
      BY <3>1, <3>2, BytesFacts
    <3>4. Down!Send(upSent + 1)
      BY <3>1, <3>3 DEF Down!Send
    <3> QED
      BY <3>2, <3>4 DEF Down!Next
  <2>2. CASE ClientReads
    <3>1. /\ clIn # <<>> /\ clGot' = Append(clGot, Head(clIn)) /\ upSent' = upSent
          /\ client # "closed" /\ answer = "ok"
      BY <2>2 DEF ClientReads, DownInv
    <3>2. Head(clIn) = Len(clGot) /\ Head(clIn) \in 0 .. M
      BY <2>2, <3>1, DownClientReads, Taken, DownFacts
    <3>3. Heard' = IF clGot = <<>> THEN <<>> ELSE Append(Heard, Head(clIn))
      <4>1. CASE clGot = <<>>
        BY <3>1, <4>1 DEF Heard
      <4>2. CASE clGot # <<>>
        <5>1. clGot' # <<>> /\ Tail(clGot') = Append(Tail(clGot), Head(clIn))
          <6>1. /\ Append(clGot, Head(clIn)) # <<>>
                /\ Tail(Append(clGot, Head(clIn))) = Append(Tail(clGot), Head(clIn))
            BY <3>2, <4>2, TailAppend, DownFacts, Zenon
          <6> QED
            BY <3>1, <6>1, Zenon
        <5> QED
          BY <4>2, <5>1 DEF Heard
      <4> QED
        BY <4>1, <4>2
    <3>4. CASE clGot = <<>>
      <4>1. Heard' = Heard
        BY <3>3, <3>4 DEF Heard
      <4> QED
        BY <3>1, <4>1 DEF Down!vars, Heard
    <3>5. CASE clGot # <<>>
      <4>1. Len(clGot) \in Nat \ {0} /\ Len(Heard) = Len(clGot) - 1
        BY <3>5, EmptySeq, Taken, DownFacts DEF Heard
      <4>2. Len(clGot) \in 1 .. upSent /\ upSent \in Nat
        <5>1. Len(clIn) \in Nat \ {0}
          BY <3>1, EmptySeq, DownFacts
        <5>2. /\ Len(clHand) \in Nat /\ Len(upOut) \in Nat /\ upSent \in Int
              /\ Len(clGot) + Len(clIn) + Len(clHand) + Len(upOut) = upSent + 1
          BY <3>1, DownFacts DEF DownInv
        <5> QED
          BY <4>1, <5>1, <5>2
      <4>3. Len(Bytes(upSent)) = upSent /\ Bytes(upSent)[Len(clGot)] = Len(clGot)
        BY <4>2, BytesFacts
      <4>4. Len(Heard) < Len(Bytes(upSent)) /\ Bytes(upSent)[Len(Heard) + 1] = Head(clIn)
        BY <3>2, <4>1, <4>2, <4>3
      <4>5. Heard' = Append(Heard, Bytes(upSent)[Len(Heard) + 1]) /\ UNCHANGED Bytes(upSent)
        BY <3>1, <3>3, <3>5, <4>4
      <4>6. Down!Deliver
        BY <4>4, <4>5 DEF Down!Deliver, Heard
      <4> QED
        BY <4>6 DEF Down!Next
    <3> QED
      BY <3>4, <3>5
  <2>3. CASE UNCHANGED <<upSent, clGot>>
    BY <2>3 DEF Down!vars
  <2> QED
    BY <2>1, <2>2, <2>3 DEF Next, vars, HandlerStep, Dial, Hijack, Answer, HandlerReads,
       HandlerWrites, HandlerEOF, HandlerFails, CloseClient, CloseUpstream, CopierStep, CopierReads,
       CopierWrites, CopierEOF, CopierFails, ServerBuffers, PeerStep, ClientSends, ClientCloses,
       UpstreamReads, UpstreamCloses
<1> QED
  BY <1>1, <1>2, TunnelTypeCorrect, TunnelInvHolds, PTL DEF Spec, DownIsPipe, Down!Spec
=============================================================================

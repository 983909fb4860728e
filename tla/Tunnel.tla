------------------------------- MODULE Tunnel -------------------------------
(***************************************************************************)
(* One CONNECT tunnel of the HTTP proxy: httpProxy.connect in              *)
(* internal/proxy/http.go, the client and the upstream at its two ends.    *)
(*                                                                         *)
(* The handler dials, hijacks the client's connection, answers 200, starts *)
(* a goroutine (the copier) that copies client to upstream, and itself     *)
(* copies upstream to client; when that copy ends its deferred calls close *)
(* both connections.  Either peer may close at any time, in an orderly way *)
(* ("fin": it sends no more, and still reads) or for good ("closed"), or   *)
(* stop reading.                                                           *)
(***************************************************************************)
EXTENDS Naturals, Sequences

CONSTANTS
    N,      \* bound: bytes the client sends, numbered 1 .. N
    M,      \* bound: bytes the upstream sends
    Cap     \* bound: bytes a socket buffers before a write to it blocks

ASSUME TunnelAssumption == N \in Nat /\ M \in Nat /\ Cap \in Nat \ {0}

Ok    == 0          \* the status line 200 as the client sees it
Bytes(n) == [i \in 1 .. n |-> i]

VARIABLES
    pc,         \* the handler
    copier,     \* the goroutine: off, copying, ended
    answer,     \* what the handler answered: none, ok, failed
    client,     \* the client's end: open, fin, closed
    upstream,   \* the upstream's end
    clConn,     \* our end of the client's connection: open, closed
    upConn,     \* our end of the upstream's connection: none, open, closed
    clSent,     \* how many bytes the client wrote
    upSent,     \* how many bytes the upstream wrote
    rawIn,      \* written by the client and still in its socket
    buf,        \* already taken by the server's reader: brw.Reader
    upHand,     \* read by the copier and not yet written
    upIn,       \* written to the upstream and not yet read by it
    upGot,      \* what the upstream has read
    upOut,      \* written by the upstream and still in its socket
    clHand,     \* read by the handler and not yet written
    clIn,       \* written to the client and not yet read by it
    clGot       \* what the client has read

upVars   == <<rawIn, buf, upHand, upIn, upGot>>
downVars == <<upOut, clHand, clIn, clGot>>
peerVars == <<client, upstream, clSent, upSent>>
connVars == <<clConn, upConn>>
vars == <<pc, copier, answer, peerVars, connVars, upVars, downVars>>

End == {"open", "fin", "closed"}

TypeOK ==
    /\ pc \in {"dial", "hijack", "answer", "copy", "closeClient", "closeUpstream", "done"}
    /\ copier \in {"off", "copying", "ended"}
    /\ answer \in {"none", "ok", "failed"}
    /\ client \in End /\ upstream \in End
    /\ clConn \in {"open", "closed"} /\ upConn \in {"none", "open", "closed"}
    /\ clSent \in 0 .. N /\ upSent \in 0 .. M
    /\ rawIn \in Seq(1 .. N) /\ buf \in Seq(1 .. N) /\ upHand \in Seq(1 .. N)
    /\ upIn \in Seq(1 .. N) /\ upGot \in Seq(1 .. N)
    /\ upOut \in Seq(1 .. M) /\ clHand \in Seq(1 .. M)
    /\ clIn \in Seq(0 .. M) /\ clGot \in Seq(0 .. M)
    /\ Len(rawIn) <= Cap /\ Len(upIn) <= Cap /\ Len(upOut) <= Cap
    /\ Len(upHand) <= 1 /\ Len(clHand) <= 1

\* The request has been read, and with it the bytes the client pipelined.
Init ==
    /\ pc = "dial" /\ copier = "off" /\ answer = "none"
    /\ client = "open" /\ upstream = "open"
    /\ clConn = "open" /\ upConn = "none"
    /\ clSent \in 0 .. N /\ upSent = 0
    /\ buf = Bytes(clSent)
    /\ rawIn = <<>> /\ upHand = <<>> /\ upIn = <<>> /\ upGot = <<>>
    /\ upOut = <<>> /\ clHand = <<>> /\ clIn = <<>> /\ clGot = <<>>
----------------------------------------------------------------------------
(* The handler.                                                            *)
Dial ==
    /\ pc = "dial"
    /\ \/ pc' = "hijack" /\ upConn' = "open" /\ UNCHANGED answer
       \/ pc' = "done" /\ answer' = "failed" /\ UNCHANGED upConn
    /\ UNCHANGED <<copier, peerVars, clConn, upVars, downVars>>

Hijack ==
    /\ pc = "hijack"
    /\ \/ pc' = "answer" /\ UNCHANGED answer
       \/ pc' = "closeUpstream" /\ answer' = "failed"
    /\ UNCHANGED <<copier, peerVars, connVars, upVars, downVars>>

\* Mutant: the status line is not written.
AnswerSilent ==
    /\ pc = "answer" /\ pc' = "copy" /\ answer' = "ok" /\ copier' = "copying"
    /\ UNCHANGED <<peerVars, connVars, upVars, downVars>>

Answer ==
    /\ pc = "answer"
    /\ \/ /\ pc' = "copy" /\ answer' = "ok" /\ copier' = "copying"
          /\ clIn' = IF client = "closed" THEN clIn ELSE Append(clIn, Ok)
       \/ /\ client = "closed" /\ pc' = "closeClient"
          /\ UNCHANGED <<answer, copier, clIn>>
    /\ UNCHANGED <<peerVars, connVars, upVars, upOut, clHand, clGot>>

\* Mutant: the handler reads on before it has written.
HandlerReadsAhead ==
    /\ pc = "copy" /\ upOut # <<>>
    /\ clHand' = <<Head(upOut)>> /\ upOut' = Tail(upOut)
    /\ UNCHANGED <<pc, copier, answer, peerVars, connVars, upVars, clIn, clGot>>

\* io.Copy(client, upstream): read, then write what was read.
HandlerReads ==
    /\ pc = "copy" /\ clHand = <<>> /\ upOut # <<>>
    /\ clHand' = <<Head(upOut)>> /\ upOut' = Tail(upOut)
    /\ UNCHANGED <<pc, copier, answer, peerVars, connVars, upVars, clIn, clGot>>

\* A write to a client that is gone may still be accepted, and is lost.
HandlerWrites ==
    /\ pc = "copy" /\ clHand # <<>>
    /\ \/ client # "closed" /\ Len(clIn) < Cap /\ clIn' = Append(clIn, Head(clHand))
       \/ client = "closed" /\ UNCHANGED clIn
    /\ clHand' = <<>>
    /\ UNCHANGED <<pc, copier, answer, peerVars, connVars, upVars, upOut, clGot>>

\* Mutant: the handler leaves as soon as either side has closed.
HandlerStopsWithClient ==
    /\ pc = "copy"
    /\ upstream # "open" \/ client # "open"
    /\ pc' = "closeClient"
    /\ UNCHANGED <<copier, answer, peerVars, connVars, upVars, downVars>>

\* Mutant: the handler waits for the client too.
HandlerWaitsForClient ==
    /\ pc = "copy" /\ clHand = <<>> /\ upOut = <<>> /\ upstream # "open" /\ client # "open"
    /\ pc' = "closeClient"
    /\ UNCHANGED <<copier, answer, peerVars, connVars, upVars, downVars>>

\* End of file after everything was copied ...
HandlerEOF ==
    /\ pc = "copy" /\ clHand = <<>> /\ upOut = <<>> /\ upstream # "open"
    /\ pc' = "closeClient"
    /\ UNCHANGED <<copier, answer, peerVars, connVars, upVars, downVars>>

\* ... or an error: the upstream reset, or the client is gone.
HandlerFails ==
    /\ pc = "copy"
    /\ \/ clHand = <<>> /\ upstream = "closed"
       \/ clHand # <<>> /\ client = "closed"
    /\ pc' = "closeClient"
    /\ UNCHANGED <<copier, answer, peerVars, connVars, upVars, downVars>>

\* Mutant: no deferred client.Close.
CloseClientForgotten ==
    /\ pc = "closeClient" /\ pc' = "closeUpstream"
    /\ UNCHANGED <<copier, answer, peerVars, connVars, upVars, downVars>>

\* The deferred calls, last registered first.
CloseClient ==
    /\ pc = "closeClient"
    /\ clConn' = "closed" /\ pc' = "closeUpstream"
    /\ UNCHANGED <<copier, answer, peerVars, upConn, upVars, downVars>>

CloseUpstream ==
    /\ pc = "closeUpstream"
    /\ upConn' = "closed" /\ pc' = "done"
    /\ UNCHANGED <<copier, answer, peerVars, clConn, upVars, downVars>>
----------------------------------------------------------------------------
(* The copier: io.Copy(upstream, brw.Reader).  brw.Reader hands out what   *)
(* it has buffered before it turns to the connection again.                *)
Source == IF buf # <<>> THEN buf ELSE IF clConn = "open" THEN rawIn ELSE <<>>
Consume == IF buf # <<>> THEN buf' = Tail(buf) /\ UNCHANGED rawIn
                         ELSE rawIn' = Tail(rawIn) /\ UNCHANGED buf

\* Mutant: the copier reads the raw connection.
CopierReadsRaw ==
    /\ copier = "copying" /\ upHand = <<>> /\ rawIn # <<>> /\ clConn = "open"
    /\ upHand' = <<Head(rawIn)>> /\ rawIn' = Tail(rawIn)
    /\ UNCHANGED <<pc, copier, answer, peerVars, connVars, buf, upIn, upGot, downVars>>

CopierReads ==
    /\ copier = "copying" /\ upHand = <<>> /\ Source # <<>>
    /\ upHand' = <<Head(Source)>>
    /\ Consume
    /\ UNCHANGED <<pc, copier, answer, peerVars, connVars, upIn, upGot, downVars>>

CopierWrites ==
    /\ copier = "copying" /\ upHand # <<>> /\ upConn = "open"
    /\ \/ upstream # "closed" /\ Len(upIn) < Cap /\ upIn' = Append(upIn, Head(upHand))
       \/ upstream = "closed" /\ UNCHANGED upIn
    /\ upHand' = <<>>
    /\ UNCHANGED <<pc, copier, answer, peerVars, connVars, rawIn, buf, upGot, downVars>>

CopierEOF ==
    /\ copier = "copying" /\ upHand = <<>> /\ buf = <<>>
    /\ clConn = "closed" \/ client = "closed" \/ (client = "fin" /\ rawIn = <<>>)
    /\ copier' = "ended"
    /\ UNCHANGED <<pc, answer, peerVars, connVars, upVars, downVars>>

CopierFails ==
    /\ copier = "copying" /\ upHand # <<>>
    /\ upConn = "closed" \/ upstream = "closed"
    /\ copier' = "ended"
    /\ UNCHANGED <<pc, answer, peerVars, connVars, upVars, downVars>>
----------------------------------------------------------------------------
(* The two ends, and net/http's reader, which may take bytes of the client *)
(* into its buffer until the connection is hijacked.                       *)
ServerBuffers ==
    /\ pc \in {"dial", "hijack"} /\ rawIn # <<>>
    /\ buf' = Append(buf, Head(rawIn)) /\ rawIn' = Tail(rawIn)
    /\ UNCHANGED <<pc, copier, answer, peerVars, connVars, upHand, upIn, upGot, downVars>>

ClientSends ==
    /\ client = "open" /\ clConn = "open" /\ clSent < N /\ Len(rawIn) < Cap
    /\ clSent' = clSent + 1 /\ rawIn' = Append(rawIn, clSent + 1)
    /\ UNCHANGED <<pc, copier, answer, client, upstream, upSent, connVars, buf, upHand, upIn,
                   upGot, downVars>>

ClientReads ==
    /\ client # "closed" /\ clIn # <<>>
    /\ clGot' = Append(clGot, Head(clIn)) /\ clIn' = Tail(clIn)
    /\ UNCHANGED <<pc, copier, answer, peerVars, connVars, upVars, upOut, clHand>>

ClientCloses ==
    /\ \E e \in {"fin", "closed"} : client # "closed" /\ e # client /\ client' = e
    /\ UNCHANGED <<pc, copier, answer, upstream, clSent, upSent, connVars, upVars, downVars>>

UpstreamSends ==
    /\ upstream = "open" /\ upConn = "open" /\ upSent < M /\ Len(upOut) < Cap
    /\ upSent' = upSent + 1 /\ upOut' = Append(upOut, upSent + 1)
    /\ UNCHANGED <<pc, copier, answer, client, upstream, clSent, connVars, upVars, clHand, clIn,
                   clGot>>

UpstreamReads ==
    /\ upstream # "closed" /\ upIn # <<>>
    /\ upGot' = Append(upGot, Head(upIn)) /\ upIn' = Tail(upIn)
    /\ UNCHANGED <<pc, copier, answer, peerVars, connVars, rawIn, buf, upHand, downVars>>

UpstreamCloses ==
    /\ upConn = "open"
    /\ \E e \in {"fin", "closed"} : upstream # "closed" /\ e # upstream /\ upstream' = e
    /\ UNCHANGED <<pc, copier, answer, client, clSent, upSent, connVars, upVars, downVars>>
----------------------------------------------------------------------------
HandlerStep == Dial \/ Hijack \/ Answer \/ HandlerReads \/ HandlerWrites \/ HandlerEOF
               \/ HandlerFails \/ CloseClient \/ CloseUpstream
CopierStep == CopierReads \/ CopierWrites \/ CopierEOF \/ CopierFails
PeerStep == ClientSends \/ ClientReads \/ ClientCloses
            \/ UpstreamSends \/ UpstreamReads \/ UpstreamCloses

Next == HandlerStep \/ CopierStep \/ ServerBuffers \/ PeerStep

Spec == Init /\ [][Next]_vars

\* The two goroutines run, and a dial returns in the end.  Neither peer has to
\* send, to read or to close anything.
FairSpec == Spec /\ WF_vars(HandlerStep) /\ WF_vars(CopierStep)
----------------------------------------------------------------------------
\* Client to upstream, the pipelined bytes included (http.go:89-92): what the
\* upstream reads is what the client wrote, in order and without a gap.
Up == INSTANCE Pipe WITH Item <- 1 .. N, sent <- Bytes(clSent), got <- upGot
UpIsPipe == Up!Spec

\* Upstream to client, behind the status line (http.go:86, 97).
Down == INSTANCE Pipe WITH Item <- 1 .. M, sent <- Bytes(upSent),
                           got <- IF clGot = <<>> THEN <<>> ELSE Tail(clGot)
DownIsPipe == Down!Spec

\* Nothing of the upstream reaches a client that was not told 200, and 200 comes
\* first, also when the upstream talks first (http.go:86-97).
AnswerComesFirst ==
    LET seen == clGot \o clIn IN
    /\ seen # <<>> => answer = "ok" /\ seen[1] = Ok
    /\ \A i \in 2 .. Len(seen) : seen[i] # Ok

\* An upstream that ends in an orderly way is heard to the end: the handler gives
\* up on a client that is still there only when all of it has been written, no
\* matter what the client has closed or the copier met meanwhile (http.go:96-97).
UpstreamHeardToTheEnd ==
    /\ answer = "ok" /\ client # "closed" /\ upstream # "closed"
    /\ pc \in {"closeClient", "closeUpstream", "done"}
    => Len(clGot \o clIn) = 1 + upSent

\* "the deferred Close on the way out unblocks the goroutine" (http.go:94-95): once
\* the handler is on its way out nothing outlives it, neither a connection nor a
\* copier that waits for a client that is silent or an upstream that does not read.
HandlerTakesAllDown ==
    pc \in {"closeClient", "closeUpstream"} ~>
        (pc = "done" /\ upConn # "open" /\ copier # "copying")

\* One half of http.go:94 "Both copies end when either side closes": they do when
\* the upstream closes, provided the client, as long as it is there, reads.
UpstreamCloseEndsBoth ==
    WF_vars(ClientReads) =>
        (copier # "off" /\ upstream # "open" ~> pc = "done" /\ copier = "ended")

\* The other half of http.go:94: they end when the client closes.
ClientCloseEndsBoth ==
    copier # "off" /\ client = "closed" ~> pc = "done" /\ copier = "ended"
=============================================================================

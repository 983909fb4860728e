------------------------- MODULE FrontDoors_proofs -------------------------
(***************************************************************************)
(* Theorems about Dial and FrontDoors for every set of addresses and       *)
(* header names, for answers and messages of any length.                   *)
(***************************************************************************)
EXTENDS FrontDoors, Integers, FiniteSetTheorems, WellFoundedInduction, SequenceTheorems, TLAPS

(***************************************************************************)
(* The loop over the Connection lines.  FoldLeft is a recursive function   *)
(* on the sets of lines that are left; its value is known in closed form,  *)
(* and the two agree on every set because a least one on which they differ *)
(* would have to differ on a smaller one.                                  *)
(***************************************************************************)
LEMMA LeastSubset ==
    ASSUME NEW D, IsFiniteSet(D), NEW T \in SUBSET SUBSET D, T # {}
    PROVE  \E s \in T : \A t \in T : t \subseteq s => t = s
<1>1. IsWellFoundedOn(StrictSubsetOrdering(D), SUBSET D)
  BY FS_StrictSubsetOrderingWellFounded, FS_FiniteSubsetsOfFinite
<1>2. PICK s \in T : \A t \in T : <<t, s>> \notin StrictSubsetOrdering(D)
  BY <1>1, WFMin
<1> QED
  BY <1>2 DEF StrictSubsetOrdering

\* A set of numbers that is finite has a greatest.
LEMMA Greatest ==
    ASSUME NEW n \in Nat, NEW s \in SUBSET (1 .. n), s # {}
    PROVE  Max(s) \in s /\ \A i \in s : i <= Max(s)
<1> DEFINE D == 1 .. n
           HasMax(t) == \E m \in t : \A i \in t : m >= i
           T == {t \in SUBSET D : t # {} /\ ~HasMax(t)}
<1>1. SUFFICES T = {}
  <2>1. HasMax(s)
    BY <1>1
  <2> QED
    BY <2>1 DEF Max
<1>2. SUFFICES ASSUME T # {} PROVE FALSE
  OBVIOUS
<1>3. T \in SUBSET SUBSET D /\ IsFiniteSet(D)
  BY FS_Interval
<1>4. PICK t \in T : \A r \in T : r \subseteq t => r = t
  <2> HIDE DEF D
  <2>1. \A X \in SUBSET SUBSET D : X # {} =>
            \E t \in X : \A r \in X : r \subseteq t => r = t
    BY <1>3, LeastSubset
  <2> HIDE DEF T
  <2> QED
    BY <1>2, <1>3, <2>1
<1>5. PICK x \in t : TRUE
  BY <1>4
<1>6. t \ {x} # {} => HasMax(t \ {x})
  <2>1. t \ {x} \notin T
    BY <1>4, <1>5
  <2> QED
    BY <2>1, <1>4
<1>7. HasMax(t)
  <2>1. CASE t \ {x} = {}
    BY <1>4, <1>5, <2>1
  <2>2. CASE t \ {x} # {}
    <3>1. PICK m \in t \ {x} : \A i \in t \ {x} : m >= i
      BY <1>6, <2>2
    <3>2. m \in Nat /\ x \in Nat /\ \A i \in t : i \in Nat
      BY <1>4, <1>5, <3>1
    <3> QED
      BY <1>5, <3>1, <3>2
  <2> QED
    BY <2>1, <2>2
<1> QED
  BY <1>4, <1>7

\* removeHopByHop's loop leaves exactly the fields that no line names.
LEMMA NoLineNames ==
    ASSUME NEW fields, NEW S, NEW lines \in Seq(S)
    PROVE  DeleteNamed(fields, lines) = {f \in fields : \A line \in Range(lines) : f \notin line}
<1> DEFINE D == DOMAIN lines
           Left(g) == [s \in SUBSET D |->
                         IF s = {} THEN fields ELSE g[s \ {Max(s)}] \ lines[Max(s)]]
           closed == [s \in SUBSET D |-> {f \in fields : \A i \in s : f \notin lines[i]}]
           fold == CHOOSE g : g = Left(g)
<1>1. D = 1 .. Len(lines) /\ Len(lines) \in Nat /\ IsFiniteSet(D)
  BY FS_Interval
<1>2. \A s \in SUBSET D : s # {} => Max(s) \in s
  BY <1>1, Greatest
<1>3. closed = Left(closed)
  <2> SUFFICES ASSUME NEW s \in SUBSET D PROVE closed[s] = Left(closed)[s]
    OBVIOUS
  <2>1. CASE s = {}
    BY <2>1
  <2>2. CASE s # {}
    <3>1. Max(s) \in s
      BY <1>2, <2>2
    <3>2. Left(closed)[s] = closed[s \ {Max(s)}] \ lines[Max(s)]
      BY <2>2
    <3>3. closed[s \ {Max(s)}] = {f \in fields : \A i \in s \ {Max(s)} : f \notin lines[i]}
      OBVIOUS
    <3> QED
      BY <3>1, <3>2, <3>3
  <2> QED
    BY <2>1, <2>2
<1>4. fold = Left(fold)
  <2> HIDE DEF Left, closed
  <2> QED
    BY <1>3
<1>5. \A s \in SUBSET D : fold[s] = closed[s]
  <2> DEFINE T == {s \in SUBSET D : fold[s] # closed[s]}
  <2> HIDE DEF fold
  <2>1. SUFFICES ASSUME T # {} PROVE FALSE
    OBVIOUS
  <2>2. PICK s \in T : \A t \in T : t \subseteq s => t = s
    <3>1. T \in SUBSET SUBSET D
      OBVIOUS
    <3>2. \A X \in SUBSET SUBSET D : X # {} =>
              \E s \in X : \A t \in X : t \subseteq s => t = s
      BY <1>1, LeastSubset
    <3> HIDE DEF T, D
    <3> QED
      BY <2>1, <3>1, <3>2
  <2>3. fold[s] = Left(fold)[s] /\ closed[s] = Left(closed)[s] /\ s \in SUBSET D
    BY <1>3, <1>4, <2>2
  <2>4. CASE s = {}
    BY <2>2, <2>3, <2>4
  <2>5. CASE s # {}
    <3>1. Max(s) \in s
      BY <1>2, <2>3, <2>5
    <3>2. s \ {Max(s)} \in SUBSET D /\ s \ {Max(s)} \notin T
      BY <2>2, <3>1
    <3>3. fold[s \ {Max(s)}] = closed[s \ {Max(s)}]
      BY <3>2
    <3> QED
      BY <2>2, <2>3, <2>5, <3>3
  <2> QED
    BY <2>4, <2>5
<1>6. DeleteNamed(fields, lines) = fold[D]
  BY DEF DeleteNamed, FoldLeft, MapThenFoldSet
<1>7. closed[D] = {f \in fields : \A line \in Range(lines) : f \notin line}
  BY DEF Range
<1> QED
  BY <1>5, <1>6, <1>7
----------------------------------------------------------------------------
(***************************************************************************)
(* The addresses among the first records of an answer, record by record.   *)
(***************************************************************************)
LEMMA PlacesStep ==
    ASSUME NEW a, NEW k \in Nat
    PROVE  /\ IsFiniteSet(Places(a, k)) /\ Cardinality(Places(a, k)) \in Nat
           /\ a[k + 1] \in Address => /\ Places(a, k + 1) = Places(a, k) \cup {k + 1}
                                     /\ k + 1 \notin Places(a, k)
                                     /\ Cardinality(Places(a, k + 1)) = Cardinality(Places(a, k)) + 1
           /\ a[k + 1] \notin Address => Places(a, k + 1) = Places(a, k)
<1>1. IsFiniteSet(1 .. k)
  BY FS_Interval
<1>2. Places(a, k) \subseteq 1 .. k
  BY DEF Places
<1>3. IsFiniteSet(Places(a, k)) /\ Cardinality(Places(a, k)) \in Nat
  BY <1>1, <1>2, FS_Subset, FS_CardinalityType
<1>4. k + 1 \notin Places(a, k)
  BY <1>2
<1>5. 1 .. k + 1 = (1 .. k) \cup {k + 1}
  OBVIOUS
<1>6. a[k + 1] \in Address => Places(a, k + 1) = Places(a, k) \cup {k + 1}
  BY <1>5 DEF Places
<1>7. a[k + 1] \notin Address => Places(a, k + 1) = Places(a, k)
  BY <1>5 DEF Places
<1>8. Cardinality(Places(a, k) \cup {k + 1}) = Cardinality(Places(a, k)) + 1
  BY <1>3, <1>4, FS_AddElement
<1> QED
  BY <1>3, <1>4, <1>6, <1>7, <1>8

\* The place that is added ranks last and moves none of the others.
LEMMA RankedStep ==
    ASSUME NEW a, NEW k \in Nat, a[k + 1] \in Address
    PROVE  LET p == Places(a, k)
               q == Places(a, k + 1)
               c == Cardinality(p)
           IN  /\ \A n \in 1 .. c : Ranked(q, n) = Ranked(p, n)
               /\ Ranked(q, c + 1) = {k + 1}
<1> DEFINE p == Places(a, k)
           q == Places(a, k + 1)
           c == Cardinality(p)
           Upto(set, i) == {j \in set : j <= i}
<1>1. /\ IsFiniteSet(p) /\ c \in Nat
      /\ q = p \cup {k + 1} /\ k + 1 \notin p /\ Cardinality(q) = c + 1
  BY PlacesStep
<1>2. p \subseteq 1 .. k
  BY DEF Places
<1> HIDE DEF p, q, c
<1>3. \A i \in p : Upto(q, i) = Upto(p, i) /\ Cardinality(Upto(p, i)) \in Nat
             /\ Cardinality(Upto(p, i)) <= c
  <2> TAKE i \in p
  <2>1. Upto(q, i) = Upto(p, i)
    BY <1>1, <1>2
  <2>2. Upto(p, i) \subseteq p
    OBVIOUS
  <2>3. IsFiniteSet(Upto(p, i)) /\ Cardinality(Upto(p, i)) <= c
    BY <1>1, <2>2, FS_Subset DEF c
  <2>4. Cardinality(Upto(p, i)) \in Nat
    BY <2>3, FS_CardinalityType
  <2> QED
    BY <2>1, <2>3, <2>4
<1>4. Cardinality(Upto(q, k + 1)) = c + 1
  <2>1. \A j \in q : j <= k + 1
    BY <1>1, <1>2
  <2>2. Upto(q, k + 1) = q
    BY <2>1
  <2> QED
    BY <1>1, <2>2
<1>5. \A n : /\ Ranked(q, n) = {i \in q : Cardinality(Upto(q, i)) = n}
             /\ Ranked(p, n) = {i \in p : Cardinality(Upto(p, i)) = n}
  BY DEF Ranked
<1> HIDE DEF Upto
<1>6. \A n \in 1 .. c : Ranked(q, n) = Ranked(p, n)
  <2> TAKE n \in 1 .. c
  <2>1. n # c + 1
    BY <1>1
  <2>2. \A i \in q : Cardinality(Upto(q, i)) = n <=> i \in p /\ Cardinality(Upto(p, i)) = n
    BY <1>1, <1>3, <1>4, <2>1
  <2>3. p \subseteq q
    BY <1>1
  <2> QED
    BY <1>5, <2>2, <2>3
<1>7. Ranked(q, c + 1) = {k + 1}
  <2>1. \A i \in p : Cardinality(Upto(p, i)) # c + 1
    BY <1>1, <1>3
  <2> QED
    BY <1>1, <1>3, <1>4, <1>5, <2>1
<1> QED
  BY <1>6, <1>7 DEF p, q, c

\* An address is added behind those before it, every other record is passed over.
LEMMA AmongStep ==
    ASSUME NEW a, NEW k \in Nat
    PROVE  /\ a[k + 1] \in Address => Among(a, k + 1) = Append(Among(a, k), a[k + 1][2])
           /\ a[k + 1] \notin Address => Among(a, k + 1) = Among(a, k)
<1> DEFINE p == Places(a, k)
           q == Places(a, k + 1)
           c == Cardinality(p)
<1>1. c \in Nat
  BY PlacesStep
<1>2. ASSUME a[k + 1] \in Address PROVE Among(a, k + 1) = Append(Among(a, k), a[k + 1][2])
  <2>1. Cardinality(q) = c + 1
    BY <1>2, PlacesStep
  <2>2. \A n \in 1 .. c : Ranked(q, n) = Ranked(p, n)
    BY <1>2, RankedStep
  <2>3. Ranked(q, c + 1) = {k + 1}
    BY <1>2, RankedStep
  <2> HIDE DEF p, q, c
  <2>4. \A n \in 1 .. c : Nth(q, n) = Nth(p, n)
    BY <2>2 DEF Nth
  <2>5. Nth(q, c + 1) = k + 1
    BY <2>3 DEF Nth
  <2>6. Among(a, k) = [n \in 1 .. c |-> a[Nth(p, n)][2]]
    BY DEF Among, p, c
  <2>7. Among(a, k + 1) = [n \in 1 .. c + 1 |-> a[Nth(q, n)][2]]
    BY <2>1 DEF Among, q
  <2>8. \A n \in 1 .. c + 1 : n \in 1 .. c \/ n = c + 1
    BY <1>1
  <2> QED
    BY <1>1, <2>4, <2>5, <2>6, <2>7, <2>8
<1>3. ASSUME a[k + 1] \notin Address PROVE Among(a, k + 1) = Among(a, k)
  BY <1>3, PlacesStep DEF Among
<1> QED
  BY <1>2, <1>3

LEMMA AmongNone == ASSUME NEW a PROVE Among(a, 0) = <<>>
<1>1. Places(a, 0) = {}
  BY DEF Places
<1> QED
  BY <1>1, FS_EmptySet DEF Among
----------------------------------------------------------------------------
(***************************************************************************)
(* The inductive invariant of a dial.  While an answer is parsed, what was *)
(* got of it are the addresses among the records before the rest; what is  *)
(* still to be dialed is what follows in the plan.                         *)
(***************************************************************************)
Parsing ==
    LET a == heard[Len(heard)]
        k == Len(a) - Len(rest)
    IN  /\ Len(heard) \in {1, 2} /\ a \in Records /\ k \in Nat
        /\ \A i \in 1 .. Len(rest) : rest[i] = a[k + i]
        /\ \A i \in 1 .. k : a[i] # <<"broken">>
        /\ got = Among(a, k)
        /\ addrs = IF Len(heard) = 1 THEN <<>> ELSE AddressesOf(heard[1])

DialInv ==
    /\ pc = "split" => heard = <<>> /\ addrs = <<>> /\ tried = <<>>
    /\ pc \in {"query", "parse", "fallback"} => target = "name" /\ tried = <<>>
    /\ pc = "query" => Len(heard) < 2 /\ addrs = AnswerTo(1)
    /\ pc = "parse" => Parsing
    /\ pc = "dial" => target = "name" /\ addrs # <<>> /\ Candidates = tried \o addrs
    /\ pc = "fallback" => Candidates = <<>>
    /\ pc = "connected" => IsPrefix(tried, Plan)
    /\ pc = "failed" => tried = Plan

(***************************************************************************)
(* The inductive invariant of a front door with the dial it makes.         *)
(***************************************************************************)
DoorsInv ==
    /\ TypeOK /\ DialInv
    /\ stage \in {"arrived", "dial", "relay", "done"}
    /\ request \in Message /\ response \in Message
    /\ asked # target => door = "plain" /\ asked = "path"
    /\ stage = "arrived" => pc = "split" /\ sent = <<>> /\ code = "none"
    /\ stage \in {"dial", "relay"} => asked = target /\ code = "none"
    /\ stage # "done" => relayed = <<>>
    /\ ForwardsEndToEnd
----------------------------------------------------------------------------
LEMMA TwoTypes == Len(Types) = 2
BY DEF Types

LEMMA PrefixOfConcat ==
    ASSUME NEW S, NEW s \in Seq(S), NEW t \in Seq(S)
    PROVE  IsPrefix(s, s \o t)
<1>1. Len(s \o t) = Len(s) + Len(t) /\ Len(s) \in Nat /\ Len(t) \in Nat
  OBVIOUS
<1>2. \A i \in 1 .. Len(s) : (s \o t)[i] = s[i]
  OBVIOUS
<1>3. SubSeq(s \o t, 1, Len(s)) = SubSeq(s, 1, Len(s))
  BY <1>1, <1>2
<1> QED
  BY <1>1, <1>3 DEF IsPrefix

LEMMA PrefixOfAll ==
    ASSUME NEW S, NEW t \in Seq(S) PROVE IsPrefix(<<>>, t) /\ IsPrefix(t, t)
BY DEF IsPrefix

\* What an answer is made of, and what of it counts.
LEMMA AnswerFacts ==
    ASSUME NEW r \in Records
    PROVE  /\ r \in Seq(Record) /\ Len(r) \in Nat /\ DOMAIN r = 1 .. Len(r)
           /\ (\E i \in 1 .. Len(r) : r[i] = <<"broken">>) => AddressesOf(r) = <<>>
           /\ (\A i \in 1 .. Len(r) : r[i] # <<"broken">>) => AddressesOf(r) = Among(r, Len(r))
<1>1. r \in Seq(Record) /\ Len(r) \in Nat /\ DOMAIN r = 1 .. Len(r)
  BY DialAssumption DEF Records
<1>2. <<"failed">> \notin Record
  BY DEF Record, Address
<1>3. \A i \in 1 .. Len(r) : r[i] # <<"failed">>
  BY <1>1, <1>2
<1> QED
  BY <1>1, <1>3 DEF AddressesOf, Range

LEMMA FailureFacts == AddressesOf(Failure) = <<>>
<1>1. <<"failed">> \in Range(Failure)
  BY DEF Range, Failure
<1> QED
  BY <1>1 DEF AddressesOf

\* What the answers so far give is not touched by the next one.
LEMMA AnswersStep ==
    ASSUME heard \in Seq(Records \cup {Failure}), NEW r \in Records \cup {Failure},
           heard' = Append(heard, r)
    PROVE  /\ Len(heard') = Len(heard) + 1 /\ heard'[Len(heard')] = r
           /\ heard' \in Seq(Records \cup {Failure})
           /\ Len(heard) >= 1 => heard'[1] = heard[1] /\ AnswerTo(1)' = AnswerTo(1)
           /\ Len(heard) = 0 => AnswerTo(1)' = AddressesOf(r) /\ AnswerTo(1) = <<>>
           /\ Len(heard) = 1 => AnswerTo(2)' = AddressesOf(r)
           /\ Len(heard) = 0 => AnswerTo(2)' = <<>>
BY DEF AnswerTo

\* After an answer: ask again, or dial what there is, or what was asked for.
LEMMA AfterAnswerStep ==
    ASSUME heard' \in Seq(Records \cup {Failure}), Len(heard') \in {1, 2},
           target' = "name", tried' = <<>>, addrs' \in Seq(IP),
           addrs' = IF Len(heard') = 1 THEN AnswerTo(1)' ELSE AnswerTo(1)' \o AnswerTo(2)',
           pc' = AfterAnswer(Len(heard'), addrs')
    PROVE  DialInv'
<1>1. CASE Len(heard') = 1
  BY <1>1 DEF AfterAnswer, Types, DialInv
<1>2. CASE Len(heard') = 2
  <2>1. Candidates' = addrs' /\ <<>> \o addrs' = addrs'
    BY <1>2 DEF Candidates
  <2>2. pc' = IF addrs' = <<>> THEN "fallback" ELSE "dial"
    BY <1>2 DEF AfterAnswer, Types
  <2> QED
    BY <2>1, <2>2 DEF DialInv
<1> QED
  BY <1>1, <1>2

LEMMA DialInit == Init => TypeOK /\ DialInv
<1> SUFFICES ASSUME Init PROVE TypeOK /\ DialInv
  OBVIOUS
<1>1. Len(heard) = 0 /\ heard \in Seq(Records \cup {Failure})
  BY DEF Init
<1> QED
  BY <1>1 DEF Init, TypeOK, DialInv, Types

\* Whoever names the target, before it is looked at.
LEMMA TargetStep ==
    ASSUME TypeOK, DialInv, pc = "split", target' \in {"literal", "name", "noport"},
           UNCHANGED <<usable, heard, pc, rest, got, addrs, tried>>
    PROVE  TypeOK' /\ DialInv'
BY DEF TypeOK, DialInv, Types

\* Before a lookup everything the earlier ones gave has been taken.
LEMMA QueryFacts ==
    ASSUME TypeOK, DialInv, pc = "query"
    PROVE  /\ Len(heard) \in {0, 1} /\ heard \in Seq(Records \cup {Failure})
           /\ target = "name" /\ tried = <<>> /\ addrs \in Seq(IP) /\ addrs = AnswerTo(1)
<1>1. heard \in Seq(Records \cup {Failure}) /\ addrs \in Seq(IP)
  BY DEF TypeOK
<1>2. target = "name" /\ tried = <<>> /\ addrs = AnswerTo(1)
  BY DEF DialInv
<1>3. Len(heard) < 2 /\ Len(heard) \in Nat
  BY <1>1 DEF DialInv
<1>4. Len(heard) \in {0, 1}
  <2>1. \A n \in Nat : n < 2 => n \in {0, 1}
    OBVIOUS
  <2> QED
    BY <1>3, <2>1
<1> QED
  BY <1>1, <1>2, <1>4

LEMMA DialInvStep ==
    ASSUME TypeOK, DialInv, [Next]_vars PROVE TypeOK' /\ DialInv'
<1>1. CASE Split
  <2>0. /\ pc = "split" /\ UNCHANGED <<target, usable, heard, rest, got, addrs>>
        /\ heard = <<>> /\ addrs = <<>> /\ tried = <<>> /\ usable \in BOOLEAN
    BY <1>1 DEF Split, DialInv, TypeOK
  <2>1. Candidates' = <<>> /\ AnswerTo(1)' = <<>>
    BY <2>0, EmptySeq DEF Candidates, AnswerTo
  <2>2. CASE target = "noport"
    <3>1. pc' = "failed" /\ tried' = <<>>
      BY <1>1, <2>0, <2>2 DEF Split, Goto
    <3> QED
      BY <2>0, <2>2, <3>1 DEF TypeOK, DialInv, Plan
  <2>3. CASE target = "literal"
    <3>1. pc' \in {"failed", "connected"} /\ tried' = <<Literal>>
      BY <1>1, <2>0, <2>3 DEF Split, Attempt, Goto
    <3>2. Plan' = <<Literal>>
      BY <2>0, <2>3 DEF Plan
    <3>3. <<Literal>> \in Seq(IP \cup {Literal, Name})
      OBVIOUS
    <3>4. IsPrefix(<<Literal>>, <<Literal>>)
      BY <3>3, PrefixOfAll
    <3> QED
      BY <2>0, <2>3, <3>1, <3>2, <3>3, <3>4 DEF TypeOK, DialInv
  <2>4. CASE target = "name"
    <3>1. pc' \in {"query", "fallback"} /\ tried' = tried
      BY <1>1, <2>0, <2>4 DEF Split, Goto
    <3> QED
      BY <2>0, <2>1, <2>4, <3>1 DEF TypeOK, DialInv
  <2> QED
    BY <2>2, <2>3, <2>4 DEF TypeOK
<1>2. CASE QueryFails
  <2>0. /\ heard' = Append(heard, Failure) /\ UNCHANGED <<target, usable, rest, got, addrs, tried>>
        /\ pc = "query" /\ pc' = AfterAnswer(Len(heard) + 1, addrs)
    BY <1>2 DEF QueryFails, Goto
  <2>1. /\ Len(heard) \in {0, 1} /\ heard \in Seq(Records \cup {Failure})
        /\ target = "name" /\ tried = <<>> /\ addrs \in Seq(IP) /\ addrs = AnswerTo(1)
    BY <2>0, QueryFacts
  <2>2. /\ Len(heard') = Len(heard) + 1 /\ heard' \in Seq(Records \cup {Failure})
        /\ AnswerTo(1)' = addrs
        /\ Len(heard) = 1 => AnswerTo(2)' = <<>>
    BY <2>0, <2>1, AnswersStep, FailureFacts
  <2>3. addrs \o <<>> = addrs
    BY <2>1
  <2>4. DialInv'
    BY <2>0, <2>1, <2>2, <2>3, AfterAnswerStep
  <2>5. TypeOK'
    <3>1. Len(heard') <= Len(Types) /\ pc' \in {"query", "fallback", "dial"}
      BY <2>0, <2>1, <2>2, TwoTypes DEF AfterAnswer
    <3> QED
      BY <2>0, <2>2, <3>1 DEF TypeOK
  <2> QED
    BY <2>4, <2>5
<1>3. CASE QueryAnswered
  <2>1. PICK r \in Records : heard' = Append(heard, r) /\ rest' = r
    BY <1>3 DEF QueryAnswered
  <2>0. /\ got' = <<>> /\ pc = "query" /\ pc' = "parse" /\ UNCHANGED <<target, usable, addrs, tried>>
    BY <1>3 DEF QueryAnswered, Goto
  <2>2. /\ Len(heard) \in {0, 1} /\ heard \in Seq(Records \cup {Failure})
        /\ target = "name" /\ tried = <<>> /\ addrs \in Seq(IP) /\ addrs = AnswerTo(1)
    BY <2>0, QueryFacts
  <2>3. /\ Len(heard') = Len(heard) + 1 /\ heard'[Len(heard')] = r
        /\ heard' \in Seq(Records \cup {Failure})
        /\ Len(heard) = 1 => heard'[1] = heard[1]
    BY <2>1, <2>2, AnswersStep
  <2>4. addrs = IF Len(heard) = 0 THEN <<>> ELSE AddressesOf(heard[1])
    BY <2>2 DEF AnswerTo
  <2>5. r \in Seq(Record) /\ Len(r) \in Nat /\ Among(r, 0) = <<>>
    BY AnswerFacts, AmongNone
  <2>6. Parsing'
    <3>1. Len(r) - Len(rest') = 0
      BY <2>1, <2>5
    <3> QED
      BY <2>0, <2>1, <2>2, <2>3, <2>4, <2>5, <3>1 DEF Parsing
  <2>7. TypeOK'
    BY <2>0, <2>1, <2>2, <2>3, <2>5, TwoTypes DEF TypeOK
  <2> QED
    BY <2>0, <2>2, <2>6, <2>7 DEF DialInv
<1>4. CASE ParseRecord
  <2> DEFINE a == heard[Len(heard)]
             k == Len(a) - Len(rest)
  <2>0. /\ pc = "parse" /\ rest # <<>> /\ Head(rest) # <<"broken">> /\ rest' = Tail(rest)
        /\ got' = IF Head(rest) \in Address THEN Append(got, Head(rest)[2]) ELSE got
        /\ UNCHANGED <<target, usable, heard, pc, addrs, tried>>
    BY <1>4 DEF ParseRecord
  <2>1. Parsing /\ rest \in Seq(Record) /\ got \in Seq(IP)
    BY <2>0 DEF DialInv, TypeOK
  <2>2. a \in Seq(Record) /\ Len(a) \in Nat
    BY <2>1, AnswerFacts DEF Parsing
  <2>3. /\ k \in Nat /\ Len(rest) \in Nat /\ Len(rest) >= 1
        /\ Head(rest) = rest[1] /\ Len(rest') = Len(rest) - 1 /\ rest' \in Seq(Record)
        /\ \A i \in 1 .. Len(rest') : rest'[i] = rest[i + 1]
    BY <2>0, <2>1 DEF Parsing
  <2>4. rest[1] = a[k + 1]
    BY <2>1, <2>3 DEF Parsing
  <2>5. Len(a) - Len(rest') = k + 1
    BY <2>2, <2>3
  <2>6. got' = Among(a, k + 1)
    BY <2>0, <2>1, <2>3, <2>4, AmongStep DEF Parsing
  <2>7. got' \in Seq(IP)
    BY <2>0, <2>1, <2>3 DEF Record, Address
  <2>8. \A i \in 1 .. Len(rest') : rest'[i] = a[k + 1 + i]
    <3> TAKE i \in 1 .. Len(rest')
    <3>1. rest'[i] = rest[i + 1] /\ i + 1 \in 1 .. Len(rest)
      BY <2>3
    <3>2. rest[i + 1] = a[k + (i + 1)]
      BY <2>1, <3>1 DEF Parsing
    <3>3. k + (i + 1) = k + 1 + i
      <4>1. \A x \in Nat, y \in Nat : x + (y + 1) = x + 1 + y
        OBVIOUS
      <4>2. k \in Nat /\ i \in Nat
        BY <2>3
      <4> HIDE DEF k
      <4> QED
        BY <4>1, <4>2
    <3> QED
      BY <3>1, <3>2, <3>3
  <2>9. \A i \in 1 .. k + 1 : a[i] # <<"broken">>
    <3>1. \A i \in 1 .. k + 1 : i \in 1 .. k \/ i = k + 1
      <4>1. \A x \in Nat : \A i \in 1 .. x + 1 : i \in 1 .. x \/ i = x + 1
        OBVIOUS
      <4>2. k \in Nat
        BY <2>3
      <4> HIDE DEF k
      <4> QED
        BY <4>1, <4>2
    <3> QED
      BY <2>0, <2>1, <2>3, <2>4, <3>1 DEF Parsing
  <2>10. Parsing'
    <3>1. k + 1 \in Nat
      BY <2>3
    <3> HIDE DEF k
    <3>2. /\ Len(heard) \in {1, 2} /\ a \in Records
          /\ addrs = IF Len(heard) = 1 THEN <<>> ELSE AddressesOf(heard[1])
      BY <2>1 DEF Parsing
    <3> QED
      BY <2>0, <2>5, <2>6, <2>8, <2>9, <3>1, <3>2 DEF Parsing
  <2>11. TypeOK'
    BY <2>0, <2>3, <2>7 DEF TypeOK
  <2> QED
    BY <2>0, <2>10, <2>11 DEF DialInv
<1>5. CASE ParseFails \/ ParseDone
  <2> DEFINE a == heard[Len(heard)]
             k == Len(a) - Len(rest)
             found == IF rest = <<>> THEN addrs \o got ELSE addrs
  <2>0. /\ pc = "parse" /\ UNCHANGED <<target, usable, heard, rest, got, tried>>
        /\ rest # <<>> => Head(rest) = <<"broken">>
        /\ addrs' = found /\ pc' = AfterAnswer(Len(heard), found)
    BY <1>5 DEF ParseFails, ParseDone, Goto
  <2>1. /\ Parsing /\ rest \in Seq(Record) /\ got \in Seq(IP) /\ addrs \in Seq(IP)
        /\ heard \in Seq(Records \cup {Failure})
    BY <2>0 DEF DialInv, TypeOK
  <2>2. /\ Len(heard) \in {1, 2} /\ a \in Records /\ k \in Nat
        /\ addrs = IF Len(heard) = 1 THEN <<>> ELSE AnswerTo(1)
        /\ AnswerTo(Len(heard)) = AddressesOf(a)
    BY <2>1 DEF Parsing, AnswerTo
  <2>3. AnswerTo(Len(heard)) = IF rest = <<>> THEN got ELSE <<>>
    <3>1. CASE rest = <<>>
      <4>1. k = Len(a)
        BY <2>2, <3>1, AnswerFacts
      <4>2. AddressesOf(a) = Among(a, Len(a)) /\ got = Among(a, Len(a))
        BY <2>1, <2>2, <4>1, AnswerFacts DEF Parsing
      <4> QED
        BY <2>2, <3>1, <4>2
    <3>2. CASE rest # <<>>
      <4>1. Len(rest) \in Nat /\ Len(rest) >= 1 /\ Head(rest) = rest[1] /\ Len(a) \in Nat
        BY <2>1, <2>2, <3>2, AnswerFacts
      <4>2. rest[1] = a[k + 1] /\ k + 1 \in 1 .. Len(a)
        BY <2>1, <2>2, <4>1 DEF Parsing
      <4>3. AddressesOf(a) = <<>>
        BY <2>0, <2>2, <3>2, <4>1, <4>2, AnswerFacts
      <4> QED
        BY <2>2, <3>2, <4>3
    <3> QED
      BY <3>1, <3>2
  <2>4. found \in Seq(IP) /\ found = addrs \o AnswerTo(Len(heard))
    BY <2>1, <2>3
  <2>5. found = IF Len(heard) = 1 THEN AnswerTo(1) ELSE AnswerTo(1) \o AnswerTo(2)
    <3>1. AnswerTo(Len(heard)) \in Seq(IP)
      BY <2>1, <2>3
    <3> HIDE DEF found
    <3>2. CASE Len(heard) = 1
      BY <2>2, <2>4, <3>1, <3>2
    <3>3. CASE Len(heard) = 2
      BY <2>2, <2>4, <3>3
    <3> QED
      BY <2>2, <3>2, <3>3
  <2> HIDE DEF found
  <2>6. target' = "name" /\ tried' = <<>>
    BY <2>0 DEF DialInv
  <2>7. AnswerTo(1)' = AnswerTo(1) /\ AnswerTo(2)' = AnswerTo(2)
    BY <2>0 DEF AnswerTo
  <2>8. DialInv'
    BY <2>0, <2>1, <2>2, <2>4, <2>5, <2>6, <2>7, AfterAnswerStep
  <2>9. TypeOK'
    <3>1. pc' \in {"query", "fallback", "dial"}
      BY <2>0 DEF AfterAnswer
    <3> QED
      BY <2>0, <2>4, <3>1 DEF TypeOK
  <2> QED
    BY <2>8, <2>9
<1>6. CASE DialNext
  <2>0. /\ pc = "dial" /\ tried' = Append(tried, Head(addrs)) /\ addrs' = Tail(addrs)
        /\ pc' = "connected" \/ pc' = IF Tail(addrs) = <<>> THEN "failed" ELSE "dial"
        /\ UNCHANGED <<target, usable, heard, rest, got>>
    BY <1>6 DEF DialNext, Attempt, Goto
  <2>1. /\ target = "name" /\ addrs # <<>> /\ Candidates = tried \o addrs
        /\ addrs \in Seq(IP) /\ tried \in Seq(IP \cup {Literal, Name})
    BY <2>0 DEF DialInv, TypeOK
  <2>2. /\ Head(addrs) \in IP /\ Tail(addrs) \in Seq(IP)
        /\ tried' \in Seq(IP \cup {Literal, Name})
    BY <2>0, <2>1
  <2>3. tried \o addrs = tried' \o addrs'
    BY <2>0, <2>1
  <2>4. Candidates' = tried' \o addrs'
    BY <2>0, <2>1, <2>3 DEF Candidates, AnswerTo
  <2>5. Candidates' # <<>> /\ Plan' = tried' \o addrs'
    <3>1. Len(tried' \o addrs') >= 1
      BY <2>0, <2>1, <2>2
    <3>2. Candidates' # <<>>
      BY <2>4, <3>1
    <3>3. target' = "name"
      BY <2>0, <2>1
    <3> QED
      BY <2>4, <3>2, <3>3 DEF Plan
  <2>6. IsPrefix(tried', Plan')
    <3>1. addrs' \in Seq(IP \cup {Literal, Name})
      BY <2>0, <2>2
    <3> QED
      BY <2>2, <2>5, <3>1, PrefixOfConcat
  <2>7. pc' = "failed" => tried' = Plan'
    BY <2>0, <2>2, <2>5
  <2> QED
    BY <2>0, <2>1, <2>2, <2>4, <2>6, <2>7 DEF TypeOK, DialInv
<1>7. CASE Fallback
  <2>0. /\ pc = "fallback" /\ tried' = Append(tried, Name) /\ pc' \in {"connected", "failed"}
        /\ UNCHANGED <<target, usable, heard, rest, got, addrs>>
    BY <1>7 DEF Fallback, Attempt, Goto
  <2>1. tried' = <<Name>> /\ target = "name" /\ Candidates = <<>>
    BY <2>0 DEF DialInv
  <2>2. Plan' = <<Name>>
    BY <2>0, <2>1 DEF Plan, Candidates, AnswerTo
  <2>3. <<Name>> \in Seq(IP \cup {Literal, Name})
    OBVIOUS
  <2>4. IsPrefix(<<Name>>, <<Name>>)
    BY <2>3, PrefixOfAll
  <2> QED
    BY <2>0, <2>1, <2>2, <2>3, <2>4 DEF TypeOK, DialInv
<1>8. CASE UNCHANGED vars
  BY <1>8 DEF vars, TypeOK, DialInv, Parsing, Candidates, AnswerTo, Plan
<1> QED
  BY <1>1, <1>2, <1>3, <1>4, <1>5, <1>6, <1>7, <1>8 DEF Next
----------------------------------------------------------------------------
\* removeHopByHop, whatever the header lists.
LEMMA RemoveHopByHopIsEndToEnd ==
    ASSUME NEW m \in Message
    PROVE  RemoveHopByHop(m) = [fields |-> EndToEnd(m), connection |-> <<>>]
<1>1. m.connection \in Seq(SUBSET Field)
  BY FrontDoorsAssumption DEF Message
<1>2. DeleteNamed(m.fields, m.connection)
        = {f \in m.fields : \A line \in Range(m.connection) : f \notin line}
  BY <1>1, NoLineNames
<1> QED
  BY <1>2 DEF RemoveHopByHop, EndToEnd

LEMMA DoorsInvInit == DoorsInit => DoorsInv
<1> SUFFICES ASSUME DoorsInit PROVE DoorsInv
  OBVIOUS
<1>1. TypeOK /\ DialInv
  BY DialInit DEF DoorsInit
<1>2. Empty \in Message
  <2>1. <<>> \in [1 .. 0 -> SUBSET Field] /\ 0 \in 0 .. MaxLines
    BY FrontDoorsAssumption
  <2> QED
    BY <2>1 DEF Empty, Message
<1>3. /\ request \in Message /\ response \in Message /\ stage = "arrived" /\ pc = "split"
      /\ asked # target => door = "plain" /\ asked = "path"
      /\ code = "none" /\ sent = <<>> /\ relayed = <<>> /\ tried = <<>>
  BY <1>2 DEF DoorsInit, Init
<1>4. Range(sent) = {} /\ Range(relayed) = {}
  BY <1>3 DEF Range
<1> QED
  BY <1>1, <1>3, <1>4 DEF DoorsInv, ForwardsEndToEnd

LEMMA DoorsInvStep == ASSUME DoorsInv, [DoorsNext]_allVars PROVE DoorsInv'
<1> USE DEF DoorsInv, ForwardsEndToEnd
<1>0. (\A m : Range(<<m>>) = {m}) /\ Range(<<>>) = {}
  BY DEF Range
<1>1. CASE Pass
  <2>1. /\ pc = "split" /\ target' = asked /\ asked = target /\ stage' = "dial" /\ tried = <<>>
        /\ UNCHANGED <<usable, heard, pc, rest, got, addrs, tried>>
        /\ UNCHANGED <<door, asked, request, sent, response, relayed, code>>
    BY <1>1 DEF Pass, Resolve, DialInv
  <2>2. TypeOK' /\ DialInv'
    BY <2>1, TargetStep DEF TypeOK
  <2> QED
    BY <1>1, <2>1, <2>2 DEF Pass
<1>2. CASE DialStep
  <2>1. stage = "dial" /\ UNCHANGED httpVars /\ Next
    BY <1>2 DEF DialStep
  <2>2. TypeOK' /\ DialInv'
    BY <2>1, DialInvStep
  <2>3. target' = target
    BY <2>1 DEF Next, Split, QueryFails, QueryAnswered, ParseRecord, ParseFails, ParseDone,
                DialNext, Fallback
  <2> QED
    BY <2>1, <2>2, <2>3 DEF httpVars
<1>3. CASE Refuse \/ Prepare \/ RoundTrip \/ RoundTripFails \/ Relay
  <2>1. UNCHANGED vars
    BY <1>3 DEF Refuse, Prepare, RoundTrip, RoundTripFails, Relay
  <2>2. TypeOK' /\ DialInv'
    BY <2>1, DialInvStep
  <2>3. CASE Refuse
    BY <2>1, <2>2, <2>3 DEF Refuse, vars, DialInv
  <2>4. CASE Prepare
    BY <1>0, <2>1, <2>2, <2>4, RemoveHopByHopIsEndToEnd DEF Prepare, vars
  <2>5. CASE RoundTrip
    BY <1>0, <2>1, <2>2, <2>5 DEF RoundTrip, vars
  <2>6. CASE RoundTripFails
    BY <2>1, <2>2, <2>6 DEF RoundTripFails, vars
  <2>7. CASE Relay
    BY <1>0, <2>1, <2>2, <2>7, RemoveHopByHopIsEndToEnd DEF Relay, vars
  <2> QED
    BY <1>3, <2>3, <2>4, <2>5, <2>6, <2>7
<1>4. CASE UNCHANGED allVars
  <2>1. TypeOK' /\ DialInv'
    BY <1>4, DialInvStep DEF allVars
  <2> QED
    BY <1>4, <2>1 DEF allVars, httpVars, vars
<1> QED
  BY <1>1, <1>2, <1>3, <1>4 DEF DoorsNext

\* The inductive invariant of a dial and of the door it is made for.
THEOREM DoorsInvHolds == DoorsSpec => []DoorsInv
BY DoorsInvInit, DoorsInvStep, PTL DEF DoorsSpec

LEMMA AnswersAreSequences ==
    ASSUME TypeOK, NEW n \in {1, 2} PROVE \E S : AnswerTo(n) \in Seq(S)
<1>1. ASSUME NEW a, NEW k \in Nat PROVE \E S : Among(a, k) \in Seq(S)
  <2> DEFINE c == Cardinality(Places(a, k))
             S == {a[Nth(Places(a, k), i)][2] : i \in 1 .. c}
  <2>1. c \in Nat
    BY PlacesStep
  <2>2. Among(a, k) \in [1 .. c -> S]
    BY DEF Among
  <2> HIDE DEF c, S
  <2>3. Among(a, k) \in Seq(S)
    BY <2>1, <2>2
  <2> QED
    BY <2>3
<1>2. ASSUME NEW r \in Records \cup {Failure} PROVE \E S : AddressesOf(r) \in Seq(S)
  <2>1. CASE AddressesOf(r) = <<>>
    BY <2>1
  <2>2. CASE AddressesOf(r) # <<>>
    <3>1. r \in Records
      BY <2>2, FailureFacts
    <3>2. Len(r) \in Nat /\ AddressesOf(r) = Among(r, Len(r))
      BY <2>2, <3>1, AnswerFacts
    <3> QED
      BY <1>1, <3>2
  <2> QED
    BY <2>1, <2>2
<1>3. CASE n <= Len(heard)
  <2>1. heard[n] \in Records \cup {Failure}
    BY <1>3 DEF TypeOK
  <2> QED
    BY <1>2, <1>3, <2>1 DEF AnswerTo
<1>4. CASE ~(n <= Len(heard))
  BY <1>4 DEF AnswerTo
<1> QED
  BY <1>3, <1>4

LEMMA PlanIsSequence == ASSUME TypeOK PROVE \E S : Plan \in Seq(S)
<1>1. \E S : Candidates \in Seq(S)
  <2>1. PICK S : AnswerTo(1) \in Seq(S)
    BY AnswersAreSequences
  <2>2. PICK T : AnswerTo(2) \in Seq(T)
    BY AnswersAreSequences
  <2>3. AnswerTo(1) \in Seq(S \cup T) /\ AnswerTo(2) \in Seq(S \cup T)
    BY <2>1, <2>2, SeqMonotonic
  <2>4. Candidates \in Seq(S \cup T)
    BY <2>3 DEF Candidates
  <2> QED
    BY <2>4
<1>2. \A v : <<v>> \in Seq({v})
  OBVIOUS
<1>3. <<>> \in Seq({})
  OBVIOUS
<1>4. CASE target = "noport"
  BY <1>3, <1>4 DEF Plan
<1>5. CASE target = "literal"
  BY <1>2, <1>5 DEF Plan
<1>6. CASE target = "name"
  BY <1>1, <1>2, <1>6 DEF Plan
<1> QED
  BY <1>4, <1>5, <1>6 DEF TypeOK

\* What a name is dialed by is the reference plan and its order, however many records
\* the answers have and wherever they break (node.go:195-220, dns.go:40-120).
THEOREM DialsByThePlanHolds == DoorsSpec => []DialsByThePlan
<1>1. ASSUME TypeOK, DialInv PROVE DialsByThePlan
  <2>1. PICK S : Plan \in Seq(S)
    BY <1>1, PlanIsSequence
  <2>2. IsPrefix(<<>>, Plan) /\ IsPrefix(Plan, Plan)
    BY <2>1, PrefixOfAll
  <2>3. CASE pc = "dial"
    <3>1. Candidates = tried \o addrs /\ target = "name"
      BY <1>1, <2>3 DEF DialInv
    <3>2. /\ addrs \in Seq(IP \cup {Literal, Name}) /\ tried \in Seq(IP \cup {Literal, Name})
          /\ addrs # <<>>
      BY <1>1, <2>3, SeqMonotonic DEF TypeOK, DialInv
    <3>3. Len(tried \o addrs) >= 1
      BY <3>2
    <3>4. Plan = tried \o addrs
      BY <3>1, <3>3 DEF Plan
    <3> QED
      BY <3>2, <3>4, PrefixOfConcat DEF DialsByThePlan
  <2>4. CASE pc # "dial"
    BY <1>1, <2>2, <2>4 DEF TypeOK, DialInv, DialsByThePlan
  <2> QED
    BY <2>3, <2>4
<1>2. DoorsInv => TypeOK /\ DialInv
  BY DEF DoorsInv
<1> QED
  BY <1>1, <1>2, DoorsInvHolds, PTL

\* No address that refuses, and no answer that fails, ends a dial early (node.go:204-220).
THEOREM FailsOnlyAfterAllHolds == DoorsSpec => []FailsOnlyAfterAll
<1>1. DoorsInv => FailsOnlyAfterAll
  BY DEF DoorsInv, DialInv, FailsOnlyAfterAll
<1> QED
  BY <1>1, DoorsInvHolds, PTL

\* Between the client and what it asked for nothing is lost and nothing slips through,
\* for headers and Connection lines in any number (http.go:100-113, socks5.go:11-15).
THEOREM ForwardsEndToEndHolds == DoorsSpec => []ForwardsEndToEnd
<1>1. DoorsInv => ForwardsEndToEnd
  BY DEF DoorsInv
<1> QED
  BY <1>1, DoorsInvHolds, PTL
=============================================================================

---------------------------- MODULE SseStreamProofs ----------------------------
(***************************************************************************)
(* Theorems about the streams in SseStream, for all answers and every room:    *)
(* the end of a stream, with what a frame decodes to left open; what the       *)
(* parser holds behind every byte of a body that is cut anywhere; what a       *)
(* consumer is told, and in which order; the order in which the other parser   *)
(* tells a subscriber, however wrong it cuts its lines; and what the           *)
(* accumulators gather of an answer, which makes the response that closes it.  *)
(***************************************************************************)
EXTENDS SseStream, FiniteSetTheorems, SequenceTheorems, WellFoundedInduction, TLAPS

\* A sequence, of whatever.
IsSeq(s) == \E S : s \in Seq(S)
NoEnd(s) == \A i \in 1 .. Len(s) : s[i].kind \notin Terminal
EndLast(s) == \A i \in 1 .. Len(s) : s[i].kind \in Terminal => i = Len(s)
Ended(s) == s # << >> /\ s[Len(s)].kind \in Terminal

Kept == IsSeq(out) /\ IsSeq(channel) /\ IsSeq(got) /\ Len(channel) <= Room
Open == phase \in {"asked", "reading", "ending", "refused"} => NoEnd(got) /\ NoEnd(channel)
Closing ==
    /\ phase \in {"asked", "reading"} => NoEnd(out)
    /\ phase = "ending" => Len(out) = 1 /\ out[1].kind \in Terminal
    /\ phase \in {"asked", "over", "refused"} => out = << >>

\* The task that stopped has sent its last event to a consumer that is there, and none behind it.
Told == phase = "over" /\ present => Ended(channel) \/ (channel = << >> /\ Ended(got))
EndedOnce == EndLast(channel) /\ EndLast(got) /\ (~NoEnd(got) => channel = << >>)

Phase == {"asked", "reading", "ending", "over", "refused"}
StreamInv == phase \in Phase /\ present \in BOOLEAN /\ Kept /\ Open /\ Closing /\ Told /\ EndedOnce
IInv == reader \in Codec => StreamInv

-----------------------------------------------------------------------------
(* Sequences.                                                               *)

\* The empty sequence.
LEMMA EmptyIs == IsSeq(<< >>) /\ Len(<< >>) = 0 /\ NoEnd(<< >>) /\ EndLast(<< >>)
<1>1. << >> \in Seq({})
  OBVIOUS
<1> QED
  BY <1>1 DEF IsSeq, NoEnd, EndLast

\* A sequence of one.
LEMMA OneIs == ASSUME NEW e PROVE IsSeq(<<e>>) /\ Len(<<e>>) = 1 /\ <<e>>[1] = e
<1>1. <<e>> \in Seq({e})
  OBVIOUS
<1> QED
  BY <1>1 DEF IsSeq

\* One more at the end.
LEMMA AppendIs ==
    ASSUME NEW s, IsSeq(s), NEW e
    PROVE  /\ IsSeq(Append(s, e)) /\ Len(s) \in Nat /\ Len(Append(s, e)) = Len(s) + 1
           /\ \A i \in 1 .. Len(s) : Append(s, e)[i] = s[i]
           /\ Append(s, e)[Len(s) + 1] = e
           /\ Append(s, e) # << >>
<1>1. PICK S : s \in Seq(S)
  BY DEF IsSeq
<1>2. s \in Seq(S \cup {e}) /\ e \in S \cup {e}
  BY <1>1
<1>3. Append(s, e) \in Seq(S \cup {e})
  BY <1>2
<1> QED
  BY <1>2, <1>3 DEF IsSeq

\* One less at the front.
LEMMA TailIs ==
    ASSUME NEW s, IsSeq(s), s # << >>
    PROVE  /\ IsSeq(Tail(s)) /\ Len(s) \in Nat \ {0} /\ Len(Tail(s)) = Len(s) - 1
           /\ Head(s) = s[1] /\ (Len(s) = 1 => Tail(s) = << >>)
           /\ \A i \in 1 .. Len(s) - 1 : Tail(s)[i] = s[i + 1]
<1>1. PICK S : s \in Seq(S)
  BY DEF IsSeq
<1>2. Tail(s) \in Seq(S) /\ Len(s) \in Nat \ {0} /\ Len(Tail(s)) = Len(s) - 1
  BY <1>1
<1>3. Head(s) = s[1] /\ \A i \in 1 .. Len(s) - 1 : Tail(s)[i] = s[i + 1]
  <2>1. Head(s) = s[1]
    BY <1>1
  <2>2. \A i \in 1 .. Len(s) - 1 : Tail(s)[i] = s[i + 1]
    BY <1>1
  <2> QED
    BY <2>1, <2>2
<1>4. \A q \in Seq(S) : q # << >> => Len(q) \in Nat \ {0}
  BY EmptySeq
<1>5. Len(s) = 1 => Tail(s) = << >>
  <2> DEFINE t == Tail(s)
  <2>1. t \in Seq(S) /\ Len(t) = Len(s) - 1
    BY <1>2
  <2> HIDE DEF t
  <2>2. Len(s) = 1 => t = << >>
    BY <1>2, <1>4, <2>1
  <2> QED
    BY <2>2 DEF t
<1> QED
  BY <1>2, <1>3, <1>5 DEF IsSeq

\* What an event more does to a sequence that has not ended.
LEMMA Appended ==
    ASSUME NEW s, IsSeq(s), NoEnd(s), NEW e
    PROVE  /\ EndLast(Append(s, e))
           /\ e.kind \in Terminal => Ended(Append(s, e))
           /\ e.kind \notin Terminal => NoEnd(Append(s, e))
<1>1. /\ Len(s) \in Nat /\ Len(Append(s, e)) = Len(s) + 1 /\ Append(s, e) # << >>
      /\ \A i \in 1 .. Len(s) : Append(s, e)[i] = s[i]
      /\ Append(s, e)[Len(s) + 1] = e
  BY AppendIs
<1> DEFINE t == Append(s, e)
<1> HIDE DEF t
<1>2. /\ Len(s) \in Nat /\ Len(t) = Len(s) + 1 /\ t # << >> /\ t[Len(t)] = e
      /\ \A i \in 1 .. Len(t) : t[i] = IF i = Len(t) THEN e ELSE s[i]
      /\ \A i \in 1 .. Len(t) : i # Len(t) => i \in 1 .. Len(s)
  BY <1>1 DEF t
<1>3. EndLast(t)
  BY <1>2 DEF NoEnd, EndLast
<1>4. e.kind \in Terminal => Ended(t)
  BY <1>2 DEF Ended
<1>5. e.kind \notin Terminal => NoEnd(t)
  BY <1>2 DEF NoEnd
<1> QED
  BY <1>3, <1>4, <1>5 DEF t

\* What has a length is not empty.
LEMMA NotEmpty == ASSUME NEW s, Len(s) # 0 PROVE s # << >>
<1>1. s = << >> => Len(s) = 0
  BY EmptyIs, Zenon
<1> QED
  BY <1>1

\* What a head and a tail keep of a sequence that ends.
LEMMA Shortened ==
    ASSUME NEW s, IsSeq(s), s # << >>
    PROVE  /\ NoEnd(s) => NoEnd(Tail(s)) /\ Head(s).kind \notin Terminal
           /\ EndLast(s) => EndLast(Tail(s))
           /\ EndLast(s) /\ Head(s).kind \in Terminal => Tail(s) = << >>
           /\ Ended(s) => Ended(Tail(s)) \/ (Tail(s) = << >> /\ Head(s).kind \in Terminal)
<1> DEFINE t == Tail(s)
           h == Head(s)
<1>1. /\ IsSeq(t) /\ Len(s) \in Nat \ {0} /\ Len(t) = Len(s) - 1
      /\ h = s[1] /\ (Len(s) = 1 => t = << >>)
      /\ \A i \in 1 .. Len(s) - 1 : t[i] = s[i + 1]
  BY TailIs
<1> HIDE DEF t, h
<1>2. \A i \in 1 .. Len(t) : i + 1 \in 1 .. Len(s) /\ t[i] = s[i + 1]
  BY <1>1
<1>3. NoEnd(s) => NoEnd(t) /\ h.kind \notin Terminal
  BY <1>1, <1>2 DEF NoEnd
<1>4. EndLast(s) => EndLast(t)
  BY <1>1, <1>2 DEF EndLast
<1>5. EndLast(s) /\ h.kind \in Terminal => t = << >>
  BY <1>1 DEF EndLast
<1>6. Ended(s) => Ended(t) \/ (t = << >> /\ h.kind \in Terminal)
  <2>1. CASE Len(s) = 1
    BY <1>1, <2>1 DEF Ended
  <2>2. CASE Len(s) # 1
    <3>1. Len(t) \in 1 .. Len(t) /\ Len(t) + 1 = Len(s) /\ Len(t) # 0
      BY <1>1, <2>2
    <3>2. t[Len(t)] = s[Len(s)] /\ t # << >>
      BY <1>2, <3>1, NotEmpty
    <3> QED
      BY <3>2 DEF Ended
  <2> QED
    BY <2>1, <2>2
<1> QED
  BY <1>3, <1>4, <1>5, <1>6 DEF t, h

\* Where nothing ends, nothing stands behind an end.
LEMMA NoEndIsNone == ASSUME NEW s, IsSeq(s), NoEnd(s) PROVE EndLast(s)
BY DEF NoEnd, EndLast

\* The events of a frame do not end the stream.
LEMMA TokensAre ==
    ASSUME NEW chunks, NEW k, NEW intact
    PROVE  IsSeq(Tokens(chunks, k, intact)) /\ NoEnd(Tokens(chunks, k, intact))
<1> DEFINE a == [kind |-> "Token", msg |-> k, part |-> script[k].text, intact |-> intact]
           b == [kind |-> "ThinkingDelta", msg |-> k, part |-> 0, intact |-> intact]
<1>1. /\ a.kind \notin Terminal /\ b.kind \notin Terminal
  BY DEF Terminal
<1>2. Tokens(chunks, k, intact) = (IF Has(chunks, "TextDelta") THEN <<a>> ELSE << >>)
                                 \o (IF Has(chunks, "ThinkingDelta") THEN <<b>> ELSE << >>)
  BY DEF Tokens
<1> HIDE DEF a, b
<1>3. << >> \in Seq({a, b}) /\ <<a>> \in Seq({a, b}) /\ <<b>> \in Seq({a, b})
      /\ <<a, b>> \in Seq({a, b})
  OBVIOUS
<1>4. Tokens(chunks, k, intact) \in Seq({a, b})
  <2>1. /\ (IF Has(chunks, "TextDelta") THEN <<a>> ELSE << >>) \in Seq({a, b})
        /\ (IF Has(chunks, "ThinkingDelta") THEN <<b>> ELSE << >>) \in Seq({a, b})
    BY <1>3
  <2> QED
    BY <1>2, <2>1
<1>5. NoEnd(Tokens(chunks, k, intact))
  BY <1>1, <1>4 DEF NoEnd
<1> QED
  BY <1>4, <1>5 DEF IsSeq

-----------------------------------------------------------------------------
(* Steps.                                                                   *)

\* The first state.
LEMMA Initially == Init => IInv
<1> SUFFICES ASSUME Init PROVE IInv
  OBVIOUS
<1>1. /\ phase = "asked" /\ present = TRUE
      /\ out = << >> /\ channel = << >> /\ got = << >>
  BY DEF Init
<1>2. Kept /\ NoEnd(got) /\ NoEnd(channel) /\ NoEnd(out) /\ EndLast(got) /\ EndLast(channel)
  BY <1>1, EmptyIs, StreamAssumption DEF Kept
<1> QED
  BY <1>1, <1>2 DEF IInv, StreamInv, Open, Closing, Told, EndedOnce, Phase

\* Steps that leave the delivery alone: the body is asked for, read, decoded or ended.
LEMMA QuietKeeps ==
    ASSUME StreamInv, reader \in Codec, UNCHANGED <<channel, got, present>>,
           phase \in {"asked", "reading"}, IsSeq(out'),
           \/ phase' \in {"reading"} /\ NoEnd(out')
           \/ phase' = "ending" /\ Len(out') = 1 /\ out'[1].kind \in Terminal
           \/ phase' = "refused" /\ out' = << >>
           \/ phase' = "over" /\ out' = << >> /\ ~present
    PROVE  StreamInv'
<1>1. NoEnd(got) /\ NoEnd(channel) /\ Kept /\ EndedOnce
  BY DEF StreamInv, Open
<1>2. Kept'
  BY <1>1 DEF Kept
<1>3. EndedOnce'
  BY <1>1 DEF EndedOnce
<1>4. Open'
  BY <1>1 DEF Open
<1>5. Closing'
  BY DEF Closing
<1>6. phase' \in Phase /\ present' \in BOOLEAN
  BY DEF StreamInv, Phase
<1>7. Told'
  BY DEF Told
<1> QED
  BY <1>2, <1>3, <1>4, <1>5, <1>6, <1>7 DEF StreamInv

\* The kind of an event.
LEMMA EvIs == ASSUME NEW kind PROVE Ev(kind).kind = kind
BY DEF Ev

\* The steps of the reader and of the other parser leave what the consumer sees in order.
LEMMA ReaderQuiet ==
    ASSUME StreamInv, reader \in Codec,
           Refused \/ (\E n \in 1 .. Len(wire) : Opened(n) \/ ReadChunk(n))
           \/ Breaks \/ Completes \/ HandleFrame
    PROVE  StreamInv'
<1>1. UNCHANGED <<channel, got, present>>
  BY DEF Refused, Opened, ReadChunk, Breaks, Completes, HandleFrame, delivery
<1>2. phase \in {"asked", "reading"}
  BY DEF Refused, Opened, ReadChunk, Breaks, Completes, HandleFrame, Idle
<1>3. /\ IsSeq(out) /\ NoEnd(out) /\ present \in BOOLEAN /\ reader # "subscription"
  BY <1>2 DEF StreamInv, Kept, Closing, Codec
<1>4. CASE Refused
  <2>1. phase' = "refused" /\ out' = << >>
    BY <1>4 DEF Refused, StreamInv, Closing
  <2> QED
    BY <1>1, <1>2, <2>1, EmptyIs, QuietKeeps
<1>5. ASSUME NEW n \in 1 .. Len(wire), Opened(n)  PROVE StreamInv'
  <2>1. phase' = "reading" /\ out' = <<Ev("Start")>>
    BY <1>3, <1>5 DEF Opened
  <2>2. IsSeq(out') /\ Len(out') = 1 /\ out'[1] = Ev("Start")
    BY <2>1, OneIs
  <2>3. NoEnd(out')
    BY <2>2, EvIs DEF NoEnd, Terminal
  <2> QED
    BY <1>1, <1>2, <2>1, <2>2, <2>3, QuietKeeps
<1>6. ASSUME NEW n \in 1 .. Len(wire), ReadChunk(n)  PROVE StreamInv'
  <2>1. out' = << >> /\ (phase' = "reading" \/ (phase' = "over" /\ ~present))
    BY <1>6 DEF ReadChunk, Idle, Gone
  <2> QED
    BY <1>1, <1>2, <2>1, EmptyIs, QuietKeeps
<1>7. CASE Breaks \/ Completes
  <2>1. CASE ~present
    <3>1. phase' = "over" /\ out' = << >>
      BY <1>7, <2>1 DEF Breaks, Completes, Idle, Gone
    <3> QED
      BY <1>1, <1>2, <2>1, <3>1, EmptyIs, QuietKeeps
  <2>2. CASE present
    <3>1. phase' = "ending" /\ (out' = <<Ev("Error")>> \/ out' = <<Ev("ResponseComplete")>>)
      BY <1>7, <2>2 DEF Breaks, Completes, Gone
    <3>2. IsSeq(out') /\ Len(out') = 1
          /\ (out'[1] = Ev("Error") \/ out'[1] = Ev("ResponseComplete"))
      BY <3>1, OneIs
    <3>3. out'[1].kind \in Terminal
      BY <3>2, EvIs DEF Terminal
    <3> QED
      BY <1>1, <1>2, <3>1, <3>2, <3>3, QuietKeeps
  <2> QED
    BY <2>1, <2>2
<1>8. CASE HandleFrame
  <2>1. \/ phase' = "ending" /\ out' = <<Ev("Error")>>
        \/ /\ phase' = "reading"
           /\ \E chunks, k, intact : out' = Tokens(chunks, k, intact)
    <3> DEFINE d == Head(frames).data
               k == Carried(d)
               chunks == Decode(script[k])
    <3>1. IF k = 0 THEN out' = <<Ev("Error")>> /\ phase' = "ending"
          ELSE out' = Tokens(chunks, k, Intact(d)) /\ phase' = phase
      BY <1>8 DEF HandleFrame
    <3>2. phase = "reading"
      BY <1>8 DEF HandleFrame
    <3> HIDE DEF chunks, k, d
    <3> QED
      BY <3>1, <3>2, Zenon
  <2>2. CASE phase' = "ending" /\ out' = <<Ev("Error")>>
    <3>1. IsSeq(out') /\ Len(out') = 1 /\ out'[1] = Ev("Error")
      BY <2>2, OneIs
    <3>2. out'[1].kind \in Terminal
      BY <3>1, EvIs DEF Terminal
    <3> QED
      BY <1>1, <1>2, <2>2, <3>1, <3>2, QuietKeeps
  <2>3. CASE phase' = "reading" /\ \E chunks, k, intact : out' = Tokens(chunks, k, intact)
    <3>1. IsSeq(out') /\ NoEnd(out')
      BY <2>3, TokensAre
    <3> QED
      BY <1>1, <1>2, <2>3, <3>1, QuietKeeps
  <2> QED
    BY <2>1, <2>2, <2>3
<1> QED
  BY <1>4, <1>5, <1>6, <1>7, <1>8

\* An event is sent, dropped, or finds nobody.
LEMMA EmitKeeps == ASSUME StreamInv, reader \in Codec, Emit PROVE StreamInv'
<1>1. /\ out # << >> /\ IsSeq(out) /\ IsSeq(channel) /\ UNCHANGED <<got, present>>
      /\ phase \in {"reading", "ending"} /\ NoEnd(got) /\ NoEnd(channel) /\ IsSeq(got)
      /\ Len(channel) <= Room /\ present \in BOOLEAN
  BY DEF StreamInv, Kept, Open, Closing, Phase, Emit
<1> DEFINE e == Head(out)
<1>2. /\ IsSeq(Tail(out)) /\ (phase = "reading" => NoEnd(Tail(out)) /\ e.kind \notin Terminal)
      /\ (phase = "ending" => Tail(out) = << >> /\ e.kind \in Terminal)
  <2>1. CASE phase = "reading"
    BY <1>1, <2>1, Shortened, TailIs DEF StreamInv, Closing
  <2>2. CASE phase = "ending"
    BY <1>1, <2>2, TailIs DEF StreamInv, Closing
  <2> QED
    BY <1>1, <2>1, <2>2
<1>3. CASE ~present
  <2>1. phase' = "over" /\ out' = << >> /\ channel' = channel
    BY <1>3 DEF Emit, Gone
  <2>2. EndLast(channel) /\ EndLast(got)
    BY <1>1, NoEndIsNone
  <2> QED
    BY <1>1, <1>3, <2>1, <2>2, EmptyIs
    DEF StreamInv, Phase, Kept, Open, Closing, Told, EndedOnce
<1>4. CASE present
  <2>1. /\ out' = Tail(out) /\ ~Waits(e)
        /\ phase' = (IF e.kind \in Terminal THEN "over" ELSE phase)
        /\ IF Fits(e) THEN channel' = Append(channel, e) ELSE channel' = channel
    BY <1>4 DEF Emit, Gone
  <2>2. e.kind \in Terminal => Fits(e)
    BY <1>4, <2>1 DEF Waits, Critical
  <2>3. EndLast(got) /\ EndLast(channel)
    BY <1>1, NoEndIsNone
  <2>4. Fits(e) => Len(channel) < Room
    BY DEF Fits
  <2>5. /\ IsSeq(channel') /\ Len(channel') <= Room /\ EndLast(channel')
        /\ e.kind \in Terminal => Ended(channel')
        /\ e.kind \notin Terminal => NoEnd(channel')
    <3> HIDE DEF e
    <3>1. CASE Fits(e)
      <4>1. channel' = Append(channel, e)
        BY <2>1, <3>1
      <4>2. /\ IsSeq(Append(channel, e)) /\ Len(channel) \in Nat
            /\ Len(Append(channel, e)) = Len(channel) + 1
        BY <1>1, AppendIs
      <4>3. /\ EndLast(Append(channel, e))
            /\ e.kind \in Terminal => Ended(Append(channel, e))
            /\ e.kind \notin Terminal => NoEnd(Append(channel, e))
        BY <1>1, Appended
      <4> QED
        BY <2>4, <3>1, <4>1, <4>2, <4>3, StreamAssumption
    <3>2. CASE ~Fits(e)
      BY <1>1, <2>1, <2>2, <2>3, <3>2
    <3> QED
      BY <3>1, <3>2
  <2> HIDE DEF e
  <2>6. CASE phase = "reading"
    BY <1>1, <1>2, <1>4, <2>1, <2>3, <2>5, <2>6
    DEF StreamInv, Phase, Kept, Open, Closing, Told, EndedOnce
  <2>7. CASE phase = "ending"
    BY <1>1, <1>2, <1>4, <2>1, <2>3, <2>5, <2>7
    DEF StreamInv, Phase, Kept, Open, Closing, Told, EndedOnce
  <2> QED
    BY <1>1, <2>6, <2>7
<1> QED
  BY <1>1, <1>3, <1>4

\* The consumer takes an event, or leaves.
LEMMA ConsumerKeeps == ASSUME StreamInv, reader \in Codec, Receive \/ Leave PROVE StreamInv'
<1>1. /\ UNCHANGED out /\ IsSeq(out) /\ IsSeq(channel) /\ IsSeq(got) /\ Len(channel) <= Room
      /\ EndedOnce /\ reader # "subscription"
  BY DEF StreamInv, Kept, Receive, Leave, Codec
<1>2. CASE Receive
  <2>1. /\ channel # << >> /\ got' = Append(got, Head(channel)) /\ channel' = Tail(channel)
        /\ phase' = phase /\ present' = present
    BY <1>2 DEF Receive
  <2>2. NoEnd(got)
    BY <1>1, <2>1 DEF EndedOnce
  <2> DEFINE e == Head(channel)
             g == Append(got, e)
             c == Tail(channel)
  <2>3. IsSeq(c) /\ Len(c) = Len(channel) - 1 /\ Len(channel) \in Nat
    BY <1>1, <2>1, TailIs
  <2>4. /\ NoEnd(channel) => NoEnd(c) /\ e.kind \notin Terminal
        /\ EndLast(c)
        /\ e.kind \in Terminal => c = << >>
        /\ Ended(channel) => Ended(c) \/ (c = << >> /\ e.kind \in Terminal)
    BY <1>1, <2>1, Shortened DEF EndedOnce
  <2>5. IsSeq(g)
    BY <1>1, AppendIs
  <2>6. /\ EndLast(g) /\ (e.kind \in Terminal => Ended(g))
        /\ e.kind \notin Terminal => NoEnd(g)
    BY <1>1, <2>2, Appended
  <2>7. channel' = c /\ got' = g
    BY <2>1
  <2> HIDE DEF e, g, c
  <2>8. Kept'
    BY <1>1, <2>3, <2>5, <2>7, StreamAssumption DEF Kept
  <2>9. Open'
    BY <2>1, <2>4, <2>6, <2>7 DEF StreamInv, Open
  <2>10. Closing'
    BY <1>1, <2>1 DEF StreamInv, Closing
  <2>11. Told'
    BY <2>1, <2>4, <2>6, <2>7 DEF StreamInv, Told
  <2>12. EndedOnce'
    BY <2>4, <2>6, <2>7 DEF EndedOnce
  <2> QED
    BY <2>1, <2>8, <2>9, <2>10, <2>11, <2>12 DEF StreamInv, Phase
<1>3. CASE Leave
  <2>1. channel' = << >> /\ got' = got /\ phase' = phase /\ present' = FALSE
    BY <1>1, <1>3 DEF Leave
  <2>2. Kept'
    BY <1>1, <2>1, EmptyIs, StreamAssumption DEF Kept
  <2>3. Open' /\ EndedOnce'
    BY <1>1, <2>1, EmptyIs DEF StreamInv, Open, EndedOnce
  <2>4. Closing' /\ Told'
    BY <1>1, <2>1 DEF StreamInv, Closing, Told
  <2> QED
    BY <2>1, <2>2, <2>3, <2>4 DEF StreamInv, Phase
<1> QED
  BY <1>2, <1>3

\* Every step keeps the inductive invariant.
LEMMA StepKeeps == IInv /\ [Next]_vars => IInv'
<1> SUFFICES ASSUME IInv, [Next]_vars, reader' \in Codec PROVE StreamInv'
  BY DEF IInv
<1>1. reader' = reader
  BY DEF Next, Refused, Opened, ReadChunk, Breaks, Completes, HandleFrame, Emit, Listen,
         ListenedOut, Receive, Leave, chosen, vars
<1>2. StreamInv /\ reader \in Codec /\ reader # "subscription"
  BY <1>1 DEF IInv, Codec
<1>3. CASE Refused \/ (\E n \in 1 .. Len(wire) : Opened(n) \/ ReadChunk(n))
           \/ Breaks \/ Completes \/ HandleFrame
  BY <1>2, <1>3, ReaderQuiet
<1>4. CASE Emit
  BY <1>2, <1>4, EmitKeeps
<1>5. CASE Receive \/ Leave
  BY <1>2, <1>5, ConsumerKeeps
<1>6. CASE (\E n \in 1 .. Len(wire) : Listen(n)) \/ ListenedOut
  BY <1>2, <1>6 DEF Listen, ListenedOut, Listening
<1>7. CASE UNCHANGED vars
  BY <1>2, <1>7 DEF vars, StreamInv, Phase, Kept, Open, Closing, Told, EndedOnce
<1> QED
  BY <1>3, <1>4, <1>5, <1>6, <1>7 DEF Next

\* The inductive invariant holds in every state (the life of one process_stream task).
THEOREM Inductive == Spec => []IInv
<1> QED
  BY Initially, StepKeeps, PTL DEF Spec

\* A consumer of a provider's stream hears nothing behind an Error or a ResponseComplete, and
\* hears no more than one of them (the returns behind the terminal emits in process_stream).
NothingAfterTheEnd ==
    reader \in Codec =>
        /\ EndLast(got)
        /\ ~NoEnd(got) => phase = "over" /\ channel = << >> /\ out = << >>

\* NothingAfterTheEnd for every answer and however it is cut (process_stream).
THEOREM TheEndIsLast == Spec => []NothingAfterTheEnd
<1>1. IInv => NothingAfterTheEnd
  BY DEF IInv, StreamInv, EndedOnce, Open, Closing, Phase, NothingAfterTheEnd
<1> QED
  BY <1>1, Inductive, PTL

\* A task that has stopped has told a consumer that is there how the stream ended: the last
\* event of the channel, or of what was received, is the Error or the ResponseComplete
\* (ChannelSink, which waits with these where it drops tokens).
EndIsTold ==
    reader \in Codec /\ phase = "over" /\ present =>
        Ended(channel) \/ (channel = << >> /\ Ended(got))

\* EndIsTold for every room, with any consumer (ChannelSink::emit).
THEOREM TheEndIsTold == Spec => []EndIsTold
<1>1. IInv => EndIsTold
  BY DEF IInv, StreamInv, Told, EndIsTold
<1> QED
  BY <1>1, Inductive, PTL

-----------------------------------------------------------------------------
(* What a server writes, symbol by symbol.                                 *)

\* Where the lines of a message end, and which symbol stands where.
NlLen(e) == IF e = "crlf" THEN 2 ELSE 1
EventLen(m, e) == IF m.event = "" THEN 0 ELSE 1 + NlLen(e)
Halved(m) == IF m.split THEN 1 ELSE 0
LastAt(m, e) == EventLen(m, e) + (IF m.split THEN 2 + NlLen(e) ELSE 0)
Full(m) == IF m.wide THEN 4 ELSE 2
TextEnd(m, e) == LastAt(m, e) + 1 + Full(m) - Halved(m)
BlankAt(m, e) == TextEnd(m, e) + NlLen(e)
Size(m, e) == BlankAt(m, e) + NlLen(e)

\* Which symbol stands at an offset of a payload, of a line, of a message.
JsonSym(m, i) == IF i = 1 THEN "open" ELSE IF i = Full(m) THEN "close"
                 ELSE IF i = 2 THEN "hi" ELSE "lo"
LineSym(word, at, end, o) == IF o = at + 1 THEN word ELSE IF o = end THEN "lf" ELSE "cr"
SymAt(m, e, o) ==
    IF o <= EventLen(m, e) THEN LineSym("event", 0, EventLen(m, e), o)
    ELSE IF o <= LastAt(m, e)
    THEN IF o = EventLen(m, e) + 2 THEN "open"
         ELSE LineSym("data", EventLen(m, e), LastAt(m, e), o)
    ELSE IF o = LastAt(m, e) + 1 THEN "data"
    ELSE IF o <= TextEnd(m, e) THEN JsonSym(m, o - LastAt(m, e) - 1 + Halved(m))
    ELSE IF o \in {BlankAt(m, e), Size(m, e)} THEN "lf" ELSE "cr"

LineEnd == {"lf", "crlf"}

\* A text of the message k, symbol by symbol.
Spells(w, k, n, f) == w \in Seq(Byte) /\ Len(w) = n /\ \A i \in 1 .. n : w[i] = Sym(f[i], k)

\* Two texts, one behind the other.
LEMMA SpellsBoth ==
  ASSUME NEW k \in Nat, NEW a \in Nat, NEW b \in Nat, NEW f, NEW g, NEW v, NEW w,
         Spells(v, k, a, f), Spells(w, k, b, g)
  PROVE  Spells(v \o w, k, a + b, [i \in 1 .. a + b |-> IF i <= a THEN f[i] ELSE g[i - a]])
<1>1. /\ v \in Seq(Byte) /\ w \in Seq(Byte) /\ Len(v) = a /\ Len(w) = b
      /\ \A i \in 1 .. a : v[i] = Sym(f[i], k)
      /\ \A i \in 1 .. b : w[i] = Sym(g[i], k)
  BY DEF Spells
<1>2. v \o w \in Seq(Byte) /\ Len(v \o w) = a + b
  BY <1>1
<1>3. \A i \in 1 .. a + b : (v \o w)[i] = IF i <= a THEN v[i] ELSE w[i - a]
  BY <1>1
<1>4. \A i \in 1 .. a + b : (i <= a => i \in 1 .. a) /\ (~(i <= a) => i - a \in 1 .. b)
  OBVIOUS
<1> QED
  BY <1>1, <1>2, <1>3, <1>4 DEF Spells

\* The symbols of a line ending and of a payload.
NlOf(e) == [i \in 1 .. NlLen(e) |-> IF i = NlLen(e) THEN "lf" ELSE "cr"]
JsonOf(m) == [i \in 1 .. Full(m) |-> JsonSym(m, i)]

\* One symbol.
LEMMA SymIs ==
  ASSUME NEW k \in Nat, NEW s \in {"event", "data", "open", "hi", "lo", "bad", "close", "cr", "lf"}
  PROVE  Sym(s, k) \in Byte /\ Sym(s, k).sym = s /\ Sym(s, k).msg = k
BY DEF Sym, Byte

\* One symbol by itself.
LEMMA SpellsOne ==
  ASSUME NEW k \in Nat, NEW s \in {"event", "data", "open", "hi", "lo", "bad", "close", "cr", "lf"}
  PROVE  Spells(<<Sym(s, k)>>, k, 1, [i \in 1 .. 1 |-> s])
BY SymIs DEF Spells

\* The pieces of a message: a line ending, a payload, a payload without its first byte.
LEMMA NlSpells ==
  ASSUME NEW k \in Nat, NEW e \in LineEnd
  PROVE  Spells(NL(k, e), k, NlLen(e), NlOf(e))
<1>1. Sym("cr", k) \in Byte /\ Sym("lf", k) \in Byte
  BY SymIs
<1>2. CASE e = "crlf"
  BY <1>1, <1>2 DEF NL, NlLen, NlOf, Spells
<1>3. CASE e = "lf"
  BY <1>1, <1>3 DEF NL, NlLen, NlOf, Spells
<1> QED
  BY <1>2, <1>3 DEF LineEnd

\* A payload.
LEMMA JsonSpells ==
  ASSUME NEW k \in Nat, NEW m \in Message
  PROVE  Spells(Json(m, k), k, Full(m), JsonOf(m))
<1>1. Sym("open", k) \in Byte /\ Sym("close", k) \in Byte
      /\ Sym("hi", k) \in Byte /\ Sym("lo", k) \in Byte
  BY SymIs
<1>2. CASE m.wide
  <2> DEFINE w == <<Sym("open", k), Sym("hi", k), Sym("lo", k), Sym("close", k)>>
  <2>1. w \in Seq(Byte) /\ Len(w) = 4
    BY <1>1
  <2>2. w[1] = Sym("open", k) /\ w[2] = Sym("hi", k) /\ w[3] = Sym("lo", k) /\ w[4] = Sym("close", k)
    OBVIOUS
  <2>3. Json(m, k) = w
    BY <1>2 DEF Json
  <2> HIDE DEF w
  <2>4. \A i \in 1 .. 4 : i \in {1, 2, 3, 4}
    OBVIOUS
  <2> QED
    BY <1>2, <2>1, <2>2, <2>3, <2>4 DEF Full, JsonOf, JsonSym, Spells
<1>3. CASE ~m.wide
  <2> DEFINE w == <<Sym("open", k), Sym("close", k)>>
  <2>1. w \in Seq(Byte) /\ Len(w) = 2 /\ w[1] = Sym("open", k) /\ w[2] = Sym("close", k)
    BY <1>1
  <2>3. Json(m, k) = w
    BY <1>3 DEF Json
  <2> HIDE DEF w
  <2> QED
    BY <1>3, <2>1, <2>3 DEF Full, JsonOf, JsonSym, Spells
<1> QED
  BY <1>2, <1>3

\* And what follows its first symbol.
LEMMA TailSpells ==
  ASSUME NEW k \in Nat, NEW n \in Nat \ {0}, NEW w, NEW f, Spells(w, k, n, f)
  PROVE  Spells(Tail(w), k, n - 1, [i \in 1 .. n - 1 |-> f[i + 1]])
<1>1. w \in Seq(Byte) /\ Len(w) = n /\ w # <<>> /\ \A i \in 1 .. n : w[i] = Sym(f[i], k)
  BY DEF Spells
<1>2. Tail(w) \in Seq(Byte) /\ Len(Tail(w)) = n - 1
  BY <1>1
<1>3. \A i \in 1 .. n - 1 : Tail(w)[i] = w[i + 1] /\ i + 1 \in 1 .. n
  BY <1>1
<1> QED
  BY <1>1, <1>2, <1>3 DEF Spells

\* The offsets grow from line to line.
LEMMA Sizes ==
  ASSUME NEW m \in Message, NEW e
  PROVE  /\ NlLen(e) \in {1, 2} /\ Full(m) \in {2, 4} /\ Halved(m) \in {0, 1}
         /\ EventLen(m, e) \in {0, 1 + NlLen(e)} /\ m.split \in BOOLEAN
         /\ EventLen(m, e) \in Nat /\ LastAt(m, e) \in Nat /\ TextEnd(m, e) \in Nat
         /\ BlankAt(m, e) \in Nat /\ Size(m, e) \in Nat
         /\ LastAt(m, e) >= EventLen(m, e) /\ TextEnd(m, e) >= LastAt(m, e) + 2
         /\ BlankAt(m, e) = TextEnd(m, e) + NlLen(e)
         /\ Size(m, e) = BlankAt(m, e) + NlLen(e)
<1>1. NlLen(e) \in {1, 2}
  BY DEF NlLen
<1>2. Full(m) \in {2, 4}
  BY DEF Full
<1>3. Halved(m) \in {0, 1}
  BY DEF Halved
<1>4. EventLen(m, e) \in {0, 1 + NlLen(e)} /\ EventLen(m, e) \in Nat
  <2>1. CASE m.event = ""
    BY <2>1 DEF EventLen
  <2>2. CASE m.event # ""
    <3>1. EventLen(m, e) = 1 + NlLen(e)
      BY <2>2 DEF EventLen
    <3> QED
      BY <1>1, <3>1
  <2> QED
    BY <2>1, <2>2
<1>5. LastAt(m, e) \in Nat /\ LastAt(m, e) >= EventLen(m, e)
  BY <1>1, <1>4 DEF LastAt
<1>6. TextEnd(m, e) \in Nat /\ TextEnd(m, e) >= LastAt(m, e) + 2
  BY <1>2, <1>3, <1>5 DEF TextEnd
<1>7. m.split \in BOOLEAN
  BY DEF Message
<1>8. BlankAt(m, e) = TextEnd(m, e) + NlLen(e) /\ Size(m, e) = BlankAt(m, e) + NlLen(e)
  BY DEF BlankAt, Size
<1> QED
  BY <1>1, <1>2, <1>3, <1>4, <1>5, <1>6, <1>7, <1>8

\* What a message is as text, symbol by symbol.
LEMMA WrittenIs ==
  ASSUME NEW m \in Message, NEW k \in Nat, NEW e \in LineEnd
  PROVE  Spells(Written(m, k, e), k, Size(m, e), [o \in 1 .. Size(m, e) |-> SymAt(m, e, o)])
<1> DEFINE nl == NlLen(e)
           full == Full(m)
           A == IF m.event = "" THEN <<>> ELSE <<Sym("event", k)>> \o NL(k, e)
           a == EventLen(m, e)
           fa == [i \in 1 .. a |-> LineSym("event", 0, a, i)]
           first2 == <<Sym("data", k), Sym("open", k)>>
           D == IF m.split THEN first2 \o NL(k, e) \o <<Sym("data", k)>> \o Tail(Json(m, k))
                ELSE <<Sym("data", k)>> \o Json(m, k)
           d == TextEnd(m, e) - a
           fd == [i \in 1 .. d |-> SymAt(m, e, a + i)]
<1>0. nl \in {1, 2} /\ full \in {2, 4} /\ a \in Nat /\ d \in Nat /\ m.split \in BOOLEAN
  <2>1. TextEnd(m, e) >= EventLen(m, e) /\ EventLen(m, e) \in Nat /\ TextEnd(m, e) \in Nat
    BY Sizes
  <2> QED
    BY <2>1, Sizes
<1>1. Spells(A, k, a, fa)
  <2>1. CASE m.event = ""
    <3>1. A = <<>> /\ a = 0
      BY <2>1 DEF EventLen
    <3>2. <<>> \in Seq(Byte) /\ Len(<<>>) = 0 /\ 1 .. 0 = {}
      OBVIOUS
    <3> HIDE DEF A, a
    <3> QED
      BY <3>1, <3>2 DEF Spells
  <2>2. CASE m.event # ""
    <3>1. A = <<Sym("event", k)>> \o NL(k, e) /\ a = 1 + nl
      BY <2>2 DEF EventLen
    <3> DEFINE f1 == [j \in 1 .. 1 |-> "event"]
               g == [i \in 1 .. 1 + nl |-> IF i <= 1 THEN f1[i] ELSE NlOf(e)[i - 1]]
    <3>2. Spells(<<Sym("event", k)>>, k, 1, f1) /\ Spells(NL(k, e), k, nl, NlOf(e))
      BY SpellsOne, NlSpells
    <3>3. Spells(A, k, 1 + nl, g)
      <4>1. nl \in Nat /\ 1 \in Nat
        BY <1>0
      <4>2. A = <<Sym("event", k)>> \o NL(k, e)
        BY <3>1
      <4> HIDE DEF f1, A, nl, a
      <4> QED
        BY <3>2, <4>1, <4>2, SpellsBoth
    <3>4. \A i \in 1 .. 1 + nl : g[i] = fa[i]
      <4> SUFFICES ASSUME NEW i \in 1 .. 1 + nl PROVE g[i] = fa[i]
        OBVIOUS
      <4>1. g[i] = IF i = 1 THEN "event" ELSE IF i - 1 = nl THEN "lf" ELSE "cr"
        BY <1>0 DEF NlOf
      <4>2. fa[i] = IF i = 1 THEN "event" ELSE IF i = 1 + nl THEN "lf" ELSE "cr"
        <5>1. a = 1 + nl /\ i \in 1 .. a
          BY <3>1
        <5>2. LineSym("event", 0, a, i) = IF i = 0 + 1 THEN "event" ELSE IF i = a THEN "lf" ELSE "cr"
          BY DEF LineSym
        <5> HIDE DEF a, nl
        <5> QED
          BY <5>1, <5>2
      <4> QED
        BY <1>0, <4>1, <4>2
    <3> HIDE DEF g, A, fa, a
    <3> QED
      BY <3>1, <3>3, <3>4 DEF Spells
  <2> QED
    BY <2>1, <2>2
<1>2. Spells(D, k, d, fd)
  <2>1. CASE m.split
    <3> DEFINE f1 == [i \in 1 .. 1 |-> "data"]
               f2 == [i \in 1 .. 1 |-> "open"]
               g1 == [i \in 1 .. 2 |-> IF i <= 1 THEN f1[i] ELSE f2[i - 1]]
               g2 == [i \in 1 .. 2 + nl |-> IF i <= 2 THEN g1[i] ELSE NlOf(e)[i - 2]]
               g3 == [i \in 1 .. 2 + nl + 1 |-> IF i <= 2 + nl THEN g2[i] ELSE f1[i - (2 + nl)]]
               t == [i \in 1 .. full - 1 |-> JsonOf(m)[i + 1]]
               g4 == [i \in 1 .. 2 + nl + 1 + (full - 1) |->
                         IF i <= 2 + nl + 1 THEN g3[i] ELSE t[i - (2 + nl + 1)]]
    <3>1. D = first2 \o NL(k, e) \o <<Sym("data", k)>> \o Tail(Json(m, k))
      BY <2>1
    <3>2. Spells(first2, k, 2, g1)
      BY SymIs DEF Spells
    <3>3. Spells(first2 \o NL(k, e), k, 2 + nl, g2)
      <4>1. Spells(NL(k, e), k, nl, NlOf(e)) /\ nl \in Nat
        BY <1>0, NlSpells
      <4> HIDE DEF nl, g1, first2
      <4> QED
        BY <3>2, <4>1, SpellsBoth
    <3>4. Spells(first2 \o NL(k, e) \o <<Sym("data", k)>>, k, 2 + nl + 1, g3)
      <4>1. Spells(<<Sym("data", k)>>, k, 1, f1)
        BY SpellsOne
      <4>2. 2 + nl \in Nat
        BY <1>0
      <4> HIDE DEF nl, g2, f1, first2
      <4> QED
        BY <3>3, <4>1, <4>2, SpellsBoth
    <3>5. Spells(Tail(Json(m, k)), k, full - 1, t)
      BY <1>0, JsonSpells, TailSpells
    <3>6. Spells(D, k, 2 + nl + 1 + (full - 1), g4)
      <4>1. 2 + nl + 1 \in Nat /\ full - 1 \in Nat
        BY <1>0
      <4> HIDE DEF nl, g3, t, first2, full, D
      <4> QED
        BY <3>1, <3>4, <3>5, <4>1, SpellsBoth
    <3>7. d = 2 + nl + full /\ 2 + nl + 1 + (full - 1) = d
      BY <1>0, <2>1 DEF TextEnd, LastAt, Halved
    <3>8. LastAt(m, e) = a + 2 + nl /\ TextEnd(m, e) = a + d /\ Halved(m) = 1
      BY <1>0, <2>1 DEF LastAt, Halved, TextEnd
    <3>9. \A i \in 1 .. d : g4[i] = fd[i]
      <4> SUFFICES ASSUME NEW i \in 1 .. d PROVE g4[i] = SymAt(m, e, a + i)
        OBVIOUS
      <4>1. CASE i = 1
        BY <1>0, <3>7, <3>8, <4>1 DEF SymAt, LineSym
      <4>2. CASE i = 2
        BY <1>0, <3>7, <3>8, <4>2 DEF SymAt, LineSym
      <4>3. CASE i > 2 /\ i <= 2 + nl
        BY <1>0, <3>7, <3>8, <4>3 DEF SymAt, LineSym, NlOf
      <4>4. CASE i = 2 + nl + 1
        BY <1>0, <3>7, <3>8, <4>4 DEF SymAt, LineSym
      <4>5. CASE i > 2 + nl + 1
        <5>1. i - (2 + nl + 1) \in 1 .. full - 1 /\ i - (2 + nl + 1) + 1 \in 1 .. full
          BY <1>0, <3>7, <4>5
        <5>2. g4[i] = JsonSym(m, i - (2 + nl))
          BY <1>0, <3>7, <4>5, <5>1 DEF JsonOf
        <5>3. SymAt(m, e, a + i) = JsonSym(m, a + i - (a + 2 + nl) - 1 + 1)
          BY <1>0, <3>7, <3>8, <4>5 DEF SymAt
        <5> QED
          BY <1>0, <5>2, <5>3
      <4> QED
        BY <1>0, <4>1, <4>2, <4>3, <4>4, <4>5
    <3> HIDE DEF g4, fd, D
    <3> QED
      BY <3>6, <3>7, <3>9 DEF Spells
  <2>2. CASE ~m.split
    <3> DEFINE f1 == [i \in 1 .. 1 |-> "data"]
               g == [i \in 1 .. 1 + full |-> IF i <= 1 THEN f1[i] ELSE JsonOf(m)[i - 1]]
    <3>1. D = <<Sym("data", k)>> \o Json(m, k)
      BY <2>2
    <3>2. Spells(D, k, 1 + full, g)
      <4>1. Spells(<<Sym("data", k)>>, k, 1, f1) /\ Spells(Json(m, k), k, full, JsonOf(m))
        BY SpellsOne, JsonSpells
      <4> HIDE DEF f1, D, full
      <4> QED
        BY SMTT(20), <1>0, <3>1, <4>1, SpellsBoth
    <3>3. d = 1 + full /\ LastAt(m, e) = a /\ TextEnd(m, e) = a + d /\ Halved(m) = 0
      BY <1>0, <2>2 DEF TextEnd, LastAt, Halved
    <3>4. \A i \in 1 .. d : g[i] = fd[i]
      <4> SUFFICES ASSUME NEW i \in 1 .. d PROVE g[i] = SymAt(m, e, a + i)
        OBVIOUS
      <4>1. CASE i = 1
        BY <1>0, <3>3, <4>1 DEF SymAt
      <4>2. CASE i > 1
        <5>1. g[i] = JsonSym(m, i - 1)
          BY <1>0, <3>3, <4>2 DEF JsonOf
        <5>2. SymAt(m, e, a + i) = JsonSym(m, a + i - a - 1 + 0)
          BY <1>0, <3>3, <4>2 DEF SymAt
        <5> QED
          BY <1>0, <5>1, <5>2
      <4> QED
        BY <4>1, <4>2
    <3> HIDE DEF g, fd, D
    <3> QED
      BY <3>2, <3>3, <3>4 DEF Spells
  <2> QED
    BY <2>1, <2>2
<1> DEFINE h1 == [i \in 1 .. a + d |-> IF i <= a THEN fa[i] ELSE fd[i - a]]
           h2 == [i \in 1 .. a + d + nl |-> IF i <= a + d THEN h1[i] ELSE NlOf(e)[i - (a + d)]]
           h3 == [i \in 1 .. a + d + nl + nl |->
                     IF i <= a + d + nl THEN h2[i] ELSE NlOf(e)[i - (a + d + nl)]]
<1>3. Written(m, k, e) = A \o D \o NL(k, e) \o NL(k, e)
  BY DEF Written
<1>4. Spells(A \o D, k, a + d, h1)
  <2> HIDE DEF A, D, a, d, fa, fd
  <2> QED
    BY <1>0, <1>1, <1>2, SpellsBoth
<1>5. Spells(A \o D \o NL(k, e), k, a + d + nl, h2)
  <2>1. a + d \in Nat /\ nl \in Nat
    BY <1>0
  <2>2. Spells(NL(k, e), k, nl, NlOf(e))
    BY NlSpells
  <2> HIDE DEF A, D, a, d, h1, nl
  <2> QED
    BY <1>4, <2>1, <2>2, SpellsBoth
<1>6. Spells(A \o D \o NL(k, e) \o NL(k, e), k, a + d + nl + nl, h3)
  <2>1. a + d + nl \in Nat /\ nl \in Nat
    BY <1>0
  <2>2. Spells(NL(k, e), k, nl, NlOf(e))
    BY NlSpells
  <2> HIDE DEF A, D, a, d, h2, nl
  <2> QED
    BY <1>5, <2>1, <2>2, SpellsBoth
<1>7. TextEnd(m, e) = a + d /\ BlankAt(m, e) = a + d + nl /\ Size(m, e) = a + d + nl + nl
  <2>1. TextEnd(m, e) = a + d
    BY <1>0 DEF TextEnd, LastAt, Halved
  <2> QED
    BY <2>1 DEF BlankAt, Size
<1>8. \A o \in 1 .. Size(m, e) : h3[o] = SymAt(m, e, o)
  <2> SUFFICES ASSUME NEW o \in 1 .. Size(m, e) PROVE h3[o] = SymAt(m, e, o)
    OBVIOUS
  <2>0. a <= LastAt(m, e) /\ LastAt(m, e) + 1 <= a + d /\ LastAt(m, e) \in Nat
    BY <1>0 DEF TextEnd, LastAt, Halved
  <2>1. CASE o <= a
    <3>1. h3[o] = LineSym("event", 0, a, o)
      BY <1>0, <1>7, <2>1
    <3> QED
      BY <1>0, <2>1, <3>1 DEF SymAt
  <2>2. CASE o > a /\ o <= a + d
    <3>1. o - a \in 1 .. d /\ a + (o - a) = o
      BY <1>0, <2>2
    <3>2. h3[o] = fd[o - a]
      BY <1>0, <1>7, <2>2
    <3> QED
      BY <3>1, <3>2
  <2>3. CASE o > a + d
    <3> HIDE DEF a, d
    <3>1. h3[o] = IF o = a + d + nl \/ o = a + d + nl + nl THEN "lf" ELSE "cr"
      <4>1. CASE o <= a + d + nl
        BY SMTT(20), <1>0, <1>7, <2>3, <4>1 DEF NlOf
      <4>2. CASE o > a + d + nl
        BY <1>0, <1>7, <2>3, <4>2 DEF NlOf
      <4> QED
        BY <1>0, <1>7, <4>1, <4>2
    <3>2. ~(o <= EventLen(m, e)) /\ ~(o <= LastAt(m, e)) /\ o # LastAt(m, e) + 1 /\ ~(o <= TextEnd(m, e))
      BY <1>0, <1>7, <2>0, <2>3 DEF a
    <3>3. SymAt(m, e, o) = IF o \in {BlankAt(m, e), Size(m, e)} THEN "lf" ELSE "cr"
      BY <3>2 DEF SymAt
    <3> QED
      BY <1>7, <3>1, <3>3
  <2> QED
    BY <1>0, <1>7, <2>1, <2>2, <2>3
<1> HIDE DEF h3, A, D, a, d, nl
<1> QED
  BY <1>3, <1>6, <1>7, <1>8 DEF Spells

-----------------------------------------------------------------------------
(* The parser inside a message.                                            *)

\* A byte of the message k that stands for the symbol s, if it got through whole.
Alike(x, k, s) == x.msg = k /\ (x.sym = s \/ (x.sym = "bad" /\ s \in {"hi", "lo"}))

\* What the parser holds; where the line at offset o began, and how much payload the
\* lines before it had.
Frame == [event : Nat, data : Seq(Byte)]
Parser == [buffer : Seq(Byte), event : Nat, data : Seq(Byte), found : Seq(Frame)]
LineAt(m, e, o) == IF o < EventLen(m, e) THEN 0 ELSE IF o < LastAt(m, e) THEN EventLen(m, e)
                   ELSE IF o < BlankAt(m, e) THEN LastAt(m, e) ELSE BlankAt(m, e)
DataLen(m, e, o) == IF o >= BlankAt(m, e) THEN Full(m)
                    ELSE IF o >= LastAt(m, e) THEN Halved(m) ELSE 0
Payload(w, m, k, n) == Len(w) = n /\ \A i \in 1 .. n : Alike(w[i], k, JsonSym(m, i))
Line(w, m, k, e, at, n) == Len(w) = n /\ \A i \in 1 .. n : Alike(w[i], k, SymAt(m, e, at + i))

\* The parser behind o bytes of the message: what it holds is the line it is in and the
\* payload of the lines before.
Between(p, m, k, e, o) ==
    /\ Line(p.buffer, m, k, e, LineAt(m, e, o), o - LineAt(m, e, o))
    /\ Payload(p.data, m, k, DataLen(m, e, o))

\* What Between says of a parser, field by field.
LEMMA IsBetween ==
  ASSUME NEW q, NEW m, NEW k, NEW e, NEW o,
         Line(q.buffer, m, k, e, LineAt(m, e, o), o - LineAt(m, e, o)),
         Payload(q.data, m, k, DataLen(m, e, o))
  PROVE  Between(q, m, k, e, o)
BY DEF Between

\* Less than a whole payload, and no blank, in every line.
LEMMA Halves ==
  ASSUME NEW m \in Message, NEW e
  PROVE  /\ m.split => LastAt(m, e) = EventLen(m, e) + 2 + NlLen(e) /\ Halved(m) = 1
         /\ ~m.split => LastAt(m, e) = EventLen(m, e) /\ Halved(m) = 0
         /\ TextEnd(m, e) = LastAt(m, e) + 1 + Full(m) - Halved(m)
<1>1. EventLen(m, e) \in Nat
  BY Sizes
<1>2. m.split => LastAt(m, e) = EventLen(m, e) + 2 + NlLen(e) /\ Halved(m) = 1
  <2>1. NlLen(e) \in {1, 2}
    BY Sizes
  <2> QED
    BY <1>1, <2>1 DEF LastAt, Halved
<1>3. ~m.split => LastAt(m, e) = EventLen(m, e) /\ Halved(m) = 0
  BY <1>1 DEF LastAt, Halved
<1>4. TextEnd(m, e) = LastAt(m, e) + 1 + Full(m) - Halved(m)
  BY DEF TextEnd
<1> QED
  BY <1>2, <1>3, <1>4

\* The symbols of a payload.
LEMMA JsonIs ==
  ASSUME NEW m, NEW i
  PROVE  JsonSym(m, i) \in {"open", "close", "hi", "lo"}
BY DEF JsonSym

\* The lines end where they should, and nowhere else.
LEMMA LineFeeds ==
  ASSUME NEW m \in Message, NEW e, NEW o \in 1 .. Size(m, e)
  PROVE  (SymAt(m, e, o) = "lf") <=> o \in {EventLen(m, e), LastAt(m, e), BlankAt(m, e), Size(m, e)}
<1> DEFINE a == EventLen(m, e)
           l == LastAt(m, e)
           t == TextEnd(m, e)
           b == BlankAt(m, e)
           z == Size(m, e)
           nl == NlLen(e)
<1>1. /\ nl \in {1, 2} /\ a \in Nat /\ (a = 0 \/ a = 1 + nl) /\ l \in Nat /\ t \in Nat
      /\ (l = a \/ l = a + 2 + nl) /\ t >= l + 2 /\ b = t + nl /\ z = b + nl /\ o \in Nat
  BY Sizes, Halves
<1>2. SymAt(m, e, o) =
        IF o <= a THEN LineSym("event", 0, a, o)
        ELSE IF o <= l THEN IF o = a + 2 THEN "open" ELSE LineSym("data", a, l, o)
        ELSE IF o = l + 1 THEN "data"
        ELSE IF o <= t THEN JsonSym(m, o - l - 1 + Halved(m))
        ELSE IF o \in {b, z} THEN "lf" ELSE "cr"
  BY DEF SymAt
<1>3. JsonSym(m, o - l - 1 + Halved(m)) # "lf"
  BY JsonIs
<1> DEFINE y == SymAt(m, e, o)
           j == JsonSym(m, o - l - 1 + Halved(m))
<1> HIDE DEF a, l, t, b, z, nl, y, j
<1>4. o <= a => (y = "lf" <=> o = a) /\ ~(o > l) /\ (o = l => o = a)
  BY <1>1, <1>2 DEF LineSym, y
<1>5. o > a /\ o <= l => (y = "lf" <=> o = l)
  BY <1>1, <1>2 DEF LineSym, y
<1>6. o > l /\ o <= t => y # "lf"
  BY <1>1, <1>2, <1>3 DEF y, j
<1>7. o > t => (y = "lf" <=> o \in {b, z})
  BY <1>1, <1>2 DEF y
<1>8. y = "lf" <=> o \in {a, l, b, z}
  BY <1>1, <1>4, <1>5, <1>6, <1>7
<1> QED
  BY <1>8 DEF a, l, b, z, y

\* Inside a line a byte joins it.
LEMMA ByteJoins ==
  ASSUME NEW m \in Message, NEW k \in Nat, NEW e, NEW o \in 0 .. Size(m, e) - 1,
         NEW p \in Parser, Between(p, m, k, e, o),
         NEW b \in Byte, Alike(b, k, SymAt(m, e, o + 1)), SymAt(m, e, o + 1) # "lf"
  PROVE  /\ FeedByte(p, b) \in Parser /\ o + 1 < Size(m, e)
         /\ Between(FeedByte(p, b), m, k, e, o + 1) /\ FeedByte(p, b).found = p.found
<1> SUFFICES ASSUME NEW q, q = FeedByte(p, b)
             PROVE  /\ q \in Parser /\ o + 1 < Size(m, e)
                    /\ Between(q, m, k, e, o + 1) /\ q.found = p.found
  OBVIOUS
<1>1. b.sym # "lf"
  BY DEF Alike
<1> DEFINE w == p.buffer
<1>2. /\ p.buffer \in Seq(Byte) /\ p.event \in Nat /\ p.data \in Seq(Byte)
      /\ p.found \in Seq(Frame)
  BY DEF Parser
<1>3. Append(w, b) \in Seq(Byte)
  BY <1>2
<1>4. q = [p EXCEPT !.buffer = Append(w, b)]
  BY <1>1 DEF FeedByte
<1>5. /\ q \in Parser /\ q.buffer = Append(w, b) /\ q.data = p.data /\ q.found = p.found
  BY <1>2, <1>3, <1>4 DEF Parser
<1>6. /\ o + 1 \in 1 .. Size(m, e)
      /\ o + 1 \notin {EventLen(m, e), LastAt(m, e), BlankAt(m, e), Size(m, e)}
  <2>1. o + 1 \in 1 .. Size(m, e)
    BY Sizes
  <2> QED
    BY <2>1, LineFeeds
<1>7. /\ LineAt(m, e, o + 1) = LineAt(m, e, o) /\ DataLen(m, e, o + 1) = DataLen(m, e, o)
      /\ o + 1 < Size(m, e)
  <2>1. EventLen(m, e) \in Nat /\ LastAt(m, e) \in Nat /\ BlankAt(m, e) \in Nat /\ Size(m, e) \in Nat
    BY Sizes
  <2> QED
    BY <1>6, <2>1 DEF LineAt, DataLen
<1> DEFINE at == LineAt(m, e, o)
<1>8. at \in Nat /\ at <= o
  <2>1. EventLen(m, e) \in Nat /\ LastAt(m, e) \in Nat /\ BlankAt(m, e) \in Nat
    BY Sizes
  <2> QED
    BY <2>1 DEF LineAt
<1>9. Line(w, m, k, e, at, o - at) /\ Payload(p.data, m, k, DataLen(m, e, o))
  BY DEF Between
<1> HIDE DEF at
<1>10. Line(Append(w, b), m, k, e, at, (o + 1) - at)
  <2>1. Len(w) = o - at /\ \A i \in 1 .. o - at : Alike(w[i], k, SymAt(m, e, at + i))
    BY <1>9 DEF Line
  <2>2. Len(Append(w, b)) = (o + 1) - at
        /\ \A i \in 1 .. (o + 1) - at : Append(w, b)[i] = IF i = (o + 1) - at THEN b ELSE w[i]
    <3>1. w \in Seq(Byte) /\ Len(w) + 1 = (o + 1) - at
      BY <1>2, <1>8, <2>1
    <3>2. /\ Len(Append(w, b)) = Len(w) + 1
          /\ \A i \in 1 .. Len(w) + 1 : Append(w, b)[i] = IF i = Len(w) + 1 THEN b ELSE w[i]
      BY <3>1
    <3> HIDE DEF w
    <3> QED
      BY <3>1, <3>2
  <2>3. at + ((o + 1) - at) = o + 1
    BY <1>8
  <2>4. ASSUME NEW i \in 1 .. (o + 1) - at PROVE Alike(Append(w, b)[i], k, SymAt(m, e, at + i))
    <3>1. CASE i = (o + 1) - at
      BY <2>2, <2>3, <3>1
    <3>2. CASE i # (o + 1) - at
      <4>1. i \in 1 .. o - at
        BY <1>8, <3>2
      <4> QED
        BY <2>1, <2>2, <3>2, <4>1
    <3> QED
      BY <3>1, <3>2
  <2> QED
    BY <2>2, <2>4 DEF Line
<1> HIDE DEF w
<1>11. Between(q, m, k, e, o + 1)
  <2>1. LineAt(m, e, o + 1) = at
    BY <1>7 DEF at
  <2>2. Line(q.buffer, m, k, e, LineAt(m, e, o + 1), (o + 1) - LineAt(m, e, o + 1))
    BY <1>5, <1>10, <2>1
  <2>3. Payload(q.data, m, k, DataLen(m, e, o + 1))
    BY <1>5, <1>7, <1>9
  <2> QED
    BY <2>2, <2>3, IsBetween
<1> QED
  BY <1>5, <1>7, <1>11

\* trim takes the carriage return of a line, and no more.
LEMMA LineTrimmed ==
  ASSUME NEW w \in Seq(Byte), NEW n \in Nat, NEW nl \in {1, 2}, Len(w) = n + nl - 1,
         \A i \in 1 .. n : w[i].sym # "cr", nl = 2 => w[n + 1].sym = "cr"
  PROVE  Unended(w) \in Seq(Byte) /\ Len(Unended(w)) = n /\ \A i \in 1 .. n : Unended(w)[i] = w[i]
<1>1. CASE nl = 2
  <2>1. Len(w) = n + 1 /\ w # <<>> /\ w[Len(w)].sym = "cr"
    BY <1>1
  <2>2. Unended(w) = SubSeq(w, 1, n)
    <3>1. Unended(w) = Front(w)
      BY <2>1 DEF Unended
    <3>2. Front(w) = SubSeq(w, 1, Len(w) - 1) /\ Len(w) - 1 = n
      BY <2>1 DEF Front
    <3> QED
      BY <3>1, <3>2
  <2>3. SubSeq(w, 1, n) \in Seq(Byte) /\ Len(SubSeq(w, 1, n)) = n
        /\ \A i \in 1 .. n : SubSeq(w, 1, n)[i] = w[i]
    BY <2>1
  <2> QED
    BY <2>2, <2>3
<1>2. CASE nl = 1
  <2>1. Len(w) = n
    BY <1>2
  <2>2. ~(w # <<>> /\ w[Len(w)].sym = "cr")
    <3>1. w # <<>> => Len(w) \in 1 .. n
      BY <2>1, EmptySeq
    <3> QED
      BY <2>1, <3>1
  <2>3. Unended(w) = w
    BY <2>2 DEF Unended
  <2> QED
    BY <2>1, <2>3
<1> QED
  BY <1>1, <1>2

-----------------------------------------------------------------------------
(* The line feeds: what a line was, and what it makes of the parser.       *)

\* What stands in the lines.
LEMMA LineSyms ==
  ASSUME NEW m \in Message, NEW e
  PROVE  /\ EventLen(m, e) > 0 =>
              SymAt(m, e, 1) = "event" /\ (NlLen(e) = 2 => SymAt(m, e, 2) = "cr")
         /\ m.split => /\ SymAt(m, e, EventLen(m, e) + 1) = "data"
                       /\ SymAt(m, e, EventLen(m, e) + 2) = "open"
                       /\ NlLen(e) = 2 => SymAt(m, e, EventLen(m, e) + 3) = "cr"
         /\ SymAt(m, e, LastAt(m, e) + 1) = "data"
         /\ \A i \in 2 .. TextEnd(m, e) - LastAt(m, e) :
                SymAt(m, e, LastAt(m, e) + i) = JsonSym(m, i - 1 + Halved(m))
         /\ NlLen(e) = 2 => /\ SymAt(m, e, TextEnd(m, e) + 1) = "cr"
                            /\ SymAt(m, e, BlankAt(m, e) + 1) = "cr"
<1> DEFINE a == EventLen(m, e)
           l == LastAt(m, e)
           t == TextEnd(m, e)
           b == BlankAt(m, e)
           z == Size(m, e)
           nl == NlLen(e)
           h == Halved(m)
           Y(o) == IF o <= a THEN LineSym("event", 0, a, o)
                   ELSE IF o <= l THEN IF o = a + 2 THEN "open" ELSE LineSym("data", a, l, o)
                   ELSE IF o = l + 1 THEN "data"
                   ELSE IF o <= t THEN JsonSym(m, o - l - 1 + h)
                   ELSE IF o \in {b, z} THEN "lf" ELSE "cr"
<1>1. /\ nl \in {1, 2} /\ a \in Nat /\ (a = 0 \/ a = 1 + nl) /\ l \in Nat /\ t \in Nat
      /\ (l = a \/ l = a + 2 + nl) /\ t >= l + 2 /\ b = t + nl /\ z = b + nl
      /\ (m.split => l = a + 2 + nl) /\ h \in {0, 1}
  BY Sizes, Halves
<1>2. \A o : SymAt(m, e, o) = Y(o)
  BY DEF SymAt
<1> HIDE DEF a, l, t, b, z, nl, h
<1>3. a > 0 => Y(1) = "event" /\ (nl = 2 => Y(2) = "cr")
  BY <1>1 DEF LineSym
<1>4. m.split => Y(a + 1) = "data" /\ Y(a + 2) = "open" /\ (nl = 2 => Y(a + 3) = "cr")
  BY <1>1 DEF LineSym
<1>5. Y(l + 1) = "data"
  BY <1>1 DEF LineSym
<1>6. \A i \in 2 .. t - l : Y(l + i) = JsonSym(m, i - 1 + h)
  <2> SUFFICES ASSUME NEW i \in 2 .. t - l PROVE Y(l + i) = JsonSym(m, i - 1 + h)
    OBVIOUS
  <2>1. /\ ~(l + i <= a) /\ ~(l + i <= l) /\ l + i # l + 1 /\ l + i <= t
        /\ (l + i) - l - 1 + h = i - 1 + h
    BY <1>1
  <2>2. Y(l + i) = JsonSym(m, (l + i) - l - 1 + h)
    BY <2>1
  <2> QED
    BY <2>1, <2>2
<1>7. nl = 2 => Y(t + 1) = "cr" /\ Y(b + 1) = "cr"
  BY <1>1
<1> HIDE DEF Y
<1>8. /\ a > 0 => SymAt(m, e, 1) = "event" /\ (nl = 2 => SymAt(m, e, 2) = "cr")
      /\ m.split => /\ SymAt(m, e, a + 1) = "data" /\ SymAt(m, e, a + 2) = "open"
                    /\ nl = 2 => SymAt(m, e, a + 3) = "cr"
      /\ SymAt(m, e, l + 1) = "data"
      /\ \A i \in 2 .. t - l : SymAt(m, e, l + i) = JsonSym(m, i - 1 + h)
      /\ nl = 2 => SymAt(m, e, t + 1) = "cr" /\ SymAt(m, e, b + 1) = "cr"
  BY <1>2, <1>3, <1>4, <1>5, <1>6, <1>7
<1> QED
  BY <1>8 DEF a, l, t, b, nl, h

\* A frame that carries the message k.
Carries(f, m, k) == Payload(f.data, m, k, Full(m))

\* What the line feed behind the event line and the lines of a payload does.
Becomes(q, data, found) ==
    q \in Parser /\ q.buffer = <<>> /\ q.data = data /\ q.found = found

\* The line feed of the event line, of a line of the payload, of the blank line.
LEMMA EventEnds ==
  ASSUME NEW m \in Message, NEW k \in Nat, NEW e, NEW p \in Parser, EventLen(m, e) > 0,
         Line(p.buffer, m, k, e, 0, EventLen(m, e) - 1), p.data = <<>>, NEW b, b.sym = "lf"
  PROVE  Becomes(FeedByte(p, b), <<>>, p.found)
<1> DEFINE w == p.buffer
           t == Unended(w)
           nl == NlLen(e)
<1>1. nl \in {1, 2} /\ EventLen(m, e) = 1 + nl
  BY Sizes
<1>2. Len(w) = nl /\ \A i \in 1 .. nl : Alike(w[i], k, SymAt(m, e, i))
  <2>1. EventLen(m, e) - 1 = nl /\ \A i \in 1 .. nl : 0 + i = i
    BY <1>1
  <2>2. Len(w) = nl /\ \A i \in 1 .. nl : Alike(w[i], k, SymAt(m, e, 0 + i))
    BY <2>1 DEF Line
  <2> HIDE DEF nl
  <2> QED
    BY <2>1, <2>2
<1>3. w[1].msg = k /\ w[1].sym = "event" /\ (nl = 2 => w[2].sym = "cr")
  <2>1. Alike(w[1], k, "event") /\ (nl = 2 => Alike(w[2], k, "cr"))
    BY <1>1, <1>2, LineSyms
  <2> QED
    BY <2>1 DEF Alike
<1>4. w \in Seq(Byte)
  BY DEF Parser
<1>5. t \in Seq(Byte) /\ Len(t) = 1 /\ t[1] = w[1]
  <2>1. 1 \in Nat /\ Len(w) = 1 + nl - 1 /\ (\A i \in 1 .. 1 : w[i].sym # "cr")
        /\ (nl = 2 => w[1 + 1].sym = "cr")
    <3>1. 1 + nl - 1 = nl /\ 1 + 1 = 2 /\ \A i \in 1 .. 1 : i = 1
      BY <1>1
    <3>2. w[1].sym # "cr"
      BY <1>3
    <3> HIDE DEF w, nl
    <3> QED
      BY <1>2, <1>3, <3>1, <3>2
  <2> HIDE DEF w, nl
  <2>2. Unended(w) \in Seq(Byte) /\ Len(Unended(w)) = 1 /\ \A i \in 1 .. 1 : Unended(w)[i] = w[i]
    BY <1>1, <1>4, <2>1, LineTrimmed
  <2> QED
    BY <2>2
<1> HIDE DEF w, t
<1>6. t # <<>> /\ t[1].sym = "event" /\ t[1].msg = k
  <2>1. Len(t) # 0
    BY <1>5
  <2>2. t # <<>>
    BY <2>1, NotEmpty
  <2> QED
    BY <1>3, <1>5, <2>2, Zenon
<1>7. FeedByte(p, b) = ParseLine([p EXCEPT !.buffer = <<>>], w)
  BY DEF FeedByte, w
<1>8. ParseLine([p EXCEPT !.buffer = <<>>], w) = [[p EXCEPT !.buffer = <<>>] EXCEPT !.event = k]
  BY <1>6 DEF ParseLine, t
<1>9. FeedByte(p, b) = [p EXCEPT !.buffer = <<>>, !.event = k]
  BY <1>7, <1>8 DEF Parser
<1>10. <<>> \in Seq(Byte)
  OBVIOUS
<1> QED
  BY <1>9, <1>10 DEF Parser, Becomes

\* A line of n bytes of payload behind the field name, with its line ending but the line feed.
DataLine(w, n, nl) ==
    /\ Len(w) = n + 1 + nl - 1 /\ w[1].sym = "data" /\ \A i \in 1 .. n + 1 : w[i].sym # "cr"
    /\ nl = 2 => w[n + 2].sym = "cr"

\* The line of the data ends.
LEMMA DataEnds ==
  ASSUME NEW p \in Parser, NEW n \in Nat, NEW nl \in {1, 2}, DataLine(p.buffer, n, nl),
         NEW b, b.sym = "lf"
  PROVE  \E v \in Seq(Byte) :
            /\ Len(v) = n /\ \A i \in 1 .. n : v[i] = p.buffer[i + 1]
            /\ Becomes(FeedByte(p, b), p.data \o v, p.found)
<1> DEFINE w == p.buffer
           t == Unended(w)
<1>1. w \in Seq(Byte) /\ n + 1 \in Nat /\ (n + 1) + 1 = n + 2
  BY DEF Parser
<1>0. /\ Len(w) = n + 1 + nl - 1 /\ w[1].sym = "data" /\ \A i \in 1 .. n + 1 : w[i].sym # "cr"
      /\ nl = 2 => w[n + 2].sym = "cr"
  BY DEF DataLine
<1>2. t \in Seq(Byte) /\ Len(t) = n + 1 /\ \A i \in 1 .. n + 1 : t[i] = w[i]
  <2> HIDE DEF t
  <2> QED
    BY <1>0, <1>1, LineTrimmed DEF t
<1> HIDE DEF w, t
<1>3. t # <<>> /\ t[1] = w[1] /\ t[1].sym = "data"
  <2>1. 1 \in 1 .. n + 1 /\ n + 1 # 0
    OBVIOUS
  <2> QED
    BY <1>0, <1>2, <2>1
<1>4. Tail(t) \in Seq(Byte) /\ Len(Tail(t)) = n /\ \A i \in 1 .. n : Tail(t)[i] = t[i + 1]
  BY <1>2, <1>3
<1>5. \A i \in 1 .. n : i + 1 \in 1 .. n + 1
  OBVIOUS
<1>6. FeedByte(p, b) = ParseLine([p EXCEPT !.buffer = <<>>], w)
  BY DEF FeedByte, w
<1>7. ParseLine([p EXCEPT !.buffer = <<>>], w) =
         [[p EXCEPT !.buffer = <<>>] EXCEPT !.data = @ \o Tail(t)]
  BY <1>3 DEF ParseLine, t
<1>8. FeedByte(p, b) = [p EXCEPT !.buffer = <<>>, !.data = p.data \o Tail(t)]
  BY <1>6, <1>7 DEF Parser
<1>9. \A i \in 1 .. n : Tail(t)[i] = p.buffer[i + 1]
  BY <1>2, <1>4, <1>5 DEF w
<1>10. <<>> \in Seq(Byte) /\ p.data \o Tail(t) \in Seq(Byte)
  BY <1>4 DEF Parser
<1>11. Becomes(FeedByte(p, b), p.data \o Tail(t), p.found)
  BY <1>8, <1>10 DEF Parser, Becomes
<1> QED
  BY <1>4, <1>9, <1>11

\* The blank line ends a frame.
LEMMA BlankEnds ==
  ASSUME NEW p \in Parser, NEW nl \in {1, 2}, Len(p.buffer) = nl - 1,
         nl = 2 => p.buffer[1].sym = "cr", p.data # <<>>, NEW b, b.sym = "lf"
  PROVE  Becomes(FeedByte(p, b), <<>>, Append(p.found, [event |-> p.event, data |-> p.data]))
<1> DEFINE w == p.buffer
           t == Unended(w)
<1>1. w \in Seq(Byte)
  BY DEF Parser
<1>2. t \in Seq(Byte) /\ Len(t) = 0
  <2>1. 0 \in Nat /\ Len(w) = 0 + nl - 1 /\ (nl = 2 => w[0 + 1].sym = "cr") /\ 1 .. 0 = {}
    BY DEF w
  <2> HIDE DEF t, w
  <2> QED
    BY <1>1, <2>1, LineTrimmed DEF t
<1> HIDE DEF w, t
<1>3. t = <<>>
  BY <1>2, EmptySeq
<1>6. FeedByte(p, b) = ParseLine([p EXCEPT !.buffer = <<>>], w)
  BY DEF FeedByte, w
<1> DEFINE f == [event |-> p.event, data |-> p.data]
           p0 == [p EXCEPT !.buffer = <<>>]
<1>7. p0.event = p.event /\ p0.data = p.data /\ p0.found = p.found
  BY DEF Parser
<1>8. ParseLine(p0, w) = [p0 EXCEPT !.event = 0, !.data = <<>>, !.found = Append(@, f)]
  BY <1>3, <1>7 DEF ParseLine, t
<1>9. FeedByte(p, b) = [p EXCEPT !.buffer = <<>>, !.event = 0, !.data = <<>>,
                                 !.found = Append(p.found, f)]
  BY <1>6, <1>7, <1>8 DEF Parser
<1>10. <<>> \in Seq(Byte) /\ f \in Frame /\ p.found \in Seq(Frame)
  BY DEF Parser, Frame
<1> HIDE DEF f
<1>11. Append(p.found, f) \in Seq(Frame)
  BY <1>10
<1>12. Becomes(FeedByte(p, b), <<>>, Append(p.found, f))
  <2> DEFINE q == [p EXCEPT !.buffer = <<>>, !.event = 0, !.data = <<>>, !.found = Append(p.found, f)]
  <2>1. q.buffer = <<>> /\ q.data = <<>> /\ q.found = Append(p.found, f)
    BY DEF Parser
  <2>2. q \in Parser
    BY <1>10, <1>11 DEF Parser
  <2> HIDE DEF q
  <2>3. Becomes(q, <<>>, Append(p.found, f))
    BY <2>1, <2>2 DEF Becomes
  <2> QED
    BY <1>9, <2>3 DEF q
<1> QED
  BY <1>12 DEF f

-----------------------------------------------------------------------------
(* A byte of a message, whichever it is.                                   *)

\* What a byte more makes of the parser: it is in the message still, or has found its frame.
Fed(p, q, m, k, e, o) ==
    /\ q \in Parser
    /\ o + 1 < Size(m, e) => Between(q, m, k, e, o + 1) /\ q.found = p.found
    /\ o + 1 = Size(m, e) =>
           /\ q.buffer = <<>> /\ q.data = <<>>
           /\ \E f \in Frame : Carries(f, m, k) /\ q.found = Append(p.found, f)

\* No frame yet: what is found stays what it was.
LEMMA NothingYet ==
  ASSUME NEW m, NEW k, NEW e, NEW at, NEW w, w = <<>>
  PROVE  Line(w, m, k, e, at, 0) /\ Payload(w, m, k, 0)
<1>1. Len(<<>>) = 0 /\ 1 .. 0 = {}
  OBVIOUS
<1> QED
  BY <1>1 DEF Line, Payload

\* The line feeds of a message.
LEMMA LineEnds ==
  ASSUME NEW m \in Message, NEW k \in Nat, NEW e, NEW o \in 0 .. Size(m, e) - 1,
         NEW p \in Parser, Between(p, m, k, e, o), NEW x, x.sym = "lf",
         o + 1 \in {EventLen(m, e), LastAt(m, e), BlankAt(m, e), Size(m, e)}
  PROVE  Fed(p, FeedByte(p, x), m, k, e, o)
<1> DEFINE a == EventLen(m, e)
           l == LastAt(m, e)
           t == TextEnd(m, e)
           b == BlankAt(m, e)
           z == Size(m, e)
           nl == NlLen(e)
           h == Halved(m)
           full == Full(m)
           w == p.buffer
<1>1. /\ nl \in {1, 2} /\ a \in Nat /\ (a = 0 \/ a = 1 + nl) /\ l \in Nat /\ t \in Nat
      /\ t >= l + 2 /\ b = t + nl /\ z = b + nl /\ b \in Nat /\ z \in Nat
      /\ (m.split => l = a + 2 + nl /\ h = 1) /\ (~m.split => l = a /\ h = 0) /\ h \in {0, 1}
      /\ t = l + (1 + full - h) /\ full \in {2, 4} /\ o \in Nat /\ m.split \in BOOLEAN
  BY Sizes, Halves
<1>2. /\ LineAt(m, e, o) = IF o < a THEN 0 ELSE IF o < l THEN a ELSE IF o < b THEN l ELSE b
      /\ DataLen(m, e, o) = IF o >= b THEN full ELSE IF o >= l THEN h ELSE 0
      /\ LineAt(m, e, o + 1) = IF o + 1 < a THEN 0 ELSE IF o + 1 < l THEN a
                               ELSE IF o + 1 < b THEN l ELSE b
      /\ DataLen(m, e, o + 1) = IF o + 1 >= b THEN full ELSE IF o + 1 >= l THEN h ELSE 0
  BY DEF LineAt, DataLen
<1>3. /\ Line(w, m, k, e, LineAt(m, e, o), o - LineAt(m, e, o))
      /\ Payload(p.data, m, k, DataLen(m, e, o))
  BY DEF Between
<1>4. /\ w \in Seq(Byte) /\ p.event \in Nat /\ p.data \in Seq(Byte)
      /\ p.found \in Seq(Frame) /\ <<>> \in Seq(Byte)
  BY DEF Parser, Frame
<1>5. Payload(p.data, m, k, 0) => p.data = <<>>
  BY <1>4, EmptySeq DEF Payload
<1>6. o + 1 \in {a, l, b, z}
  OBVIOUS
<1> HIDE DEF a, l, t, b, z, nl, h, full, w
<1>7. CASE o + 1 = a
  <2>1. /\ LineAt(m, e, o) = 0 /\ o - 0 = a - 1 /\ DataLen(m, e, o) = 0 /\ a > 0
        /\ LineAt(m, e, o + 1) = o + 1 /\ (o + 1) - (o + 1) = 0 /\ DataLen(m, e, o + 1) = 0
        /\ o + 1 < z
    BY <1>1, <1>2, <1>7
  <2>2. p.data = <<>>
    BY <1>3, <1>5, <2>1
  <2>3. Line(w, m, k, e, 0, a - 1)
    BY <1>3, <2>1
  <2> DEFINE q == FeedByte(p, x)
  <2>4. Becomes(q, <<>>, p.found)
    <3>1. EventLen(m, e) > 0 /\ Line(p.buffer, m, k, e, 0, EventLen(m, e) - 1)
      BY <2>1, <2>3 DEF a, w
    <3> QED
      BY <2>2, <3>1, EventEnds
  <2> HIDE DEF q
  <2>5. q \in Parser /\ q.buffer = <<>> /\ q.data = <<>> /\ q.found = p.found
    BY <2>4 DEF Becomes
  <2>6. Between(q, m, k, e, o + 1)
    <3>1. Line(q.buffer, m, k, e, o + 1, 0) /\ Payload(q.data, m, k, 0)
      BY <2>5, NothingYet
    <3> QED
      BY <2>1, <3>1 DEF Between
  <2>7. Fed(p, q, m, k, e, o)
    BY <2>1, <2>5, <2>6 DEF Fed, z
  <2> QED
    BY <2>7 DEF q
<1>8. CASE m.split /\ o + 1 = l
  <2>1. /\ LineAt(m, e, o) = a /\ o - a = 1 + 1 + nl - 1 /\ DataLen(m, e, o) = 0
        /\ LineAt(m, e, o + 1) = o + 1 /\ (o + 1) - (o + 1) = 0 /\ DataLen(m, e, o + 1) = 1
        /\ o + 1 < z
    BY <1>1, <1>2, <1>8
  <2>2. p.data = <<>>
    BY <1>3, <1>5, <2>1
  <2>3. Len(w) = 1 + 1 + nl - 1 /\ \A i \in 1 .. 1 + nl : Alike(w[i], k, SymAt(m, e, a + i))
    BY <1>1, <1>3, <2>1 DEF Line
  <2>4. /\ Alike(w[1], k, "data") /\ Alike(w[2], k, "open") /\ (nl = 2 => Alike(w[3], k, "cr"))
    <3>1. /\ SymAt(m, e, a + 1) = "data" /\ SymAt(m, e, a + 2) = "open"
          /\ nl = 2 => SymAt(m, e, a + 3) = "cr"
      BY <1>8, LineSyms DEF a, nl
    <3> QED
      BY SMTT(20), <1>1, <2>3, <3>1
  <2>5. /\ w[1].sym = "data" /\ (\A i \in 1 .. 1 + 1 : w[i].sym # "cr")
        /\ (nl = 2 => w[1 + 2].sym = "cr")
    BY <2>4 DEF Alike
  <2>6. PICK v \in Seq(Byte) : /\ Len(v) = 1 /\ \A i \in 1 .. 1 : v[i] = w[i + 1]
                               /\ Becomes(FeedByte(p, x), p.data \o v, p.found)
    <3>1. nl \in {1, 2} /\ 1 \in Nat
      BY <1>1
    <3>2. DataLine(p.buffer, 1, nl)
      BY <2>3, <2>5 DEF w, DataLine
    <3> QED
      BY <3>1, <3>2, DataEnds DEF w
  <2> DEFINE q == FeedByte(p, x)
  <2>7. p.data \o v = v
    BY <2>2
  <2>8. q \in Parser /\ q.buffer = <<>> /\ q.data = v /\ q.found = p.found
    <3> HIDE DEF q
    <3> QED
      BY <2>6, <2>7 DEF q, Becomes
  <2>9. Payload(v, m, k, 1)
    <3>1. v[1] = w[2]
      BY <2>6
    <3>2. JsonSym(m, 1) = "open"
      BY DEF JsonSym
    <3> QED
      BY <2>4, <2>6, <3>1, <3>2 DEF Payload
  <2> HIDE DEF q
  <2>10. Between(q, m, k, e, o + 1)
    <3>1. Line(q.buffer, m, k, e, o + 1, 0)
      BY <2>8, NothingYet
    <3> QED
      BY <2>1, <2>8, <2>9, <3>1 DEF Between
  <2>11. Fed(p, q, m, k, e, o)
    BY <2>1, <2>8, <2>10 DEF Fed, z
  <2> QED
    BY <2>11 DEF q
<1>9. CASE o + 1 = b
  <2> DEFINE n == full - h
  <2>0. n \in Nat
    BY <1>1
  <2>1. /\ LineAt(m, e, o) = l /\ o - l = n + 1 + nl - 1 /\ DataLen(m, e, o) = h
        /\ LineAt(m, e, o + 1) = o + 1 /\ (o + 1) - (o + 1) = 0 /\ DataLen(m, e, o + 1) = full
        /\ o + 1 < z /\ t - l = n + 1 /\ l + (n + 2) = t + 1 /\ h + n = full
    BY <1>1, <1>2, <1>9
  <2>2. /\ Len(w) = n + 1 + nl - 1
        /\ \A i \in 1 .. n + 1 + nl - 1 : Alike(w[i], k, SymAt(m, e, l + i))
    BY <1>3, <2>1 DEF Line
  <2>3. /\ Alike(w[1], k, "data")
        /\ \A i \in 2 .. n + 1 : Alike(w[i], k, JsonSym(m, i - 1 + h))
        /\ nl = 2 => Alike(w[n + 2], k, "cr")
    <3>1. /\ SymAt(m, e, l + 1) = "data"
          /\ \A i \in 2 .. n + 1 : SymAt(m, e, l + i) = JsonSym(m, i - 1 + h)
          /\ nl = 2 => SymAt(m, e, l + (n + 2)) = "cr"
      <4>1. /\ SymAt(m, e, l + 1) = "data"
            /\ \A i \in 2 .. t - l : SymAt(m, e, l + i) = JsonSym(m, i - 1 + h)
            /\ nl = 2 => SymAt(m, e, t + 1) = "cr"
        BY LineSyms DEF l, t, h, nl
      <4> QED
        BY <2>1, <4>1
    <3> HIDE DEF n
    <3>2. /\ 1 \in 1 .. n + 1 + nl - 1 /\ (\A i \in 2 .. n + 1 : i \in 1 .. n + 1 + nl - 1)
          /\ (nl = 2 => n + 2 \in 1 .. n + 1 + nl - 1)
      BY <1>1, <2>0
    <3> QED
      BY <2>2, <3>1, <3>2
  <2>4. /\ w[1].sym = "data" /\ (\A i \in 1 .. n + 1 : w[i].sym # "cr")
        /\ (nl = 2 => w[n + 2].sym = "cr")
    <3>1. \A i \in 2 .. n + 1 : w[i].sym # "cr"
      BY <2>3, JsonIs DEF Alike
    <3>2. w[1].sym = "data" /\ (nl = 2 => w[n + 2].sym = "cr")
      BY <2>3 DEF Alike
    <3>3. \A i \in 1 .. n + 1 : i = 1 \/ i \in 2 .. n + 1
      BY <2>0
    <3> QED
      BY <3>1, <3>2, <3>3
  <2> HIDE DEF n
  <2>5. PICK v \in Seq(Byte) : /\ Len(v) = n /\ \A i \in 1 .. n : v[i] = w[i + 1]
                               /\ Becomes(FeedByte(p, x), p.data \o v, p.found)
    <3>1. nl \in {1, 2}
      BY <1>1
    <3>2. DataLine(p.buffer, n, nl)
      BY <2>2, <2>4 DEF w, DataLine
    <3> QED
      BY <2>0, <3>1, <3>2, DataEnds DEF w
  <2> DEFINE d == p.data \o v
             q == FeedByte(p, x)
  <2>6. Payload(d, m, k, full)
    <3>1. Len(p.data) = h /\ \A i \in 1 .. h : Alike(p.data[i], k, JsonSym(m, i))
      BY <1>3, <2>1 DEF Payload
    <3>2. h \in Nat
      BY <1>1
    <3>3. /\ Len(d) = full
          /\ \A i \in 1 .. full : d[i] = IF i <= h THEN p.data[i] ELSE v[i - h]
      <4>1. p.data \in Seq(Byte) /\ v \in Seq(Byte) /\ Len(p.data) = h /\ Len(v) = n
        BY <1>4, <2>5, <3>1
      <4>2. /\ Len(d) = h + n
            /\ \A i \in 1 .. h + n : d[i] = IF i <= h THEN p.data[i] ELSE v[i - h]
        BY <2>0, <3>2, <4>1
      <4> HIDE DEF d
      <4> QED
        BY <2>1, <4>2
    <3>4. \A i \in 1 .. full : (i <= h => i \in 1 .. h) /\ (~(i <= h) => i - h \in 1 .. n)
      BY <2>0, <2>1, <3>2
    <3>5. \A j \in 1 .. n : Alike(v[j], k, JsonSym(m, h + j))
      <4> SUFFICES ASSUME NEW j \in 1 .. n PROVE Alike(v[j], k, JsonSym(m, h + j))
        OBVIOUS
      <4>1. j + 1 \in 2 .. n + 1 /\ (j + 1) - 1 + h = h + j
        BY <2>0, <3>2
      <4>2. Alike(w[j + 1], k, JsonSym(m, (j + 1) - 1 + h))
        BY <2>3, <4>1
      <4> QED
        BY <2>5, <4>1, <4>2
    <3>6. \A i \in 1 .. full : ~(i <= h) => h + (i - h) = i
      BY <2>0, <2>1, <3>2
    <3> HIDE DEF d
    <3>7. ASSUME NEW i \in 1 .. full PROVE Alike(d[i], k, JsonSym(m, i))
      <4>1. CASE i <= h
        BY <3>1, <3>3, <3>4, <4>1
      <4>2. CASE ~(i <= h)
        BY <3>3, <3>4, <3>5, <3>6, <4>2
      <4> QED
        BY <4>1, <4>2
    <3> QED
      BY <3>3, <3>7 DEF Payload
  <2>7. d \in Seq(Byte)
    BY <1>4, <2>5
  <2>8. q \in Parser /\ q.buffer = <<>> /\ q.data = d /\ q.found = p.found
    BY <2>5 DEF Becomes
  <2> HIDE DEF q, d
  <2>10. Between(q, m, k, e, o + 1)
    <3>1. Line(q.buffer, m, k, e, o + 1, 0)
      BY <2>8, NothingYet
    <3> QED
      BY <2>1, <2>6, <2>8, <3>1 DEF Between
  <2>11. Fed(p, q, m, k, e, o)
    BY <2>1, <2>8, <2>10 DEF Fed, z
  <2> QED
    BY <2>11 DEF q
<1>10. CASE o + 1 = z
  <2>1. /\ LineAt(m, e, o) = b /\ o - b = nl - 1 /\ DataLen(m, e, o) = full /\ b + 1 = b + 1
    BY <1>1, <1>2, <1>10
  <2>2. Len(w) = nl - 1 /\ (nl = 2 => w[1].sym = "cr")
    <3>1. Len(w) = nl - 1 /\ \A i \in 1 .. nl - 1 : Alike(w[i], k, SymAt(m, e, b + i))
      BY <1>3, <2>1 DEF Line
    <3>2. nl = 2 => SymAt(m, e, b + 1) = "cr" /\ 1 \in 1 .. nl - 1
      BY LineSyms DEF nl, b
    <3> QED
      BY <3>1, <3>2 DEF Alike
  <2>3. Carries(p, m, k) /\ p.data # <<>>
    <3>1. Payload(p.data, m, k, full)
      BY <1>3, <2>1
    <3>2. Len(p.data) # 0
      BY <1>1, <3>1 DEF Payload
    <3> QED
      BY <3>1, <3>2, NotEmpty DEF Carries, full
  <2> DEFINE f == [event |-> p.event, data |-> p.data]
             q == FeedByte(p, x)
  <2>4. Becomes(q, <<>>, Append(p.found, f))
    BY <1>1, <2>2, <2>3, BlankEnds DEF w
  <2>5. f \in Frame /\ f.data = p.data
    BY <1>4 DEF Frame
  <2>7. q \in Parser /\ q.buffer = <<>> /\ q.data = <<>> /\ q.found = Append(p.found, f)
    <3> HIDE DEF f, q
    <3> QED
      BY <2>4 DEF Becomes
  <2>8. Carries(f, m, k)
    BY <2>3, <2>5 DEF Carries
  <2> HIDE DEF q, f
  <2>9. Fed(p, q, m, k, e, o)
    <3>1. ~(o + 1 < Size(m, e))
      BY <1>1, <1>10 DEF z
    <3> QED
      BY <2>5, <2>7, <2>8, <3>1 DEF Fed
  <2> QED
    BY <2>9 DEF q
<1> QED
  <2>1. o + 1 = l /\ ~m.split => o + 1 = a
    BY <1>1
  <2> QED
    BY <1>6, <1>7, <1>8, <1>9, <1>10, <2>1

\* A byte of a message, or what is left of it, does to the parser what it should.
LEMMA ByteFits ==
  ASSUME NEW m \in Message, NEW k \in Nat, NEW e, NEW o \in 0 .. Size(m, e) - 1,
         NEW p \in Parser, Between(p, m, k, e, o),
         NEW b \in Byte, Alike(b, k, SymAt(m, e, o + 1))
  PROVE  Fed(p, FeedByte(p, b), m, k, e, o)
<1>1. o + 1 \in 1 .. Size(m, e)
  BY Sizes
<1>2. CASE SymAt(m, e, o + 1) = "lf"
  <2>1. b.sym = "lf"
    BY <1>2 DEF Alike
  <2>2. o + 1 \in {EventLen(m, e), LastAt(m, e), BlankAt(m, e), Size(m, e)}
    BY <1>1, <1>2, LineFeeds
  <2> QED
    BY <2>1, <2>2, LineEnds
<1>3. CASE SymAt(m, e, o + 1) # "lf"
  <2>1. /\ FeedByte(p, b) \in Parser /\ o + 1 < Size(m, e)
        /\ Between(FeedByte(p, b), m, k, e, o + 1) /\ FeedByte(p, b).found = p.found
    BY <1>3, ByteJoins
  <2>2. Size(m, e) \in Nat
    BY Sizes
  <2>3. o + 1 # Size(m, e)
    BY <2>1, <2>2
  <2> QED
    BY <2>1, <2>3 DEF Fed
<1> QED
  BY <1>2, <1>3

-----------------------------------------------------------------------------
(* The body, message by message.                                           *)

\* A set of numbers that has the first and with each the next has them all.
LEMMA Least ==
  ASSUME NEW T \in SUBSET Nat, T # {}
  PROVE  \E x \in T : \A y \in T : x <= y
<1> DEFINE R == OpToRel(<, Nat)
<1>1. IsWellFoundedOn(R, Nat)
  BY NatLessThanWellFounded
<1>2. \A x, y \in Nat : y < x => <<y, x>> \in R
  BY Zenon DEF OpToRel
<1> HIDE DEF R
<1>3. PICK x \in T : \A y \in T : ~ (<<y, x>> \in R)
  BY <1>1, WFMin
<1>4. \A y \in T : ~ (y < x)
  BY <1>2, <1>3
<1> QED
  BY <1>4

\* Induction up to a bound, over a set.
LEMMA Induction ==
  ASSUME NEW n \in Nat, NEW S, 0 \in S, \A i \in 0 .. n - 1 : i \in S => i + 1 \in S
  PROVE  0 .. n \subseteq S
<1> DEFINE T == (0 .. n) \ S
<1> SUFFICES ASSUME T # {} PROVE FALSE
  OBVIOUS
<1>0. T \in SUBSET Nat
  OBVIOUS
<1>1. PICK x \in T : \A y \in T : x <= y
  BY <1>0, Least
<1>2. x # 0 /\ x \in 0 .. n
  OBVIOUS
<1>3. x - 1 \in 0 .. n - 1 /\ x - 1 \notin T
  BY <1>1, <1>2
<1> QED
  BY <1>2, <1>3

\* g joins the first segments, one more at a time.
Joins(n, segs, M, g) ==
  /\ g \in [1 .. n -> Seq(M)]
  /\ \A i \in 1 .. n : g[i] = IF i = 1 THEN segs[i] ELSE g[i - 1] \o segs[i]

\* FlattenSeq is where such joins end.
LEMMA Flattened ==
  ASSUME NEW n \in Nat \ {0}, NEW M, NEW segs \in [1 .. n -> Seq(M)]
  PROVE  \E g : Joins(n, segs, M, g) /\ FlattenSeq(segs) = g[n]
<1> DEFINE S == {m \in 0 .. n : \E g : Joins(m, segs, M, g)}
<1>1. 0 \in S
  <2> DEFINE g == [i \in 1 .. 0 |-> <<>>]
  <2>1. \A i \in 1 .. 0 : FALSE
    OBVIOUS
  <2>2. Joins(0, segs, M, g)
    BY <2>1 DEF Joins
  <2> QED
    BY <2>2
<1>2. ASSUME NEW m \in 0 .. n - 1, m \in S PROVE m + 1 \in S
  <2>1. PICK g : Joins(m, segs, M, g)
    BY <1>2
  <2> DEFINE p == m + 1
             h == [i \in 1 .. p |->
                      IF i = p THEN IF p = 1 THEN segs[p] ELSE g[m] \o segs[p] ELSE g[i]]
  <2>2. p \in 1 .. n /\ p - 1 = m /\ p \in Nat /\ \A i \in 1 .. p : i # p => i \in 1 .. m
    OBVIOUS
  <2>3. segs[p] \in Seq(M) /\ (p # 1 => m \in 1 .. m /\ g[m] \in Seq(M))
    BY <2>1, <2>2 DEF Joins
  <2>4. \A i \in 1 .. p : h[i] \in Seq(M)
    BY <2>1, <2>2, <2>3 DEF Joins
  <2>5. ASSUME NEW i \in 1 .. p
        PROVE  h[i] = IF i = 1 THEN segs[i] ELSE h[i - 1] \o segs[i]
    <3>1. CASE i = p
      <4>1. CASE p = 1
        BY <3>1, <4>1
      <4>2. CASE p # 1
        <5>1. m \in 1 .. p /\ m # p
          BY <2>2, <4>2
        <5>2. h[m] = g[m]
          BY <5>1
        <5> QED
          BY <2>2, <3>1, <4>2, <5>2
      <4> QED
        BY <4>1, <4>2
    <3>2. CASE i # p
      <4>1. i \in 1 .. m /\ h[i] = g[i]
        BY <2>2, <3>2
      <4>2. i # 1 => i - 1 \in 1 .. p /\ i - 1 # p
        BY <2>2
      <4>3. i # 1 => h[i - 1] = g[i - 1]
        BY <4>2
      <4> QED
        BY <2>1, <4>1, <4>3 DEF Joins
    <3> QED
      BY <3>1, <3>2
  <2>6. h \in [1 .. p -> Seq(M)]
    BY <2>4
  <2> HIDE DEF h
  <2>7. Joins(p, segs, M, h)
    BY <2>5, <2>6 DEF Joins
  <2> QED
    BY <2>2, <2>7
<1> HIDE DEF S
<1>3. 0 .. n \subseteq S
  BY <1>1, <1>2, Induction
<1>4. PICK g : Joins(n, segs, M, g)
  BY <1>3 DEF S
<1> DEFINE Solves(h) == h = [i \in 1 .. n |-> IF i = 1 THEN segs[i] ELSE h[i - 1] \o segs[i]]
           h == CHOOSE h : Solves(h)
<1>5. Solves(g)
  BY <1>4 DEF Joins
<1>6. Solves(h)
  <2>1. \E f : Solves(f)
    BY <1>5
  <2> HIDE DEF Solves
  <2> QED
    BY <2>1
<1>7. Len(segs) = n
  OBVIOUS
<1>8. FlattenSeq(segs) = h[n]
  BY <1>7 DEF FlattenSeq
<1> HIDE DEF h
<1> DEFINE T == {i \in 0 .. n : i = 0 \/ h[i] = g[i]}
<1>9. 0 .. n \subseteq T
  <2>1. 0 \in T
    OBVIOUS
  <2>2. ASSUME NEW i \in 0 .. n - 1, i \in T PROVE i + 1 \in T
    <3>1. i + 1 \in 1 .. n /\ (i + 1) - 1 = i
      OBVIOUS
    <3>2. h[i + 1] = IF i + 1 = 1 THEN segs[i + 1] ELSE h[i] \o segs[i + 1]
      BY <1>6, <3>1
    <3>3. g[i + 1] = IF i + 1 = 1 THEN segs[i + 1] ELSE g[i] \o segs[i + 1]
      BY <1>4, <3>1 DEF Joins
    <3> QED
      BY <2>2, <3>1, <3>2, <3>3
  <2> HIDE DEF T
  <2> QED
    BY <2>1, <2>2, Induction
<1>10. h[n] = g[n]
  BY <1>9
<1> QED
  BY <1>4, <1>8, <1>10

\* One segment more.
LEMMA FlattenedOneMore ==
  ASSUME NEW n \in Nat \ {0}, NEW M, NEW segs \in [1 .. n -> Seq(M)]
  PROVE  FlattenSeq(segs) = FlattenSeq([i \in 1 .. n - 1 |-> segs[i]]) \o segs[n]
<1> DEFINE r == [i \in 1 .. n - 1 |-> segs[i]]
<1>1. PICK g : Joins(n, segs, M, g) /\ FlattenSeq(segs) = g[n]
  BY Flattened
<1>2. r \in [1 .. n - 1 -> Seq(M)] /\ n - 1 \in Nat
  OBVIOUS
<1>3. CASE n = 1
  <2>1. r = <<>>
    BY <1>3
  <2>2. FlattenSeq(<<>>) = <<>>
    BY DEF FlattenSeq
  <2>3. g[n] = segs[1] /\ segs[1] \in Seq(M)
    BY <1>1, <1>3 DEF Joins
  <2>4. <<>> \o segs[1] = segs[1]
    BY <2>3
  <2> QED
    BY <1>1, <1>3, <2>1, <2>2, <2>3, <2>4
<1>4. CASE n # 1
  <2> HIDE DEF r
  <2>0. n - 1 \in Nat \ {0}
    BY <1>4
  <2>1. PICK f : Joins(n - 1, r, M, f) /\ FlattenSeq(r) = f[n - 1]
    BY <1>2, <2>0, Flattened
  <2> DEFINE S == {i \in 0 .. n - 1 : i = 0 \/ f[i] = g[i]}
  <2>2. 0 \in S
    OBVIOUS
  <2>3. ASSUME NEW i \in 0 .. (n - 1) - 1, i \in S PROVE i + 1 \in S
    <3>1. i + 1 \in 1 .. n - 1 /\ i + 1 \in 1 .. n /\ (i + 1) - 1 = i
      OBVIOUS
    <3>2. f[i + 1] = IF i + 1 = 1 THEN r[i + 1] ELSE f[i] \o r[i + 1]
      BY <2>1, <3>1 DEF Joins
    <3>3. g[i + 1] = IF i + 1 = 1 THEN segs[i + 1] ELSE g[i] \o segs[i + 1]
      BY <1>1, <3>1 DEF Joins
    <3>4. r[i + 1] = segs[i + 1]
      BY <3>1 DEF r
    <3> QED
      BY <2>3, <3>1, <3>2, <3>3, <3>4
  <2> HIDE DEF S
  <2>4. 0 .. n - 1 \subseteq S
    BY <1>2, <2>2, <2>3, Induction
  <2>5. f[n - 1] = g[n - 1]
    BY <2>0, <2>4 DEF S
  <2>6. g[n] = g[n - 1] \o segs[n]
    <3>1. n \in 1 .. n
      OBVIOUS
    <3> QED
      BY <1>1, <1>4, <3>1 DEF Joins
  <2> QED
    BY <1>1, <2>1, <2>5, <2>6 DEF r
<1> QED
  BY <1>3, <1>4

-----------------------------------------------------------------------------
\* Where the message behind the first j begins.
StartOf(s, e, j) == Len(Body(SubSeq(s, 1, j), e))
Segments(s, e) == [k \in 1 .. Len(s) |-> Written(s[k], k, e)]

\* A body with one message more.
LEMMA BodyGrows ==
  ASSUME NEW s \in Seq(Message), NEW e \in LineEnd, NEW j \in 1 .. Len(s)
  PROVE  Body(SubSeq(s, 1, j), e) = Body(SubSeq(s, 1, j - 1), e) \o Written(s[j], j, e)
<1> DEFINE Part(n) == [k \in 1 .. n |-> Written(s[k], k, e)]
<1>1. ASSUME NEW n \in 0 .. Len(s) PROVE Body(SubSeq(s, 1, n), e) = FlattenSeq(Part(n))
  <2> DEFINE u == SubSeq(s, 1, n)
  <2>1. u \in Seq(Message) /\ Len(u) = n /\ \A k \in 1 .. n : u[k] = s[k]
    OBVIOUS
  <2> HIDE DEF u
  <2>2. DOMAIN u = 1 .. n
    BY <2>1
  <2>3. [k \in DOMAIN u |-> Written(u[k], k, e)] = Part(n)
    BY <2>1, <2>2
  <2>4. Body(u, e) = FlattenSeq(Part(n))
    BY <2>3 DEF Body
  <2> QED
    BY <2>4 DEF u
<1>2. ASSUME NEW k \in 1 .. j PROVE Written(s[k], k, e) \in Seq(Byte)
  <2>1. s[k] \in Message /\ k \in Nat
    OBVIOUS
  <2> QED
    BY <2>1, WrittenIs DEF Spells
<1>3. Part(j) \in [1 .. j -> Seq(Byte)]
  BY <1>2
<1>4. [i \in 1 .. j - 1 |-> Part(j)[i]] = Part(j - 1)
  OBVIOUS
<1>5. Part(j)[j] = Written(s[j], j, e)
  OBVIOUS
<1>6. j \in 0 .. Len(s) /\ j - 1 \in 0 .. Len(s) /\ j \in Nat \ {0}
  OBVIOUS
<1> DEFINE segs == Part(j)
<1>7. FlattenSeq(segs) = FlattenSeq([i \in 1 .. j - 1 |-> segs[i]]) \o segs[j]
  <2>1. segs \in [1 .. j -> Seq(Byte)]
    BY <1>3
  <2> HIDE DEF segs
  <2> QED
    BY <1>6, <2>1, FlattenedOneMore
<1> HIDE DEF Part
<1>8. Body(SubSeq(s, 1, j), e) = FlattenSeq(Part(j))
      /\ Body(SubSeq(s, 1, j - 1), e) = FlattenSeq(Part(j - 1))
  BY <1>1, <1>6
<1> QED
  BY <1>4, <1>5, <1>7, <1>8

\* The body, symbol by symbol, up to the message j.
SpelledTo(s, e, j) ==
    /\ Body(SubSeq(s, 1, j), e) \in Seq(Byte)
    /\ \A k \in 1 .. j :
           /\ StartOf(s, e, k - 1) \in Nat
           /\ StartOf(s, e, k) = StartOf(s, e, k - 1) + Size(s[k], e)
           /\ StartOf(s, e, k) <= StartOf(s, e, j)
           /\ \A o \in 1 .. Size(s[k], e) :
                  Body(SubSeq(s, 1, j), e)[StartOf(s, e, k - 1) + o] = Sym(SymAt(s[k], e, o), k)

\* Before the first message there is nothing.
LEMMA Start ==
  ASSUME NEW s \in Seq(Message), NEW e
  PROVE  StartOf(s, e, 0) = 0 /\ SpelledTo(s, e, 0)
<1> DEFINE u == SubSeq(s, 1, 0)
<1>1. u = <<>>
  OBVIOUS
<1>2. Body(<<>>, e) = <<>>
  <2> DEFINE t == [k \in DOMAIN <<>> |-> Written(<<>>[k], k, e)]
  <2>1. t = <<>>
    OBVIOUS
  <2>2. FlattenSeq(<<>>) = <<>>
    BY DEF FlattenSeq
  <2>3. Body(<<>>, e) = FlattenSeq(t)
    BY DEF Body
  <2> HIDE DEF t
  <2> QED
    BY <2>1, <2>2, <2>3
<1>3. Len(<<>>) = 0 /\ <<>> \in Seq(Byte) /\ 1 .. 0 = {}
  OBVIOUS
<1>4. Body(SubSeq(s, 1, 0), e) = <<>>
  BY <1>1, <1>2
<1> QED
  BY <1>3, <1>4 DEF StartOf, SpelledTo

\* Every message stands in the body where those before it end.
LEMMA BodySpelled ==
  ASSUME NEW s \in Seq(Message), NEW e \in LineEnd, NEW n \in 0 .. Len(s)
  PROVE  SpelledTo(s, e, n)
<1> DEFINE S == {j \in 0 .. Len(s) : SpelledTo(s, e, j)}
<1>1. 0 \in S
  BY Start
<1>2. ASSUME NEW i \in 0 .. Len(s) - 1, i \in S PROVE i + 1 \in S
  <2> DEFINE j == i + 1
             v == Body(SubSeq(s, 1, i), e)
             w == Written(s[j], j, e)
             z == Size(s[j], e)
  <2>1. j \in 1 .. Len(s) /\ j - 1 = i /\ s[j] \in Message /\ j \in Nat /\ i \in Nat
    OBVIOUS
  <2>2. Body(SubSeq(s, 1, j), e) = v \o w
    BY <2>1, BodyGrows
  <2>3. v \in Seq(Byte) /\ StartOf(s, e, i) = Len(v)
    BY <1>2 DEF SpelledTo, StartOf
  <2>4. w \in Seq(Byte) /\ Len(w) = z /\ \A o \in 1 .. z : w[o] = Sym(SymAt(s[j], e, o), j)
    <3> HIDE DEF j
    <3> QED
      BY <2>1, WrittenIs DEF Spells
  <2> HIDE DEF v, w, z, j
  <2>5. /\ v \o w \in Seq(Byte) /\ Len(v \o w) = Len(v) + z /\ Len(v) \in Nat /\ z \in Nat
        /\ \A o \in 1 .. Len(v) : (v \o w)[o] = v[o]
        /\ \A o \in 1 .. z : (v \o w)[Len(v) + o] = w[o]
    BY SMTT(20), <2>3, <2>4
  <2>6. StartOf(s, e, j) = StartOf(s, e, i) + z
    BY <2>2, <2>3, <2>5 DEF StartOf
  <2>7. ASSUME NEW k \in 1 .. j
        PROVE  /\ StartOf(s, e, k - 1) \in Nat
               /\ StartOf(s, e, k) = StartOf(s, e, k - 1) + Size(s[k], e)
               /\ StartOf(s, e, k) <= StartOf(s, e, j)
               /\ \A o \in 1 .. Size(s[k], e) :
                      (v \o w)[StartOf(s, e, k - 1) + o] = Sym(SymAt(s[k], e, o), k)
    <3>1. CASE k = j
      <4>1. StartOf(s, e, k - 1) = Len(v) /\ Size(s[k], e) = z
        BY <2>1, <2>3, <3>1 DEF z
      <4> QED
        BY SMTT(20), <2>3, <2>4, <2>5, <2>6, <3>1, <4>1
    <3>2. CASE k # j
      <4>1. k \in 1 .. i
        BY <2>1, <3>2
      <4>2. /\ StartOf(s, e, k - 1) \in Nat
            /\ StartOf(s, e, k) = StartOf(s, e, k - 1) + Size(s[k], e)
            /\ StartOf(s, e, k) <= StartOf(s, e, i)
            /\ \A o \in 1 .. Size(s[k], e) :
                   v[StartOf(s, e, k - 1) + o] = Sym(SymAt(s[k], e, o), k)
        BY <1>2, <4>1 DEF SpelledTo, v
      <4>3. Size(s[k], e) \in Nat
        <5>1. k \in 1 .. Len(s)
          BY <4>1
        <5>2. s[k] \in Message
          BY <5>1
        <5> QED
          BY <5>2, Sizes
      <4>4. \A o \in 1 .. Size(s[k], e) : StartOf(s, e, k - 1) + o \in 1 .. Len(v)
        BY SMTT(20), <2>3, <2>5, <4>2, <4>3
      <4> QED
        BY <2>3, <2>5, <2>6, <4>2, <4>3, <4>4
    <3> QED
      BY <3>1, <3>2
  <2>8. SpelledTo(s, e, j)
    BY <2>2, <2>5, <2>7 DEF SpelledTo
  <2> QED
    BY <2>1, <2>8 DEF j
<1> HIDE DEF S
<1>3. 0 .. Len(s) \subseteq S
  <2>1. Len(s) \in Nat
    OBVIOUS
  <2> QED
    BY <1>1, <1>2, <2>1, Induction
<1> QED
  BY <1>3 DEF S

-----------------------------------------------------------------------------
(* A chunk, cut anywhere.                                                  *)

\* The frames found since h messages were behind are those of the messages up to the j-th.
Found(fs, s, h, j) ==
    Len(fs) = j - h /\ \A i \in 1 .. j - h : Carries(fs[i], s[h + i], h + i)

\* Behind the j-th message and o bytes of the next.
Stands(q, s, e, j, o) ==
    IF j = Len(s) THEN o = 0 /\ q.buffer = <<>> /\ q.data = <<>>
    ELSE o < Size(s[j + 1], e) /\ Between(q, s[j + 1], j + 1, e, o)

\* What the parser is, and has found since h messages were handled, when n bytes have been read.
Reached(q, s, e, h, n) ==
    /\ q \in Parser
    /\ \E j \in 0 .. Len(s), o \in Nat :
           n = StartOf(s, e, j) + o /\ Stands(q, s, e, j, o) /\ Found(q.found, s, h, j)

\* Between two messages nothing is held.
LEMMA FreshStands ==
  ASSUME NEW s \in Seq(Message), NEW e, NEW j \in 0 .. Len(s), NEW q,
         q.buffer = <<>>, q.data = <<>>
  PROVE  Stands(q, s, e, j, 0)
<1>1. CASE j = Len(s)
  BY <1>1 DEF Stands
<1>2. CASE j # Len(s)
  <2> DEFINE m == s[j + 1]
  <2>1. m \in Message
    <3>1. j + 1 \in 1 .. Len(s)
      BY <1>2
    <3> QED
      BY <3>1
  <2> HIDE DEF m
  <2>2. LineAt(m, e, 0) = 0 /\ DataLen(m, e, 0) = 0 /\ 0 - 0 = 0 /\ 0 < Size(m, e)
    <3> DEFINE a == EventLen(m, e)
               l == LastAt(m, e)
               b == BlankAt(m, e)
               h == Halved(m)
    <3>1. /\ a \in Nat /\ l \in Nat /\ b \in Nat /\ b >= 1 /\ 0 < Size(m, e) /\ l >= a
          /\ (l = 0 => h = 0)
      <4>1. /\ a \in Nat /\ l \in Nat /\ b \in Nat /\ l >= a /\ NlLen(e) \in {1, 2}
            /\ TextEnd(m, e) \in Nat /\ TextEnd(m, e) >= l + 2 /\ b = TextEnd(m, e) + NlLen(e)
            /\ Size(m, e) = b + NlLen(e) /\ m.split \in BOOLEAN
        BY <2>1, Sizes
      <4>2. (m.split => l = a + 2 + NlLen(e)) /\ (~m.split => h = 0)
        BY <2>1, Halves
      <4> HIDE DEF a, l, b, h
      <4> QED
        BY <4>1, <4>2
    <3>2. LineAt(m, e, 0) = IF 0 < a THEN 0 ELSE IF 0 < l THEN a ELSE IF 0 < b THEN l ELSE b
      BY DEF LineAt
    <3>3. DataLen(m, e, 0) = IF 0 >= b THEN Full(m) ELSE IF 0 >= l THEN h ELSE 0
      BY DEF DataLen
    <3> HIDE DEF a, l, b, h
    <3> QED
      BY <3>1, <3>2, <3>3
  <2>3. Between(q, m, j + 1, e, 0)
    <3>1. Line(q.buffer, m, j + 1, e, 0, 0) /\ Payload(q.data, m, j + 1, 0)
      BY NothingYet
    <3> QED
      BY <2>2, <3>1 DEF Between
  <2> QED
    BY <1>2, <2>2, <2>3 DEF Stands, m
<1> QED
  BY <1>1, <1>2

\* One byte more, whichever message it is of.
LEMMA NextByte ==
  ASSUME NEW s \in Seq(Message), NEW e \in LineEnd, NEW h \in Nat, NEW n \in Nat, NEW q,
         Reached(q, s, e, h, n), n < StartOf(s, e, Len(s)),
         NEW b \in Byte, Like(b, Body(s, e)[n + 1])
  PROVE  Reached(FeedByte(q, b), s, e, h, n + 1)
<1>1. PICK j \in 0 .. Len(s), o \in Nat :
         n = StartOf(s, e, j) + o /\ Stands(q, s, e, j, o) /\ Found(q.found, s, h, j)
  BY DEF Reached
<1>2. j # Len(s)
  <2>1. StartOf(s, e, Len(s)) \in Nat
    BY BodySpelled DEF SpelledTo, StartOf
  <2> QED
    BY <1>1, <2>1 DEF Stands
<1> DEFINE k == j + 1
           m == s[k]
           q1 == FeedByte(q, b)
<1>3. k \in 1 .. Len(s) /\ k - 1 = j /\ m \in Message /\ k \in Nat /\ k \in 0 .. Len(s) /\ j \in Nat
  BY <1>2
<1>4. /\ StartOf(s, e, j) \in Nat /\ StartOf(s, e, k) = StartOf(s, e, j) + Size(m, e)
      /\ \A i \in 1 .. Size(m, e) : Body(s, e)[StartOf(s, e, j) + i] = Sym(SymAt(m, e, i), k)
  <2>1. SubSeq(s, 1, Len(s)) = s
    OBVIOUS
  <2>2. SpelledTo(s, e, Len(s)) /\ Len(s) \in Nat
    BY BodySpelled
  <2> HIDE DEF k
  <2>3. /\ StartOf(s, e, k - 1) \in Nat
        /\ StartOf(s, e, k) = StartOf(s, e, k - 1) + Size(s[k], e)
        /\ \A i \in 1 .. Size(s[k], e) :
               Body(SubSeq(s, 1, Len(s)), e)[StartOf(s, e, k - 1) + i] = Sym(SymAt(s[k], e, i), k)
    BY <1>3, <2>2 DEF SpelledTo
  <2> QED
    BY <1>3, <2>1, <2>3
<1>5. o < Size(m, e) /\ Between(q, m, k, e, o) /\ Size(m, e) \in Nat
  BY <1>1, <1>2, <1>3, Sizes DEF Stands
<1> HIDE DEF k, m
<1>6. o + 1 \in 1 .. Size(m, e) /\ o \in 0 .. Size(m, e) - 1 /\ StartOf(s, e, j) + (o + 1) = n + 1
  BY <1>1, <1>4, <1>5
<1>7. Alike(b, k, SymAt(m, e, o + 1))
  <2>1. Body(s, e)[n + 1] = Sym(SymAt(m, e, o + 1), k)
    BY <1>4, <1>6
  <2> QED
    BY <2>1 DEF Like, Alike, Sym
<1>8. Fed(q, q1, m, k, e, o)
  BY <1>3, <1>5, <1>6, <1>7, ByteFits DEF Reached
<1> HIDE DEF q1
<1>9. CASE o + 1 < Size(m, e)
  <2>1. q1 \in Parser /\ Between(q1, m, k, e, o + 1) /\ q1.found = q.found
    BY <1>8, <1>9 DEF Fed
  <2>2. Stands(q1, s, e, j, o + 1)
    BY <1>2, <1>9, <2>1 DEF Stands, k, m
  <2>3. o + 1 \in Nat /\ n + 1 = StartOf(s, e, j) + (o + 1)
    BY <1>6
  <2>4. Found(q1.found, s, h, j)
    BY <1>1, <2>1
  <2> QED
    BY <2>1, <2>2, <2>3, <2>4 DEF Reached, q1
<1>10. CASE o + 1 = Size(m, e)
  <2>1. q1 \in Parser /\ q1.buffer = <<>> /\ q1.data = <<>>
    BY <1>8, <1>10 DEF Fed
  <2>2. PICK f \in Frame : Carries(f, m, k) /\ q1.found = Append(q.found, f)
    BY <1>8, <1>10 DEF Fed
  <2>3. n + 1 = StartOf(s, e, k) + 0
    BY <1>4, <1>5, <1>6, <1>10
  <2>4. Stands(q1, s, e, k, 0)
    BY <1>3, <2>1, FreshStands
  <2>5. Found(q1.found, s, h, k)
    <3>1. q.found \in Seq(Frame)
      BY DEF Reached, Parser
    <3>2. Len(q.found) = j - h /\ \A i \in 1 .. j - h : Carries(q.found[i], s[h + i], h + i)
      BY <1>1 DEF Found
    <3>3. Len(q.found) \in Nat /\ k = j + 1
      BY <3>1 DEF k
    <3>4. /\ Len(q1.found) = k - h
          /\ \A i \in 1 .. k - h : q1.found[i] = IF i = k - h THEN f ELSE q.found[i]
      <4>1. /\ Len(Append(q.found, f)) = Len(q.found) + 1
            /\ \A i \in 1 .. Len(q.found) + 1 :
                  Append(q.found, f)[i] = IF i = Len(q.found) + 1 THEN f ELSE q.found[i]
        BY <3>1
      <4>2. Len(q.found) + 1 = k - h
        BY <1>3, <3>2, <3>3
      <4> QED
        BY <2>2, <4>1, <4>2
    <3>5. ASSUME NEW i \in 1 .. k - h PROVE Carries(q1.found[i], s[h + i], h + i)
      <4>1. CASE i = k - h
        <5>1. h + i = k
          BY <1>3, <4>1
        <5>2. q1.found[i] = f
          BY <3>4, <4>1
        <5> QED
          BY <2>2, <5>1, <5>2 DEF m
      <4>2. CASE i # k - h
        <5>1. i \in 1 .. j - h
          BY <1>3, <3>3, <4>2
        <5>2. q1.found[i] = q.found[i]
          BY <3>4, <4>2
        <5> QED
          BY <3>2, <5>1, <5>2
      <4> QED
        BY <4>1, <4>2
    <3> QED
      BY <3>4, <3>5 DEF Found
  <2>6. 0 \in Nat
    OBVIOUS
  <2> QED
    BY <1>3, <2>1, <2>3, <2>4, <2>5, <2>6 DEF Reached, q1
<1> QED
  BY <1>5, <1>6, <1>9, <1>10

-----------------------------------------------------------------------------
\* What from_utf8_lossy makes of a chunk, byte by byte.
LEMMA LossyIs ==
  ASSUME NEW c \in Seq(Byte)
  PROVE  /\ Len(Lossy(c)) = Len(c)
         /\ \A i \in 1 .. Len(c) : Lossy(c)[i] \in Byte /\ Like(Lossy(c)[i], c[i])
<1>1. DOMAIN c = 1 .. Len(c) /\ Len(c) \in Nat
  OBVIOUS
<1> DEFINE Cut(i) == (c[i].sym = "lo" /\ i = 1) \/ (c[i].sym = "hi" /\ i = Len(c))
           t == [i \in 1 .. Len(c) |-> IF Cut(i) THEN Sym("bad", c[i].msg) ELSE c[i]]
<1>2. Lossy(c) = t
  BY <1>1 DEF Lossy
<1>3. Len(t) = Len(c)
  BY <1>1
<1>4. ASSUME NEW i \in 1 .. Len(c) PROVE t[i] \in Byte /\ Like(t[i], c[i])
  <2>1. c[i] \in Byte
    OBVIOUS
  <2>2. c[i].msg \in Nat
    BY <2>1 DEF Byte
  <2>3. CASE Cut(i)
    <3>1. t[i] = Sym("bad", c[i].msg) /\ c[i].sym \in {"hi", "lo"}
      BY <2>3
    <3>2. Sym("bad", c[i].msg) \in Byte /\ Sym("bad", c[i].msg).sym = "bad"
          /\ Sym("bad", c[i].msg).msg = c[i].msg
      BY <2>2, SymIs
    <3> HIDE DEF t
    <3> QED
      BY <3>1, <3>2 DEF Like
  <2>4. CASE ~Cut(i)
    <3>1. t[i] = c[i]
      BY <2>4
    <3> QED
      BY <2>1, <3>1 DEF Like
  <2> QED
    BY <2>3, <2>4
<1> HIDE DEF t
<1> QED
  BY <1>2, <1>3, <1>4

\* The bytes of a chunk, one after the other.
Runs(f, start, text, n) ==
    /\ f = [i \in 0 .. n |-> f[i]] /\ f[0] = start
    /\ \A i \in 1 .. n : f[i] = FeedByte(f[i - 1], text[i])

StartParser(p) == [buffer |-> p.buffer, event |-> p.event, data |-> p.data, found |-> <<>>]

\* feed goes through the chunk byte by byte.
LEMMA FeedRuns ==
  ASSUME NEW p, NEW c, Len(Lossy(c)) \in Nat
  PROVE  \E f : Runs(f, StartParser(p), Lossy(c), Len(Lossy(c))) /\ Feed(p, c) = f[Len(Lossy(c))]
<1> DEFINE text == Lossy(c)
           n == Len(text)
           start == StartParser(p)
           S == {m \in 0 .. n : \E f : Runs(f, start, text, m)}
<1>1. 0 \in S
  <2> DEFINE f == [i \in 0 .. 0 |-> start]
  <2>1. f = [i \in 0 .. 0 |-> f[i]] /\ f[0] = start /\ 1 .. 0 = {}
    OBVIOUS
  <2> HIDE DEF f
  <2>2. Runs(f, start, text, 0)
    BY <2>1 DEF Runs
  <2> QED
    BY <2>2
<1>2. ASSUME NEW m \in 0 .. n - 1, m \in S PROVE m + 1 \in S
  <2>1. PICK f : Runs(f, start, text, m)
    BY <1>2
  <2> DEFINE k == m + 1
             g == [i \in 0 .. k |-> IF i = k THEN FeedByte(f[m], text[k]) ELSE f[i]]
  <2>2. k \in Nat /\ k - 1 = m /\ m \in Nat /\ 0 # k /\ 0 \in 0 .. k /\ k \in 0 .. n
    OBVIOUS
  <2>3. g = [i \in 0 .. k |-> g[i]] /\ g[0] = start
    BY <2>1, <2>2 DEF Runs
  <2>4. ASSUME NEW i \in 1 .. k PROVE g[i] = FeedByte(g[i - 1], text[i])
    <3>1. i - 1 \in 0 .. k /\ i - 1 # k /\ i \in 0 .. k
      BY <2>2
    <3>2. g[i - 1] = f[i - 1]
      BY <3>1
    <3>3. CASE i = k
      <4>1. g[i] = FeedByte(f[m], text[k])
        BY <3>1, <3>3
      <4> QED
        BY <2>2, <3>2, <3>3, <4>1
    <3>4. CASE i # k
      <4>1. g[i] = f[i] /\ i \in 1 .. m
        BY <2>2, <3>1, <3>4
      <4>2. f[i] = FeedByte(f[i - 1], text[i])
        BY <2>1, <4>1 DEF Runs
      <4> QED
        BY <3>2, <4>1, <4>2
    <3> QED
      BY <3>3, <3>4
  <2> HIDE DEF g
  <2>5. Runs(g, start, text, k)
    BY <2>3, <2>4 DEF Runs
  <2> QED
    BY <2>2, <2>5
<1> HIDE DEF S
<1>3. 0 .. n \subseteq S
  BY <1>1, <1>2, Induction
<1>4. PICK f : Runs(f, start, text, n)
  BY <1>3 DEF S
<1> DEFINE One(a, x) == CHOOSE q \in {FeedByte(y, x) : y \in {a}} : TRUE
           Solves(h) == h = [i \in 0 .. n |-> IF i = 0 THEN start ELSE One(h[i - 1], text[i])]
           fed == CHOOSE h : Solves(h)
<1>5. \A a, x : One(a, x) = FeedByte(a, x)
  <2> SUFFICES ASSUME NEW a, NEW x PROVE One(a, x) = FeedByte(a, x)
    OBVIOUS
  <2>1. {FeedByte(y, x) : y \in {a}} = {FeedByte(a, x)}
    OBVIOUS
  <2> QED
    BY <2>1
<1>6. Feed(p, c) = fed[n]
  BY DEF Feed, StartParser
<1> HIDE DEF One
<1>7. Solves(f)
  <2>1. \A i \in 1 .. n : f[i] = One(f[i - 1], text[i])
    BY <1>4, <1>5 DEF Runs
  <2>2. f = [i \in 0 .. n |-> f[i]] /\ f[0] = start
    BY <1>4 DEF Runs
  <2>3. \A i \in 0 .. n : f[i] = IF i = 0 THEN start ELSE One(f[i - 1], text[i])
    <3>1. \A i \in 0 .. n : i # 0 => i \in 1 .. n
      OBVIOUS
    <3> QED
      BY <2>1, <2>2, <3>1
  <2>4. [i \in 0 .. n |-> f[i]] = [i \in 0 .. n |-> IF i = 0 THEN start ELSE One(f[i - 1], text[i])]
    BY <2>3
  <2> QED
    BY <2>2, <2>4
<1>8. Solves(fed)
  <2>1. \E h : Solves(h)
    BY <1>7
  <2> HIDE DEF Solves
  <2> QED
    BY <2>1
<1> HIDE DEF fed
<1>9. Runs(fed, start, text, n)
  <2>1. /\ fed = [i \in 0 .. n |-> fed[i]]
        /\ \A i \in 0 .. n : fed[i] = IF i = 0 THEN start ELSE One(fed[i - 1], text[i])
    BY <1>8
  <2>2. \A i \in 1 .. n : i \in 0 .. n /\ i # 0
    OBVIOUS
  <2>3. 0 \in 0 .. n
    OBVIOUS
  <2> QED
    BY <1>5, <2>1, <2>2, <2>3 DEF Runs
<1> QED
  BY <1>6, <1>9

\* A chunk, wherever it was cut.
LEMMA FeedReaches ==
  ASSUME NEW s \in Seq(Message), NEW e \in LineEnd, NEW h \in Nat, NEW n \in Nat, NEW p,
         Reached(StartParser(p), s, e, h, n),
         NEW c \in Seq(Byte), n + Len(c) <= StartOf(s, e, Len(s)),
         \A i \in 1 .. Len(c) : c[i] = Body(s, e)[n + i]
  PROVE  Reached(Feed(p, c), s, e, h, n + Len(c))
<1> DEFINE text == Lossy(c)
           z == Len(c)
<1>1. /\ Len(text) = z /\ z \in Nat
      /\ \A i \in 1 .. z : text[i] \in Byte /\ Like(text[i], c[i])
  BY LossyIs
<1>2. PICK f : Runs(f, StartParser(p), text, z) /\ Feed(p, c) = f[z]
  BY <1>1, FeedRuns
<1> HIDE DEF text
<1> DEFINE S == {i \in 0 .. z : Reached(f[i], s, e, h, n + i)}
<1>3. 0 \in S
  <2>1. n + 0 = n /\ f[0] = StartParser(p)
    BY <1>2 DEF Runs
  <2> QED
    BY <1>1, <2>1
<1>4. ASSUME NEW i \in 0 .. z - 1, i \in S PROVE i + 1 \in S
  <2>1. i + 1 \in 1 .. z /\ (i + 1) - 1 = i /\ n + (i + 1) = (n + i) + 1 /\ n + i \in Nat
    BY <1>1
  <2>2. f[i + 1] = FeedByte(f[i], text[i + 1])
    BY <1>2, <2>1 DEF Runs
  <2>3. Like(text[i + 1], Body(s, e)[(n + i) + 1]) /\ text[i + 1] \in Byte
    BY <1>1, <2>1
  <2>4. n + i < StartOf(s, e, Len(s))
    <3>1. StartOf(s, e, Len(s)) \in Nat
      BY BodySpelled DEF SpelledTo, StartOf
    <3> QED
      BY <1>1, <2>1, <3>1
  <2>5. Reached(f[i], s, e, h, n + i)
    BY <1>4
  <2>6. Reached(FeedByte(f[i], text[i + 1]), s, e, h, (n + i) + 1)
    BY <2>1, <2>3, <2>4, <2>5, NextByte
  <2>7. Reached(f[i + 1], s, e, h, n + (i + 1))
    BY <2>1, <2>2, <2>6
  <2> QED
    BY <2>1, <2>7
<1> HIDE DEF S
<1>5. 0 .. z \subseteq S
  BY <1>1, <1>3, <1>4, Induction
<1> QED
  BY SMTT(20), <1>1, <1>2, <1>5 DEF S

\* Below the first message still to come there are as many as have arrived.
LEMMA ArrivedAre ==
  ASSUME NEW s \in Seq(Message), NEW e \in LineEnd, NEW j \in 0 .. Len(s), NEW o \in Nat,
         IF j = Len(s) THEN o = 0 ELSE o < Size(s[j + 1], e)
  PROVE  {k \in 1 .. Len(s) : StartOf(s, e, k) <= StartOf(s, e, j) + o} = 1 .. j
<1>1. \A i \in 0 .. Len(s) : StartOf(s, e, i) \in Nat
  <2> SUFFICES ASSUME NEW i \in 0 .. Len(s) PROVE StartOf(s, e, i) \in Nat
    OBVIOUS
  <2> QED
    BY BodySpelled DEF SpelledTo, StartOf
<1>2. ASSUME NEW k \in 1 .. j PROVE StartOf(s, e, k) <= StartOf(s, e, j)
  BY BodySpelled DEF SpelledTo
<1>3. ASSUME NEW k \in 1 .. Len(s), k \notin 1 .. j PROVE StartOf(s, e, k) > StartOf(s, e, j) + o
  <2>1. j + 1 \in 1 .. k /\ k \in 0 .. Len(s) /\ j + 1 \in 0 .. Len(s) /\ (j + 1) - 1 = j /\ j # Len(s)
    BY <1>3
  <2>2. StartOf(s, e, j + 1) <= StartOf(s, e, k)
        /\ StartOf(s, e, j + 1) = StartOf(s, e, (j + 1) - 1) + Size(s[j + 1], e)
    BY <2>1, BodySpelled DEF SpelledTo
  <2>3. s[j + 1] \in Message
    BY <2>1
  <2>4. Size(s[j + 1], e) \in Nat
    BY <2>3, Sizes
  <2>5. StartOf(s, e, k) \in Nat /\ StartOf(s, e, j) \in Nat /\ StartOf(s, e, j + 1) \in Nat
    BY <1>1, <2>1
  <2> QED
    BY <2>1, <2>2, <2>4, <2>5
<1>4. \A k \in 1 .. j : k \in 1 .. Len(s) /\ StartOf(s, e, k) \in Nat
  BY <1>1
<1>5. StartOf(s, e, j) \in Nat
  BY <1>1
<1>6. \A k \in 1 .. Len(s) : StartOf(s, e, k) \in Nat
  BY <1>1
<1>7. \A k \in 1 .. Len(s) : StartOf(s, e, k) <= StartOf(s, e, j) + o <=> k \in 1 .. j
  BY <1>2, <1>3, <1>4, <1>5, <1>6
<1> QED
  BY <1>4, <1>7

-----------------------------------------------------------------------------
(* The steps of the stream.                                                *)

\* The parser and the frames it has found that were not handled yet.
ParserNow == [buffer |-> parser.buffer, event |-> parser.event, data |-> parser.data,
              found |-> frames]

\* What nobody has read is the rest of the body.
WireIsRest ==
    /\ wire \in Seq(Byte) /\ Len(wire) <= Len(Body(script, ending))
    /\ \A i \in 1 .. Len(wire) : wire[i] = Body(script, ending)[Read + i]

\* Nothing was read; or what was read has reached the parser.
Unread == wire = Body(script, ending) /\ parser = NoParse /\ frames = <<>> /\ handled = <<>>
Reading ==
    /\ Len(handled) \in Nat /\ handled = UpTo(Len(handled))
    /\ Reached(ParserNow, script, ending, Len(handled), Read)
CutInv ==
    reader \in Codec =>
        /\ script \in Seq(Message) /\ ending \in LineEnd /\ WireIsRest
        /\ phase = "asked" => Unread
        /\ phase = "reading" => Reading

\* The length of a body.
LEMMA BodyIs ==
  ASSUME NEW s \in Seq(Message), NEW e \in LineEnd
  PROVE  Body(s, e) \in Seq(Byte) /\ Len(Body(s, e)) = StartOf(s, e, Len(s))
         /\ Len(Body(s, e)) \in Nat
<1>1. SubSeq(s, 1, Len(s)) = s /\ Len(s) \in 0 .. Len(s)
  OBVIOUS
<1>2. SpelledTo(s, e, Len(s))
  BY <1>1, BodySpelled
<1>3. Body(s, e) \in Seq(Byte)
  BY <1>1, <1>2 DEF SpelledTo
<1>4. StartOf(s, e, Len(s)) = Len(Body(s, e))
  BY <1>1, Zenon DEF StartOf
<1>5. Len(Body(s, e)) \in Nat
  <2> HIDE DEF Body
  <2> QED
    BY <1>3
<1> QED
  BY <1>3, <1>4, <1>5

\* At first nothing was read.
LEMMA CutInitially == Init => CutInv
<1> SUFFICES ASSUME Init, reader \in Codec PROVE CutInv
  BY DEF CutInv
<1>1. /\ reader \in Reader /\ script \in Script[reader] /\ ending \in Ending
      /\ wire = Body(script, ending) /\ parser = NoParse /\ frames = <<>> /\ handled = <<>>
      /\ phase = "asked"
  BY DEF Init
<1>2. script \in Seq(Message) /\ ending \in LineEnd
  BY <1>1, StreamAssumption DEF LineEnd
<1>3. Body(script, ending) \in Seq(Byte) /\ Len(Body(script, ending)) \in Nat
  BY <1>2, BodyIs
<1>4. Read = 0
  BY <1>1, <1>3 DEF Read
<1>5. WireIsRest
  BY <1>1, <1>3, <1>4 DEF WireIsRest
<1> QED
  BY <1>1, <1>2, <1>5 DEF CutInv, Unread

\* Steps that read and handle nothing.
LEMMA CutUnmoved ==
  ASSUME CutInv, UNCHANGED <<reader, script, ending, wire>>,
         phase' \in {"asked", "reading"} =>
            phase' = phase /\ UNCHANGED <<parser, frames, handled>>
  PROVE  CutInv'
<1> SUFFICES ASSUME reader' \in Codec PROVE CutInv'
  BY DEF CutInv
<1>1. script' \in Seq(Message) /\ ending' \in LineEnd /\ WireIsRest'
  BY DEF CutInv, WireIsRest, Read
<1>2. phase' = "asked" => Unread'
  BY DEF CutInv, Unread
<1>3. phase' = "reading" => Reading'
  BY DEF CutInv, Reading, ParserNow, Read
<1> QED
  BY <1>1, <1>2, <1>3 DEF CutInv

\* stream() keeps the first chunk it waited for.
LEMMA CutOpens ==
  ASSUME CutInv, NEW n \in 1 .. Len(wire), Opened(n), reader \in Codec
  PROVE  CutInv'
<1>1. /\ script \in Seq(Message) /\ ending \in LineEnd /\ WireIsRest /\ Unread
      /\ phase' = "reading" /\ UNCHANGED <<reader, script, ending, wire, parser, frames, handled>>
  BY DEF CutInv, Opened, chosen, accumulated
<1>2. WireIsRest' /\ script' \in Seq(Message) /\ ending' \in LineEnd
  BY <1>1 DEF WireIsRest, Read
<1>3. Reading'
  <2>1. handled = <<>> /\ frames = <<>> /\ parser = NoParse /\ wire = Body(script, ending)
    BY <1>1 DEF Unread
  <2>2. Len(handled) = 0 /\ handled = UpTo(0)
    BY <2>1 DEF UpTo
  <2>3. Read = 0 /\ StartOf(script, ending, 0) = 0
    <3>1. Len(Body(script, ending)) \in Nat
      BY <1>1, BodyIs
    <3> QED
      BY <1>1, <2>1, <3>1, Start DEF Read
  <2> DEFINE q == ParserNow
  <2>4. q = [buffer |-> <<>>, event |-> 0, data |-> <<>>, found |-> <<>>]
    BY <2>1 DEF ParserNow, NoParse
  <2>5. /\ q \in Parser /\ q.buffer = <<>> /\ q.data = <<>> /\ q.found = <<>>
    <3>1. <<>> \in Seq(Byte) /\ <<>> \in Seq(Frame)
      OBVIOUS
    <3> QED
      BY <2>4, <3>1 DEF Parser
  <2> HIDE DEF q
  <2>6. 0 \in 0 .. Len(script) /\ 0 \in Nat
    BY <1>1
  <2>7. Stands(q, script, ending, 0, 0)
    BY <1>1, <2>5, <2>6, FreshStands
  <2>8. Found(q.found, script, 0, 0)
    <3>1. Len(<<>>) = 0 /\ 1 .. 0 - 0 = {} /\ 0 - 0 = 0
      OBVIOUS
    <3> QED
      BY <2>5, <3>1 DEF Found
  <2>9. Reached(q, script, ending, 0, 0)
    <3>1. 0 = StartOf(script, ending, 0) + 0
      BY <2>3
    <3> QED
      BY <2>5, <2>6, <2>7, <2>8, <3>1 DEF Reached
  <2>10. Reading
    BY <2>2, <2>3, <2>9 DEF Reading, q
  <2> QED
    BY <1>1, <2>10 DEF Reading, ParserNow, Read
<1> QED
  BY <1>1, <1>2, <1>3 DEF CutInv

\* A chunk is read and fed to the parser.
LEMMA CutReads ==
  ASSUME CutInv, NEW n \in 1 .. Len(wire), ReadChunk(n), present
  PROVE  CutInv'
<1> DEFINE body == Body(script, ending)
           c == SubSeq(wire, 1, n)
           fed == Feed(parser, c)
<1>1. /\ script \in Seq(Message) /\ ending \in LineEnd /\ WireIsRest /\ Reading
      /\ frames = <<>> /\ reader \in Codec
  BY DEF CutInv, ReadChunk, Idle
<1>2. /\ wire' = SubSeq(wire, n + 1, Len(wire)) /\ phase' = "reading"
      /\ parser' = [buffer |-> fed.buffer, event |-> fed.event, data |-> fed.data]
      /\ frames' = fed.found /\ UNCHANGED <<reader, script, ending, handled>>
  BY DEF ReadChunk, Idle, Gone, chosen, accumulated
<1>3. /\ wire \in Seq(Byte) /\ Len(wire) \in Nat /\ Len(body) \in Nat /\ Len(wire) <= Len(body)
      /\ \A i \in 1 .. Len(wire) : wire[i] = body[Read + i]
      /\ Len(body) = StartOf(script, ending, Len(script)) /\ Read = Len(body) - Len(wire)
  BY <1>1, BodyIs DEF WireIsRest, Read
<1>4. Read \in Nat /\ n \in Nat /\ n <= Len(wire)
  BY <1>3
<1>5. c \in Seq(Byte) /\ Len(c) = n /\ \A i \in 1 .. n : c[i] = wire[i]
  BY <1>3, <1>4
<1>6. /\ wire' \in Seq(Byte) /\ Len(wire') = Len(wire) - n
      /\ \A i \in 1 .. Len(wire) - n : wire'[i] = wire[n + i]
  <2> DEFINE r == SubSeq(wire, n + 1, Len(wire))
  <2>1. r \in Seq(Byte) /\ Len(r) = Len(wire) - n
    BY <1>3, <1>4
  <2>2. \A i \in 1 .. Len(wire) - n : r[i] = wire[n + i]
    BY <1>3, <1>4
  <2> QED
    BY <1>2, <2>1, <2>2
<1> HIDE DEF c, body, fed
<1>7. Read' = Read + n
  <2>1. Read' = Len(body) - Len(wire')
    BY <1>2 DEF Read, body
  <2> QED
    BY <1>3, <1>4, <1>6, <2>1
<1>8. WireIsRest'
  <2>1. \A i \in 1 .. Len(wire') : wire'[i] = body[Read' + i]
    <3> SUFFICES ASSUME NEW i \in 1 .. Len(wire') PROVE wire'[i] = body[Read' + i]
      OBVIOUS
    <3>1. n + i \in 1 .. Len(wire) /\ Read + (n + i) = (Read + n) + i /\ i \in 1 .. Len(wire) - n
      BY <1>3, <1>4, <1>6
    <3> QED
      BY <1>3, <1>6, <1>7, <3>1
  <2>2. Len(wire') <= Len(body)
    BY <1>3, <1>4, <1>6
  <2> QED
    BY <1>2, <1>6, <2>1, <2>2 DEF WireIsRest, body
<1>9. Reading'
  <2> DEFINE h == Len(handled)
  <2>1. h \in Nat /\ handled = UpTo(h) /\ Reached(ParserNow, script, ending, h, Read)
    BY <1>1 DEF Reading
  <2>2. ParserNow = StartParser(parser)
    BY <1>1 DEF ParserNow, StartParser
  <2> HIDE DEF h
  <2>3. Reached(fed, script, ending, h, Read + n)
    <3>1. Read + Len(c) <= StartOf(script, ending, Len(script))
      BY <1>3, <1>4, <1>5
    <3>2. \A i \in 1 .. Len(c) : c[i] = Body(script, ending)[Read + i]
      <4> SUFFICES ASSUME NEW i \in 1 .. Len(c) PROVE c[i] = body[Read + i]
        BY DEF body
      <4>1. i \in 1 .. n /\ i \in 1 .. Len(wire)
        BY <1>3, <1>4, <1>5
      <4> QED
        BY <1>3, <1>5, <4>1
    <3>3. Reached(StartParser(parser), script, ending, h, Read)
      BY <2>1, <2>2
    <3>4. Reached(Feed(parser, c), script, ending, h, Read + Len(c))
      BY <1>1, <1>4, <1>5, <2>1, <3>1, <3>2, <3>3, FeedReaches
    <3> QED
      BY <1>5, <3>4 DEF fed
  <2>4. ParserNow' = fed
    <3>1. fed \in Parser
      BY <2>3 DEF Reached
    <3>2. ParserNow' = [buffer |-> fed.buffer, event |-> fed.event, data |-> fed.data,
                        found |-> fed.found]
      BY <1>2 DEF ParserNow
    <3> QED
      BY <3>1, <3>2 DEF Parser
  <2>5. Len(handled') = h /\ handled' = UpTo(h)
    BY <1>2, <2>1 DEF h
  <2> QED
    BY <1>2, <1>7, <2>1, <2>3, <2>4, <2>5 DEF Reading, UpTo
<1> QED
  BY <1>1, <1>2, <1>8, <1>9 DEF CutInv

\* A frame of the message k starts with a byte of it.
LEMMA FrameIsOf ==
  ASSUME NEW f, NEW m, NEW k, Carries(f, m, k)
  PROVE  f.data[1].msg = k
<1>1. 1 \in 1 .. Full(m)
  BY DEF Full
<1> QED
  BY <1>1 DEF Carries, Payload, Alike

\* A frame is handled: the message it carries is the next.
LEMMA CutHandles ==
  ASSUME CutInv, HandleFrame, phase' = "reading"
  PROVE  CutInv'
<1> DEFINE h == Len(handled)
           q == ParserNow
           d == Head(frames).data
<1>1. /\ script \in Seq(Message) /\ ending \in LineEnd /\ WireIsRest /\ Reading
      /\ frames # <<>> /\ reader \in Codec
  BY DEF CutInv, HandleFrame
<1>2. /\ frames' = Tail(frames) /\ handled' = Append(handled, d[1].msg)
      /\ UNCHANGED <<reader, script, ending, wire, parser>>
  <2>1. Carried(d) # 0
    BY DEF HandleFrame
  <2> QED
    BY <2>1 DEF HandleFrame, chosen
<1>3. h \in Nat /\ handled = UpTo(h) /\ Reached(q, script, ending, h, Read)
  BY <1>1 DEF Reading
<1>4. PICK j \in 0 .. Len(script), o \in Nat :
         /\ Read = StartOf(script, ending, j) + o
         /\ Stands(q, script, ending, j, o) /\ Found(q.found, script, h, j)
  BY <1>3 DEF Reached
<1>5. /\ q \in Parser /\ q.found = frames /\ frames \in Seq(Frame)
  BY <1>3 DEF Reached, Parser, ParserNow
<1>6. Len(frames) = j - h /\ \A i \in 1 .. j - h : Carries(frames[i], script[h + i], h + i)
  BY <1>4, <1>5 DEF Found
<1>7. Len(frames) \in Nat \ {0} /\ Head(frames) = frames[1]
      /\ Tail(frames) \in Seq(Frame) /\ Len(Tail(frames)) = Len(frames) - 1
      /\ \A i \in 1 .. Len(frames) - 1 : Tail(frames)[i] = frames[i + 1]
  <2>1. Len(frames) \in Nat \ {0} /\ Head(frames) = frames[1]
    BY <1>1, <1>5, EmptySeq
  <2>2. Tail(frames) \in Seq(Frame) /\ Len(Tail(frames)) = Len(frames) - 1
    BY <1>1, <1>5
  <2>3. \A i \in 1 .. Len(frames) - 1 : Tail(frames)[i] = frames[i + 1]
    BY <1>1, <1>5
  <2> QED
    BY <2>1, <2>2, <2>3
<1>8. d[1].msg = h + 1
  <2>1. Carries(frames[1], script[h + 1], h + 1)
    BY <1>6, <1>7
  <2> QED
    BY <1>7, <2>1, FrameIsOf
<1> DEFINE q1 == [q EXCEPT !.found = Tail(frames)]
<1>9. /\ q1 \in Parser /\ q1.buffer = q.buffer /\ q1.data = q.data /\ q1.found = Tail(frames)
      /\ ParserNow' = q1
  <2>1. ParserNow' = [buffer |-> parser.buffer, event |-> parser.event, data |-> parser.data,
                      found |-> Tail(frames)]
    BY <1>2 DEF ParserNow
  <2>2. q1 = [buffer |-> parser.buffer, event |-> parser.event, data |-> parser.data,
              found |-> Tail(frames)]
    <3>1. q = [buffer |-> parser.buffer, event |-> parser.event, data |-> parser.data,
               found |-> frames]
      BY DEF ParserNow
    <3> HIDE DEF q
    <3>2. q1 = [q EXCEPT !.found = Tail(frames)]
      OBVIOUS
    <3> HIDE DEF q1
    <3> QED
      BY <3>1, <3>2
  <2>3. q1 \in Parser
    <3> HIDE DEF q
    <3> QED
      BY <1>5, <1>7 DEF Parser
  <2> QED
    BY <2>1, <2>2, <2>3 DEF ParserNow
<1> HIDE DEF q, q1, d
<1>10. handled' = UpTo(h + 1) /\ Len(handled') = h + 1
  <2>1. UpTo(h) \in Seq(Nat) /\ Len(UpTo(h)) = h /\ \A i \in 1 .. h : UpTo(h)[i] = i
    BY <1>3 DEF UpTo
  <2> DEFINE t == Append(UpTo(h), h + 1)
  <2>2. t \in Seq(Nat) /\ Len(t) = h + 1 /\ \A i \in 1 .. h + 1 : t[i] = i
    <3> HIDE DEF h
    <3>1. t \in Seq(Nat) /\ Len(t) = h + 1
      BY <1>3, <2>1
    <3>2. \A i \in 1 .. h + 1 : t[i] = IF i = h + 1 THEN h + 1 ELSE UpTo(h)[i]
      BY <1>3, <2>1
    <3>3. \A i \in 1 .. h + 1 : i # h + 1 => i \in 1 .. h
      BY <1>3
    <3> HIDE DEF t
    <3> QED
      BY <2>1, <3>1, <3>2, <3>3
  <2> HIDE DEF t, h
  <2>3. t = [i \in 1 .. h + 1 |-> i]
    BY <1>3, <2>2
  <2>4. handled' = t
    BY <1>2, <1>3, <1>8 DEF t
  <2> QED
    BY <2>2, <2>3, <2>4 DEF UpTo
<1>11. Found(q1.found, script, h + 1, j)
  <2> HIDE DEF h
  <2>1. Len(q1.found) = j - (h + 1)
    BY <1>3, <1>6, <1>7, <1>9
  <2>2. ASSUME NEW i \in 1 .. j - (h + 1)
        PROVE  Carries(q1.found[i], script[h + 1 + i], h + 1 + i)
    <3>1. i + 1 \in 1 .. j - h /\ h + (i + 1) = h + 1 + i /\ i \in 1 .. Len(frames) - 1
      BY <1>3, <1>6
    <3>2. Carries(frames[i + 1], script[h + (i + 1)], h + (i + 1))
      BY <1>6, <3>1
    <3> QED
      BY <1>7, <1>9, <3>1, <3>2
  <2> QED
    BY <2>1, <2>2 DEF Found
<1>12. Stands(q1, script, ending, j, o)
  BY <1>4, <1>9 DEF Stands, Between
<1>13. Reached(q1, script, ending, h + 1, Read)
  BY <1>4, <1>9, <1>11, <1>12 DEF Reached
<1>14. Reading'
  <2> HIDE DEF h
  <2>1. Read' = Read
    BY <1>2 DEF Read
  <2>2. Len(handled') \in Nat
    BY <1>3, <1>10
  <2> QED
    BY <1>2, <1>9, <1>10, <1>13, <2>1, <2>2 DEF Reading, UpTo
<1>15. WireIsRest'
  BY <1>1, <1>2 DEF WireIsRest, Read
<1> QED
  BY <1>1, <1>2, <1>14, <1>15 DEF CutInv

\* Every step keeps it.
LEMMA CutKeeps == IInv /\ CutInv /\ [Next]_vars => CutInv'
<1> SUFFICES ASSUME IInv, CutInv, [Next]_vars, reader' \in Codec PROVE CutInv'
  BY DEF CutInv
<1>0. reader' = reader
  BY DEF Next, Refused, Opened, ReadChunk, Breaks, Completes, HandleFrame, Emit, Listen,
         ListenedOut, Receive, Leave, chosen, vars
<1>1. reader \in Codec /\ reader # "subscription" /\ present \in BOOLEAN
      /\ phase \in {"asked", "reading", "ending", "over", "refused"}
  BY <1>0 DEF Codec, IInv, StreamInv, Phase
<1>2. CASE Refused
  <2>1. UNCHANGED <<reader, script, ending, wire>> /\ phase' = "refused"
    BY <1>2 DEF Refused, chosen
  <2> QED
    BY <2>1, CutUnmoved
<1>3. ASSUME NEW n \in 1 .. Len(wire), Opened(n) PROVE CutInv'
  BY <1>1, <1>3, CutOpens
<1>4. ASSUME NEW n \in 1 .. Len(wire), ReadChunk(n) PROVE CutInv'
  <2>1. CASE present
    BY <1>4, <2>1, CutReads
  <2>2. CASE ~present
    <3>1. UNCHANGED <<reader, script, ending, wire>> /\ phase' = "over"
      BY <1>4, <2>2 DEF ReadChunk, Gone, chosen
    <3> QED
      BY <3>1, CutUnmoved
  <2> QED
    BY <1>1, <2>1, <2>2
<1>5. CASE Breaks \/ Completes
  <2>1. UNCHANGED <<reader, script, ending, wire>> /\ phase' \in {"over", "ending"}
    BY <1>5 DEF Breaks, Completes, chosen
  <2> QED
    BY <2>1, CutUnmoved
<1>6. CASE HandleFrame
  <2>1. UNCHANGED <<reader, script, ending, wire>> /\ phase' \in {"reading", "ending"}
    BY <1>6 DEF HandleFrame, chosen
  <2> QED
    BY <1>6, <2>1, CutHandles, CutUnmoved
<1>7. CASE Emit
  <2>1. UNCHANGED <<reader, script, ending, wire, parser, handled>>
    BY <1>7 DEF Emit, chosen, accumulated
  <2>2. phase' = "over" \/ (phase' = phase /\ frames' = frames)
    BY <1>7 DEF Emit
  <2> QED
    BY <2>1, <2>2, CutUnmoved
<1>8. CASE Receive \/ Leave
  <2>1. UNCHANGED <<reader, script, ending, wire, parser, frames, handled, phase>>
    BY <1>1, <1>8 DEF Receive, Leave, chosen, accumulated
  <2> QED
    BY <2>1, CutUnmoved
<1>9. CASE (\E n \in 1 .. Len(wire) : Listen(n)) \/ ListenedOut
  BY <1>1, <1>9 DEF Listen, ListenedOut, Listening
<1>10. CASE UNCHANGED vars
  <2>1. UNCHANGED <<reader, script, ending, wire, parser, frames, handled, phase>>
    BY <1>10 DEF vars
  <2> QED
    BY <2>1, CutUnmoved
<1> QED
  BY <1>2, <1>3, <1>4, <1>5, <1>6, <1>7, <1>8, <1>9, <1>10 DEF Next

\* However the body is cut, the parser is where a parser that read it byte by byte would be.
THEOREM CutsDoNotMatter == Spec => []CutInv
<1>1. IInv /\ IInv' /\ CutInv /\ [Next]_vars => CutInv'
  BY CutKeeps
<1> QED
  BY <1>1, CutInitially, Inductive, PTL DEF Spec

\* What was handled and what the parser has found are the messages that have arrived.
LEMMA CutReturns == CutInv => FramesAreReturned
<1> SUFFICES ASSUME CutInv, reader \in Codec, phase = "reading"
             PROVE  handled \o Taken(frames) = UpTo(Arrived)
  BY DEF FramesAreReturned
<1> DEFINE h == Len(handled)
           q == ParserNow
<1>1. script \in Seq(Message) /\ ending \in LineEnd /\ Reading
  BY DEF CutInv
<1>2. h \in Nat /\ handled = UpTo(h) /\ Reached(q, script, ending, h, Read)
  BY <1>1 DEF Reading
<1>3. PICK j \in 0 .. Len(script), o \in Nat :
         /\ Read = StartOf(script, ending, j) + o
         /\ Stands(q, script, ending, j, o) /\ Found(q.found, script, h, j)
  BY <1>2 DEF Reached
<1>4. q.found = frames /\ frames \in Seq(Frame)
  BY <1>2 DEF Reached, Parser, ParserNow
<1>5. /\ Len(frames) = j - h /\ Len(frames) \in Nat
      /\ \A i \in 1 .. j - h : Carries(frames[i], script[h + i], h + i)
  BY <1>3, <1>4 DEF Found
<1> HIDE DEF h, q
<1>6. Arrived = j
  <2>1. IF j = Len(script) THEN o = 0 ELSE o < Size(script[j + 1], ending)
    BY <1>3 DEF Stands
  <2>2. {k \in 1 .. Len(script) : StartOf(script, ending, k) <= StartOf(script, ending, j) + o} = 1 .. j
    BY <1>1, <2>1, ArrivedAre
  <2>3. DOMAIN script = 1 .. Len(script)
    BY <1>1
  <2>4. Arrived = Cardinality(1 .. j)
    BY <1>3, <2>2, <2>3 DEF Arrived, StartOf
  <2>5. Cardinality(1 .. j) = j
    <3>1. 1 \in Int /\ j \in Int /\ j >= 0
      OBVIOUS
    <3> QED
      BY <3>1, FS_Interval
  <2> QED
    BY <2>4, <2>5
<1>7. \A i \in 1 .. j - h : frames[i].data[1].msg = h + i
  BY <1>5, FrameIsOf
<1> DEFINE t == Taken(frames)
<1>8. t = [i \in 1 .. j - h |-> h + i]
  <2>1. DOMAIN frames = 1 .. j - h
    BY <1>4, <1>5
  <2> QED
    BY <1>7, <2>1 DEF Taken
<1>9. t \in Seq(Nat) /\ Len(t) = j - h /\ \A i \in 1 .. j - h : t[i] = h + i
  BY <1>2, <1>5, <1>8
<1>10. /\ UpTo(h) \in Seq(Nat) /\ Len(UpTo(h)) = h /\ \A i \in 1 .. h : UpTo(h)[i] = i
  BY <1>2 DEF UpTo
<1> HIDE DEF t
<1> DEFINE u == UpTo(h) \o t
<1>11. u \in Seq(Nat) /\ Len(u) = j
       /\ \A i \in 1 .. j : u[i] = IF i <= h THEN UpTo(h)[i] ELSE t[i - h]
  BY <1>2, <1>5, <1>9, <1>10
<1>12. \A i \in 1 .. j : /\ i <= h => i \in 1 .. h
                         /\ ~(i <= h) => i - h \in 1 .. j - h /\ h + (i - h) = i
  BY <1>2, <1>5
<1> HIDE DEF u
<1>13. \A i \in 1 .. j : u[i] = i
  BY <1>9, <1>10, <1>11, <1>12
<1>14. u = [i \in 1 .. j |-> i]
  BY <1>11, <1>13
<1> QED
  BY <1>2, <1>6, <1>14 DEF UpTo, u, t

\* FramesAreReturned for every answer, every line ending and every way to cut the body
\* (the buffer of SseParser, kept from one feed to the next).
THEOREM FramesComeWhole == Spec => []FramesAreReturned
BY CutReturns, CutsDoNotMatter, PTL

-----------------------------------------------------------------------------
(* What is sent of what is expected.                                       *)

\* The events sent are among the first n expected, in order, and with every critical one of them.
Goes(f, sent, exp, n) ==
    /\ f \in [1 .. Len(sent) -> 1 .. n]
    /\ \A i, j \in 1 .. Len(sent) : i < j => f[i] < f[j]
    /\ \A i \in 1 .. Len(sent) : Same(sent[i], exp[f[i]])
    /\ \A p \in 1 .. n : exp[p].kind \in Critical => \E i \in 1 .. Len(sent) : f[i] = p
\* Some place among those expected for each event sent.
Passed(sent, exp, n) == \E f : Goes(f, sent, exp, n)

\* Nothing is expected yet.
LEMMA NonePassed ==
  ASSUME NEW exp PROVE Passed(<<>>, exp, 0)
<1> DEFINE f == [i \in 1 .. 0 |-> 1]
<1>1. Len(<<>>) = 0
  OBVIOUS
<1>2. Goes(f, <<>>, exp, 0)
  BY <1>1 DEF Goes
<1> QED
  BY <1>2 DEF Passed

\* What is expected may go on differently.
LEMMA PassedStays ==
  ASSUME NEW sent, NEW exp, NEW exq, NEW n \in Nat, Passed(sent, exp, n),
         \A p \in 1 .. n : exq[p] = exp[p]
  PROVE  Passed(sent, exq, n)
<1>1. PICK f : Goes(f, sent, exp, n)
  BY DEF Passed
<1>2. \A i \in 1 .. Len(sent) : f[i] \in 1 .. n
  BY <1>1 DEF Goes
<1>3. Goes(f, sent, exq, n)
  BY <1>1, <1>2 DEF Goes
<1> QED
  BY <1>3 DEF Passed

\* The next event is sent, or dropped.
LEMMA OnePassed ==
  ASSUME NEW sent \in Seq(Event), NEW exp, NEW n \in Nat, NEW e \in Event, Passed(sent, exp, n),
         Same(e, exp[n + 1])
  PROVE  Passed(Append(sent, e), exp, n + 1)
<1>1. PICK f : Goes(f, sent, exp, n)
  BY DEF Passed
<1> DEFINE t == Append(sent, e)
           l == Len(sent)
           g == [i \in 1 .. l + 1 |-> IF i = l + 1 THEN n + 1 ELSE f[i]]
<1>2. l \in Nat /\ Len(t) = l + 1 /\ t[l + 1] = e /\ \A i \in 1 .. l : t[i] = sent[i]
  OBVIOUS
<1>3. \A i \in 1 .. l : f[i] \in 1 .. n /\ g[i] = f[i]
  BY <1>1, <1>2 DEF Goes
<1>4. g[l + 1] = n + 1 /\ \A i \in 1 .. l + 1 : i # l + 1 => i \in 1 .. l
  BY <1>2
<1>5. g \in [1 .. l + 1 -> 1 .. n + 1]
  <2>1. \A i \in 1 .. l + 1 : (IF i = l + 1 THEN n + 1 ELSE f[i]) \in 1 .. n + 1
    <3> SUFFICES ASSUME NEW i \in 1 .. l + 1
                 PROVE  (IF i = l + 1 THEN n + 1 ELSE f[i]) \in 1 .. n + 1
      OBVIOUS
    <3>1. CASE i = l + 1
      BY <3>1
    <3>2. CASE i # l + 1
      <4>1. f[i] \in 1 .. n
        BY <1>3, <1>4, <3>2
      <4> QED
        BY <3>2, <4>1
    <3> QED
      BY <3>1, <3>2
  <2> QED
    BY <2>1
<1> HIDE DEF t, g
<1>6. \A i, j \in 1 .. l + 1 : i < j => g[i] < g[j]
  <2> SUFFICES ASSUME NEW i \in 1 .. l + 1, NEW j \in 1 .. l + 1, i < j PROVE g[i] < g[j]
    OBVIOUS
  <2>1. i \in 1 .. l
    BY <1>2
  <2>2. CASE j = l + 1
    BY <1>3, <1>4, <2>1, <2>2
  <2>3. CASE j # l + 1
    <3>1. j \in 1 .. l
      BY <1>4, <2>3
    <3>2. f[i] < f[j]
      BY <1>1, <2>1, <3>1 DEF Goes
    <3> QED
      BY <1>3, <2>1, <3>1, <3>2
  <2> QED
    BY <2>2, <2>3
<1>7. \A i \in 1 .. l + 1 : Same(t[i], exp[g[i]])
  <2> SUFFICES ASSUME NEW i \in 1 .. l + 1 PROVE Same(t[i], exp[g[i]])
    OBVIOUS
  <2>1. CASE i = l + 1
    BY <1>2, <1>4, <2>1
  <2>2. CASE i # l + 1
    <3>1. i \in 1 .. l
      BY <1>4, <2>2
    <3>2. Same(sent[i], exp[f[i]])
      BY <1>1, <3>1 DEF Goes
    <3> QED
      BY <1>2, <1>3, <3>1, <3>2
  <2> QED
    BY <2>1, <2>2
<1>8. ASSUME NEW p \in 1 .. n + 1, exp[p].kind \in Critical PROVE \E i \in 1 .. l + 1 : g[i] = p
  <2>1. CASE p = n + 1
    BY <1>2, <1>4, <2>1
  <2>2. CASE p # n + 1
    <3>1. p \in 1 .. n
      BY <2>2
    <3>2. PICK i \in 1 .. l : f[i] = p
      BY <1>1, <1>8, <3>1 DEF Goes
    <3>3. i \in 1 .. l + 1 /\ g[i] = p
      BY <1>2, <1>3, <3>2
    <3> QED
      BY <3>3
  <2> QED
    BY <2>1, <2>2
<1>9. Goes(g, t, exp, n + 1)
  <2> HIDE DEF l
  <2> QED
    BY <1>2, <1>5, <1>6, <1>7, <1>8 DEF Goes
<1> QED
  BY <1>9 DEF Passed, t

\* What is not critical may be dropped.
LEMMA OneDropped ==
  ASSUME NEW sent, NEW exp, NEW n \in Nat, Passed(sent, exp, n), exp[n + 1].kind \notin Critical
  PROVE  Passed(sent, exp, n + 1)
<1>1. PICK f : Goes(f, sent, exp, n)
  BY DEF Passed
<1>2. f \in [1 .. Len(sent) -> 1 .. n + 1]
  BY <1>1 DEF Goes
<1>3. \A p \in 1 .. n + 1 : p # n + 1 => p \in 1 .. n
  OBVIOUS
<1>4. \A p \in 1 .. n + 1 : exp[p].kind \in Critical => \E i \in 1 .. Len(sent) : f[i] = p
  BY <1>1, <1>3 DEF Goes
<1>5. Goes(f, sent, exp, n + 1)
  BY <1>1, <1>2, <1>4 DEF Goes
<1> QED
  BY <1>5 DEF Passed

\* What waits to be emitted is the end of what is expected.
Waiting(out1, exp, n) ==
    /\ Len(exp) = n + Len(out1)
    /\ \A i \in 1 .. Len(out1) : Same(out1[i], exp[n + i])

\* All that was expected is sent, or dropped and counted.
LEMMA AllPassed ==
  ASSUME NEW sent \in Seq(Event), NEW q \in Seq(Event), NEW exp, NEW n \in Nat,
         Passed(sent, exp, n), Waiting(q, exp, n)
  PROVE  Passed(sent \o q, exp, Len(exp))
<1> DEFINE Q(k) == SubSeq(q, 1, k)
           S == {k \in 0 .. Len(q) : Passed(sent \o Q(k), exp, n + k)}
<1>1. 0 \in S
  <2>1. Q(0) = <<>> /\ sent \o <<>> = sent /\ n + 0 = n
    OBVIOUS
  <2>2. 0 \in 0 .. Len(q)
    OBVIOUS
  <2> HIDE DEF Q
  <2>3. Passed(sent \o Q(0), exp, n + 0)
    BY <2>1
  <2> QED
    BY <2>2, <2>3
<1>2. ASSUME NEW k \in 0 .. Len(q) - 1, k \in S PROVE k + 1 \in S
  <2>1. k \in Nat /\ k + 1 \in 1 .. Len(q) /\ k + 1 \in 0 .. Len(q) /\ n + k \in Nat /\ (n + k) + 1 = n + (k + 1)
    OBVIOUS
  <2>2. Q(k) \in Seq(Event) /\ sent \o Q(k) \in Seq(Event) /\ q[k + 1] \in Event
    BY <2>1
  <2>3. Q(k + 1) = Append(Q(k), q[k + 1])
    <3> DEFINE a == Q(k + 1)
               b == Append(Q(k), q[k + 1])
    <3>1. a \in Seq(Event) /\ Len(a) = k + 1 /\ \A i \in 1 .. k + 1 : a[i] = q[i]
      BY <2>1
    <3>2. b \in Seq(Event) /\ Len(b) = k + 1
      BY <2>1
    <3>3. \A i \in 1 .. k + 1 : b[i] = q[i]
      BY <2>1
    <3> HIDE DEF a, b
    <3>4. a = b
      BY <3>1, <3>2, <3>3
    <3> QED
      BY <3>4 DEF a, b
  <2>4. sent \o Append(Q(k), q[k + 1]) = Append(sent \o Q(k), q[k + 1])
    <3> DEFINE w == Q(k)
    <3> HIDE DEF w
    <3>1. w \in Seq(Event)
      BY <2>2 DEF w
    <3>2. sent \o Append(w, q[k + 1]) = Append(sent \o w, q[k + 1])
      BY <2>2, <3>1
    <3> QED
      BY <3>2 DEF w
  <2>5. Same(q[k + 1], exp[(n + k) + 1])
    BY <2>1 DEF Waiting
  <2>6. Passed(sent \o Q(k), exp, n + k)
    BY <1>2
  <2> HIDE DEF Q
  <2>7. Passed(Append(sent \o Q(k), q[k + 1]), exp, (n + k) + 1)
    BY <2>1, <2>2, <2>5, <2>6, OnePassed
  <2>8. Passed(sent \o Q(k + 1), exp, n + (k + 1))
    BY <2>1, <2>3, <2>4, <2>7
  <2> QED
    BY <2>1, <2>8
<1>3. Len(q) \in S
  <2> HIDE DEF S
  <2>1. Len(q) \in Nat
    OBVIOUS
  <2>2. 0 .. Len(q) \subseteq S
    BY <1>1, <1>2, <2>1, Induction
  <2> QED
    BY <2>1, <2>2
<1>4. Q(Len(q)) = q
  OBVIOUS
<1> QED
  BY <1>3, <1>4 DEF Waiting

-----------------------------------------------------------------------------
(* Chunks that are text or thoughts, and those that are neither.           *)

\* Chunks of which some are text, or thinking.
Speak(c, text, thought) ==
    IsSeq(c) /\ (Has(c, "TextDelta") <=> text) /\ (Has(c, "ThinkingDelta") <=> thought)

\* What two lists of chunks have, one behind the other, and what they say.
LEMMA HasBoth ==
  ASSUME NEW a, NEW b, IsSeq(a), IsSeq(b), NEW x
  PROVE  IsSeq(a \o b) /\ (Has(a \o b, x) <=> Has(a, x) \/ Has(b, x))
<1>1. PICK S : a \in Seq(S)
  BY DEF IsSeq
<1>2. PICK T : b \in Seq(T)
  BY DEF IsSeq
<1> DEFINE U == S \cup T
           c == a \o b
<1>3. a \in Seq(U) /\ b \in Seq(U)
  BY <1>1, <1>2
<1> HIDE DEF U
<1>4. /\ c \in Seq(U) /\ Len(c) = Len(a) + Len(b) /\ Len(a) \in Nat /\ Len(b) \in Nat
      /\ DOMAIN a = 1 .. Len(a) /\ DOMAIN b = 1 .. Len(b) /\ DOMAIN c = 1 .. Len(a) + Len(b)
  BY <1>3
<1>5. \A i \in 1 .. Len(a) : c[i] = a[i] /\ i \in DOMAIN c
  BY <1>3
<1>6. \A i \in 1 .. Len(b) : c[Len(a) + i] = b[i] /\ Len(a) + i \in DOMAIN c
  BY <1>3
<1>7. \A i \in DOMAIN c : i \notin 1 .. Len(a) => i - Len(a) \in 1 .. Len(b) /\ i = Len(a) + (i - Len(a))
  BY <1>4
<1>8. Has(a, x) => Has(c, x)
  BY <1>4, <1>5 DEF Has
<1>9. Has(b, x) => Has(c, x)
  BY <1>4, <1>6 DEF Has
<1>10. ASSUME Has(c, x), ~Has(a, x) PROVE Has(b, x)
  <2>1. PICK i \in DOMAIN c : c[i].kind = x
    BY <1>10 DEF Has
  <2>2. i \notin 1 .. Len(a)
    BY <1>4, <1>5, <1>10, <2>1 DEF Has
  <2>3. i - Len(a) \in 1 .. Len(b) /\ b[i - Len(a)].kind = x
    BY <1>6, <1>7, <2>1, <2>2
  <2> QED
    BY <1>4, <2>3 DEF Has
<1>11. IsSeq(c)
  BY <1>4 DEF IsSeq
<1> QED
  BY <1>8, <1>9, <1>10, <1>11

\* Two lists of chunks say what each says.
LEMMA SpeakBoth ==
  ASSUME NEW a, NEW b, NEW t, NEW h, NEW u, NEW g, Speak(a, t, h), Speak(b, u, g)
  PROVE  Speak(a \o b, t \/ u, h \/ g)
<1>1. /\ IsSeq(a) /\ (Has(a, "TextDelta") <=> t) /\ (Has(a, "ThinkingDelta") <=> h)
      /\ IsSeq(b) /\ (Has(b, "TextDelta") <=> u) /\ (Has(b, "ThinkingDelta") <=> g)
  BY Zenon DEF Speak
<1>2. IsSeq(a \o b) /\ (Has(a \o b, "TextDelta") <=> Has(a, "TextDelta") \/ Has(b, "TextDelta"))
      /\ (Has(a \o b, "ThinkingDelta") <=> Has(a, "ThinkingDelta") \/ Has(b, "ThinkingDelta"))
  BY <1>1, HasBoth
<1> QED
  BY <1>1, <1>2, Zenon DEF Speak

\* Chunks that say nothing add nothing.
LEMMA SpeakThenMute ==
  ASSUME NEW a, NEW b, NEW t, NEW h, Speak(a, t, h), Speak(b, FALSE, FALSE)
  PROVE  Speak(a \o b, t, h)
<1>1. /\ IsSeq(a) /\ (Has(a, "TextDelta") <=> t) /\ (Has(a, "ThinkingDelta") <=> h)
      /\ IsSeq(b) /\ ~Has(b, "TextDelta") /\ (Has(b, "ThinkingDelta") <=> FALSE)
  BY Zenon DEF Speak
<1>2. IsSeq(a \o b) /\ (Has(a \o b, "TextDelta") <=> Has(a, "TextDelta") \/ Has(b, "TextDelta"))
      /\ (Has(a \o b, "ThinkingDelta") <=> Has(a, "ThinkingDelta") \/ Has(b, "ThinkingDelta"))
  BY <1>1, HasBoth
<1> QED
  BY <1>1, <1>2, Zenon DEF Speak

\* Text, and thoughts behind it.
LEMMA SpeakThenThink ==
  ASSUME NEW a, NEW b, NEW t, NEW h, Speak(a, t, FALSE), Speak(b, FALSE, h)
  PROVE  Speak(a \o b, t, h)
<1>1. /\ IsSeq(a) /\ (Has(a, "TextDelta") <=> t) /\ (Has(a, "ThinkingDelta") <=> FALSE)
      /\ IsSeq(b) /\ ~Has(b, "TextDelta") /\ (Has(b, "ThinkingDelta") <=> h)
  BY Zenon DEF Speak
<1>2. IsSeq(a \o b) /\ (Has(a \o b, "TextDelta") <=> Has(a, "TextDelta") \/ Has(b, "TextDelta"))
      /\ (Has(a \o b, "ThinkingDelta") <=> Has(a, "ThinkingDelta") \/ Has(b, "ThinkingDelta"))
  BY <1>1, HasBoth
<1> QED
  BY <1>1, <1>2, Zenon DEF Speak

\* Chunks that are all of one kind.
LEMMA OfOneKind ==
  ASSUME NEW n \in Nat, NEW c, DOMAIN c = 1 .. n, IsSeq(c), NEW kind,
         \A i \in 1 .. n : c[i].kind = kind
  PROVE  Speak(c, n > 0 /\ kind = "TextDelta", n > 0 /\ kind = "ThinkingDelta")
<1>1. ASSUME NEW x PROVE Has(c, x) <=> n > 0 /\ kind = x
  <2>1. n > 0 => 1 \in DOMAIN c
    OBVIOUS
  <2>2. \A i \in DOMAIN c : n > 0
    OBVIOUS
  <2> QED
    BY <2>1, <2>2 DEF Has
<1> QED
  BY <1>1 DEF Speak

\* A function from 1 to n is a sequence.
LEMMA FunctionIsSeq ==
  ASSUME NEW n \in Nat, NEW c, c = [i \in 1 .. n |-> c[i]]
  PROVE  IsSeq(c)
<1> DEFINE S == {c[i] : i \in 1 .. n}
<1>1. c \in [1 .. n -> S]
  OBVIOUS
<1>2. c \in Seq(S)
  <2> HIDE DEF S
  <2> QED
    BY <1>1
<1> QED
  BY <1>2 DEF IsSeq

\* One chunk.
LEMMA SpeakOne ==
  ASSUME NEW kind
  PROVE  Speak(<<Chunk(kind)>>, kind = "TextDelta", kind = "ThinkingDelta")
<1> DEFINE e == Chunk(kind)
           c == <<e>>
<1>1. IsSeq(c) /\ c[1] = e
  BY OneIs
<1>2. c \in Seq({e}) /\ Len(c) = 1
  OBVIOUS
<1>3. DOMAIN c = 1 .. 1
  BY <1>2
<1>4. c[1].kind = kind
  BY <1>1 DEF Chunk
<1> HIDE DEF c
<1> QED
  BY <1>1, <1>3, <1>4 DEF Speak, Has, c

\* One chunk that is neither text nor thought.
LEMMA MuteOne ==
  ASSUME NEW kind, kind \notin {"TextDelta", "ThinkingDelta"}
  PROVE  Speak(<<Chunk(kind)>>, FALSE, FALSE)
BY SpeakOne DEF Speak

\* No chunk.
LEMMA MuteNone == Speak(<<>>, FALSE, FALSE)
BY EmptyIs DEF Speak, Has

\* The chunks of the parts of a message.
LEMMA SpeakPieces ==
  ASSUME NEW m \in Message
  PROVE  /\ Speak(Texts(m), m.text > 0, FALSE)
         /\ Speak(Thinking(m), FALSE, m.thinking)
         /\ Speak(Done(m), FALSE, FALSE) /\ Speak(Usage(m), FALSE, FALSE)
<1>1. m.text \in Nat /\ m.thinking \in BOOLEAN
  BY DEF Message
<1>2. Speak(Texts(m), m.text > 0, FALSE)
  <2> DEFINE c == Texts(m)
             n == m.text
  <2>1. c = [i \in 1 .. n |-> Chunk("TextDelta")]
    BY DEF Texts
  <2> HIDE DEF c, n
  <2>2. n \in Nat
    BY <1>1 DEF n
  <2>3. DOMAIN c = 1 .. n /\ \A i \in 1 .. n : c[i] = Chunk("TextDelta")
    BY <2>1
  <2>5. c = [i \in 1 .. n |-> c[i]]
    BY <2>1
  <2>6. IsSeq(c)
    BY <2>2, <2>5, FunctionIsSeq
  <2>7. \A i \in 1 .. n : c[i].kind = "TextDelta"
    <3>1. Chunk("TextDelta").kind = "TextDelta"
      BY DEF Chunk
    <3> QED
      BY <2>3, <3>1
  <2>4. Speak(c, n > 0 /\ "TextDelta" = "TextDelta", n > 0 /\ "TextDelta" = "ThinkingDelta")
    BY <2>2, <2>3, <2>6, <2>7, OfOneKind
  <2> QED
    BY <2>4 DEF Speak, c, n
<1>3. Speak(Thinking(m), FALSE, m.thinking)
  <2>1. CASE m.thinking
    BY <2>1, SpeakOne DEF Thinking, Speak
  <2>2. CASE ~m.thinking
    BY <2>2, MuteNone DEF Thinking, Speak
  <2> QED
    BY <2>1, <2>2
<1>4. Speak(Done(m), FALSE, FALSE)
  BY MuteOne, MuteNone DEF Done
<1>5. Speak(Usage(m), FALSE, FALSE)
  BY MuteOne, MuteNone DEF Usage
<1> QED
  BY <1>2, <1>3, <1>4, <1>5

\* Fragments of calls say nothing.
LEMMA SpeakDeltas ==
  ASSUME NEW n \in Nat, NEW ds, DOMAIN ds = 1 .. n
  PROVE  Speak(Deltas(ds), FALSE, FALSE)
<1> DEFINE c == Deltas(ds)
<1>1. c = [i \in 1 .. n |-> [Chunk("ToolCallDelta") EXCEPT !.delta = ds[i]]]
  BY DEF Deltas
<1>2. \A i \in 1 .. n : c[i].kind = "ToolCallDelta"
  BY <1>1 DEF Chunk
<1> HIDE DEF c
<1>3. DOMAIN c = 1 .. n /\ c = [i \in 1 .. n |-> c[i]]
  BY <1>1
<1>4. IsSeq(c)
  BY <1>3, FunctionIsSeq
<1>5. Speak(c, n > 0 /\ "ToolCallDelta" = "TextDelta", n > 0 /\ "ToolCallDelta" = "ThinkingDelta")
  BY <1>2, <1>3, <1>4, OfOneKind
<1> QED
  BY <1>5 DEF Speak, c

-----------------------------------------------------------------------------
(* The decoders, and the tokens of a frame.                                *)

\* What a frame decodes to speaks as its message does.
LEMMA OpenAISpeaks ==
  ASSUME NEW m \in Message, Speaks("openai", m)
  PROVE  Speak(OpenAI(m), m.text > 0, m.thinking)
<1>0. m.thinking \in BOOLEAN /\ m.calls \in Seq(Delta)
  BY DEF Message
<1>1. CASE m.kind = "[DONE]"
  <2>1. ~(m.text > 0) /\ ~m.thinking
    BY <1>1 DEF Speaks
  <2>2. OpenAI(m) = <<Chunk("Done")>>
    BY <1>1 DEF OpenAI
  <2>3. Speak(<<Chunk("Done")>>, FALSE, FALSE)
    BY MuteOne
  <2> QED
    BY <2>1, <2>2, <2>3 DEF Speak
<1>2. CASE m.kind # "[DONE]"
  <2> DEFINE a == Texts(m)
             b == Thinking(m)
             c == Deltas(m.calls)
             d == Done(m)
             u == Usage(m)
             x == m.text > 0
             y == m.thinking
  <2>1. OpenAI(m) = (((a \o b) \o c) \o d) \o u
    BY <1>2 DEF OpenAI
  <2>2. Speak(a, x, FALSE) /\ Speak(b, FALSE, y) /\ Speak(d, FALSE, FALSE) /\ Speak(u, FALSE, FALSE)
    BY SpeakPieces
  <2>3. Speak(c, FALSE, FALSE)
    <3>1. Len(m.calls) \in Nat /\ DOMAIN m.calls = 1 .. Len(m.calls)
      BY <1>0
    <3> QED
      BY <3>1, SpeakDeltas
  <2> HIDE DEF a, b, c, d, u, x, y
  <2>4. Speak(a \o b, x, y)
    BY <2>2, SpeakThenThink
  <2>5. Speak((a \o b) \o c, x, y)
    BY <2>3, <2>4, SpeakThenMute
  <2>6. Speak(((a \o b) \o c) \o d, x, y)
    BY <2>2, <2>5, SpeakThenMute
  <2>7. Speak((((a \o b) \o c) \o d) \o u, x, y)
    BY <2>2, <2>6, SpeakThenMute
  <2>8. Speak(OpenAI(m), x, y)
    BY <2>1, <2>7
  <2> QED
    BY <2>8 DEF x, y
<1> QED
  BY <1>1, <1>2

\* A kind of its own for what is said.
LEMMA AnthropicSpeaks ==
  ASSUME NEW m \in Message, Speaks("anthropic", m)
  PROVE  Speak(Anthropic(m), m.text > 0, m.thinking)
<1>0. m.thinking \in BOOLEAN /\ m.calls \in Seq(Delta)
  BY DEF Message
<1>1. Speak(Deltas(m.calls), FALSE, FALSE)
  <2>1. Len(m.calls) \in Nat /\ DOMAIN m.calls = 1 .. Len(m.calls)
    BY <1>0
  <2> QED
    BY <2>1, SpeakDeltas
<1>2. CASE m.kind = "content_block_delta"
  <2> DEFINE a == Texts(m)
             b == Thinking(m)
             c == Deltas(m.calls)
             x == m.text > 0
             y == m.thinking
  <2>1. Anthropic(m) = (a \o c) \o b
    BY <1>2 DEF Anthropic
  <2>2. Speak(a, x, FALSE) /\ Speak(b, FALSE, y) /\ Speak(c, FALSE, FALSE)
    BY <1>1, SpeakPieces
  <2> HIDE DEF a, b, c, x, y
  <2>3. Speak(a \o c, x, FALSE)
    BY <2>2, SpeakThenMute
  <2>4. Speak((a \o c) \o b, x, y)
    BY <2>2, <2>3, SpeakThenThink
  <2>5. Speak(Anthropic(m), x, y)
    BY <2>1, <2>4
  <2> QED
    BY <2>5 DEF x, y
<1>3. CASE m.kind # "content_block_delta"
  <2>1. ~(m.text > 0) /\ ~m.thinking
    BY <1>3 DEF Speaks
  <2>2. Speak(Anthropic(m), FALSE, FALSE)
    <3>1. CASE m.kind = "message_start"
      <4>1. Anthropic(m) = <<Chunk("InputTokens")>> \/ Anthropic(m) = <<>>
        BY <3>1 DEF Anthropic
      <4> QED
        BY <4>1, MuteOne, MuteNone
    <3>2. CASE m.kind = "content_block_start"
      <4>1. Anthropic(m) = Deltas(m.calls)
        BY <3>2 DEF Anthropic
      <4> QED
        BY <1>1, <4>1
    <3>3. CASE m.kind = "message_delta"
      <4>1. \/ Anthropic(m) = <<Chunk("OutputTokens")>> \o <<Chunk("Done")>>
            \/ Anthropic(m) = <<>> \o <<Chunk("Done")>>
        BY <3>3 DEF Anthropic
      <4>2. Speak(<<Chunk("Done")>>, FALSE, FALSE) /\ Speak(<<>>, FALSE, FALSE)
            /\ Speak(<<Chunk("OutputTokens")>>, FALSE, FALSE)
        BY MuteOne, MuteNone
      <4> QED
        BY <4>1, <4>2, SpeakThenMute
    <3>4. CASE m.kind \notin {"message_start", "content_block_start", "message_delta"}
      <4>1. Anthropic(m) = <<>>
        BY <1>3, <3>4 DEF Anthropic
      <4> QED
        BY <4>1, MuteNone
    <3> QED
      BY <3>1, <3>2, <3>3, <3>4
  <2> QED
    BY <2>1, <2>2 DEF Speak
<1> QED
  BY <1>2, <1>3

\* What is said stands in parts.
LEMMA GoogleSpeaks ==
  ASSUME NEW m \in Message, Speaks("google", m)
  PROVE  Speak(Google(m), m.text > 0, m.thinking)
<1>0. m.thinking \in BOOLEAN /\ m.calls \in Seq(Delta) /\ m.text \in Nat
  BY DEF Message
<1> DEFINE ds == [i \in DOMAIN m.calls |->
                     [m.calls[i] EXCEPT !.index = i - 1, !.id = m.calls[i].name]]
           a == Texts(m)
           c == Deltas(ds)
           d == Done(m)
           u == Usage(m)
           x == m.text > 0
           content == (a \o c) \o d
<1>1. Speak(c, FALSE, FALSE)
  <2>1. Len(m.calls) \in Nat /\ DOMAIN ds = 1 .. Len(m.calls)
    BY <1>0
  <2> HIDE DEF ds
  <2> QED
    BY <2>1, SpeakDeltas
<1>2. Speak(a, x, FALSE) /\ Speak(d, FALSE, FALSE) /\ Speak(u, FALSE, FALSE)
  BY SpeakPieces
<1>3. Google(m) = IF m.parts /\ content # <<>> THEN content ELSE u
  BY DEF Google
<1>4. (x => m.parts) /\ ~m.thinking
  BY <1>0 DEF Speaks
<1> HIDE DEF a, c, d, u, x, content
<1>5. Speak(a \o c, x, FALSE)
  BY <1>1, <1>2, SpeakThenMute
<1>6. Speak((a \o c) \o d, x, FALSE)
  BY <1>2, <1>5, SpeakThenMute
<1>7. Speak(content, x, FALSE)
  BY <1>6 DEF content
<1>8. x => content # <<>>
  <2>1. ~Has(<<>>, "TextDelta")
    BY MuteNone DEF Speak
  <2> QED
    BY <1>7, <2>1 DEF Speak
<1>9. Speak(Google(m), x, FALSE)
  <2>1. CASE m.parts /\ content # <<>>
    BY <1>3, <1>7, <2>1
  <2>2. CASE ~(m.parts /\ content # <<>>)
    <3>1. ~x /\ Google(m) = u
      BY <1>3, <1>4, <1>8, <2>2
    <3> QED
      BY <1>2, <3>1, Zenon DEF Speak
  <2> QED
    BY <2>1, <2>2
<1> QED
  BY <1>4, <1>9, Zenon DEF x, Speak

\* Whichever decoder it is.
LEMMA DecodeSpeaks ==
  ASSUME reader \in Codec, NEW m \in Message, Speaks(reader, m)
  PROVE  Speak(Decode(m), m.text > 0, m.thinking)
<1>1. CASE reader = "openai"
  <2>1. Speaks("openai", m) /\ Decode(m) = OpenAI(m)
    BY <1>1 DEF Decode
  <2> QED
    BY <2>1, OpenAISpeaks
<1>2. CASE reader = "anthropic"
  <2>1. Speaks("anthropic", m) /\ Decode(m) = Anthropic(m)
    BY <1>2 DEF Decode
  <2> QED
    BY <2>1, AnthropicSpeaks
<1>3. CASE reader = "google"
  <2>1. Speaks("google", m) /\ Decode(m) = Google(m)
    BY <1>3 DEF Decode
  <2> QED
    BY <2>1, GoogleSpeaks
<1> QED
  BY <1>1, <1>2, <1>3 DEF Codec

\* Two lists of events that say the same.
Alikes(a, b) ==
    a \in Seq(Event) /\ b \in Seq(Event) /\ Len(a) = Len(b) /\ \A i \in 1 .. Len(b) : Same(a[i], b[i])

\* Lists of none, of one, and one behind the other.
LEMMA AlikeNone == Alikes(<<>>, <<>>)
BY DEF Alikes

\* One event.
LEMMA AlikeOne ==
  ASSUME NEW e \in Event, NEW f \in Event, Same(e, f)
  PROVE  Alikes(<<e>>, <<f>>)
BY DEF Alikes

\* Two lists, one behind the other.
LEMMA AlikeBoth ==
  ASSUME NEW a, NEW b, NEW c, NEW d, Alikes(a, b), Alikes(c, d)
  PROVE  Alikes(a \o c, b \o d)
<1>1. /\ a \in Seq(Event) /\ b \in Seq(Event) /\ Len(a) = Len(b) /\ Len(b) \in Nat
      /\ c \in Seq(Event) /\ d \in Seq(Event) /\ Len(c) = Len(d) /\ Len(d) \in Nat
      /\ \A i \in 1 .. Len(b) : Same(a[i], b[i])
      /\ \A i \in 1 .. Len(d) : Same(c[i], d[i])
  BY DEF Alikes
<1> DEFINE v == a \o c
           w == b \o d
<1>2. /\ v \in Seq(Event) /\ w \in Seq(Event) /\ Len(v) = Len(b) + Len(d) /\ Len(w) = Len(b) + Len(d)
      /\ \A i \in 1 .. Len(b) + Len(d) : v[i] = IF i <= Len(b) THEN a[i] ELSE c[i - Len(b)]
      /\ \A i \in 1 .. Len(b) + Len(d) : w[i] = IF i <= Len(b) THEN b[i] ELSE d[i - Len(b)]
  <2>1. v \in Seq(Event) /\ w \in Seq(Event) /\ Len(v) = Len(b) + Len(d) /\ Len(w) = Len(b) + Len(d)
    <3>0. a \in Seq(Event) /\ b \in Seq(Event) /\ c \in Seq(Event) /\ d \in Seq(Event)
      BY <1>1
    <3>1. v \in Seq(Event) /\ Len(v) = Len(a) + Len(c)
      BY <3>0
    <3>2. w \in Seq(Event) /\ Len(w) = Len(b) + Len(d)
      BY <3>0
    <3> HIDE DEF v, w
    <3> QED
      BY <1>1, <3>1, <3>2
  <2>2. \A i \in 1 .. Len(b) + Len(d) : v[i] = IF i <= Len(b) THEN a[i] ELSE c[i - Len(b)]
    BY <1>1
  <2>3. \A i \in 1 .. Len(b) + Len(d) : w[i] = IF i <= Len(b) THEN b[i] ELSE d[i - Len(b)]
    BY <1>1
  <2> QED
    BY <2>1, <2>2, <2>3
<1>3. \A i \in 1 .. Len(b) + Len(d) : /\ i <= Len(b) => i \in 1 .. Len(b)
                                      /\ ~(i <= Len(b)) => i - Len(b) \in 1 .. Len(d)
  BY <1>1
<1> HIDE DEF v, w
<1>4. \A i \in 1 .. Len(b) + Len(d) : Same(v[i], w[i])
  BY <1>1, <1>2, <1>3
<1>5. Alikes(v, w)
  BY <1>2, <1>4 DEF Alikes
<1> QED
  BY <1>5 DEF v, w

\* What handle_frame keeps of a message: its last text, and its thoughts.
Uttered(k) ==
    (IF script[k].text > 0 THEN <<Word(k, script[k].text)>> ELSE <<>>)
    \o (IF script[k].thinking THEN <<[Ev("ThinkingDelta") EXCEPT !.msg = k]>> ELSE <<>>)

\* A frame is told as handle_frame keeps it.
LEMMA TokensSay ==
  ASSUME NEW k \in Nat, script[k] \in Message, NEW chunks, NEW intact \in BOOLEAN,
         Speak(chunks, script[k].text > 0, script[k].thinking)
  PROVE  Alikes(Tokens(chunks, k, intact), Uttered(k))
<1> DEFINE E(kind, part) == [kind |-> kind, msg |-> k, part |-> part, intact |-> intact]
           F(kind) == [Ev(kind) EXCEPT !.msg = k]
           n == script[k].text
           W == Word(k, n)
<1>1. n \in Nat /\ script[k].thinking \in BOOLEAN
  BY DEF Message
<1>2. /\ Has(chunks, "TextDelta") <=> n > 0
      /\ Has(chunks, "ThinkingDelta") <=> script[k].thinking
  BY DEF Speak
<1>3. /\ E("Token", n) \in Event /\ W \in Event /\ Same(E("Token", n), W)
      /\ E("ThinkingDelta", 0) \in Event /\ F("ThinkingDelta") \in Event
      /\ Same(E("ThinkingDelta", 0), F("ThinkingDelta"))
  BY <1>1 DEF Event, Ev, Same, Word
<1> DEFINE a == IF Has(chunks, "TextDelta") THEN <<E("Token", n)>> ELSE <<>>
           b == IF n > 0 THEN <<W>> ELSE <<>>
           c == IF Has(chunks, "ThinkingDelta") THEN <<E("ThinkingDelta", 0)>> ELSE <<>>
           d == IF script[k].thinking THEN <<F("ThinkingDelta")>> ELSE <<>>
<1>4. Tokens(chunks, k, intact) = a \o c /\ Uttered(k) = b \o d
  BY DEF Tokens, Uttered
<1> HIDE DEF E, F, W
<1>5. Alikes(a, b)
  <2>1. CASE n > 0
    BY <1>2, <1>3, <2>1, AlikeOne
  <2>2. CASE ~(n > 0)
    BY <1>2, <2>2, AlikeNone
  <2> QED
    BY <2>1, <2>2
<1>6. Alikes(c, d)
  <2>1. CASE script[k].thinking
    BY <1>2, <1>3, <2>1, AlikeOne
  <2>2. CASE ~script[k].thinking
    BY <1>2, <2>2, AlikeNone
  <2> QED
    BY <2>1, <2>2
<1> HIDE DEF a, b, c, d
<1> QED
  BY <1>4, <1>5, <1>6, AlikeBoth

-----------------------------------------------------------------------------
(* What a consumer is to be told.                                          *)

\* A frame carries its message, or none if that is no JSON.
LEMMA CarriedIs ==
  ASSUME script \in Seq(Message), NEW d, NEW k \in 1 .. Len(script),
         Payload(d, script[k], k, Full(script[k])), d \in Seq(Byte)
  PROVE  Carried(d) = IF script[k].kind = "broken" THEN 0 ELSE k
<1> DEFINE m == script[k]
           n == Full(m)
           js == Json(m, k)
<1>1. /\ m \in Message /\ k \in Nat /\ k # 0 /\ DOMAIN script = 1 .. Len(script)
      /\ n \in Nat /\ 1 \in 1 .. n
  BY DEF Full
<1>2. /\ DOMAIN d = 1 .. n /\ \A i \in 1 .. n : Alike(d[i], k, JsonSym(m, i))
  BY DEF Payload
<1>3. Len(js) = n /\ \A i \in 1 .. n : js[i].sym = JsonSym(m, i) /\ js[i].msg = k
  <2>1. Spells(js, k, n, JsonOf(m))
    BY <1>1, JsonSpells
  <2>2. Len(js) = n /\ \A i \in 1 .. n : js[i] = Sym(JsonSym(m, i), k)
    BY <2>1 DEF Spells, JsonOf
  <2> HIDE DEF js, n
  <2> QED
    BY <2>2 DEF Sym
<1> HIDE DEF m, n, js
<1>4. \A i \in 1 .. n : d[i].msg = k /\ Like(d[i], js[i]) /\ d[i].sym \notin Blank
  BY <1>2, <1>3, JsonIs DEF Alike, Like, Blank
<1>5. Ink(d) = 1 .. n
  BY <1>2, <1>4 DEF Ink
<1>6. \A i \in 0 .. n : Cardinality(1 .. i) = i
  <2> SUFFICES ASSUME NEW i \in 0 .. n PROVE Cardinality(1 .. i) = i
    OBVIOUS
  <2>1. i \in Int /\ i >= 0
    BY <1>1
  <2> QED
    BY <2>1, FS_Interval
<1>7. \A i \in 1 .. n : Cardinality({j \in Ink(d) : j <= i}) = i
  <2> SUFFICES ASSUME NEW i \in 1 .. n PROVE Cardinality({j \in Ink(d) : j <= i}) = i
    OBVIOUS
  <2>1. {j \in Ink(d) : j <= i} = 1 .. i
    BY <1>1, <1>5
  <2>2. i \in 0 .. n
    BY <1>1
  <2> QED
    BY <1>6, <2>1, <2>2
<1>8. Cardinality(Ink(d)) = n
  BY <1>1, <1>5, <1>6
<1>9. ASSUME NEW j \in DOMAIN script, IsJson(d, j) PROVE j = k
  <2> DEFINE w == Json(script[j], j)
  <2>1. script[j] \in Message /\ j \in Nat
    BY <1>1
  <2>2. Spells(w, j, Full(script[j]), JsonOf(script[j])) /\ 1 \in 1 .. Full(script[j])
    BY <2>1, JsonSpells DEF Full
  <2>3. w[1].msg = j
    BY <2>2 DEF Spells, Sym
  <2>4. Like(d[1], w[Cardinality({i \in Ink(d) : i <= 1})])
    BY <1>1, <1>5, <1>9 DEF IsJson
  <2>5. Like(d[1], w[1])
    BY <1>1, <1>7, <2>4
  <2>6. d[1].msg = j
    BY <2>3, <2>5 DEF Like
  <2> QED
    BY <1>1, <1>4, <2>6
<1>10. IsJson(d, k) <=> m.kind # "broken"
  <2>1. \A i \in Ink(d) : Like(d[i], js[Cardinality({j \in Ink(d) : j <= i})])
    BY <1>4, <1>5, <1>7
  <2>2. Cardinality(Ink(d)) = Len(js)
    BY <1>3, <1>8
  <2> QED
    BY <2>1, <2>2 DEF IsJson, m, js
<1>11. CASE m.kind = "broken"
  <2>1. ~ \E j \in DOMAIN script : IsJson(d, j)
    BY <1>9, <1>10, <1>11
  <2> QED
    BY <1>11, <2>1 DEF Carried, m
<1>12. CASE m.kind # "broken"
  <2>1. k \in DOMAIN script /\ IsJson(d, k)
    BY <1>1, <1>10, <1>12
  <2>2. Carried(d) \in DOMAIN script /\ IsJson(d, Carried(d))
    BY <2>1 DEF Carried
  <2> QED
    BY <1>9, <1>12, <2>2 DEF m
<1> QED
  BY <1>11, <1>12

\* What the messages handled say, behind the start of the stream.
Before(hs) == <<Ev("Start")>> \o FlattenSeq([i \in DOMAIN hs |-> Said(hs[i])])
\* How many texts of them were passed over.
Over(hs) == Len(FlattenSeq([i \in DOMAIN hs |-> PassedOver(hs[i])]))
\* What the consumer is to be told so far.
Expected == Before(handled) \o LastWord

\* The events of a stream.
LEMMA EventIs ==
  ASSUME NEW kind \in {"Start", "Token", "ThinkingDelta", "Error", "ResponseComplete"}
  PROVE  Ev(kind) \in Event /\ \A k \in Nat : [Ev(kind) EXCEPT !.msg = k] \in Event
BY DEF Ev, Event

\* The first event.
LEMMA StartIs == <<Ev("Start")>> \in Seq(Event)
<1>1. Ev("Start") \in Event
  BY EventIs
<1> QED
  BY <1>1

\* What a message says is what is passed over, which is not critical, and what is kept.
LEMMA SaidIs ==
  ASSUME script \in Seq(Message), NEW k \in DOMAIN script
  PROVE  /\ PassedOver(k) \in Seq(Event) /\ Uttered(k) \in Seq(Event)
         /\ Said(k) = PassedOver(k) \o Uttered(k) /\ Said(k) \in Seq(Event)
         /\ \A i \in 1 .. Len(PassedOver(k)) : PassedOver(k)[i].kind \notin Critical
<1> DEFINE n == script[k].text
           b == [Ev("ThinkingDelta") EXCEPT !.msg = k]
           t == [i \in 1 .. n |-> Word(k, i)]
           o == PassedOver(k)
           l == IF n > 0 THEN <<Word(k, n)>> ELSE <<>>
           w == IF script[k].thinking THEN <<b>> ELSE <<>>
<1>1. k \in Nat /\ n \in Nat
  <2>1. k \in Nat /\ script[k] \in Message
    OBVIOUS
  <2> QED
    BY <2>1 DEF Message
<1>2. b \in Event
  BY <1>1, EventIs
<1>3. \A i \in Nat : Word(k, i) \in Event /\ Word(k, i).kind \notin Critical
  BY <1>1 DEF Word, Ev, Event, Critical, Terminal
<1>4. Said(k) = t \o w /\ Uttered(k) = l \o w
  BY DEF Said, Uttered
<1>5. o = [i \in 1 .. n - 1 |-> Word(k, i)]
  BY DEF PassedOver
<1> HIDE DEF b, n, o
<1>6. w \in Seq(Event)
  BY <1>2
<1>7. \A i \in 1 .. n - 1 : i \in Nat
  BY <1>1
<1>8. t \in Seq(Event) /\ Len(t) = n
  <2>1. t \in [1 .. n -> Event]
    BY <1>1, <1>3
  <2> QED
    BY <1>1, <2>1
<1>9. CASE n = 0
  <2>1. o = <<>> /\ t = <<>> /\ l = <<>>
    BY <1>5, <1>9
  <2>2. <<>> \o w = w
    BY <1>6
  <2>3. \A i \in 1 .. Len(<<>>) : <<>>[i].kind \notin Critical
    OBVIOUS
  <2>4. <<>> \in Seq(Event)
    OBVIOUS
  <2> HIDE DEF w, t, l
  <2>5. Said(k) = w /\ Uttered(k) = w
    BY <1>4, <2>1, <2>2
  <2> QED
    BY <1>6, <2>1, <2>2, <2>3, <2>4, <2>5 DEF o
<1>10. CASE n # 0
  <2>1. n > 0 /\ n - 1 \in Nat
    BY <1>1, <1>10
  <2>2. o \in [1 .. n - 1 -> Event]
    BY <1>3, <1>5, <1>7
  <2>3. o \in Seq(Event) /\ Len(o) = n - 1
    BY <2>1, <2>2
  <2>4. \A i \in 1 .. Len(o) : o[i].kind \notin Critical
    BY <1>3, <1>5, <1>7, <2>3
  <2>5. l = <<Word(k, n)>> /\ l \in Seq(Event) /\ Len(l) = 1 /\ l[1] = Word(k, n)
    BY <1>1, <1>3, <2>1
  <2>6. \A i \in 1 .. n : t[i] = IF i <= n - 1 THEN o[i] ELSE l[i - (n - 1)]
    <3> HIDE DEF l
    <3> SUFFICES ASSUME NEW i \in 1 .. n PROVE t[i] = IF i <= n - 1 THEN o[i] ELSE l[i - (n - 1)]
      OBVIOUS
    <3>1. CASE i <= n - 1
      <4>1. i \in 1 .. n - 1
        BY <1>1, <3>1
      <4> QED
        BY <1>5, <3>1, <4>1
    <3>2. CASE ~(i <= n - 1)
      <4>1. i = n /\ i - (n - 1) = 1
        BY <1>1, <3>2
      <4> QED
        BY <2>5, <3>2, <4>1
    <3> QED
      BY <3>1, <3>2
  <2> HIDE DEF w, t, l
  <2>7. t = o \o l
    <3> DEFINE x == o \o l
    <3>1. x \in Seq(Event) /\ Len(x) = n
      BY <1>1, <2>3, <2>5
    <3>2. \A i \in 1 .. n : x[i] = IF i <= n - 1 THEN o[i] ELSE l[i - (n - 1)]
      BY <1>1, <2>3, <2>5
    <3> HIDE DEF x
    <3>3. \A i \in 1 .. n : x[i] = t[i]
      BY <2>6, <3>2
    <3>4. t = x
      BY <1>8, <3>1, <3>3
    <3> QED
      BY <3>4 DEF x
  <2>8. (o \o l) \o w = o \o (l \o w)
    BY <1>6, <2>3, <2>5
  <2>9. l \o w \in Seq(Event) /\ t \o w \in Seq(Event)
    BY <1>6, <1>8, <2>5
  <2> QED
    BY <1>4, <2>3, <2>4, <2>7, <2>8, <2>9 DEF o
<1> QED
  BY <1>1, <1>9, <1>10

\* What w has of each of hs.
Parts(hs, w) == [i \in DOMAIN hs |-> w[hs[i]]]
\* Put together it is events, and one message more brings its own.
LEMMA PartsFlat ==
  ASSUME NEW D, NEW w \in [D -> Seq(Event)], NEW hs \in Seq(D)
  PROVE  FlattenSeq(Parts(hs, w)) \in Seq(Event)
<1> DEFINE n == Len(hs)
<1>1. n \in Nat /\ DOMAIN hs = 1 .. n
  OBVIOUS
<1>2. Parts(hs, w) \in [1 .. n -> Seq(Event)]
  BY <1>1 DEF Parts
<1> HIDE DEF n
<1>3. CASE n = 0
  <2>1. Parts(hs, w) = <<>>
    BY <1>2, <1>3
  <2>2. FlattenSeq(<<>>) = <<>>
    BY DEF FlattenSeq
  <2>3. <<>> \in Seq(Event)
    OBVIOUS
  <2>4. FlattenSeq(Parts(hs, w)) = <<>>
    BY <2>1, <2>2
  <2> QED
    BY <2>3, <2>4
<1>4. CASE n # 0
  <2>1. PICK g : Joins(n, Parts(hs, w), Event, g) /\ FlattenSeq(Parts(hs, w)) = g[n]
    BY <1>1, <1>2, <1>4, Flattened
  <2>2. n \in 1 .. n
    BY <1>1, <1>4
  <2> QED
    BY <2>1, <2>2 DEF Joins
<1> QED
  BY <1>3, <1>4

\* One message more.
LEMMA PartsGrow ==
  ASSUME NEW D, NEW w \in [D -> Seq(Event)], NEW hs \in Seq(D), NEW k \in D
  PROVE  FlattenSeq(Parts(Append(hs, k), w)) = FlattenSeq(Parts(hs, w)) \o w[k]
<1> DEFINE n == Len(hs) + 1
           hk == Append(hs, k)
           v == Parts(hk, w)
<1>1. n \in Nat \ {0} /\ n - 1 = Len(hs) /\ DOMAIN hs = 1 .. n - 1 /\ hk \in Seq(D) /\ DOMAIN hk = 1 .. n
  OBVIOUS
<1>2. hk[n] = k /\ \A i \in 1 .. n - 1 : hk[i] = hs[i] /\ i \in 1 .. n
  OBVIOUS
<1>3. n \in 1 .. n
  BY <1>1
<1> HIDE DEF n, hk
<1>4. v \in [1 .. n -> Seq(Event)]
  <2>1. \A i \in 1 .. n : hk[i] \in D
    BY <1>1
  <2> QED
    BY <1>1, <2>1 DEF Parts
<1>5. v[n] = w[k]
  BY <1>1, <1>2, <1>3 DEF Parts
<1>6. [i \in 1 .. n - 1 |-> v[i]] = Parts(hs, w)
  BY <1>1, <1>2 DEF Parts
<1> HIDE DEF v
<1>7. FlattenSeq(v) = FlattenSeq([i \in 1 .. n - 1 |-> v[i]]) \o v[n]
  BY <1>1, <1>4, FlattenedOneMore
<1>8. FlattenSeq(v) = FlattenSeq(Parts(hs, w)) \o w[k]
  BY <1>5, <1>6, <1>7
<1> QED
  BY <1>8 DEF v, hk

\* Before the first message there is the start, and nothing is passed over.
LEMMA BeforeNone == Before(<<>>) = <<Ev("Start")>> /\ Over(<<>>) = 0
<1> DEFINE t == [i \in DOMAIN <<>> |-> Said(<<>>[i])]
           u == [i \in DOMAIN <<>> |-> PassedOver(<<>>[i])]
<1>1. t = <<>> /\ u = <<>>
  OBVIOUS
<1>2. FlattenSeq(<<>>) = <<>>
  BY DEF FlattenSeq
<1>3. Before(<<>>) = <<Ev("Start")>> \o FlattenSeq(t) /\ Over(<<>>) = Len(FlattenSeq(u))
  BY DEF Before, Over
<1>4. <<Ev("Start")>> \in Seq(Event) /\ Len(<<>>) = 0
  BY StartIs
<1> HIDE DEF t, u
<1> QED
  BY <1>1, <1>2, <1>3, <1>4

\* What is said and what is passed over, by message.
SaidBy == [k \in DOMAIN script |-> Said(k)]
OverBy == [k \in DOMAIN script |-> PassedOver(k)]
LEMMA ByMessage ==
  ASSUME script \in Seq(Message), NEW hs \in Seq(DOMAIN script)
  PROVE  /\ SaidBy \in [DOMAIN script -> Seq(Event)] /\ OverBy \in [DOMAIN script -> Seq(Event)]
         /\ Before(hs) = <<Ev("Start")>> \o FlattenSeq(Parts(hs, SaidBy))
         /\ Over(hs) = Len(FlattenSeq(Parts(hs, OverBy)))
<1>1. \A k \in DOMAIN script : Said(k) \in Seq(Event) /\ PassedOver(k) \in Seq(Event)
  BY SaidIs
<1>2. \A i \in DOMAIN hs : hs[i] \in DOMAIN script
  OBVIOUS
<1>3. /\ Parts(hs, SaidBy) = [i \in DOMAIN hs |-> Said(hs[i])]
      /\ Parts(hs, OverBy) = [i \in DOMAIN hs |-> PassedOver(hs[i])]
  BY <1>2 DEF Parts, SaidBy, OverBy
<1>4. /\ SaidBy \in [DOMAIN script -> Seq(Event)] /\ OverBy \in [DOMAIN script -> Seq(Event)]
  BY <1>1 DEF SaidBy, OverBy
<1> QED
  BY <1>3, <1>4 DEF Before, Over

\* With the start in front.
LEMMA BeforeIs ==
  ASSUME script \in Seq(Message), NEW hs \in Seq(DOMAIN script)
  PROVE  Before(hs) \in Seq(Event) /\ Over(hs) \in Nat
<1> DEFINE f == FlattenSeq(Parts(hs, SaidBy))
           g == FlattenSeq(Parts(hs, OverBy))
<1>1. f \in Seq(Event) /\ g \in Seq(Event) /\ <<Ev("Start")>> \in Seq(Event)
  BY ByMessage, PartsFlat, StartIs
<1>2. Before(hs) = <<Ev("Start")>> \o f /\ Over(hs) = Len(g)
  BY ByMessage
<1> HIDE DEF f, g
<1> QED
  BY <1>1, <1>2

\* One message more says what it says.
LEMMA BeforeGrows ==
  ASSUME script \in Seq(Message), NEW hs \in Seq(DOMAIN script), NEW k \in DOMAIN script
  PROVE  /\ Before(Append(hs, k)) = Before(hs) \o Said(k)
         /\ Over(Append(hs, k)) = Over(hs) + Len(PassedOver(k))
<1> DEFINE hk == Append(hs, k)
           f == FlattenSeq(Parts(hs, SaidBy))
           g == FlattenSeq(Parts(hs, OverBy))
           w == Said(k)
           o == PassedOver(k)
           s == <<Ev("Start")>>
<1>1. hk \in Seq(DOMAIN script)
  OBVIOUS
<1>2. f \in Seq(Event) /\ g \in Seq(Event) /\ s \in Seq(Event) /\ w \in Seq(Event) /\ o \in Seq(Event)
  BY ByMessage, PartsFlat, StartIs, SaidIs
<1>3. FlattenSeq(Parts(hk, SaidBy)) = f \o SaidBy[k] /\ FlattenSeq(Parts(hk, OverBy)) = g \o OverBy[k]
  BY ByMessage, PartsGrow
<1>4. SaidBy[k] = w /\ OverBy[k] = o
  BY DEF SaidBy, OverBy
<1>5. Before(hs) = s \o f /\ Over(hs) = Len(g)
  BY ByMessage
<1> HIDE DEF hk
<1>6. Before(hk) = s \o FlattenSeq(Parts(hk, SaidBy)) /\ Over(hk) = Len(FlattenSeq(Parts(hk, OverBy)))
  BY <1>1, ByMessage
<1> HIDE DEF f, g, w, o, s
<1>7. s \o (f \o w) = (s \o f) \o w /\ Len(g \o o) = Len(g) + Len(o)
  <2>1. s \o (f \o w) = (s \o f) \o w
    BY SMTT(20), <1>2
  <2>2. Len(g \o o) = Len(g) + Len(o)
    BY <1>2
  <2> QED
    BY <2>1, <2>2
<1> QED
  BY <1>3, <1>4, <1>5, <1>6, <1>7 DEF hk, w, o

-----------------------------------------------------------------------------
\* How far a stream has been told: what was sent and lost is what is expected up to n, what
\* waits to be emitted is the rest.
Telling(sent, lost, q, exp) ==
    \E n \in Nat : n = Len(sent) + lost /\ Waiting(q, exp, n) /\ Passed(sent, exp, n)

\* Nothing waits, and more is expected: that waits now.
LEMMA TellMore ==
  ASSUME NEW sent, NEW lost, NEW exp \in Seq(Event), NEW q, NEW more,
         Telling(sent, lost, <<>>, exp), Alikes(q, more)
  PROVE  Telling(sent, lost, q, exp \o more)
<1>1. PICK n \in Nat : n = Len(sent) + lost /\ Waiting(<<>>, exp, n) /\ Passed(sent, exp, n)
  BY DEF Telling
<1>2. Len(exp) = n
  BY <1>1 DEF Waiting
<1>3. more \in Seq(Event) /\ q \in Seq(Event) /\ Len(q) = Len(more) /\ \A i \in 1 .. Len(more) : Same(q[i], more[i])
  BY DEF Alikes
<1> DEFINE e == exp \o more
<1>4. /\ Len(e) = n + Len(more) /\ Len(more) \in Nat
      /\ \A p \in 1 .. n : e[p] = exp[p]
      /\ \A i \in 1 .. Len(more) : e[n + i] = more[i]
  <2>1. Len(e) = n + Len(more) /\ Len(more) \in Nat
    BY SMTT(20), <1>2, <1>3
  <2>2. \A p \in 1 .. n : e[p] = exp[p]
    BY <1>2, <1>3
  <2>3. \A i \in 1 .. Len(more) : e[n + i] = more[i]
    BY <1>2, <1>3
  <2> QED
    BY <2>1, <2>2, <2>3
<1> HIDE DEF e
<1>5. Passed(sent, e, n)
  BY <1>1, <1>4, PassedStays
<1>6. Waiting(q, e, n)
  BY <1>3, <1>4 DEF Waiting
<1>7. Telling(sent, lost, q, e)
  BY <1>1, <1>5, <1>6 DEF Telling
<1> QED
  BY <1>7 DEF e

\* More is expected that is passed over: it counts as lost, unless it is critical.
LEMMA TellSkip ==
  ASSUME NEW sent \in Seq(Event), NEW lost \in Nat, NEW exp \in Seq(Event), NEW skip \in Seq(Event),
         Telling(sent, lost, <<>>, exp), \A i \in 1 .. Len(skip) : skip[i].kind \notin Critical
  PROVE  Telling(sent, lost + Len(skip), <<>>, exp \o skip)
<1>1. PICK n \in Nat : n = Len(sent) + lost /\ Waiting(<<>>, exp, n) /\ Passed(sent, exp, n)
  BY DEF Telling
<1>2. Len(exp) = n
  BY <1>1 DEF Waiting
<1> DEFINE e == exp \o skip
           l == Len(skip)
<1>3. /\ Len(e) = n + l /\ l \in Nat
      /\ \A p \in 1 .. n : e[p] = exp[p]
      /\ \A p \in 1 .. n + l : p \notin 1 .. n => e[p].kind \notin Critical
  <2>1. Len(e) = n + l /\ l \in Nat
    BY SMTT(20), <1>2
  <2>2. \A p \in 1 .. n : e[p] = exp[p]
    BY <1>2
  <2>3. \A p \in 1 .. n + l : p \notin 1 .. n => p - n \in 1 .. l /\ e[p] = skip[p - n]
    BY <1>1, <1>2, <2>1
  <2> QED
    BY <2>1, <2>2, <2>3
<1> HIDE DEF e, l
<1>4. PICK f : Goes(f, sent, exp, n)
  BY <1>1 DEF Passed
<1>5. \A i \in 1 .. Len(sent) : f[i] \in 1 .. n /\ f[i] \in 1 .. n + l
  BY <1>3, <1>4 DEF Goes
<1>6. f \in [1 .. Len(sent) -> 1 .. n + l]
  BY <1>4, <1>5 DEF Goes
<1>7. \A i \in 1 .. Len(sent) : Same(sent[i], e[f[i]])
  BY <1>3, <1>4, <1>5 DEF Goes
<1>8. \A p \in 1 .. n + l : e[p].kind \in Critical => \E i \in 1 .. Len(sent) : f[i] = p
  BY <1>3, <1>4 DEF Goes
<1>9. Passed(sent, e, n + l)
  BY <1>4, <1>6, <1>7, <1>8 DEF Goes, Passed
<1>10. Waiting(<<>>, e, n + l)
  BY <1>3 DEF Waiting
<1>11. n + l \in Nat /\ n + l = Len(sent) + (lost + l)
  <2>1. Len(sent) \in Nat
    OBVIOUS
  <2> QED
    BY <1>1, <1>3, <2>1
<1> QED
  BY <1>9, <1>10, <1>11 DEF Telling, e, l

\* The first that waits is sent, or dropped if it is not critical.
LEMMA TellOne ==
  ASSUME NEW sent \in Seq(Event), NEW lost \in Nat, NEW exp, NEW q \in Seq(Event), q # <<>>,
         Telling(sent, lost, q, exp)
  PROVE  /\ Telling(Append(sent, Head(q)), lost, Tail(q), exp)
         /\ Head(q).kind \notin Critical => Telling(sent, lost + 1, Tail(q), exp)
<1>1. PICK n \in Nat : n = Len(sent) + lost /\ Waiting(q, exp, n) /\ Passed(sent, exp, n)
  BY DEF Telling
<1> DEFINE r == Tail(q)
           e == Head(q)
<1>2. Len(q) \in Nat \ {0} /\ e = q[1] /\ e \in Event
  <2>1. Len(q) \in Nat \ {0}
    BY EmptySeq
  <2> QED
    BY <2>1
<1>3. r \in Seq(Event) /\ Len(r) = Len(q) - 1 /\ \A i \in 1 .. Len(q) - 1 : r[i] = q[i + 1]
  <2>1. r \in Seq(Event) /\ Len(r) = Len(q) - 1
    OBVIOUS
  <2>2. \A i \in 1 .. Len(q) - 1 : r[i] = q[i + 1]
    OBVIOUS
  <2> QED
    BY <2>1, <2>2
<1> HIDE DEF r, e
<1>4. Same(e, exp[n + 1])
  <2>1. 1 \in 1 .. Len(q)
    BY <1>2
  <2> QED
    BY <1>1, <1>2, <2>1 DEF Waiting
<1>5. Waiting(r, exp, n + 1)
  <2>1. Len(exp) = (n + 1) + Len(r)
    BY <1>1, <1>2, <1>3 DEF Waiting
  <2>2. ASSUME NEW i \in 1 .. Len(r) PROVE Same(r[i], exp[(n + 1) + i])
    <3>1. i + 1 \in 1 .. Len(q) /\ n + (i + 1) = (n + 1) + i /\ i \in 1 .. Len(q) - 1
      BY <1>2, <1>3
    <3>2. Same(q[i + 1], exp[n + (i + 1)])
      BY <1>1, <3>1 DEF Waiting
    <3> QED
      BY <1>3, <3>1, <3>2
  <2> QED
    BY <2>1, <2>2 DEF Waiting
<1>6. Telling(Append(sent, e), lost, r, exp)
  <2>1. Passed(Append(sent, e), exp, n + 1)
    BY <1>1, <1>2, <1>4, OnePassed
  <2>2. n + 1 \in Nat /\ n + 1 = Len(Append(sent, e)) + lost
    BY <1>1, <1>2
  <2> QED
    BY <1>5, <2>1, <2>2 DEF Telling
<1>7. ASSUME e.kind \notin Critical PROVE Telling(sent, lost + 1, r, exp)
  <2>1. exp[n + 1].kind \notin Critical
    BY <1>4, <1>7 DEF Same
  <2>2. Passed(sent, exp, n + 1)
    BY <1>1, <2>1, OneDropped
  <2>3. Len(sent) \in Nat
    OBVIOUS
  <2>4. n + 1 \in Nat /\ n + 1 = Len(sent) + (lost + 1)
    BY <1>1, <2>3
  <2> QED
    BY <1>5, <2>2, <2>4 DEF Telling
<1> QED
  BY <1>6, <1>7 DEF r, e

\* What the consumer may count on.
InOrder(seen, lost, exp) ==
    /\ Len(seen) + lost = Len(exp)
    /\ \A i, j \in DOMAIN seen : i < j =>
           \E p, q \in DOMAIN exp : p < q /\ Same(seen[i], exp[p]) /\ Same(seen[j], exp[q])
    /\ \A p \in DOMAIN exp : exp[p].kind \in Critical => \E i \in DOMAIN seen : Same(seen[i], exp[p])

\* What waits comes in order behind what was sent.
LEMMA TellAll ==
  ASSUME NEW sent \in Seq(Event), NEW lost \in Nat, NEW exp \in Seq(Event), NEW q \in Seq(Event),
         Telling(sent, lost, q, exp)
  PROVE  InOrder(sent \o q, lost, exp)
<1>1. PICK n \in Nat : n = Len(sent) + lost /\ Waiting(q, exp, n) /\ Passed(sent, exp, n)
  BY DEF Telling
<1> DEFINE seen == sent \o q
<1>2. seen \in Seq(Event) /\ Len(seen) = Len(sent) + Len(q)
  OBVIOUS
<1>3. Len(exp) = n + Len(q)
  BY <1>1 DEF Waiting
<1>4. PICK f : Goes(f, seen, exp, Len(exp))
  BY <1>1, AllPassed DEF Passed
<1> HIDE DEF seen
<1>5. DOMAIN seen = 1 .. Len(seen) /\ DOMAIN exp = 1 .. Len(exp)
  BY <1>2
<1>6. Len(seen) + lost = Len(exp)
  <2>1. Len(sent) \in Nat /\ Len(q) \in Nat
    OBVIOUS
  <2> QED
    BY <1>1, <1>2, <1>3, <2>1
<1>7. \A i \in DOMAIN seen : f[i] \in DOMAIN exp /\ Same(seen[i], exp[f[i]])
  BY <1>4, <1>5 DEF Goes
<1>8. \A i, j \in DOMAIN seen : i < j => f[i] < f[j]
  BY <1>4, <1>5 DEF Goes
<1>9. \A p \in DOMAIN exp : exp[p].kind \in Critical => \E i \in DOMAIN seen : f[i] = p
  BY <1>4, <1>5 DEF Goes
<1>10. InOrder(seen, lost, exp)
  BY <1>6, <1>7, <1>8, <1>9 DEF InOrder
<1> QED
  BY <1>10 DEF seen

-----------------------------------------------------------------------------
(* The steps of the stream, and what they tell.                            *)

\* What is kept of the types; what is still empty; what was told of what is expected.
TellTypes ==
    /\ reader \in Reader /\ script \in Script[reader] /\ script \in Seq(Message)
    /\ handled \in Seq(DOMAIN script) /\ got \in Seq(Event) /\ channel \in Seq(Event) /\ out \in Seq(Event)
    /\ dropped \in Nat /\ present \in BOOLEAN
Untold ==
    /\ phase \in {"asked", "reading"} => response = {}
    /\ phase = "asked" => /\ got = <<>> /\ channel = <<>> /\ out = <<>>
                          /\ handled = <<>> /\ dropped = 0
Talks == present /\ phase \notin {"asked", "refused"} =>
             Telling(got \o channel, dropped + Over(handled), out, Expected)
TellInv == reader \in Codec => TellTypes /\ Untold /\ Talks

\* At first nothing was told.
LEMMA TellInitially == Init => TellInv
<1> SUFFICES ASSUME Init, reader \in Codec PROVE TellTypes /\ Untold /\ Talks
  BY DEF TellInv
<1>1. reader \in Reader /\ script \in Script[reader] /\ script \in Seq(Message)
  BY StreamAssumption DEF Init
<1>2. TellTypes
  <2>1. <<>> \in Seq(Event) /\ <<>> \in Seq(DOMAIN script)
    OBVIOUS
  <2> QED
    BY <1>1, <2>1 DEF Init, TellTypes
<1>3. Untold /\ Talks
  BY DEF Init, Untold, Talks
<1> QED
  BY <1>2, <1>3

\* Expected, by what it is made of.
Expects(hs, ph, resp) ==
    Before(hs) \o (IF ph \notin {"ending", "over"} THEN <<>>
                   ELSE IF resp = {} THEN <<Ev("Error")>> ELSE <<Ev("ResponseComplete")>>)

\* Expects says what Expected does, before and behind a step.
LEMMA ExpectedIs ==
  /\ Expected = Expects(handled, phase, response)
  /\ script' = script => /\ Expected' = Expects(handled', phase', response')
                        /\ Over(handled)' = Over(handled')
<1>1. Expected = Expects(handled, phase, response)
  BY DEF Expected, LastWord, Expects
<1>2. ASSUME script' = script
      PROVE  Expected' = Expects(handled', phase', response') /\ Over(handled)' = Over(handled')
  <2>1. Before(handled)' = Before(handled')
    BY <1>2 DEF Before, Said, Word
  <2>2. Over(handled)' = Over(handled')
    BY <1>2 DEF Over, PassedOver, Word
  <2> QED
    BY <2>1, <2>2 DEF Expected, LastWord, Expects
<1> QED
  BY <1>1, <1>2

\* What is expected, phase by phase.
LEMMA ExpectsIs ==
  ASSUME script \in Seq(Message), NEW hs \in Seq(DOMAIN script), NEW resp
  PROVE  /\ Expects(hs, "reading", resp) = Before(hs)
         /\ Expects(hs, "ending", {}) = Before(hs) \o <<Ev("Error")>>
         /\ resp # {} => Expects(hs, "ending", resp) = Before(hs) \o <<Ev("ResponseComplete")>>
         /\ \A ph \in {"reading", "ending", "over"} : Expects(hs, ph, resp) \in Seq(Event)
<1>1. Before(hs) \in Seq(Event)
  BY BeforeIs
<1>2. Ev("Error") \in Event /\ Ev("ResponseComplete") \in Event
  BY EventIs
<1>3. Before(hs) \o <<>> = Before(hs)
  BY <1>1
<1>4. <<Ev("Error")>> \in Seq(Event) /\ <<Ev("ResponseComplete")>> \in Seq(Event)
  BY <1>2
<1> DEFINE b == Before(hs)
<1> HIDE DEF b
<1>5. b \in Seq(Event) /\ b \o <<>> = b
  BY <1>1, <1>3 DEF b
<1>6. \A w \in Seq(Event) : b \o w \in Seq(Event)
  BY <1>5
<1> QED
  BY <1>4, <1>5, <1>6 DEF Expects, b

\* Steps after which what is expected, sent, lost and waiting is as before, or nobody is there.
LEMMA TellUnmoved ==
  ASSUME TellInv, reader \in Codec, UNCHANGED <<reader, script, handled, present, got>>,
         TellTypes', Untold',
         present /\ phase' \notin {"asked", "refused"} =>
            /\ phase' = phase /\ UNCHANGED <<response, channel, dropped, out>>
  PROVE  Talks'
<1> SUFFICES ASSUME present', phase' \notin {"asked", "refused"}
             PROVE  Telling(got' \o channel', dropped' + Over(handled)', out', Expected')
  BY DEF Talks
<1>1. /\ phase' = phase /\ UNCHANGED <<response, channel, dropped, out, got, handled, script>>
      /\ Talks /\ present
  BY DEF TellInv
<1>2. Telling(got \o channel, dropped + Over(handled), out, Expected)
  BY <1>1 DEF Talks
<1>3. Expected' = Expected /\ Over(handled)' = Over(handled)
  BY <1>1, ExpectedIs
<1> QED
  BY <1>1, <1>2, <1>3

\* The stream begins.
LEMMA OpenedTells ==
  ASSUME TellInv, reader \in Codec, NEW n, Opened(n)
  PROVE  TellTypes' /\ Untold' /\ Talks'
<1>1. /\ TellTypes /\ Untold /\ phase = "asked" /\ phase' = "reading" /\ out' = <<Ev("Start")>>
      /\ UNCHANGED <<reader, script, handled, got, channel, dropped, present, response>>
  BY DEF TellInv, Opened, chosen, accumulated, delivery, Codec
<1>2. /\ got = <<>> /\ channel = <<>> /\ handled = <<>> /\ dropped = 0 /\ response = {}
  BY <1>1 DEF Untold
<1>3. TellTypes'
  BY <1>1, StartIs DEF TellTypes
<1>4. Untold'
  BY <1>1, <1>2 DEF Untold
<1>5. Expected' = <<Ev("Start")>> /\ Over(handled)' = 0
  <2>1. Expected' = Expects(<<>>, "reading", {}) /\ Over(handled)' = Over(<<>>)
    BY <1>1, <1>2, ExpectedIs
  <2>2. <<>> \in Seq(DOMAIN script) /\ script \in Seq(Message)
    BY <1>1 DEF TellTypes
  <2> QED
    BY <2>1, <2>2, ExpectsIs, BeforeNone
<1>6. Telling(<<>>, 0, <<Ev("Start")>>, <<>> \o <<Ev("Start")>>)
  <2>1. Waiting(<<>>, <<>>, 0)
    BY DEF Waiting
  <2>2. Len(<<>>) + 0 = 0 /\ <<>> \in Seq(Event)
    OBVIOUS
  <2>3. Telling(<<>>, 0, <<>>, <<>>)
    BY <2>1, <2>2, NonePassed DEF Telling
  <2>4. Ev("Start") \in Event
    BY EventIs
  <2>5. Alikes(<<Ev("Start")>>, <<Ev("Start")>>)
    BY <2>4, AlikeOne DEF Same
  <2> QED
    BY <2>2, <2>3, <2>5, TellMore
<1>7. <<>> \o <<Ev("Start")>> = <<Ev("Start")>> /\ <<>> \o <<>> = <<>> /\ 0 + 0 = 0
  BY StartIs
<1>8. Talks'
  BY <1>1, <1>2, <1>5, <1>6, <1>7 DEF Talks
<1> QED
  BY <1>3, <1>4, <1>8

\* Nothing is waiting, and more is said, or passed over.
LEMMA MoreTells ==
  ASSUME TellInv, reader \in Codec, phase = "reading", out = <<>>,
         UNCHANGED <<reader, script, got, channel, dropped, present>>,
         handled' \in Seq(DOMAIN script), phase' \in {"reading", "ending"}, Untold',
         NEW skip \in Seq(Event), \A i \in 1 .. Len(skip) : skip[i].kind \notin Critical,
         NEW more, Alikes(out', more),
         Expected' = (Before(handled) \o skip) \o more, Over(handled)' = Over(handled) + Len(skip)
  PROVE  TellTypes' /\ Untold' /\ Talks'
<1>1. TellTypes /\ Talks /\ handled \in Seq(DOMAIN script) /\ script \in Seq(Message)
  BY DEF TellInv, TellTypes
<1>2. TellTypes'
  BY <1>1 DEF TellTypes, Alikes
<1>3. ASSUME present PROVE Telling(got \o channel, dropped + Over(handled)', out', Expected')
  <2> DEFINE b == Before(handled)
             o == Over(handled)
             sent == got \o channel
             l == Len(skip)
  <2>1. Telling(sent, dropped + o, <<>>, Expected)
    BY <1>1, <1>3 DEF Talks
  <2>2. Expected = b
    BY <1>1, ExpectedIs, ExpectsIs
  <2>3. b \in Seq(Event) /\ o \in Nat /\ dropped \in Nat /\ sent \in Seq(Event)
    <3>1. got \in Seq(Event) /\ channel \in Seq(Event) /\ dropped \in Nat
      BY <1>1 DEF TellTypes
    <3>2. sent \in Seq(Event)
      BY <3>1
    <3> HIDE DEF b, o, sent
    <3>3. b \in Seq(Event) /\ o \in Nat
      BY <1>1, BeforeIs DEF b, o
    <3> QED
      BY <3>1, <3>2, <3>3
  <2> HIDE DEF b, o, sent
  <2>4. dropped + o \in Nat /\ l \in Nat /\ (dropped + o) + l = dropped + (o + l)
    <3>1. l \in Nat
      OBVIOUS
    <3> HIDE DEF l
    <3> QED
      BY <2>3, <3>1
  <2>5. Telling(sent, (dropped + o) + l, <<>>, b \o skip)
    BY <2>1, <2>2, <2>3, <2>4, TellSkip
  <2>6. b \o skip \in Seq(Event)
    BY <2>3
  <2>7. Telling(sent, (dropped + o) + l, out', (b \o skip) \o more)
    BY <2>5, <2>6, TellMore
  <2>8. Over(handled)' = o + l
    BY DEF o
  <2>9. Telling(sent, dropped + Over(handled)', out', Expected')
    BY <2>4, <2>7, <2>8 DEF b
  <2> QED
    BY <2>9 DEF sent
<1>4. Talks'
  BY <1>3 DEF Talks
<1> QED
  BY <1>2, <1>4

\* The stream breaks or is complete.
LEMMA EndTells ==
  ASSUME TellInv, reader \in Codec, Breaks \/ Completes
  PROVE  TellTypes' /\ Untold' /\ Talks'
<1>1. /\ TellTypes /\ Untold /\ Talks /\ phase = "reading" /\ out = <<>> /\ response = {}
      /\ UNCHANGED <<reader, script, handled, got, channel, dropped, present>>
  BY DEF TellInv, Untold, Breaks, Completes, Idle, chosen, accumulated, delivery
<1>2. handled \in Seq(DOMAIN script) /\ script \in Seq(Message)
  BY <1>1 DEF TellTypes
<1>6. /\ <<>> \in Seq(Event) /\ Len(<<>>) = 0 /\ \A i \in 1 .. 0 : <<>>[i].kind \notin Critical
      /\ Before(handled) \o <<>> = Before(handled)
      /\ Over(handled)' = Over(handled) + 0
  <2>1. Before(handled) \in Seq(Event) /\ Over(handled) \in Nat
    BY <1>2, BeforeIs
  <2>2. Over(handled)' = Over(handled)
    BY <1>1, ExpectedIs
  <2>3. Over(handled) + 0 = Over(handled)
    BY <2>1
  <2>4. Before(handled) \o <<>> = Before(handled)
    BY <2>1
  <2>5. <<>> \in Seq(Event) /\ Len(<<>>) = 0 /\ \A i \in 1 .. 0 : <<>>[i].kind \notin Critical
    OBVIOUS
  <2> QED
    BY <2>2, <2>3, <2>4, <2>5
<1>3. CASE ~present
  <2>1. phase' = "over" /\ out' = out
    BY <1>3 DEF Breaks, Completes, Gone
  <2>2. TellTypes' /\ Untold' /\ Talks'
    BY <1>1, <1>3, <2>1 DEF TellTypes, Untold, Talks
  <2> QED
    BY <2>2
<1>4. CASE present /\ Breaks
  <2>1. phase' = "ending" /\ out' = <<Ev("Error")>> /\ response' = {}
    BY <1>1, <1>4 DEF Breaks, Gone, accumulated
  <2>2. Expected' = (Before(handled) \o <<>>) \o <<Ev("Error")>>
    BY <1>1, <1>2, <1>6, <2>1, ExpectedIs, ExpectsIs
  <2>3. Alikes(out', <<Ev("Error")>>)
    BY <2>1, EventIs, AlikeOne DEF Same
  <2>4. Untold'
    BY <2>1 DEF Untold
  <2> QED
    BY <1>1, <1>2, <1>6, <2>1, <2>2, <2>3, <2>4, MoreTells
<1>5. CASE present /\ Completes
  <2>1. phase' = "ending" /\ out' = <<Ev("ResponseComplete")>> /\ response' # {}
    BY <1>5 DEF Completes, Gone
  <2>2. Expected' = (Before(handled) \o <<>>) \o <<Ev("ResponseComplete")>>
    BY <1>1, <1>2, <1>6, <2>1, ExpectedIs, ExpectsIs
  <2>3. Alikes(out', <<Ev("ResponseComplete")>>)
    BY <2>1, EventIs, AlikeOne DEF Same
  <2>4. Untold'
    BY <2>1 DEF Untold
  <2> QED
    BY <1>1, <1>2, <1>6, <2>1, <2>2, <2>3, <2>4, MoreTells
<1> QED
  BY <1>3, <1>4, <1>5

\* The frame that is handled is the next message; the codec knows which, if it can decode it.
LEMMA FrameTurns ==
  ASSUME CutInv, HandleFrame
  PROVE  /\ script \in Seq(Message) /\ Len(handled) \in Nat /\ Len(handled) + 1 \in 1..Len(script)
         /\ handled' = Append(handled, Len(handled) + 1) /\ Len(handled') = Len(handled) + 1
         /\ Carried(Head(frames).data) =
              IF script[Len(handled) + 1].kind = "broken" THEN 0 ELSE Len(handled) + 1
<1> DEFINE d == Head(frames).data
           h == Len(handled)
           k == h + 1
           m == script[k]
<1>1. /\ phase = "reading" /\ frames # <<>> /\ reader \in Codec
      /\ handled' = Append(handled, d[1].msg)
  BY DEF HandleFrame
<1>2. script \in Seq(Message) /\ Reading
  BY <1>1 DEF CutInv
<1>3. k \in 1 .. Len(script) /\ Carries(frames[1], m, k) /\ Head(frames) = frames[1] /\ d \in Seq(Byte)
  <2> DEFINE q == ParserNow
  <2>1. h \in Nat /\ Reached(q, script, ending, h, Read)
    BY <1>2 DEF Reading
  <2>2. PICK j \in 0 .. Len(script), o \in Nat : Found(q.found, script, h, j)
    BY <2>1 DEF Reached
  <2>3. q.found = frames /\ frames \in Seq(Frame)
    BY <2>1 DEF Reached, Parser, ParserNow
  <2> HIDE DEF q
  <2>4. Len(frames) = j - h /\ \A i \in 1 .. j - h : Carries(frames[i], script[h + i], h + i)
    BY <2>2, <2>3 DEF Found
  <2>5. Len(frames) \in Nat \ {0} /\ Head(frames) = frames[1] /\ frames[1] \in Frame
    <3>1. Len(frames) \in Nat \ {0}
      BY <1>1, <2>3, EmptySeq
    <3> QED
      BY <2>3, <3>1
  <2>6. 1 \in 1 .. j - h /\ h + 1 \in 1 .. Len(script)
    BY <2>1, <2>4, <2>5, <1>2
  <2>7. Carries(frames[1], script[h + 1], h + 1)
    BY <2>4, <2>6
  <2> QED
    BY <2>5, <2>6, <2>7 DEF Frame
<1>4. h \in Nat /\ handled = UpTo(h)
  BY <1>2 DEF Reading
<1>5. d[1].msg = k
  BY <1>3, FrameIsOf
<1>6. Carried(d) = IF m.kind = "broken" THEN 0 ELSE k
  BY <1>2, <1>3, CarriedIs DEF Carries
<1>7. Len(Append(handled, k)) = h + 1
  <2>1. UpTo(h) \in Seq(Nat) /\ Len(UpTo(h)) = h
    BY <1>4 DEF UpTo
  <2> HIDE DEF h, k
  <2>2. handled \in Seq(Nat) /\ Len(handled) = h
    BY <1>4, <2>1 DEF h
  <2>3. k \in Nat
    BY <1>4 DEF k
  <2>4. \A x \in Nat : Len(Append(handled, x)) = Len(handled) + 1
    BY <2>2
  <2> QED
    BY <2>2, <2>3, <2>4
<1>8. handled' = Append(handled, k)
  BY <1>1, <1>5
<1> QED
  BY <1>2, <1>3, <1>4, <1>6, <1>7, <1>8

\* A frame is handled.
LEMMA HandleTells ==
  ASSUME CutInv, TellInv, reader \in Codec, HandleFrame
  PROVE  TellTypes' /\ Untold' /\ Talks'
<1> DEFINE d == Head(frames).data
           h == Len(handled)
           k == h + 1
           m == script[k]
<1>1. /\ TellTypes /\ Untold /\ phase = "reading" /\ out = <<>> /\ frames # <<>> /\ response = {}
      /\ handled' = Append(handled, d[1].msg)
      /\ UNCHANGED <<reader, script, got, channel, dropped, present, response>>
  BY DEF TellInv, Untold, HandleFrame, chosen, delivery
<1>2. /\ script \in Seq(Message) /\ handled \in Seq(DOMAIN script) /\ Reading
      /\ reader \in Reader /\ script \in Script[reader]
  BY <1>1 DEF CutInv, TellTypes
<1>3. /\ h \in Nat /\ k \in 1 .. Len(script) /\ handled' = Append(handled, k)
      /\ Carried(d) = IF m.kind = "broken" THEN 0 ELSE k
  BY FrameTurns
<1>4. k \in Nat /\ m \in Message /\ m.text \in Nat /\ m.thinking \in BOOLEAN
  <2>1. k \in Nat /\ m \in Message
    BY <1>2, <1>3
  <2> HIDE DEF m
  <2> QED
    BY <2>1 DEF Message
<1>6. Carried(d) = IF m.kind = "broken" THEN 0 ELSE k
  BY <1>3
<1>7. Speaks(reader, m)
  <2>1. k \in DOMAIN script
    BY <1>2, <1>3
  <2> QED
    BY <1>2, <2>1, SpeechAssumption
<1>8. /\ handled' \in Seq(DOMAIN script) /\ Before(handled') = Before(handled) \o Said(k)
      /\ Over(handled') = Over(handled) + Len(PassedOver(k))
  <2>1. handled' = Append(handled, k) /\ k \in DOMAIN script
    BY <1>2, <1>3
  <2> HIDE DEF k, d, m
  <2>2. Append(handled, k) \in Seq(DOMAIN script)
    BY <1>2, <2>1
  <2>3. /\ Before(Append(handled, k)) = Before(handled) \o Said(k)
        /\ Over(Append(handled, k)) = Over(handled) + Len(PassedOver(k))
    BY <1>2, <2>1, BeforeGrows
  <2>4. Before(handled') = Before(Append(handled, k)) /\ Over(handled') = Over(Append(handled, k))
    BY <2>1, Zenon
  <2> QED
    BY <2>1, <2>2, <2>3, <2>4
<1>9. /\ Before(handled) \in Seq(Event) /\ Said(k) \in Seq(Event) /\ PassedOver(k) \in Seq(Event)
      /\ Said(k) = PassedOver(k) \o Uttered(k) /\ Uttered(k) \in Seq(Event)
      /\ \A i \in 1 .. Len(PassedOver(k)) : PassedOver(k)[i].kind \notin Critical
  <2>1. k \in DOMAIN script
    BY <1>2, <1>3
  <2> QED
    BY <1>2, <2>1, BeforeIs, SaidIs
<1>12. Over(handled)' = Over(handled) + Len(PassedOver(k))
  BY <1>1, <1>8, ExpectedIs
<1>10. CASE m.kind = "broken"
  <2>1. out' = <<Ev("Error")>> /\ phase' = "ending"
    BY <1>6, <1>10 DEF HandleFrame
  <2>2. Uttered(k) = <<>>
    <3>1. ~(m.text > 0) /\ ~m.thinking
      BY <1>7, <1>10 DEF Speaks, Codec
    <3> QED
      BY <3>1 DEF Uttered
  <2>3. Before(handled') = Before(handled) \o PassedOver(k)
    <3> DEFINE p == PassedOver(k)
    <3>1. p \in Seq(Event) /\ Said(k) = p \o <<>>
      BY <1>9, <2>2
    <3> HIDE DEF p
    <3>2. p \o <<>> = p
      BY <3>1
    <3>3. Said(k) = p
      BY <3>1, <3>2
    <3> QED
      BY <1>8, <3>3 DEF p
  <2>4. Expected' = (Before(handled) \o PassedOver(k)) \o <<Ev("Error")>>
    BY <1>1, <1>2, <1>8, <2>1, <2>3, ExpectedIs, ExpectsIs
  <2>5. Alikes(out', <<Ev("Error")>>)
    BY <2>1, EventIs, AlikeOne DEF Same
  <2>6. Untold'
    BY <2>1 DEF Untold
  <2> HIDE DEF k, m, d, h
  <2>7. phase' \in {"reading", "ending"}
    BY <2>1
  <2> DEFINE g == <<Ev("Error")>>
             o == PassedOver(k)
  <2>8. Expected' = (Before(handled) \o o) \o g /\ Alikes(out', g) /\ o \in Seq(Event)
        /\ Over(handled)' = Over(handled) + Len(o)
        /\ \A i \in 1 .. Len(o) : o[i].kind \notin Critical
    BY <1>9, <1>12, <2>4, <2>5
  <2> HIDE DEF g, o
  <2> QED
    BY <1>1, <1>8, <2>6, <2>7, <2>8, MoreTells
<1>11. CASE m.kind # "broken"
  <2>1. Carried(d) = k /\ k # 0
    BY <1>4, <1>6, <1>11
  <2>2. out' = Tokens(Decode(m), k, Intact(d)) /\ phase' = phase
    BY <2>1 DEF HandleFrame
  <2>3. Speak(Decode(m), m.text > 0, m.thinking)
    BY <1>4, <1>7, DecodeSpeaks
  <2>4. Intact(d) \in BOOLEAN
    BY DEF Intact
  <2>5. Alikes(out', Uttered(k))
    <3> HIDE DEF k, d
    <3> QED
      BY <1>4, <2>2, <2>3, <2>4, TokensSay DEF m
  <2>6. Expected' = (Before(handled) \o PassedOver(k)) \o Uttered(k)
    <3>1. Expected' = Expects(handled', "reading", response)
      BY <1>1, <2>2, ExpectedIs
    <3>2. Expected' = Before(handled) \o Said(k)
      BY <1>2, <1>8, <3>1, ExpectsIs
    <3> DEFINE b == Before(handled)
               o == PassedOver(k)
               u == Uttered(k)
    <3>3. b \in Seq(Event) /\ o \in Seq(Event) /\ u \in Seq(Event) /\ Said(k) = o \o u
      BY <1>9
    <3> HIDE DEF b, o, u
    <3>4. b \o (o \o u) = (b \o o) \o u
      BY <3>3
    <3> QED
      BY <3>2, <3>3, <3>4 DEF b, o, u
  <2>7. Untold'
    BY <1>1, <2>2 DEF Untold
  <2> HIDE DEF k, m, d, h
  <2> QED
    BY <1>1, <1>8, <1>9, <1>12, <2>2, <2>5, <2>6, <2>7, MoreTells
<1> QED
  BY <1>10, <1>11

-----------------------------------------------------------------------------
(* The steps of the channel and of the consumer.                           *)

\* An event goes into the channel, is dropped, or nobody is there.
LEMMA EmitTells ==
  ASSUME IInv, TellInv, reader \in Codec, Emit
  PROVE  TellTypes' /\ Untold' /\ Talks'
<1> DEFINE e == Head(out)
           r == Tail(out)
           sent == got \o channel
           o == Over(handled)
<1>1. /\ TellTypes /\ Untold /\ Talks /\ out # <<>>
      /\ UNCHANGED <<reader, script, handled, got, present, response>>
  BY DEF TellInv, Emit, chosen, accumulated
<1>2. phase \in {"reading", "ending"} /\ (phase = "reading" => e.kind \notin Terminal)
  <2>1. phase \in {"reading", "ending"} /\ (phase = "reading" => NoEnd(out)) /\ IsSeq(out)
    BY <1>1 DEF IInv, StreamInv, Phase, Closing, Kept
  <2>2. e = out[1] /\ Len(out) \in Nat \ {0}
    BY <1>1, <2>1, TailIs
  <2>3. 1 \in 1 .. Len(out)
    BY <2>2
  <2> QED
    BY <2>1, <2>2, <2>3 DEF NoEnd
<1>3. e \in Event /\ r \in Seq(Event) /\ sent \in Seq(Event) /\ Append(sent, e) \in Seq(Event)
      /\ got \in Seq(Event) /\ channel \in Seq(Event) /\ dropped \in Nat
      /\ handled \in Seq(DOMAIN script) /\ script \in Seq(Message) /\ o \in Nat
  <2>1. out \in Seq(Event) /\ got \in Seq(Event) /\ channel \in Seq(Event) /\ dropped \in Nat
        /\ handled \in Seq(DOMAIN script) /\ script \in Seq(Message)
    BY <1>1 DEF TellTypes
  <2>2. Len(out) \in Nat \ {0}
    BY <1>1, <2>1, EmptySeq
  <2>3. e \in Event /\ r \in Seq(Event)
    BY <1>1, <2>1, <2>2
  <2>4. sent \in Seq(Event)
    BY <2>1
  <2>5. o \in Nat
    BY <2>1, BeforeIs
  <2> HIDE DEF sent, e, r, o
  <2> QED
    BY <2>1, <2>3, <2>4, <2>5
<1>4. CASE ~present
  <2>1. phase' = "over" /\ out' = <<>> /\ channel' = channel /\ dropped' = dropped
    BY <1>4 DEF Emit, Gone
  <2>2. <<>> \in Seq(Event)
    OBVIOUS
  <2> QED
    BY <1>1, <1>4, <2>1, <2>2 DEF TellTypes, Untold, Talks
<1>5. CASE present
  <2>1. /\ out' = r /\ ~Waits(e)
        /\ phase' = (IF e.kind \in Terminal THEN "over" ELSE phase)
        /\ \/ channel' = Append(channel, e) /\ dropped' = dropped
           \/ ~Fits(e) /\ channel' = channel /\ dropped' = dropped + 1
    BY <1>5 DEF Emit, Gone
  <2>2. Telling(sent, dropped + o, out, Expected) /\ out \in Seq(Event)
    BY <1>1, <1>2, <1>5 DEF Talks, TellTypes
  <2>3. Telling(Append(sent, e), dropped + o, r, Expected)
        /\ (e.kind \notin Critical => Telling(sent, (dropped + 1) + o, r, Expected))
    <3> HIDE DEF sent, o
    <3>1. dropped + o \in Nat /\ (dropped + o) + 1 = (dropped + 1) + o
      BY <1>3
    <3> QED
      BY <1>1, <1>3, <2>2, <3>1, TellOne
  <2>4. got \o Append(channel, e) = Append(sent, e)
    <3> HIDE DEF e
    <3> QED
      BY <1>3
  <2>5. ~Fits(e) => e.kind \notin Critical
    BY <1>5, <2>1 DEF Waits
  <2> HIDE DEF e, r
  <2>6. Expected' = Expected /\ Over(handled)' = o /\ phase' \in {"reading", "ending", "over"}
        /\ (phase' = "reading" => phase = "reading")
    <3>1. CASE phase = "reading"
      <4>1. phase' = "reading"
        BY <1>2, <2>1, <3>1
      <4> QED
        BY <1>1, <3>1, <4>1, ExpectedIs
    <3>2. CASE phase = "ending"
      <4>1. phase' \in {"ending", "over"}
        BY <2>1, <3>2
      <4>2. Expects(handled, "ending", response) = Expects(handled, "over", response)
        BY DEF Expects
      <4>3. Expected' = Expects(handled, phase', response) /\ Expected = Expects(handled, "ending", response)
        BY <1>1, <3>2, ExpectedIs
      <4>4. Over(handled)' = o
        BY <1>1, ExpectedIs
      <4> QED
        BY <4>1, <4>2, <4>3, <4>4
    <3> QED
      BY <1>2, <3>1, <3>2
  <2>7. Append(channel, e) \in Seq(Event) /\ dropped + 1 \in Nat
    BY <1>3
  <2>8. TellTypes'
    BY <1>1, <1>3, <2>1, <2>7 DEF TellTypes
  <2>9. Untold'
    BY <1>1, <2>6 DEF Untold
  <2>10. Telling(got' \o channel', dropped' + Over(handled)', out', Expected')
    BY <1>1, <2>1, <2>3, <2>4, <2>5, <2>6 DEF sent
  <2>11. Talks'
    BY <2>10 DEF Talks
  <2> QED
    BY <2>8, <2>9, <2>11
<1> QED
  BY <1>1, <1>4, <1>5 DEF TellTypes

\* The consumer takes an event, or leaves.
LEMMA ConsumerTells ==
  ASSUME TellInv, reader \in Codec, Receive \/ Leave
  PROVE  TellTypes' /\ Untold' /\ Talks'
<1>1. /\ TellTypes /\ Untold /\ Talks /\ UNCHANGED <<reader, script, handled, out, dropped, response>>
      /\ reader # "subscription"
  BY DEF TellInv, Receive, Leave, chosen, accumulated, Codec
<1>2. got \in Seq(Event) /\ channel \in Seq(Event)
  BY <1>1 DEF TellTypes
<1>3. CASE Receive
  <2> DEFINE e == Head(channel)
             c == Tail(channel)
  <2>1. channel # <<>> /\ got' = Append(got, e) /\ channel' = c /\ phase' = phase /\ present' = present
    BY <1>3 DEF Receive
  <2>2. Len(channel) \in Nat \ {0}
    BY <1>2, <2>1, EmptySeq
  <2>3. e \in Event /\ c \in Seq(Event) /\ channel = <<e>> \o c
    <3>1. e \in Event /\ c \in Seq(Event) /\ Len(c) = Len(channel) - 1
      BY <1>2, <2>1, <2>2
    <3>2. e = channel[1] /\ \A i \in 1 .. Len(channel) - 1 : c[i] = channel[i + 1]
      <4>1. \A i \in 1 .. Len(channel) - 1 : c[i] = channel[i + 1]
        BY <1>2
      <4> QED
        BY <1>2, <2>2, <4>1
    <3> HIDE DEF e, c
    <3> DEFINE w == <<e>> \o c
    <3>3. /\ w \in Seq(Event) /\ Len(w) = Len(channel)
          /\ \A i \in 1 .. Len(channel) : w[i] = IF i = 1 THEN e ELSE c[i - 1]
      <4>1. <<e>> \in Seq(Event) /\ Len(<<e>>) = 1 /\ <<e>>[1] = e
        BY <3>1
      <4>2. w \in Seq(Event) /\ Len(w) = Len(channel)
        BY <2>2, <3>1, <4>1
      <4>3. \A i \in 1 .. Len(channel) : w[i] = IF i = 1 THEN e ELSE c[i - 1]
        BY <2>2, <3>1, <4>1
      <4> QED
        BY <4>2, <4>3
    <3>4. \A i \in 1 .. Len(channel) : i # 1 => i - 1 \in 1 .. Len(channel) - 1 /\ (i - 1) + 1 = i
      BY <2>2
    <3> HIDE DEF w
    <3>5. \A i \in 1 .. Len(channel) : w[i] = channel[i]
      BY <3>2, <3>3, <3>4
    <3>6. w = channel
      BY <1>2, <3>3, <3>5
    <3> QED
      BY <3>1, <3>6 DEF w
  <2> HIDE DEF e, c
  <2>4. Append(got, e) \in Seq(Event) /\ Append(got, e) \o c = got \o channel
    <3>1. Append(got, e) \o c = got \o (<<e>> \o c)
      BY <1>2, <2>3
    <3> QED
      BY <1>2, <2>3, <3>1
  <2>5. TellTypes'
    BY <1>1, <2>1, <2>3, <2>4 DEF TellTypes
  <2>6. Untold'
    BY <1>1, <2>1, <2>3 DEF Untold
  <2>7. Expected' = Expected /\ Over(handled)' = Over(handled)
    BY <1>1, <2>1, ExpectedIs
  <2>8. Talks'
    BY <1>1, <2>1, <2>4, <2>7 DEF Talks
  <2> QED
    BY <2>5, <2>6, <2>8
<1>4. CASE Leave
  <2>1. channel' = <<>> /\ got' = got /\ phase' = phase /\ present' = FALSE
    BY <1>1, <1>4 DEF Leave
  <2>2. <<>> \in Seq(Event)
    OBVIOUS
  <2> QED
    BY <1>1, <2>1, <2>2 DEF TellTypes, Untold, Talks
<1> QED
  BY <1>3, <1>4

\* Every step keeps it.
LEMMA TellKeeps == IInv /\ CutInv /\ TellInv /\ [Next]_vars => TellInv'
<1> SUFFICES ASSUME IInv, CutInv, TellInv, [Next]_vars, reader' \in Codec
             PROVE  TellTypes' /\ Untold' /\ Talks'
  BY DEF TellInv
<1>1. reader' = reader
  BY DEF Next, Refused, Opened, ReadChunk, Breaks, Completes, HandleFrame, Emit, Listen,
         ListenedOut, Receive, Leave, chosen, vars
<1>2. reader \in Codec /\ reader # "subscription" /\ TellTypes /\ Untold /\ Talks
  BY <1>1 DEF TellInv, Codec
<1>3. CASE Refused
  <2>1. /\ phase' = "refused"
        /\ UNCHANGED <<reader, script, handled, got, channel, out, dropped, present, response>>
    BY <1>3 DEF Refused, chosen, accumulated, delivery
  <2> QED
    BY <1>2, <2>1 DEF TellTypes, Untold, Talks
<1>4. CASE \E n \in 1 .. Len(wire) : Opened(n)
  BY <1>2, <1>4, OpenedTells
<1>5. CASE \E n \in 1 .. Len(wire) : ReadChunk(n)
  <2>1. /\ UNCHANGED <<reader, script, handled, got, channel, out, dropped, present, response>>
        /\ phase = "reading" /\ (present => phase' = phase) /\ phase' \in {"reading", "over"}
    BY <1>5 DEF ReadChunk, Idle, Gone, chosen, accumulated, delivery
  <2>2. TellTypes' /\ Untold'
    BY <1>2, <2>1 DEF TellTypes, Untold
  <2> QED
    BY <1>2, <2>1, <2>2, TellUnmoved
<1>6. CASE Breaks \/ Completes
  BY <1>2, <1>6, EndTells
<1>7. CASE HandleFrame
  BY <1>2, <1>7, HandleTells
<1>8. CASE Emit
  BY <1>2, <1>8, EmitTells
<1>9. CASE Receive \/ Leave
  BY <1>2, <1>9, ConsumerTells
<1>10. CASE (\E n \in 1 .. Len(wire) : Listen(n)) \/ ListenedOut
  BY <1>2, <1>10 DEF Listen, ListenedOut, Listening
<1>11. CASE UNCHANGED vars
  <2>1. /\ UNCHANGED <<reader, script, handled, got, channel, out, dropped, present, response, phase>>
    BY <1>11 DEF vars
  <2>2. TellTypes' /\ Untold'
    BY <1>2, <2>1 DEF TellTypes, Untold
  <2> QED
    BY <1>2, <2>1, <2>2, TellUnmoved
<1> QED
  BY <1>3, <1>4, <1>5, <1>6, <1>7, <1>8, <1>9, <1>10, <1>11 DEF Next

\* A consumer that is there has been told, or will be, what the messages handled say, but for
\* what is counted as dropped and the texts that were passed over.
THEOREM TellingGoesOn == Spec => []TellInv
<1>1. IInv /\ CutInv /\ TellInv /\ [Next]_vars => TellInv'
  BY TellKeeps
<1> QED
  BY <1>1, TellInitially, Inductive, CutsDoNotMatter, PTL DEF Spec

\* The order of events, of a provider's stream.
LEMMA ProvidersTellInOrder == TellInv /\ IInv /\ reader \in Codec => EventsInOrder
<1> SUFFICES ASSUME TellInv, IInv, reader \in Codec, present, phase \notin {"asked", "refused"}
             PROVE  InOrder((got \o channel) \o out, dropped + Over(handled), Expected)
  <2>1. ASSUME InOrder((got \o channel) \o out, dropped + Over(handled), Expected),
               TellInv, reader \in Codec
        PROVE  EventsInOrder
    <3> DEFINE seen == (got \o channel) \o out
               o == Over(handled)
    <3>1. dropped \in Nat /\ o \in Nat /\ Len(seen) \in Nat
      <4>1. /\ dropped \in Nat /\ got \in Seq(Event) /\ channel \in Seq(Event) /\ out \in Seq(Event)
            /\ handled \in Seq(DOMAIN script) /\ script \in Seq(Message)
        BY <2>1 DEF TellInv, TellTypes
      <4>2. seen \in Seq(Event)
        BY <4>1
      <4> HIDE DEF seen
      <4> QED
        BY <4>1, <4>2, BeforeIs
    <3> HIDE DEF seen, o
    <3>2. Len(seen) + (dropped + o) = (Len(seen) + dropped) + o
      BY <3>1
    <3>3. Len(seen) + dropped + o = Len(Expected)
      BY <2>1, <3>2 DEF InOrder, seen, o
    <3> QED
      BY <2>1, <3>3 DEF EventsInOrder, InOrder, Expected, Before, Over, Codec, seen, o
  <2>2. ASSUME TellInv, IInv, reader \in Codec, ~(present /\ phase \notin {"asked", "refused"})
        PROVE  EventsInOrder
    BY <2>2 DEF EventsInOrder, Codec
  <2> QED
    BY <2>1, <2>2
<1>1. TellTypes /\ Talks
  BY DEF TellInv
<1>2. Telling(got \o channel, dropped + Over(handled), out, Expected)
  BY <1>1 DEF Talks
<1>3. /\ got \o channel \in Seq(Event) /\ out \in Seq(Event) /\ dropped + Over(handled) \in Nat
      /\ handled \in Seq(DOMAIN script) /\ script \in Seq(Message)
  <2>1. /\ got \in Seq(Event) /\ channel \in Seq(Event) /\ out \in Seq(Event) /\ dropped \in Nat
        /\ handled \in Seq(DOMAIN script) /\ script \in Seq(Message)
    BY <1>1 DEF TellTypes
  <2>2. Over(handled) \in Nat
    BY <2>1, BeforeIs
  <2>3. dropped + Over(handled) \in Nat
    BY <2>1, <2>2
  <2> QED
    BY <2>1, <2>3
<1>4. Expected \in Seq(Event)
  <2>1. phase \in {"reading", "ending", "over"}
    BY DEF IInv, StreamInv, Phase
  <2> QED
    BY <1>3, <2>1, ExpectedIs, ExpectsIs
<1> QED
  BY <1>2, <1>3, <1>4, TellAll

-----------------------------------------------------------------------------
(* Where payloads begin in a text.                                         *)

\* The messages whose payload begins in a text; a text in which they rise.
Opens(w) == {w[i].msg : i \in {j \in 1 .. Len(w) : w[j].sym = "open"}}
Rising(w) ==
    \A i, j \in 1 .. Len(w) : i < j /\ w[i].sym = "open" /\ w[j].sym = "open" => w[i].msg < w[j].msg
Below(A, B) == \A a \in A, b \in B : a < b

\* Two texts, one behind the other.
LEMMA OpensOfBoth ==
  ASSUME NEW v \in Seq(Byte), NEW w \in Seq(Byte)
  PROVE  /\ v \o w \in Seq(Byte) /\ Opens(v \o w) = Opens(v) \cup Opens(w)
         /\ Rising(v) /\ Rising(w) /\ Below(Opens(v), Opens(w)) => Rising(v \o w)
<1> DEFINE u == v \o w
           n == Len(v)
           z == Len(w)
<1>1. u \in Seq(Byte) /\ Len(u) = n + z /\ n \in Nat /\ z \in Nat
  OBVIOUS
<1>2. \A i \in 1 .. n : u[i] = v[i] /\ i \in 1 .. n + z
  BY <1>1
<1>3. \A i \in 1 .. z : u[n + i] = w[i] /\ n + i \in 1 .. n + z
  BY <1>1
<1>4. \A i \in 1 .. n + z : i \notin 1 .. n => i - n \in 1 .. z /\ n + (i - n) = i
  BY <1>1
<1> HIDE DEF u
<1>5. \A i \in 1 .. n + z : i \notin 1 .. n => u[i] = w[i - n]
  <2> SUFFICES ASSUME NEW i \in 1 .. n + z, i \notin 1 .. n PROVE u[i] = w[i - n]
    OBVIOUS
  <2>1. i - n \in 1 .. z /\ n + (i - n) = i
    BY <1>4
  <2> QED
    BY <1>3, <2>1
<1>6. Opens(u) \subseteq Opens(v) \cup Opens(w)
  <2> SUFFICES ASSUME NEW i \in 1 .. n + z, u[i].sym = "open"
               PROVE  u[i].msg \in Opens(v) \cup Opens(w)
    BY <1>1 DEF Opens
  <2>1. CASE i \in 1 .. n
    BY <1>2, <2>1 DEF Opens
  <2>2. CASE i \notin 1 .. n
    BY <1>4, <1>5, <2>2 DEF Opens
  <2> QED
    BY <2>1, <2>2
<1>7. Opens(v) \subseteq Opens(u)
  BY <1>1, <1>2 DEF Opens
<1>8. Opens(w) \subseteq Opens(u)
  BY <1>1, <1>3 DEF Opens
<1>9. ASSUME Rising(v), Rising(w), Below(Opens(v), Opens(w)) PROVE Rising(u)
  <2> SUFFICES ASSUME NEW i \in 1 .. n + z, NEW j \in 1 .. n + z, i < j, u[i].sym = "open", u[j].sym = "open"
               PROVE  u[i].msg < u[j].msg
    BY <1>1 DEF Rising
  <2>1. CASE i \in 1 .. n /\ j \in 1 .. n
    BY <1>2, <1>9, <2>1 DEF Rising
  <2>2. CASE i \in 1 .. n /\ j \notin 1 .. n
    <3>1. u[i].msg \in Opens(v)
      BY <1>2, <2>2 DEF Opens
    <3>2. u[j].msg \in Opens(w)
      BY <1>4, <1>5, <2>2 DEF Opens
    <3> QED
      BY <1>9, <3>1, <3>2 DEF Below
  <2>3. CASE i \notin 1 .. n
    <3>1. j \notin 1 .. n
      BY <1>1, <2>3
    <3>2. i - n \in 1 .. z /\ j - n \in 1 .. z /\ i - n < j - n /\ u[i] = w[i - n] /\ u[j] = w[j - n]
      BY <1>1, <1>4, <1>5, <2>3, <3>1
    <3> QED
      BY <1>9, <3>2 DEF Rising
  <2> QED
    BY <2>1, <2>2, <2>3
<1> QED
  BY <1>1, <1>6, <1>7, <1>8, <1>9 DEF u

\* A part of a text, and what is behind it.
LEMMA OpensOfPart ==
  ASSUME NEW w \in Seq(Byte), NEW a \in Nat, NEW c \in Nat, c <= Len(w)
  PROVE  /\ SubSeq(w, a + 1, c) \in Seq(Byte) /\ Opens(SubSeq(w, a + 1, c)) \subseteq Opens(w)
         /\ \A x \in Opens(SubSeq(w, a + 1, c)) :
                \E i \in 1 .. Len(w) : a < i /\ i <= c /\ w[i].sym = "open" /\ w[i].msg = x
         /\ \A i \in 1 .. Len(w) : a < i /\ i <= c /\ w[i].sym = "open" =>
                w[i].msg \in Opens(SubSeq(w, a + 1, c))
         /\ Rising(w) => Rising(SubSeq(w, a + 1, c))
<1> DEFINE u == SubSeq(w, a + 1, c)
           n == Len(u)
<1>1. u \in Seq(Byte) /\ n \in Nat /\ n = (IF a + 1 <= c THEN c - a ELSE 0)
  OBVIOUS
<1>2. \A i \in 1 .. n : u[i] = w[a + i] /\ a + i \in 1 .. Len(w) /\ a < a + i /\ a + i <= c
  <2> SUFFICES ASSUME NEW i \in 1 .. n
               PROVE  u[i] = w[a + i] /\ a + i \in 1 .. Len(w) /\ a < a + i /\ a + i <= c
    OBVIOUS
  <2>1. a + 1 <= c /\ n = c - a
    BY <1>1
  <2>2. a + i \in 1 .. Len(w) /\ a < a + i /\ a + i <= c
    BY <2>1
  <2>3. u[i] = w[a + i]
    BY <2>1
  <2> QED
    BY <2>2, <2>3
<1> HIDE DEF u
<1>3. ASSUME NEW x \in Opens(u)
      PROVE  \E i \in 1 .. Len(w) : a < i /\ i <= c /\ w[i].sym = "open" /\ w[i].msg = x
  <2>1. PICK i \in 1 .. n : u[i].sym = "open" /\ u[i].msg = x
    BY <1>3 DEF Opens
  <2> QED
    BY <1>2, <2>1
<1>4. Opens(u) \subseteq Opens(w)
  BY <1>3 DEF Opens
<1>5. ASSUME Rising(w) PROVE Rising(u)
  <2> SUFFICES ASSUME NEW i \in 1 .. n, NEW j \in 1 .. n, i < j, u[i].sym = "open", u[j].sym = "open"
               PROVE  u[i].msg < u[j].msg
    BY DEF Rising
  <2>1. a + i < a + j
    OBVIOUS
  <2> QED
    BY <1>2, <1>5, <2>1 DEF Rising
<1>6. ASSUME NEW i \in 1 .. Len(w), a < i, i <= c, w[i].sym = "open" PROVE w[i].msg \in Opens(u)
  <2>1. i - a \in 1 .. n /\ a + (i - a) = i
    BY <1>1, <1>6
  <2>2. u[i - a] = w[i]
    BY <1>2, <2>1
  <2> QED
    BY <1>6, <2>1, <2>2 DEF Opens
<1> QED
  BY <1>1, <1>3, <1>4, <1>5, <1>6 DEF u

\* What is behind a part of a text names later messages.
LEMMA PartsAreBelow ==
  ASSUME NEW w \in Seq(Byte), Rising(w), NEW a \in Nat, NEW c \in Nat, NEW d \in Nat,
         c <= d, c <= Len(w)
  PROVE  Below(Opens(SubSeq(w, a + 1, c)), Opens(SubSeq(w, d + 1, Len(w))))
<1> SUFFICES ASSUME NEW x \in Opens(SubSeq(w, a + 1, c)),
                    NEW y \in Opens(SubSeq(w, d + 1, Len(w)))
             PROVE  x < y
  BY DEF Below
<1>1. Len(w) \in Nat /\ c <= Len(w)
  OBVIOUS
<1>2. PICK i \in 1 .. Len(w) : i <= c /\ w[i].sym = "open" /\ w[i].msg = x
  <2>1. \A v \in Opens(SubSeq(w, a + 1, c)) :
           \E p \in 1 .. Len(w) : a < p /\ p <= c /\ w[p].sym = "open" /\ w[p].msg = v
    BY <1>1, OpensOfPart
  <2> QED
    BY <2>1
<1>3. PICK j \in 1 .. Len(w) : d < j /\ w[j].sym = "open" /\ w[j].msg = y
  <2> DEFINE z == Len(w)
  <2>1. z \in Nat /\ z <= Len(w)
    OBVIOUS
  <2> HIDE DEF z
  <2>2. \A v \in Opens(SubSeq(w, d + 1, z)) :
           \E p \in 1 .. Len(w) : d < p /\ p <= z /\ w[p].sym = "open" /\ w[p].msg = v
    BY <2>1, OpensOfPart
  <2> QED
    BY <2>2 DEF z
<1>4. i < j
  BY <1>2, <1>3
<1> QED
  BY <1>2, <1>3, <1>4 DEF Rising

\* What from_utf8_lossy leaves of a chunk begins the same payloads.
LEMMA OpensOfLossy ==
  ASSUME NEW c \in Seq(Byte)
  PROVE  /\ Lossy(c) \in Seq(Byte) /\ Opens(Lossy(c)) = Opens(c)
         /\ Rising(c) => Rising(Lossy(c))
<1> DEFINE t == Lossy(c)
           n == Len(c)
<1>1. Len(t) = n /\ n \in Nat /\ \A i \in 1 .. n : t[i] \in Byte /\ Like(t[i], c[i])
  BY LossyIs
<1>2. t \in Seq(Byte)
  <2>1. t = [i \in 1 .. n |-> t[i]]
    BY DEF Lossy
  <2> HIDE DEF t
  <2>2. t \in [1 .. n -> Byte]
    BY <1>1, <2>1
  <2> QED
    BY <1>1, <2>2
<1>3. \A i \in 1 .. n : (t[i].sym = "open" <=> c[i].sym = "open") /\ t[i].msg = c[i].msg
  BY <1>1 DEF Like
<1> HIDE DEF t, n
<1>4. Opens(t) = Opens(c)
  BY <1>1, <1>3 DEF Opens, n
<1>5. Rising(c) => Rising(t)
  BY <1>1, <1>3 DEF Rising, n
<1> QED
  BY <1>2, <1>4, <1>5 DEF t

-----------------------------------------------------------------------------
(* A line, in whatever way it was cut, in the parser of a subscription.    *)

\* Where a feed stands.
FeedState == [event : Nat, data : Seq(Byte), found : Seq(Frame), drain_until : Nat, panic : BOOLEAN]

\* What a line makes of it: a frame more, or more payload.
Took(f, q, l) ==
    /\ q \in FeedState
    /\ q.drain_until = f.drain_until /\ q.panic = f.panic
    /\ \/ Opens(q.data) = {} /\ q.found = Append(f.found, [event |-> f.event, data |-> f.data])
       \/ Opens(q.data) \subseteq Opens(f.data) \cup Opens(l) /\ q.found = f.found

\* The field name stands in the line.
LEMMA KeyIs ==
  ASSUME NEW l \in Seq(Byte), KeyAt(l) # 0
  PROVE  KeyAt(l) \in 1 .. Len(l)
<1> DEFINE seen == {i \in DOMAIN l : l[i].sym \notin Blank}
<1>1. DOMAIN l = 1 .. Len(l) /\ Len(l) \in Nat
  OBVIOUS
<1>2. seen # {} /\ KeyAt(l) = CHOOSE i \in seen : \A j \in seen : i <= j
  BY DEF KeyAt
<1>3. \E i \in seen : \A j \in seen : i <= j
  <2>1. seen \in SUBSET Nat
    BY <1>1
  <2> HIDE DEF seen
  <2> QED
    BY <1>2, <2>1, Least
<1>4. KeyAt(l) \in seen
  <2> HIDE DEF seen
  <2> QED
    BY <1>2, <1>3
<1> QED
  BY <1>1, <1>4

\* Nothing begins in an empty text.
LEMMA NoOpens == Opens(<<>>) = {} /\ Rising(<<>>) /\ <<>> \in Seq(Byte)
<1>1. <<>> \in Seq(Byte) /\ 1 .. Len(<<>>) = {}
  OBVIOUS
<1> QED
  BY <1>1 DEF Opens, Rising

\* Nothing begins with a line feed.
LEMMA LineFeedOpens ==
  ASSUME NEW k \in Nat
  PROVE  <<Sym("lf", k)>> \in Seq(Byte) /\ Opens(<<Sym("lf", k)>>) = {}
<1> DEFINE e == Sym("lf", k)
           w == <<e>>
<1>1. e \in Byte /\ e.sym = "lf"
  BY SymIs
<1> HIDE DEF e
<1>2. w \in Seq(Byte) /\ Len(w) = 1 /\ w[1] = e
  BY <1>1
<1>3. \A i \in 1 .. Len(w) : w[i].sym # "open"
  BY <1>1, <1>2
<1> HIDE DEF w
<1>4. Opens(w) = {}
  BY <1>3 DEF Opens
<1> QED
  BY <1>2, <1>4 DEF w, e

\* Whatever the line is.
LEMMA LineTakes ==
  ASSUME NEW f \in FeedState, NEW l \in Seq(Byte)
  PROVE  Took(f, SubscriptionLine(f, l), l)
<1> DEFINE k == KeyAt(l)
           q == SubscriptionLine(f, l)
           frame == [event |-> f.event, data |-> f.data]
           v == Value(l)
<1>1. /\ f.event \in Nat /\ f.data \in Seq(Byte) /\ f.found \in Seq(Frame) /\ f.drain_until \in Nat
      /\ f.panic \in BOOLEAN
      /\ f = [event |-> f.event, data |-> f.data, found |-> f.found,
              drain_until |-> f.drain_until, panic |-> f.panic]
  BY DEF FeedState
<1>2. ASSUME q = f PROVE Took(f, q, l)
  BY <1>2 DEF Took
<1>3. CASE l = <<>>
  <2>1. CASE f.data = <<>>
    BY <1>2, <1>3, <2>1 DEF SubscriptionLine
  <2>2. CASE f.data # <<>>
    <3>1. q = [f EXCEPT !.event = 0, !.data = <<>>, !.found = Append(f.found, frame)]
      BY <1>3, <2>2 DEF SubscriptionLine
    <3>2. frame \in Frame
      BY <1>1 DEF Frame
    <3>3. Append(f.found, frame) \in Seq(Frame)
      BY <1>1, <3>2
    <3> HIDE DEF q, frame
    <3>4. q \in FeedState /\ q.data = <<>> /\ q.found = Append(f.found, frame)
          /\ q.drain_until = f.drain_until /\ q.panic = f.panic
      <4>1. q = [event |-> 0, data |-> <<>>, found |-> Append(f.found, frame),
                 drain_until |-> f.drain_until, panic |-> f.panic]
        BY <1>1, <3>1
      <4> QED
        BY <1>1, <3>3, <4>1, NoOpens DEF FeedState
    <3> QED
      BY <3>4, NoOpens DEF Took, frame, q
  <2> QED
    BY <2>1, <2>2
<1>4. CASE l # <<>> /\ k = 0
  BY <1>2, <1>4 DEF SubscriptionLine
<1>5. CASE l # <<>> /\ k # 0
  <2>1. k \in 1 .. Len(l) /\ l[k] \in Byte /\ l[k].msg \in Nat
    <3>1. k \in 1 .. Len(l)
      BY <1>5, KeyIs
    <3> HIDE DEF k
    <3>2. l[k] \in Byte
      BY <3>1
    <3> QED
      BY <3>1, <3>2 DEF Byte
  <2>2. CASE l[k].sym = "event"
    <3>1. q = [f EXCEPT !.event = l[k].msg]
      BY <1>5, <2>2 DEF SubscriptionLine
    <3> HIDE DEF q, k
    <3>2. q = [event |-> l[k].msg, data |-> f.data, found |-> f.found,
               drain_until |-> f.drain_until, panic |-> f.panic]
      BY <1>1, <3>1
    <3>3. q \in FeedState
      BY <1>1, <2>1, <3>2 DEF FeedState
    <3>4. Took(f, q, l)
      BY <3>2, <3>3 DEF Took
    <3> QED
      BY <3>4 DEF q
  <2>3. CASE l[k].sym = "data"
    <3> DEFINE nl == <<Sym("lf", l[k].msg)>>
               d == IF f.data = <<>> THEN v ELSE f.data \o nl \o v
    <3>1. q = [f EXCEPT !.data = d]
      BY <1>5, <2>3 DEF SubscriptionLine
    <3>2. v \in Seq(Byte) /\ Opens(v) \subseteq Opens(l)
      <4>1. k \in Nat /\ Len(l) \in Nat /\ Len(l) <= Len(l) /\ v = SubSeq(l, k + 1, Len(l))
        BY <2>1 DEF Value
      <4>2. \A z \in Nat : z <= Len(l) => /\ SubSeq(l, k + 1, z) \in Seq(Byte)
                                          /\ Opens(SubSeq(l, k + 1, z)) \subseteq Opens(l)
        <5> HIDE DEF k
        <5> QED
          BY <4>1, OpensOfPart
      <4> QED
        BY <4>1, <4>2
    <3>3. nl \in Seq(Byte) /\ Opens(nl) = {}
      <4> HIDE DEF k
      <4> QED
        BY <2>1, LineFeedOpens
    <3> HIDE DEF q, k, v, nl
    <3>4. d \in Seq(Byte) /\ Opens(d) \subseteq Opens(f.data) \cup Opens(l)
      <4>1. CASE f.data = <<>>
        BY <3>2, <4>1
      <4>2. CASE f.data # <<>>
        <5>0. f.data \in Seq(Byte)
          BY <1>1
        <5>1. f.data \o nl \in Seq(Byte) /\ Opens(f.data \o nl) = Opens(f.data)
          <6>1. f.data \o nl \in Seq(Byte) /\ Opens(f.data \o nl) = Opens(f.data) \cup Opens(nl)
            BY <5>0, <3>3, OpensOfBoth
          <6> QED
            BY <3>3, <6>1
        <5>2. (f.data \o nl) \o v \in Seq(Byte)
              /\ Opens((f.data \o nl) \o v) = Opens(f.data) \cup Opens(v)
          BY <3>2, <5>1, OpensOfBoth
        <5>3. d = (f.data \o nl) \o v
          BY <4>2
        <5> QED
          BY <3>2, <5>2, <5>3
      <4> QED
        BY <4>1, <4>2
    <3> HIDE DEF d
    <3>5. q = [event |-> f.event, data |-> d, found |-> f.found,
               drain_until |-> f.drain_until, panic |-> f.panic]
      BY <1>1, <3>1
    <3>6. q \in FeedState
      BY <1>1, <3>4, <3>5 DEF FeedState
    <3>7. Took(f, q, l)
      BY <3>4, <3>5, <3>6 DEF Took
    <3> QED
      BY <3>7 DEF q
  <2>4. CASE l[k].sym \notin {"event", "data"}
    BY <1>2, <1>5, <2>4 DEF SubscriptionLine
  <2> QED
    BY <2>2, <2>3, <2>4
<1> QED
  BY <1>3, <1>4, <1>5

-----------------------------------------------------------------------------
\* The payloads of the frames found, of the data at hand and of what is ahead rise; all that was
\* begun is from O or ahead.
Chain(f, ahead) ==
    /\ Below(Opens(f.data), ahead)
    /\ \A i \in 1 .. Len(f.found) : Below(Opens(f.found[i].data), Opens(f.data) \cup ahead)
    /\ \A i, j \in 1 .. Len(f.found) : i < j => Below(Opens(f.found[i].data), Opens(f.found[j].data))
From(f, O) ==
    Opens(f.data) \subseteq O /\ \A i \in 1 .. Len(f.found) : Opens(f.found[i].data) \subseteq O

\* A line of what is ahead keeps the chain.
LEMMA ChainGrows ==
  ASSUME NEW f \in FeedState, NEW q, NEW l, Took(f, q, l),
         NEW O, NEW ahead, NEW rest, Chain(f, ahead), From(f, O),
         rest \subseteq ahead, Opens(l) \subseteq ahead, Opens(l) \subseteq O, Below(Opens(l), rest)
  PROVE  Chain(q, rest) /\ From(q, O)
<1>1. q \in FeedState /\ f.found \in Seq(Frame) /\ Len(f.found) \in Nat
  BY DEF Took, FeedState
<1>2. CASE Opens(q.data) = {} /\ q.found = Append(f.found, [event |-> f.event, data |-> f.data])
  <2> DEFINE n == Len(f.found)
             frame == [event |-> f.event, data |-> f.data]
             fs == Append(f.found, frame)
  <2>1. frame \in Frame /\ frame.data = f.data
    BY DEF Frame, FeedState
  <2> HIDE DEF frame
  <2>2. n \in Nat /\ Len(fs) = n + 1 /\ fs[n + 1] = frame /\ \A i \in 1 .. n : fs[i] = f.found[i]
    BY <1>1, <2>1
  <2>3. \A i \in 1 .. n + 1 : i # n + 1 => i \in 1 .. n
    BY <2>2
  <2>4. q.found = fs
    BY <1>2 DEF frame
  <2> HIDE DEF n, fs
  <2>5. \A i \in 1 .. n + 1 : Below(Opens(fs[i].data), ahead) /\ Opens(fs[i].data) \subseteq O
    <3> SUFFICES ASSUME NEW i \in 1 .. n + 1
                 PROVE  Below(Opens(fs[i].data), ahead) /\ Opens(fs[i].data) \subseteq O
      OBVIOUS
    <3>1. CASE i = n + 1
      BY <2>1, <2>2, <3>1 DEF Chain, From
    <3>2. CASE i # n + 1
      <4>1. i \in 1 .. n /\ fs[i] = f.found[i]
        BY <2>2, <2>3, <3>2
      <4>2. Below(Opens(f.found[i].data), Opens(f.data) \cup ahead) /\ Opens(f.found[i].data) \subseteq O
        BY <4>1 DEF Chain, From, n
      <4> QED
        BY <4>1, <4>2 DEF Below
    <3> QED
      BY <3>1, <3>2
  <2>6. ASSUME NEW i \in 1 .. n + 1, NEW j \in 1 .. n + 1, i < j
        PROVE  Below(Opens(fs[i].data), Opens(fs[j].data))
    <3>1. i \in 1 .. n /\ fs[i] = f.found[i]
      BY <2>2, <2>6
    <3>2. CASE j = n + 1
      <4>1. Below(Opens(f.found[i].data), Opens(f.data) \cup ahead)
        BY <3>1 DEF Chain, n
      <4> QED
        BY <2>1, <2>2, <3>1, <3>2, <4>1 DEF Below
    <3>3. CASE j # n + 1
      <4>1. j \in 1 .. n /\ fs[j] = f.found[j]
        BY <2>2, <2>3, <3>3
      <4> QED
        BY <2>6, <3>1, <4>1 DEF Chain, n
    <3> QED
      BY <3>2, <3>3
  <2>7. Chain(q, rest)
    <3>1. \A i \in 1 .. n + 1 : Below(Opens(fs[i].data), rest)
      BY <2>5 DEF Below
    <3> QED
      BY <1>2, <2>2, <2>4, <2>6, <3>1 DEF Chain, Below
  <2>8. From(q, O)
    BY <1>2, <2>2, <2>4, <2>5 DEF From
  <2> QED
    BY <2>7, <2>8
<1>3. CASE Opens(q.data) \subseteq Opens(f.data) \cup Opens(l) /\ q.found = f.found
  <2>1. Below(Opens(f.data), ahead)
    BY DEF Chain
  <2>2. Below(Opens(q.data), rest)
    BY <1>3, <2>1 DEF Below
  <2>3. ASSUME NEW i \in 1 .. Len(f.found) PROVE Below(Opens(f.found[i].data), Opens(q.data) \cup rest)
    <3>1. Below(Opens(f.found[i].data), Opens(f.data) \cup ahead)
      BY DEF Chain
    <3>2. Opens(q.data) \cup rest \subseteq Opens(f.data) \cup ahead
      BY <1>3
    <3> QED
      BY <3>1, <3>2 DEF Below
  <2>4. Chain(q, rest)
    BY <1>3, <2>2, <2>3 DEF Chain
  <2>5. From(q, O)
    BY <1>3 DEF From
  <2> QED
    BY <2>4, <2>5
<1> QED
  BY <1>2, <1>3 DEF Took

-----------------------------------------------------------------------------
(* A feed of that parser.                                                  *)

\* Where a feed stands behind i bytes of its buffer: it has panicked, or the payloads rise.
Standing(f, b, W, O) ==
    /\ f \in FeedState
    /\ ~f.panic => /\ Chain(f, Opens(SubSeq(b, f.drain_until + 1, Len(b))) \cup W)
                   /\ From(f, O)

\* One byte more.
LEMMA ByteStands ==
  ASSUME NEW b \in Seq(Byte), Rising(b), NEW W, Below(Opens(b), W), NEW O, Opens(b) \subseteq O,
         NEW f, Standing(f, b, W, O), NEW i \in 1 .. Len(b)
  PROVE  Standing(SubscriptionByte(f, b, i), b, W, O)
<1> DEFINE d == f.drain_until
           a == d + (i - 1)
           l == SubSeq(b, d + 1, a)
           q == SubscriptionLine(f, l)
           r == [q EXCEPT !.drain_until = a + 1]
           g == SubscriptionByte(f, b, i)
           ahead == Opens(SubSeq(b, d + 1, Len(b))) \cup W
           rest == Opens(SubSeq(b, (a + 1) + 1, Len(b))) \cup W
<1>1. f \in FeedState /\ d \in Nat /\ a \in Nat /\ d <= a /\ Len(b) \in Nat
  <2>1. f \in FeedState /\ d \in Nat
    BY DEF Standing, FeedState
  <2> HIDE DEF d
  <2> QED
    BY <2>1
<1>2. CASE f.panic \/ b[i].sym # "lf"
  BY <1>2 DEF SubscriptionByte
<1>3. CASE ~f.panic /\ b[i].sym = "lf" /\ (Uncuttable(b, d) \/ Uncuttable(b, a))
  <2>1. g = [f EXCEPT !.panic = TRUE]
    BY <1>3 DEF SubscriptionByte
  <2> HIDE DEF g
  <2>2. g \in FeedState /\ g.panic
    BY <1>1, <2>1 DEF FeedState
  <2>3. Standing(g, b, W, O)
    BY <2>2 DEF Standing
  <2> QED
    BY <2>3 DEF g
<1>4. CASE ~f.panic /\ b[i].sym = "lf" /\ ~Uncuttable(b, d) /\ ~Uncuttable(b, a)
  <2>1. g = r
    BY <1>4 DEF SubscriptionByte
  <2>2. a <= Len(b)
    BY <1>1, <1>4 DEF Uncuttable
  <2>3. Chain(f, ahead) /\ From(f, O)
    BY <1>4 DEF Standing
  <2> HIDE DEF a, d, g
  <2>4. l \in Seq(Byte) /\ Opens(l) \subseteq Opens(b)
    BY <1>1, <2>2, OpensOfPart
  <2>5. Opens(l) \subseteq Opens(SubSeq(b, d + 1, Len(b)))
    <3> SUFFICES ASSUME NEW x \in Opens(l) PROVE x \in Opens(SubSeq(b, d + 1, Len(b)))
      OBVIOUS
    <3>1. PICK j \in 1 .. Len(b) : d < j /\ j <= a /\ b[j].sym = "open" /\ b[j].msg = x
      BY <1>1, <2>2, OpensOfPart
    <3>2. j <= Len(b)
      OBVIOUS
    <3>3. \A z \in Nat : z <= Len(b) /\ j <= z => b[j].msg \in Opens(SubSeq(b, d + 1, z))
      BY <1>1, <3>1, OpensOfPart
    <3> QED
      BY <1>1, <3>1, <3>2, <3>3
  <2>6. Opens(SubSeq(b, (a + 1) + 1, Len(b))) \subseteq Opens(SubSeq(b, d + 1, Len(b)))
    <3> SUFFICES ASSUME NEW x \in Opens(SubSeq(b, (a + 1) + 1, Len(b)))
                 PROVE  x \in Opens(SubSeq(b, d + 1, Len(b)))
      OBVIOUS
    <3> DEFINE z == Len(b)
    <3>0. z \in Nat /\ z <= Len(b) /\ a + 1 \in Nat
      BY <1>1
    <3> HIDE DEF z
    <3>1. \A y \in Opens(SubSeq(b, (a + 1) + 1, z)) :
             \E j \in 1 .. Len(b) : a + 1 < j /\ j <= z /\ b[j].sym = "open" /\ b[j].msg = y
      BY <3>0, OpensOfPart
    <3>2. PICK j \in 1 .. Len(b) : a + 1 < j /\ j <= z /\ b[j].sym = "open" /\ b[j].msg = x
      BY <3>1 DEF z
    <3>3. d < j
      BY <1>1, <3>2
    <3>4. b[j].msg \in Opens(SubSeq(b, d + 1, z))
      BY <1>1, <3>0, <3>2, <3>3, OpensOfPart
    <3> QED
      BY <3>2, <3>4 DEF z
  <2>7. Below(Opens(l), Opens(SubSeq(b, (a + 1) + 1, Len(b))))
    <3>1. a + 1 \in Nat /\ a <= a + 1
      BY <1>1
    <3> QED
      BY <1>1, <2>2, <3>1, PartsAreBelow
  <2> HIDE DEF l, q
  <2>8. Took(f, q, l)
    BY <1>1, <2>4, LineTakes DEF q
  <2>9. Below(Opens(l), rest)
    BY <2>4, <2>7 DEF Below
  <2>10. Chain(q, rest) /\ From(q, O)
    <3>1. rest \subseteq ahead /\ Opens(l) \subseteq ahead /\ Opens(l) \subseteq O
      BY <2>4, <2>5, <2>6
    <3> HIDE DEF rest, ahead
    <3> QED
      BY <1>1, <2>3, <2>8, <2>9, <3>1, ChainGrows
  <2>11. r \in FeedState /\ r.data = q.data /\ r.found = q.found /\ r.drain_until = a + 1
    <3>1. q \in FeedState
      BY <2>8 DEF Took
    <3>2. q = [event |-> q.event, data |-> q.data, found |-> q.found,
               drain_until |-> q.drain_until, panic |-> q.panic]
      BY <3>1 DEF FeedState
    <3>3. a + 1 \in Nat
      BY <1>1
    <3> DEFINE e == a + 1
    <3> HIDE DEF e
    <3>4. r = [event |-> q.event, data |-> q.data, found |-> q.found, drain_until |-> e,
               panic |-> q.panic]
      BY <3>2 DEF e
    <3> HIDE DEF r
    <3> QED
      BY <3>1, <3>3, <3>4 DEF FeedState, e
  <2> HIDE DEF r
  <2>12. Chain(r, rest) /\ From(r, O)
    BY <2>10, <2>11 DEF Chain, From
  <2>13. Standing(r, b, W, O)
    BY <2>11, <2>12 DEF Standing
  <2> QED
    BY <2>1, <2>13 DEF g
<1> QED
  BY <1>2, <1>3, <1>4

-----------------------------------------------------------------------------
\* Where a feed begins.
StartFeed(p) == [event |-> p.event, data |-> p.data, found |-> <<>>, drain_until |-> 0, panic |-> FALSE]

\* The bytes of the buffer, one after the other.
SubRuns(f, start, b, n) ==
    /\ f = [i \in 0 .. n |-> f[i]] /\ f[0] = start
    /\ \A i \in 1 .. n : f[i] = SubscriptionByte(f[i - 1], b, i)

\* What is left when the feed ends at f.
Ends(r, f, b) ==
    r = [buffer |-> SubSeq(b, f.drain_until + 1, Len(b)), event |-> f.event,
         data |-> f.data, found |-> f.found,
         panic |-> f.panic \/ Uncuttable(b, f.drain_until)]

\* feed goes through the buffer byte by byte.
LEMMA SubscriptionRuns ==
  ASSUME NEW p, NEW c, NEW b, b = p.buffer \o Lossy(c), Len(b) \in Nat
  PROVE  \E f : SubRuns(f, StartFeed(p), b, Len(b)) /\ Ends(SubscriptionFeed(p, c), f[Len(b)], b)
<1> DEFINE n == Len(b)
           start == StartFeed(p)
           S == {m \in 0 .. n : \E f : SubRuns(f, start, b, m)}
<1>1. 0 \in S
  <2> DEFINE f == [i \in 0 .. 0 |-> start]
  <2>1. f = [i \in 0 .. 0 |-> f[i]] /\ f[0] = start /\ 1 .. 0 = {}
    OBVIOUS
  <2> HIDE DEF f
  <2>2. SubRuns(f, start, b, 0)
    BY <2>1 DEF SubRuns
  <2> QED
    BY <2>2
<1>2. ASSUME NEW m \in 0 .. n - 1, m \in S PROVE m + 1 \in S
  <2>1. PICK f : SubRuns(f, start, b, m)
    BY <1>2
  <2> DEFINE k == m + 1
             g == [i \in 0 .. k |-> IF i = k THEN SubscriptionByte(f[m], b, k) ELSE f[i]]
  <2>2. k \in Nat /\ k - 1 = m /\ m \in Nat /\ 0 # k /\ 0 \in 0 .. k /\ k \in 0 .. n
    OBVIOUS
  <2>3. g = [i \in 0 .. k |-> g[i]] /\ g[0] = start
    BY <2>1, <2>2 DEF SubRuns
  <2>4. ASSUME NEW i \in 1 .. k PROVE g[i] = SubscriptionByte(g[i - 1], b, i)
    <3>1. i - 1 \in 0 .. k /\ i - 1 # k /\ i \in 0 .. k
      BY <2>2
    <3>2. g[i - 1] = f[i - 1]
      BY <3>1
    <3>3. CASE i = k
      <4>1. g[i] = SubscriptionByte(f[m], b, k)
        BY <3>1, <3>3
      <4> QED
        BY <2>2, <3>2, <3>3, <4>1
    <3>4. CASE i # k
      <4>1. g[i] = f[i] /\ i \in 1 .. m
        BY <2>2, <3>1, <3>4
      <4>2. f[i] = SubscriptionByte(f[i - 1], b, i)
        BY <2>1, <4>1 DEF SubRuns
      <4> QED
        BY <3>2, <4>1, <4>2
    <3> QED
      BY <3>3, <3>4
  <2> HIDE DEF g
  <2>5. SubRuns(g, start, b, k)
    BY <2>3, <2>4 DEF SubRuns
  <2> QED
    BY <2>2, <2>5
<1> HIDE DEF S
<1>3. 0 .. n \subseteq S
  BY <1>1, <1>2, Induction
<1>4. PICK f : SubRuns(f, start, b, n)
  BY <1>3 DEF S
<1> DEFINE One(a, x) == CHOOSE q \in {SubscriptionByte(y, b, x) : y \in {a}} : TRUE
           Solves(h) == h = [i \in 0 .. n |-> IF i = 0 THEN start ELSE One(h[i - 1], i)]
           fed == CHOOSE h : Solves(h)
<1>5. \A a, x : One(a, x) = SubscriptionByte(a, b, x)
  <2> SUFFICES ASSUME NEW a, NEW x PROVE One(a, x) = SubscriptionByte(a, b, x)
    OBVIOUS
  <2>1. {SubscriptionByte(y, b, x) : y \in {a}} = {SubscriptionByte(a, b, x)}
    OBVIOUS
  <2> QED
    BY <2>1
<1>6. SubscriptionFeed(p, c) =
        [buffer |-> SubSeq(b, fed[n].drain_until + 1, Len(b)), event |-> fed[n].event,
         data |-> fed[n].data, found |-> fed[n].found,
         panic |-> fed[n].panic \/ Uncuttable(b, fed[n].drain_until)]
  BY DEF SubscriptionFeed, StartFeed
<1> HIDE DEF One
<1>7. Solves(f)
  <2>1. \A i \in 1 .. n : f[i] = One(f[i - 1], i)
    BY <1>4, <1>5 DEF SubRuns
  <2>2. f = [i \in 0 .. n |-> f[i]] /\ f[0] = start
    BY <1>4 DEF SubRuns
  <2>3. \A i \in 0 .. n : f[i] = IF i = 0 THEN start ELSE One(f[i - 1], i)
    <3>1. \A i \in 0 .. n : i # 0 => i \in 1 .. n
      OBVIOUS
    <3> QED
      BY <2>1, <2>2, <3>1
  <2>4. [i \in 0 .. n |-> f[i]] = [i \in 0 .. n |-> IF i = 0 THEN start ELSE One(f[i - 1], i)]
    BY <2>3
  <2> QED
    BY <2>2, <2>4
<1>8. Solves(fed)
  <2>1. \E h : Solves(h)
    BY <1>7
  <2> HIDE DEF Solves
  <2> QED
    BY <2>1
<1> HIDE DEF fed
<1>9. SubRuns(fed, start, b, n)
  <2>1. /\ fed = [i \in 0 .. n |-> fed[i]]
        /\ \A i \in 0 .. n : fed[i] = IF i = 0 THEN start ELSE One(fed[i - 1], i)
    BY <1>8
  <2>2. \A i \in 1 .. n : i \in 0 .. n /\ i # 0
    OBVIOUS
  <2>3. 0 \in 0 .. n
    OBVIOUS
  <2> QED
    BY <1>5, <2>1, <2>2, <2>3 DEF SubRuns
<1> QED
  BY <1>6, <1>9 DEF Ends

\* A whole chunk.
LEMMA FeedStands ==
  ASSUME NEW p, p.buffer \in Seq(Byte), p.data \in Seq(Byte), p.event \in Nat,
         NEW c \in Seq(Byte), NEW b, b = p.buffer \o Lossy(c), b \in Seq(Byte), Rising(b),
         NEW W, Below(Opens(b), W), Below(Opens(p.data), Opens(b) \cup W)
  PROVE  \E f : /\ Standing(f, b, W, Opens(p.data) \cup Opens(b))
                /\ Ends(SubscriptionFeed(p, c), f, b)
<1> DEFINE O == Opens(p.data) \cup Opens(b)
           n == Len(b)
<1>1. n \in Nat
  OBVIOUS
<1>2. PICK f : SubRuns(f, StartFeed(p), b, n) /\ Ends(SubscriptionFeed(p, c), f[n], b)
  BY <1>1, SubscriptionRuns
<1>3. Standing(StartFeed(p), b, W, O)
  <2> DEFINE s == StartFeed(p)
  <2>1. s \in FeedState /\ s.drain_until = 0 /\ s.data = p.data /\ s.found = <<>>
    <3>1. <<>> \in Seq(Frame)
      OBVIOUS
    <3> QED
      BY <3>1 DEF StartFeed, FeedState
  <2> HIDE DEF s
  <2>2. SubSeq(b, 0 + 1, Len(b)) = b /\ 1 .. Len(<<>>) = {}
    OBVIOUS
  <2>3. Chain(s, Opens(b) \cup W) /\ From(s, O)
    BY <2>1, <2>2 DEF Chain, From
  <2>4. Standing(s, b, W, O)
    BY <2>1, <2>2, <2>3 DEF Standing
  <2> QED
    BY <2>4 DEF s
<1> DEFINE S == {i \in 0 .. n : Standing(f[i], b, W, O)}
<1>4. 0 \in S
  BY <1>1, <1>2, <1>3 DEF SubRuns
<1>5. ASSUME NEW i \in 0 .. n - 1, i \in S PROVE i + 1 \in S
  <2>1. i + 1 \in 1 .. n /\ i + 1 \in 0 .. n /\ (i + 1) - 1 = i
    BY <1>1
  <2>2. f[i + 1] = SubscriptionByte(f[i], b, i + 1)
    BY <1>2, <2>1 DEF SubRuns
  <2>3. Standing(f[i], b, W, O) /\ Opens(b) \subseteq O
    BY <1>5
  <2> HIDE DEF O
  <2>4. Standing(SubscriptionByte(f[i], b, i + 1), b, W, O)
    BY <2>1, <2>3, ByteStands
  <2> QED
    BY <2>1, <2>2, <2>4
<1> HIDE DEF S
<1>6. n \in S
  <2>1. n \in 0 .. n
    BY <1>1
  <2> HIDE DEF n
  <2>2. 0 .. n \subseteq S
    BY <1>1, <1>4, <1>5, Induction DEF n
  <2> QED
    BY <2>1, <2>2
<1> QED
  BY <1>2, <1>6 DEF S

-----------------------------------------------------------------------------
(* What a subscriber is told of the frames.                                *)

\* Data that is the JSON of a message has the beginning of that message in it.
LEMMA CarriedOpens ==
  ASSUME script \in Seq(Message), NEW d \in Seq(Byte), NEW k \in 1 .. Len(script), IsJson(d, k)
  PROVE  k \in Opens(d)
<1> DEFINE m == script[k]
           js == Json(m, k)
           place(i) == Cardinality({j \in Ink(d) : j <= i})
<1>1. m \in Message /\ k \in Nat /\ DOMAIN d = 1 .. Len(d)
  OBVIOUS
<1>2. Spells(js, k, Full(m), JsonOf(m)) /\ Full(m) \in {2, 4}
  BY <1>1, JsonSpells DEF Full
<1>3. Len(js) = Full(m) /\ js[1] = Sym("open", k)
  <2>1. 1 \in 1 .. Full(m)
    BY <1>2
  <2>2. JsonSym(m, 1) = "open"
    BY DEF JsonSym
  <2>3. JsonOf(m)[1] = "open"
    BY <2>1, <2>2 DEF JsonOf
  <2> QED
    BY <1>2, <2>1, <2>3 DEF Spells
<1>4. Cardinality(Ink(d)) = Len(js) /\ \A i \in Ink(d) : Like(d[i], js[place(i)])
  BY DEF IsJson
<1> HIDE DEF js
<1>5. Ink(d) # {}
  <2>1. Cardinality({}) = 0
    BY FS_EmptySet
  <2>2. Full(m) # 0
    BY <1>2
  <2>3. Cardinality(Ink(d)) # 0
    BY <1>3, <1>4, <2>2
  <2> QED
    BY <2>1, <2>3, Zenon
<1>6. Ink(d) \in SUBSET Nat /\ Ink(d) \subseteq 1 .. Len(d)
  BY <1>1 DEF Ink
<1>7. PICK i \in Ink(d) : \A j \in Ink(d) : i <= j
  BY <1>5, <1>6, Least
<1>8. {j \in Ink(d) : j <= i} = {i}
  BY <1>6, <1>7
<1>9. place(i) = 1
  BY <1>8, FS_Singleton
<1>10. Like(d[i], Sym("open", k))
  BY <1>3, <1>4, <1>7, <1>9
<1>11. d[i].sym = "open" /\ d[i].msg = k
  BY <1>1, <1>10, SymIs DEF Like
<1> QED
  BY <1>6, <1>7, <1>11 DEF Opens

-----------------------------------------------------------------------------
\* Events that name ever later messages; the messages they name.
Strict(w) == \A i, j \in 1 .. Len(w) : i < j => w[i].msg < w[j].msg
Msgs(w) == {w[i].msg : i \in 1 .. Len(w)}

\* Two lists of events, one behind the other.
LEMMA StrictBoth ==
  ASSUME NEW v \in Seq(Event), NEW w \in Seq(Event)
  PROVE  /\ v \o w \in Seq(Event) /\ Msgs(v \o w) = Msgs(v) \cup Msgs(w)
         /\ Strict(v) /\ Strict(w) /\ Below(Msgs(v), Msgs(w)) => Strict(v \o w)
<1> DEFINE u == v \o w
           n == Len(v)
           z == Len(w)
<1>1. u \in Seq(Event) /\ Len(u) = n + z /\ n \in Nat /\ z \in Nat
  OBVIOUS
<1>2. \A i \in 1 .. n : u[i] = v[i] /\ i \in 1 .. n + z
  BY <1>1
<1>3. \A i \in 1 .. z : u[n + i] = w[i] /\ n + i \in 1 .. n + z
  BY <1>1
<1>4. \A i \in 1 .. n + z : i \notin 1 .. n => i - n \in 1 .. z /\ n + (i - n) = i
  BY <1>1
<1> HIDE DEF u
<1>5. \A i \in 1 .. n + z : i \notin 1 .. n => u[i] = w[i - n]
  <2> SUFFICES ASSUME NEW i \in 1 .. n + z, i \notin 1 .. n PROVE u[i] = w[i - n]
    OBVIOUS
  <2>1. i - n \in 1 .. z /\ n + (i - n) = i
    BY <1>4
  <2> QED
    BY <1>3, <2>1
<1>6. Msgs(u) \subseteq Msgs(v) \cup Msgs(w)
  <2> SUFFICES ASSUME NEW i \in 1 .. n + z PROVE u[i].msg \in Msgs(v) \cup Msgs(w)
    BY <1>1 DEF Msgs
  <2>1. CASE i \in 1 .. n
    BY <1>2, <2>1 DEF Msgs
  <2>2. CASE i \notin 1 .. n
    BY <1>4, <1>5, <2>2 DEF Msgs
  <2> QED
    BY <2>1, <2>2
<1>7. Msgs(v) \subseteq Msgs(u)
  BY <1>1, <1>2 DEF Msgs
<1>8. Msgs(w) \subseteq Msgs(u)
  BY <1>1, <1>3 DEF Msgs
<1>9. ASSUME Strict(v), Strict(w), Below(Msgs(v), Msgs(w)) PROVE Strict(u)
  <2> SUFFICES ASSUME NEW i \in 1 .. n + z, NEW j \in 1 .. n + z, i < j
               PROVE  u[i].msg < u[j].msg
    BY <1>1 DEF Strict
  <2>1. CASE i \in 1 .. n /\ j \in 1 .. n
    BY <1>2, <1>9, <2>1 DEF Strict
  <2>2. CASE i \in 1 .. n /\ j \notin 1 .. n
    <3>1. u[i].msg \in Msgs(v)
      BY <1>2, <2>2 DEF Msgs
    <3>2. u[j].msg \in Msgs(w)
      BY <1>4, <1>5, <2>2 DEF Msgs
    <3> QED
      BY <1>9, <3>1, <3>2 DEF Below
  <2>3. CASE i \notin 1 .. n
    <3>1. j \notin 1 .. n
      BY <1>1, <2>3
    <3>2. i - n \in 1 .. z /\ j - n \in 1 .. z /\ i - n < j - n /\ u[i] = w[i - n] /\ u[j] = w[j - n]
      BY <1>1, <1>4, <1>5, <2>3, <3>1
    <3> QED
      BY <1>9, <3>2 DEF Strict
  <2> QED
    BY <2>1, <2>2, <2>3
<1> QED
  BY <1>1, <1>6, <1>7, <1>8, <1>9 DEF u

\* No event.
LEMMA NoMsgs == <<>> \in Seq(Event) /\ Strict(<<>>) /\ Msgs(<<>>) = {}
<1>1. <<>> \in Seq(Event) /\ 1 .. Len(<<>>) = {}
  OBVIOUS
<1> QED
  BY <1>1 DEF Msgs, Strict

\* What a subscriber is told of one frame.
Notice(f) ==
    LET k == Carried(f.data)
    IN IF /\ f.event = 0 \/ script[f.event].event = "message"
          /\ k # 0 /\ script[k].kind = "notification"
       THEN <<[kind |-> "Notification", msg |-> k, part |-> 0, intact |-> Intact(f.data)]>>
       ELSE << >>

\* It names a message whose payload begins in the frame.
LEMMA NoticeIs ==
  ASSUME script \in Seq(Message), NEW f \in Frame
  PROVE  Notice(f) \in Seq(Event) /\ Strict(Notice(f)) /\ Msgs(Notice(f)) \subseteq Opens(f.data)
<1> DEFINE k == Carried(f.data)
           b == Intact(f.data)
           e == [kind |-> "Notification", msg |-> k, part |-> 0, intact |-> b]
<1>1. Notice(f) = <<>> \/ (k # 0 /\ Notice(f) = <<e>>)
  BY DEF Notice
<1>2. ASSUME k # 0 PROVE k \in 1 .. Len(script) /\ IsJson(f.data, k)
  <2>1. DOMAIN script = 1 .. Len(script)
    OBVIOUS
  <2> QED
    BY <1>2, <2>1, Zenon DEF Carried
<1>3. f.data \in Seq(Byte)
  BY DEF Frame
<1>0. b \in BOOLEAN
  BY Zenon DEF Intact
<1> HIDE DEF k, b
<1>4. e.msg = k
  OBVIOUS
<1>5. ASSUME k # 0 PROVE e \in Event
  <2>1. k \in Nat
    BY <1>2, <1>5
  <2> QED
    BY <1>0, <2>1 DEF Event
<1> HIDE DEF e
<1>6. CASE Notice(f) = <<>>
  BY <1>6, NoMsgs
<1>7. CASE k # 0 /\ Notice(f) = <<e>>
  <2> DEFINE w == <<e>>
  <2>1. w \in Seq(Event) /\ Len(w) = 1 /\ w[1] = e
    BY <1>5, <1>7
  <2> HIDE DEF w
  <2>2. \A i \in 1 .. Len(w) : i = 1
    BY <2>1
  <2>3. Strict(w) /\ Msgs(w) \subseteq {k}
    BY <1>4, <2>1, <2>2 DEF Strict, Msgs
  <2>4. k \in Opens(f.data)
    BY <1>2, <1>3, <1>7, CarriedOpens
  <2> QED
    BY <1>7, <2>1, <2>3, <2>4 DEF w
<1> QED
  BY <1>1, <1>6, <1>7

\* Frame by frame.
Notices(fs) == [i \in DOMAIN fs |-> Notice(fs[i])]

\* Of frames that rise, rising notifications.
LEMMA NotifiedIs ==
  ASSUME script \in Seq(Message), NEW fs \in Seq(Frame),
         \A i, j \in 1 .. Len(fs) : i < j => Below(Opens(fs[i].data), Opens(fs[j].data))
  PROVE  /\ Notified(fs) \in Seq(Event) /\ Strict(Notified(fs))
         /\ \A x \in Msgs(Notified(fs)) : \E i \in 1 .. Len(fs) : x \in Opens(fs[i].data)
<1> DEFINE n == Len(fs)
           v == Notices(fs)
           Good(w, m) == /\ w \in Seq(Event) /\ Strict(w)
                         /\ \A x \in Msgs(w) : \E i \in 1 .. m : x \in Opens(fs[i].data)
<1>1. n \in Nat /\ DOMAIN fs = 1 .. n /\ \A i \in 1 .. n : fs[i] \in Frame
  OBVIOUS
<1>2. Notified(fs) = FlattenSeq(v)
  BY DEF Notified, Notices, Notice
<1>3. v \in [1 .. n -> Seq(Event)] /\ \A i \in 1 .. n : v[i] = Notice(fs[i])
  BY <1>1, NoticeIs DEF Notices
<1> HIDE DEF n, v
<1>4. CASE n = 0
  <2>1. v = <<>>
    BY <1>3, <1>4
  <2>2. FlattenSeq(<<>>) = <<>>
    BY DEF FlattenSeq
  <2>3. Notified(fs) = <<>>
    BY <1>2, <2>1, <2>2
  <2> QED
    BY <2>3, NoMsgs
<1>5. CASE n # 0
  <2>1. PICK g : Joins(n, v, Event, g) /\ FlattenSeq(v) = g[n]
    BY <1>1, <1>3, <1>5, Flattened
  <2> DEFINE S == {m \in 0 .. n : m # 0 => Good(g[m], m)}
  <2>2. 0 \in S
    BY <1>1
  <2>3. ASSUME NEW m \in 0 .. n - 1, m \in S PROVE m + 1 \in S
    <3> DEFINE k == m + 1
               w == Notice(fs[k])
    <3>1. k \in 1 .. n /\ k \in 0 .. n /\ k # 0 /\ k - 1 = m /\ m \in Nat
      BY <1>1
    <3>2. fs[k] \in Frame /\ v[k] = w
      BY <1>1, <1>3, <3>1
    <3>3. w \in Seq(Event) /\ Strict(w) /\ Msgs(w) \subseteq Opens(fs[k].data)
      BY <3>2, NoticeIs
    <3> HIDE DEF w
    <3>4. CASE m = 0
      <4>0. k = 1
        BY <3>4
      <4>1. g[k] = w
        <5>1. \A i \in 1 .. n : i = 1 => g[i] = v[i]
          BY <2>1 DEF Joins
        <5> HIDE DEF k
        <5> QED
          BY <3>1, <3>2, <4>0, <5>1
      <4>2. k \in 1 .. k
        BY <3>1
      <4>3. Good(g[k], k)
        BY <3>3, <4>1, <4>2
      <4> QED
        BY <3>1, <4>3
    <3>5. CASE m # 0
      <4>1. Good(g[m], m)
        BY <2>3, <3>5
      <4>2. g[k] = g[m] \o w
        <5>1. k # 1
          BY <3>1, <3>5
        <5> QED
          BY <2>1, <3>1, <3>2, <5>1 DEF Joins
      <4>3. Below(Msgs(g[m]), Msgs(w))
        <5> SUFFICES ASSUME NEW x \in Msgs(g[m]), NEW y \in Msgs(w) PROVE x < y
          BY DEF Below
        <5>1. PICK i \in 1 .. m : x \in Opens(fs[i].data)
          BY <4>1
        <5>2. i \in 1 .. n /\ i < k
          BY <1>1, <3>1
        <5>3. Below(Opens(fs[i].data), Opens(fs[k].data))
          BY <3>1, <5>2 DEF n
        <5> QED
          BY <3>3, <5>1, <5>3 DEF Below
      <4>4. g[k] \in Seq(Event) /\ Strict(g[k]) /\ Msgs(g[k]) = Msgs(g[m]) \cup Msgs(w)
        BY <3>3, <4>1, <4>2, <4>3, StrictBoth
      <4>5. ASSUME NEW x \in Msgs(g[k]) PROVE \E i \in 1 .. k : x \in Opens(fs[i].data)
        <5>1. CASE x \in Msgs(g[m])
          <6>1. PICK i \in 1 .. m : x \in Opens(fs[i].data)
            BY <4>1, <5>1
          <6>2. i \in 1 .. k
            BY <3>1
          <6> QED
            BY <6>1, <6>2
        <5>2. CASE x \in Msgs(w)
          <6>1. k \in 1 .. k
            BY <3>1
          <6> QED
            BY <3>3, <5>2, <6>1
        <5> QED
          BY <4>4, <4>5, <5>1, <5>2
      <4>6. Good(g[k], k)
        BY <4>4, <4>5
      <4> QED
        BY <3>1, <4>6
    <3> QED
      BY <3>4, <3>5
  <2> HIDE DEF S
  <2>4. 0 .. n \subseteq S
    BY <1>1, <2>2, <2>3, Induction
  <2>5. n \in 0 .. n
    BY <1>1
  <2>6. Good(g[n], n)
    BY <1>5, <2>4, <2>5 DEF S
  <2> QED
    BY <1>2, <2>1, <2>6 DEF n
<1> QED
  BY <1>4, <1>5

-----------------------------------------------------------------------------
(* The order of the payloads in a body.                                    *)

\* A message begins its payload once.
LEMMA OpensOnce ==
  ASSUME NEW m \in Message, NEW e \in LineEnd, NEW o \in 1 .. Size(m, e), SymAt(m, e, o) = "open"
  PROVE  o = EventLen(m, e) + 2
<1> DEFINE a == EventLen(m, e)
           l == LastAt(m, e)
           t == TextEnd(m, e)
           h == Halved(m)
           i == ((o - l) - 1) + h
           j == JsonSym(m, o - l - 1 + Halved(m))
<1>1. /\ a \in Nat /\ l \in Nat /\ t \in Nat /\ o \in Nat /\ a <= l /\ h \in {0, 1}
      /\ h = 0 => l = a
  BY Sizes, Halves
<1>2. SymAt(m, e, o) =
        IF o <= a THEN LineSym("event", 0, a, o)
        ELSE IF o <= l THEN IF o = a + 2 THEN "open" ELSE LineSym("data", a, l, o)
        ELSE IF o = l + 1 THEN "data"
        ELSE IF o <= t THEN j
        ELSE IF o \in {BlankAt(m, e), Size(m, e)} THEN "lf" ELSE "cr"
  BY DEF SymAt
<1>3. j = "open" => i = 1
  <2>1. o - l - 1 + Halved(m) = i
    BY <1>1
  <2>2. Full(m) # 1
    BY DEF Full
  <2> HIDE DEF i
  <2>3. j = JsonSym(m, i)
    BY <2>1
  <2> QED
    BY <2>3 DEF JsonSym
<1>4. LineSym("event", 0, a, o) # "open" /\ LineSym("data", a, l, o) # "open"
  BY DEF LineSym
<1> HIDE DEF a, l, t, h, j
<1>5. ~(o <= a)
  BY <1>2, <1>4
<1>6. CASE o <= l
  BY <1>2, <1>4, <1>5, <1>6 DEF a
<1>7. CASE ~(o <= l)
  <2>1. o # l + 1 /\ j = "open"
    <3>1. IF o = l + 1 THEN SymAt(m, e, o) = "data"
          ELSE IF o <= t THEN SymAt(m, e, o) = j
          ELSE SymAt(m, e, o) \in {"lf", "cr"}
      BY <1>2, <1>5, <1>7
    <3> QED
      BY <3>1
  <2>2. ((o - l) - 1) + h = 1
    BY <1>3, <2>1
  <2>3. h = 0 /\ o = l + 2
    BY <1>1, <1>7, <2>1, <2>2
  <2> QED
    BY <1>1, <2>3 DEF a
<1> QED
  BY <1>6, <1>7

\* So its bytes rise.
LEMMA WrittenRises ==
  ASSUME NEW m \in Message, NEW k \in Nat, NEW e \in LineEnd
  PROVE  /\ Written(m, k, e) \in Seq(Byte) /\ Rising(Written(m, k, e))
         /\ Opens(Written(m, k, e)) \subseteq {k}
<1> DEFINE w == Written(m, k, e)
           n == Size(m, e)
<1>1. Spells(w, k, n, [o \in 1 .. n |-> SymAt(m, e, o)])
  BY WrittenIs
<1>2. w \in Seq(Byte) /\ Len(w) = n /\ \A o \in 1 .. n : w[o] = Sym(SymAt(m, e, o), k)
  BY <1>1 DEF Spells
<1> HIDE DEF w
<1>3. \A o \in 1 .. n : w[o].msg = k /\ w[o].sym = SymAt(m, e, o)
  BY <1>2 DEF Sym
<1>4. EventLen(m, e) \in Nat
  BY Sizes
<1>5. \A i, j \in 1 .. n : w[i].sym = "open" /\ w[j].sym = "open" => i = j
  BY <1>3, OpensOnce
<1> HIDE DEF n
<1>6. Rising(w)
  BY <1>2, <1>5 DEF Rising
<1>7. Opens(w) \subseteq {k}
  BY <1>2, <1>3 DEF Opens
<1> QED
  BY <1>2, <1>6, <1>7 DEF w

\* In a body the payloads rise.
LEMMA BodyRises ==
  ASSUME NEW s \in Seq(Message), NEW e \in LineEnd
  PROVE  Body(s, e) \in Seq(Byte) /\ Rising(Body(s, e))
<1> DEFINE Part(j) == Body(SubSeq(s, 1, j), e)
           S == {j \in 0 .. Len(s) : Part(j) \in Seq(Byte) /\ Rising(Part(j)) /\ Opens(Part(j)) \subseteq 1 .. j}
<1>0. Len(s) \in Nat
  OBVIOUS
<1>1. 0 \in S
  <2>1. Part(0) \in Seq(Byte) /\ Len(Part(0)) = 0
    BY Start DEF SpelledTo, StartOf
  <2> DEFINE w == Part(0)
  <2> HIDE DEF w
  <2>2. w = <<>>
    <3>1. w \in Seq(Byte) /\ Len(w) = 0
      BY <2>1 DEF w
    <3> QED
      BY <3>1
  <2>3. Part(0) = <<>>
    BY <2>2 DEF w
  <2>4. 0 \in 0 .. Len(s)
    BY <1>0
  <2> HIDE DEF Part
  <2> QED
    BY <2>3, <2>4, NoOpens
<1>2. ASSUME NEW i \in 0 .. Len(s) - 1, i \in S PROVE i + 1 \in S
  <2> DEFINE j == i + 1
             w == Written(s[j], j, e)
  <2>1. j \in 1 .. Len(s) /\ j \in 0 .. Len(s) /\ j \in Nat /\ j - 1 = i /\ s[j] \in Message
    BY <1>0
  <2>2. Part(j) = Part(i) \o w
    BY <2>1, BodyGrows
  <2>3. w \in Seq(Byte) /\ Rising(w) /\ Opens(w) \subseteq {j}
    BY <2>1, WrittenRises
  <2>4. Part(i) \in Seq(Byte) /\ Rising(Part(i)) /\ Opens(Part(i)) \subseteq 1 .. i
    BY <1>2
  <2> DEFINE v == Part(i)
  <2> HIDE DEF v, w
  <2>5. Below(Opens(v), Opens(w))
    <3>1. \A x \in 1 .. i, y \in {j} : x < y
      BY <2>1
    <3> QED
      BY <2>3, <2>4, <3>1 DEF Below, v
  <2>6. v \o w \in Seq(Byte) /\ Rising(v \o w) /\ Opens(v \o w) = Opens(v) \cup Opens(w)
    BY <2>3, <2>4, <2>5, OpensOfBoth DEF v
  <2>7. 1 .. i \subseteq 1 .. j /\ {j} \subseteq 1 .. j
    BY <2>1
  <2>8. Opens(v \o w) \subseteq 1 .. j
    BY <2>3, <2>4, <2>6, <2>7 DEF v
  <2> QED
    BY <2>1, <2>2, <2>6, <2>8 DEF v
<1> HIDE DEF S
<1>3. 0 .. Len(s) \subseteq S
  BY <1>0, <1>1, <1>2, Induction
<1>4. Len(s) \in 0 .. Len(s) /\ SubSeq(s, 1, Len(s)) = s
  BY <1>0
<1> QED
  BY <1>3, <1>4 DEF S

-----------------------------------------------------------------------------
(* The steps of a subscription.                                            *)

\* What a subscription still has to read: what it was told, what waits for its blank line, what
\* waits for its line and what is on the wire name ever later messages.
SubTypes ==
    /\ parser.buffer \in Seq(Byte) /\ parser.data \in Seq(Byte) /\ parser.event \in Nat
    /\ wire \in Seq(Byte)
Coming == Opens(parser.buffer) \cup Opens(wire)
SubReads ==
    /\ SubTypes
    /\ Rising(parser.buffer) /\ Rising(wire) /\ Below(Opens(parser.buffer), Opens(wire))
    /\ Below(Opens(parser.data), Coming)
    /\ Below(Msgs(got), Opens(parser.data) \cup Coming)
SubTold == script \in Seq(Message) /\ got \in Seq(Event) /\ Strict(got)
SubInv ==
    reader = "subscription" =>
        /\ SubTold /\ out = <<>> /\ channel = <<>>
        /\ phase \in {"asked", "reading"} => SubReads

\* Parts of what is below are below.
LEMMA BelowOf ==
  ASSUME NEW A, NEW B, NEW C, NEW D, Below(A, B), C \subseteq A, D \subseteq B
  PROVE  Below(C, D)
BY DEF Below

\* What is below both, and both that are below.
LEMMA BelowBoth ==
  ASSUME NEW A, NEW B, NEW C
  PROVE  /\ Below(A, C) /\ Below(B, C) => Below(A \cup B, C)
         /\ Below(A, B) /\ Below(A, C) => Below(A, B \cup C)
BY DEF Below

\* At first the whole body is on the wire.
LEMMA SubInitially == Init => SubInv
<1> SUFFICES ASSUME Init, reader = "subscription" PROVE SubInv
  BY DEF SubInv
<1>1. /\ reader \in Reader /\ script \in Script[reader] /\ ending \in Ending
      /\ wire = Body(script, ending) /\ parser = NoParse
      /\ out = <<>> /\ channel = <<>> /\ got = <<>>
  BY DEF Init
<1>2. script \in Seq(Message) /\ ending \in LineEnd
  BY <1>1, StreamAssumption DEF LineEnd
<1>3. wire \in Seq(Byte) /\ Rising(wire)
  BY <1>1, <1>2, BodyRises
<1>4. parser.buffer = <<>> /\ parser.data = <<>> /\ parser.event = 0
  BY <1>1 DEF NoParse
<1>5. \A S : Below({}, S)
  BY DEF Below
<1>6. SubReads
  <2>1. Opens(parser.buffer) = {} /\ Opens(parser.data) = {} /\ Msgs(got) = {}
    BY <1>1, <1>4, NoOpens, NoMsgs
  <2>2. SubTypes /\ Rising(parser.buffer)
    BY <1>3, <1>4, NoOpens DEF SubTypes
  <2> QED
    BY <1>3, <1>5, <2>1, <2>2 DEF SubReads
<1> QED
  BY <1>1, <1>2, <1>6, NoMsgs DEF SubInv, SubTold

\* A chunk leaves what is told, waiting and coming in order.
LEMMA ListenKeeps ==
  ASSUME SubInv, reader = "subscription", NEW n \in 1 .. Len(wire), Listen(n)
  PROVE  SubInv'
<1> DEFINE c == SubSeq(wire, 1, n)
           rest == SubSeq(wire, n + 1, Len(wire))
           lossy == Lossy(c)
           b == parser.buffer \o lossy
           W == Opens(rest)
           O == Opens(parser.data) \cup Opens(b)
           fed == SubscriptionFeed(parser, c)
           told == Notified(fed.found)
<1>1. /\ phase = "reading" /\ wire' = rest
      /\ UNCHANGED <<reader, script, out, channel>>
      /\ IF fed.panic THEN phase' = "panicked" /\ UNCHANGED <<parser, got>>
         ELSE /\ parser' = [buffer |-> fed.buffer, event |-> fed.event, data |-> fed.data]
              /\ got' = got \o told /\ phase' = phase
  BY DEF Listen, Listening, chosen
<1>2. /\ SubTold /\ out = <<>> /\ channel = <<>> /\ SubReads /\ SubTypes
      /\ script \in Seq(Message) /\ got \in Seq(Event) /\ Strict(got)
  BY <1>1 DEF SubInv, SubReads, SubTold
<1>3. SubTold' /\ out' = <<>> /\ channel' = <<>> /\ phase' # "asked" /\ (phase' = "reading" => SubReads')
      => SubInv'
  BY DEF SubInv
<1>4. CASE fed.panic
  <2>1. SubTold' /\ out' = <<>> /\ channel' = <<>> /\ phase' = "panicked"
    BY <1>1, <1>2, <1>4 DEF SubTold
  <2> QED
    BY <1>3, <2>1
<1>5. CASE ~fed.panic
  <2>1. /\ wire \in Seq(Byte) /\ parser.buffer \in Seq(Byte) /\ parser.data \in Seq(Byte)
        /\ parser.event \in Nat /\ Rising(parser.buffer) /\ Rising(wire)
        /\ Below(Opens(parser.buffer), Opens(wire)) /\ Below(Opens(parser.data), Coming)
        /\ Below(Msgs(got), Opens(parser.data) \cup Coming)
    BY <1>2 DEF SubReads, SubTypes
  <2> DEFINE z == Len(wire)
  <2>2. n \in Nat /\ z \in Nat /\ n <= z /\ n <= n /\ z <= Len(wire) /\ n <= Len(wire) /\ 0 \in Nat
    BY <2>1
  <2> HIDE DEF z
  <2>3. c \in Seq(Byte) /\ Opens(c) \subseteq Opens(wire) /\ Rising(c)
    <3>1. /\ SubSeq(wire, 0 + 1, n) \in Seq(Byte) /\ Opens(SubSeq(wire, 0 + 1, n)) \subseteq Opens(wire)
          /\ Rising(SubSeq(wire, 0 + 1, n))
      BY <2>1, <2>2, OpensOfPart
    <3>2. 0 + 1 = 1
      OBVIOUS
    <3> QED
      BY <3>1, <3>2
  <2>4. rest \in Seq(Byte) /\ W \subseteq Opens(wire) /\ Rising(rest)
    <3>1. /\ SubSeq(wire, n + 1, z) \in Seq(Byte) /\ Opens(SubSeq(wire, n + 1, z)) \subseteq Opens(wire)
          /\ Rising(SubSeq(wire, n + 1, z))
      BY <2>1, <2>2, OpensOfPart
    <3> QED
      BY <3>1 DEF z
  <2>5. Below(Opens(c), W)
    <3>1. Below(Opens(SubSeq(wire, 0 + 1, n)), Opens(SubSeq(wire, n + 1, Len(wire))))
      BY <2>1, <2>2, PartsAreBelow
    <3>2. 0 + 1 = 1
      OBVIOUS
    <3> QED
      BY <3>1, <3>2
  <2> HIDE DEF c, rest
  <2>6. lossy \in Seq(Byte) /\ Opens(lossy) = Opens(c) /\ Rising(lossy)
    BY <2>3, OpensOfLossy
  <2> HIDE DEF lossy
  <2>7. Below(Opens(parser.buffer), Opens(lossy)) /\ Below(Opens(parser.buffer), W)
    BY <2>1, <2>3, <2>4, <2>6, BelowOf
  <2>8. b \in Seq(Byte) /\ Rising(b) /\ Opens(b) = Opens(parser.buffer) \cup Opens(c)
    BY <2>1, <2>6, <2>7, OpensOfBoth
  <2>9. Below(Opens(b), W)
    <3>1. Below(Opens(parser.buffer) \cup Opens(c), W)
      <4> HIDE DEF W
      <4> QED
        BY <2>5, <2>7, BelowBoth
    <3> QED
      BY <2>8, <3>1
  <2>10. Opens(b) \subseteq Coming /\ W \subseteq Coming
    BY <2>3, <2>4, <2>8 DEF Coming
  <2>11. Below(Opens(parser.data), Opens(b) \cup W)
    BY <2>1, <2>10, BelowOf
  <2>12. \E f : Standing(f, b, W, O) /\ Ends(fed, f, b)
    <3> DEFINE y == b
    <3>1. y = parser.buffer \o Lossy(c)
      BY DEF lossy
    <3>2. y \in Seq(Byte) /\ Rising(y) /\ Below(Opens(y), W) /\ Below(Opens(parser.data), Opens(y) \cup W)
      BY <2>8, <2>9, <2>11
    <3> HIDE DEF y, W
    <3>3. \E f : Standing(f, y, W, Opens(parser.data) \cup Opens(y)) /\ Ends(SubscriptionFeed(parser, c), f, y)
      BY <2>1, <2>3, <3>1, <3>2, FeedStands
    <3> QED
      BY <3>3 DEF y
  <2>13. PICK f : Standing(f, b, W, O) /\ Ends(fed, f, b)
    BY <2>12
  <2> DEFINE left == SubSeq(b, f.drain_until + 1, Len(b))
  <2>14. /\ f \in FeedState /\ ~f.panic
         /\ fed.buffer = left /\ fed.event = f.event /\ fed.data = f.data /\ fed.found = f.found
    <3> HIDE DEF fed
    <3>1. fed = [buffer |-> left, event |-> f.event, data |-> f.data, found |-> f.found,
                 panic |-> f.panic \/ Uncuttable(b, f.drain_until)]
      BY <2>13 DEF Ends
    <3> HIDE DEF b, left
    <3>2. fed.panic = (f.panic \/ Uncuttable(b, f.drain_until))
      BY <3>1
    <3>3. ~f.panic
      BY <1>5, <3>2
    <3>4. fed.buffer = left /\ fed.event = f.event /\ fed.data = f.data /\ fed.found = f.found
      BY <3>1
    <3> QED
      BY <2>13, <3>3, <3>4 DEF Standing
  <2>15. Chain(f, Opens(left) \cup W) /\ From(f, O)
    BY <2>13, <2>14 DEF Standing
  <2>16. /\ f.event \in Nat /\ f.data \in Seq(Byte) /\ f.found \in Seq(Frame) /\ f.drain_until \in Nat
    BY <2>14 DEF FeedState
  <2> HIDE DEF fed, b
  <2>17. left \in Seq(Byte) /\ Opens(left) \subseteq Opens(b) /\ Rising(left)
    <3> DEFINE y == Len(b)
    <3>1. y \in Nat /\ y <= Len(b)
      BY <2>8
    <3> HIDE DEF y
    <3>2. /\ SubSeq(b, f.drain_until + 1, y) \in Seq(Byte) /\ Opens(SubSeq(b, f.drain_until + 1, y)) \subseteq Opens(b)
          /\ Rising(SubSeq(b, f.drain_until + 1, y))
      BY <2>8, <2>16, <3>1, OpensOfPart
    <3> QED
      BY <3>2 DEF y
  <2> HIDE DEF left, W
  <2>18. /\ Below(Opens(f.data), Opens(left) \cup W)
         /\ \A i \in 1 .. Len(f.found) : Below(Opens(f.found[i].data), Opens(f.data) \cup (Opens(left) \cup W))
         /\ \A i, j \in 1 .. Len(f.found) : i < j => Below(Opens(f.found[i].data), Opens(f.found[j].data))
    BY <2>15 DEF Chain
  <2>19. Opens(f.data) \subseteq O /\ \A i \in 1 .. Len(f.found) : Opens(f.found[i].data) \subseteq O
    BY <2>15 DEF From
  <2>20. told = Notified(f.found)
    BY <2>14
  <2>21. /\ told \in Seq(Event) /\ Strict(told)
         /\ \A x \in Msgs(told) : \E i \in 1 .. Len(f.found) : x \in Opens(f.found[i].data)
    BY <1>2, <2>16, <2>18, <2>20, NotifiedIs
  <2> HIDE DEF told
  <2>22. O \subseteq Opens(parser.data) \cup Coming
    BY <2>10
  <2>23. Msgs(told) \subseteq O
    BY <2>19, <2>21
  <2>24. Below(Msgs(told), Opens(f.data) \cup (Opens(left) \cup W))
    <3> SUFFICES ASSUME NEW x \in Msgs(told), NEW y \in Opens(f.data) \cup (Opens(left) \cup W)
                 PROVE  x < y
      BY DEF Below
    <3>1. PICK i \in 1 .. Len(f.found) : x \in Opens(f.found[i].data)
      BY <2>21
    <3> QED
      BY <2>18, <3>1 DEF Below
  <2>25. Below(Msgs(got), Msgs(told))
    BY <2>1, <2>22, <2>23, BelowOf
  <2>26. Below(Msgs(got), Opens(f.data) \cup (Opens(left) \cup W))
    <3>1. Opens(f.data) \cup (Opens(left) \cup W) \subseteq Opens(parser.data) \cup Coming
      BY <2>10, <2>17, <2>19, <2>22
    <3> HIDE DEF O
    <3> QED
      BY <2>1, <3>1, BelowOf
  <2>27. got \o told \in Seq(Event) /\ Strict(got \o told) /\ Msgs(got \o told) = Msgs(got) \cup Msgs(told)
    BY <1>2, <2>21, <2>25, StrictBoth
  <2>28. Below(Msgs(got \o told), Opens(f.data) \cup (Opens(left) \cup W))
    <3> DEFINE ahead == Opens(f.data) \cup (Opens(left) \cup W)
    <3>1. Below(Msgs(told), ahead) /\ Below(Msgs(got), ahead)
      BY <2>24, <2>26
    <3> HIDE DEF ahead
    <3>2. Below(Msgs(got) \cup Msgs(told), ahead)
      BY <3>1, BelowBoth
    <3>3. Below(Msgs(got \o told), ahead)
      BY <2>27, <3>2
    <3> QED
      BY <3>3 DEF ahead
  <2>29. /\ parser'.buffer = left /\ parser'.data = f.data /\ parser'.event = f.event
         /\ wire' = rest /\ got' = got \o told /\ phase' = "reading"
    BY <1>1, <1>5, <2>14
  <2>30. Coming' = Opens(left) \cup W
    BY <2>29 DEF Coming, W
  <2>31. Below(Opens(left), W)
    <3>1. W \subseteq W
      OBVIOUS
    <3> QED
      BY <2>9, <2>17, <3>1, BelowOf
  <2>32. SubTypes'
    BY <2>4, <2>16, <2>17, <2>29 DEF SubTypes
  <2>33. SubReads'
    BY <2>4, <2>17, <2>18, <2>28, <2>29, <2>30, <2>31, <2>32 DEF SubReads, W
  <2>34. SubTold'
    BY <1>1, <1>2, <2>27, <2>29 DEF SubTold
  <2> QED
    BY <1>1, <1>2, <1>3, <2>29, <2>33, <2>34
<1> QED
  BY <1>4, <1>5

\* The frame that waited for its blank line is told last.
LEMMA ListenedOutKeeps ==
  ASSUME SubInv, reader = "subscription", ListenedOut
  PROVE  SubInv'
<1> DEFINE frame == [event |-> parser.event, data |-> parser.data]
           last == IF parser.data = <<>> THEN <<>> ELSE <<frame>>
           told == Notified(last)
<1>1. phase = "reading" /\ phase' = "over" /\ got' = got \o told /\ UNCHANGED <<reader, script, out, channel>>
  BY DEF ListenedOut, Listening, chosen
<1>2. /\ SubTold /\ out = <<>> /\ channel = <<>> /\ SubReads /\ SubTypes
      /\ script \in Seq(Message) /\ got \in Seq(Event) /\ Strict(got)
  BY <1>1 DEF SubInv, SubReads, SubTold
<1>3. frame \in Frame /\ frame.data = parser.data
  BY <1>2 DEF SubTypes, Frame
<1> HIDE DEF frame
<1>4. /\ last \in Seq(Frame) /\ Len(last) \in {0, 1}
      /\ \A i \in 1 .. Len(last) : i = 1 /\ last[i] = frame
  <2>1. CASE parser.data = <<>>
    BY <2>1
  <2>2. CASE parser.data # <<>>
    BY <1>3, <2>2
  <2> QED
    BY <2>1, <2>2
<1> HIDE DEF last
<1>5. \A i, j \in 1 .. Len(last) : i < j => Below(Opens(last[i].data), Opens(last[j].data))
  BY <1>4
<1>6. /\ told \in Seq(Event) /\ Strict(told)
      /\ \A x \in Msgs(told) : \E i \in 1 .. Len(last) : x \in Opens(last[i].data)
  BY <1>2, <1>4, <1>5, NotifiedIs
<1> HIDE DEF told
<1>7. Msgs(told) \subseteq Opens(parser.data)
  BY <1>3, <1>4, <1>6
<1>8. Below(Msgs(got), Msgs(told))
  <2>1. Below(Msgs(got), Opens(parser.data) \cup Coming)
    BY <1>2 DEF SubReads
  <2> QED
    BY <1>7, <2>1 DEF Below
<1>9. got \o told \in Seq(Event) /\ Strict(got \o told)
  BY <1>2, <1>6, <1>8, StrictBoth
<1> QED
  BY <1>1, <1>2, <1>9 DEF SubInv, SubTold

\* Every step keeps it.
LEMMA SubKeeps == SubInv /\ [Next]_vars => SubInv'
<1> SUFFICES ASSUME SubInv, [Next]_vars, reader' = "subscription" PROVE SubInv'
  BY DEF SubInv
<1>1. reader = "subscription"
  BY DEF Next, Refused, Opened, ReadChunk, Breaks, Completes, HandleFrame, Emit, Listen,
         ListenedOut, Receive, Leave, chosen, vars
<1>2. SubTold /\ out = <<>> /\ channel = <<>> /\ (phase \in {"asked", "reading"} => SubReads)
  BY <1>1 DEF SubInv
<1>3. reader \notin Codec
  BY <1>1 DEF Codec
<1>4. ASSUME UNCHANGED <<reader, script, got, out, channel>>, phase' \notin {"asked", "reading"}
      PROVE  SubInv'
  BY <1>2, <1>4 DEF SubInv, SubTold
<1>5. ASSUME UNCHANGED <<reader, script, got, out, channel, parser, wire>>,
             phase' \in {"asked", "reading"} => phase \in {"asked", "reading"}
      PROVE  SubInv'
  BY <1>2, <1>5 DEF SubInv, SubTold, SubReads, SubTypes, Coming
<1>6. CASE Refused
  BY <1>4, <1>6 DEF Refused, chosen, delivery
<1>7. CASE \E n \in 1 .. Len(wire) : Opened(n)
  BY <1>1, <1>5, <1>7 DEF Opened, chosen, delivery
<1>8. CASE (\E n \in 1 .. Len(wire) : ReadChunk(n)) \/ Breaks \/ Completes \/ HandleFrame
  BY <1>3, <1>8 DEF ReadChunk, Breaks, Completes, HandleFrame, Idle
<1>9. CASE Emit \/ Receive
  BY <1>2, <1>9 DEF Emit, Receive
<1>10. CASE \E n \in 1 .. Len(wire) : Listen(n)
  BY <1>1, <1>10, ListenKeeps
<1>11. CASE ListenedOut
  BY <1>1, <1>11, ListenedOutKeeps
<1>12. CASE Leave
  <2>1. UNCHANGED <<reader, script, got, out>> /\ channel' = <<>> /\ phase' = "over"
    BY <1>1, <1>12 DEF Leave, chosen
  <2> QED
    BY <1>2, <1>4, <2>1
<1>13. CASE UNCHANGED vars
  BY <1>5, <1>13 DEF vars
<1> QED
  BY <1>6, <1>7, <1>8, <1>9, <1>10, <1>11, <1>12, <1>13 DEF Next

\* A reader of the model.
Known == reader \in Codec \cup {"subscription"}

\* What a subscriber was told, what waits and what is on the wire name ever later messages, even
\* where the lines are cut at wrong places (abs_idx in SseStreamParser::feed).
THEOREM SubscriptionsReadOn == Spec => []SubInv
<1> QED
  BY SubInitially, SubKeeps, PTL DEF Spec

\* EventsInOrder for every answer, room, pace of the consumer and way to cut the body
\* (ChannelSink::emit, handle_frame, handle_sse_frame).
THEOREM EventsComeInOrder == Spec => []EventsInOrder
<1>2. IInv /\ TellInv /\ SubInv /\ Known => EventsInOrder
  <2> SUFFICES ASSUME IInv, TellInv, SubInv, reader \in Codec \cup {"subscription"} PROVE EventsInOrder
    BY DEF Known
  <2>1. CASE reader \in Codec
    BY <2>1, ProvidersTellInOrder
  <2>2. CASE reader = "subscription"
    <3>1. got \in Seq(Event) /\ Strict(got)
      BY <2>2 DEF SubInv, SubTold
    <3>2. DOMAIN got = 1 .. Len(got)
      BY <3>1
    <3>3. \A i, j \in DOMAIN got : i < j => got[i].msg < got[j].msg
      BY <3>1, <3>2 DEF Strict
    <3> QED
      BY <2>2, <3>3 DEF EventsInOrder
  <2> QED
    BY <2>1, <2>2
<1>3. Init => Known
  BY StreamAssumption DEF Init, Known
<1>4. Known /\ [Next]_vars => Known'
  BY DEF Known, Next, Refused, Opened, ReadChunk, Breaks, Completes, HandleFrame, Emit, Listen,
         ListenedOut, Receive, Leave, chosen, vars
<1> QED
  BY <1>2, <1>3, <1>4, Inductive, TellingGoesOn, SubscriptionsReadOn, PTL DEF Spec

-----------------------------------------------------------------------------
(* Selections, as Iterator::filter makes them, and sorted keys.             *)

\* Codecs has its own copy of FiniteSets: the counts are the same.
LEMMA SameCardinality == \A S : Wire!Cardinality(S) = Cardinality(S)
BY DEF Cardinality, Wire!Cardinality

\* The place of a number among those of S, which Position inverts.
Rank(S, i) == Cardinality({j \in S : j <= i})

\* The elements of a finite set of numbers have different ranks, in their order.
LEMMA RankFacts ==
  ASSUME NEW S \in SUBSET Int, IsFiniteSet(S)
  PROVE  /\ IsFiniteSet(S)
         /\ Cardinality(S) \in Nat
         /\ \A i \in S : Rank(S, i) \in 1..Cardinality(S)
         /\ \A i, j \in S : i < j => Rank(S, i) < Rank(S, j)
<1>1. IsFiniteSet(S) /\ Cardinality(S) \in Nat
  BY FS_CardinalityType
<1>2. \A i \in S : i \in Int
  OBVIOUS
<1>3. ASSUME NEW i \in S
      PROVE  /\ IsFiniteSet({j \in S : j <= i}) /\ Rank(S, i) \in Nat
             /\ Rank(S, i) \in 1..Cardinality(S)
  <2>1. IsFiniteSet({j \in S : j <= i}) /\ Rank(S, i) \in Nat /\ Rank(S, i) <= Cardinality(S)
    BY <1>1, FS_Subset, FS_CardinalityType DEF Rank
  <2>2. i \in {j \in S : j <= i}
    BY <1>2
  <2>3. Rank(S, i) # 0
    BY <2>1, <2>2, FS_EmptySet DEF Rank
  <2> QED
    BY <1>1, <2>1, <2>3
<1>4. ASSUME NEW i \in S, NEW j \in S, i < j
      PROVE  Rank(S, i) < Rank(S, j)
  <2>1. i \in Int /\ j \in Int /\ \A k \in S : k \in Int
    BY <1>2
  <2>2. \A k \in S : k <= i => k <= j
    BY <1>4, <2>1
  <2>3. ~(j <= i) /\ j <= j
    BY <1>4, <2>1
  <2>4. /\ {k \in S : k <= i} \subseteq {k \in S : k <= j}
        /\ j \notin {k \in S : k <= i} /\ j \in {k \in S : k <= j}
    BY <2>2, <2>3
  <2>5. IsFiniteSet({k \in S : k <= j})
    BY <1>3
  <2>6. Rank(S, i) <= Rank(S, j) /\ Rank(S, i) # Rank(S, j)
    BY <2>4, <2>5, FS_Subset DEF Rank
  <2>7. Rank(S, i) \in Nat /\ Rank(S, j) \in Nat
    BY <1>3
  <2> QED
    BY <2>6, <2>7
<1> QED
  BY <1>1, <1>3, <1>4

\* Every rank up to the size of the set is some element's.
LEMMA RankOnto ==
  ASSUME NEW S \in SUBSET Int, IsFiniteSet(S), NEW k \in 1..Cardinality(S)
  PROVE  \E i \in S : Rank(S, i) = k
<1> DEFINE F == [i \in S |-> Rank(S, i)]
           T == {Rank(S, i) : i \in S}
<1>1. /\ IsFiniteSet(S) /\ Cardinality(S) \in Nat
      /\ \A i \in S : Rank(S, i) \in 1..Cardinality(S)
      /\ \A i, j \in S : i < j => Rank(S, i) < Rank(S, j)
  BY RankFacts
<1>2. \A i, j \in S : Rank(S, i) = Rank(S, j) => i = j
  BY <1>1
<1>3. F \in Bijection(S, T)
  <2>1. F \in [S -> T]
    OBVIOUS
  <2>2. \A i, j \in S : F[i] = F[j] => i = j
    BY <1>2
  <2>3. \A t \in T : \E i \in S : F[i] = t
    OBVIOUS
  <2> QED
    BY <2>1, <2>2, <2>3 DEF Bijection, Injection, Surjection, IsInjective
<1>4. IsFiniteSet(T) /\ Cardinality(T) = Cardinality(S)
  <2> HIDE DEF F, T
  <2> QED
    BY <1>1, <1>3, FS_Bijection DEF ExistsBijection
<1>5. T \subseteq 1..Cardinality(S)
  BY <1>1
<1>6. IsFiniteSet(1..Cardinality(S)) /\ Cardinality(1..Cardinality(S)) = Cardinality(S)
  BY <1>1, FS_Interval
<1>7. T = 1..Cardinality(S)
  <2> HIDE DEF T
  <2> QED
    BY <1>4, <1>5, <1>6, FS_Subset
<1> QED
  BY <1>7

\* Position(S, k), which CHOOSE defines, is the inverse of the rank.
LEMMA PositionIs ==
  ASSUME NEW S \in SUBSET Int, IsFiniteSet(S)
  PROVE  /\ \A k \in 1..Cardinality(S) : Wire!Position(S, k) \in S /\ Rank(S, Wire!Position(S, k)) = k
         /\ \A i \in S : Wire!Position(S, Rank(S, i)) = i
<1>1. ASSUME NEW k \in 1..Cardinality(S)
      PROVE  Wire!Position(S, k) \in S /\ Rank(S, Wire!Position(S, k)) = k
  <2>1. \E i \in S : Rank(S, i) = k
    BY RankOnto
  <2>2. Wire!Position(S, k) = CHOOSE i \in S : Rank(S, i) = k
    BY SameCardinality DEF Rank, Wire!Position
  <2> HIDE DEF Rank
  <2> QED
    BY <2>1, <2>2
<1>2. ASSUME NEW i \in S
      PROVE  Wire!Position(S, Rank(S, i)) = i
  <2>1. Rank(S, i) \in 1..Cardinality(S)
    BY RankFacts
  <2>2. PICK p \in S : p = Wire!Position(S, Rank(S, i)) /\ Rank(S, p) = Rank(S, i)
    BY <1>1, <2>1
  <2>3. \A a, b \in S : a < b => Rank(S, a) < Rank(S, b)
    BY RankFacts
  <2>4. Rank(S, i) \in Int /\ ~(Rank(S, i) < Rank(S, i))
    BY <2>1
  <2>5. ~(p < i) /\ ~(i < p)
    BY <2>2, <2>3, <2>4
  <2>6. p \in Int /\ i \in Int
    OBVIOUS
  <2> QED
    BY <2>2, <2>5, <2>6
<1> QED
  BY <1>1, <1>2

\* A filter of the Rust library gives a sequence of the elements at the positions.
LEMMA OnlyIs ==
  ASSUME NEW T, NEW s \in Seq(T), NEW S \in SUBSET DOMAIN s
  PROVE  /\ Wire!Only(s, S) = [k \in 1..Cardinality(S) |-> s[Wire!Position(S, k)]]
         /\ Wire!Only(s, S) \in Seq(T)
         /\ Len(Wire!Only(s, S)) = Cardinality(S)
         /\ Cardinality(S) \in Nat
         /\ \A k \in 1..Cardinality(S) : Wire!Position(S, k) \in S
<1>1. S \in SUBSET Int /\ IsFiniteSet(S)
  <2>1. Len(s) \in Nat /\ S \in SUBSET (1..Len(s))
    OBVIOUS
  <2>2. IsFiniteSet(1..Len(s))
    BY <2>1, FS_Interval
  <2>3. IsFiniteSet(S)
    BY <2>1, <2>2, FS_Subset
  <2> QED
    BY <2>1, <2>3
<1>2. Cardinality(S) \in Nat /\ \A k \in 1..Cardinality(S) : Wire!Position(S, k) \in S
  BY <1>1, RankFacts, PositionIs
<1>3. Wire!Only(s, S) = [k \in 1..Cardinality(S) |-> s[Wire!Position(S, k)]]
  BY SameCardinality DEF Wire!Only
<1>4. \A k \in 1..Cardinality(S) : s[Wire!Position(S, k)] \in T
  <2>1. \A i \in DOMAIN s : s[i] \in T
    BY ElementOfSeq
  <2> QED
    BY <1>2, <2>1
<1>5. Wire!Only(s, S) \in [1..Cardinality(S) -> T]
  BY <1>3, <1>4
<1> QED
  BY <1>2, <1>3, <1>5

\* A selection that begins with the first n positions leaves them where they are.
LEMMA OnlyStarts ==
  ASSUME NEW N \in Nat, NEW S \in SUBSET (1..N), NEW n \in Nat, 1..n \subseteq S
  PROVE  /\ n <= Cardinality(S)
         /\ \A k \in 1..n : Wire!Position(S, k) = k
         /\ \A k \in (n + 1)..Cardinality(S) : Wire!Position(S, k) \notin 1..n
<1>0. S \in SUBSET Int /\ IsFiniteSet(S)
  <2>1. IsFiniteSet(1..N)
    BY FS_Interval
  <2>2. IsFiniteSet(S)
    BY <2>1, FS_Subset
  <2> QED
    BY <2>2
<1>1. ASSUME NEW k \in 1..n
      PROVE  Rank(S, k) = k
  <2>1. {j \in S : j <= k} = 1..k
    <3>1. \A j \in S : j \in Int /\ 1 <= j
      OBVIOUS
    <3>2. \A j \in 1..k : j \in 1..n
      OBVIOUS
    <3>3. \A j \in 1..k : j \in S /\ j <= k
      BY <3>2
    <3>4. \A j \in S : j <= k => j \in 1..k
      BY <3>1
    <3> QED
      BY <3>3, <3>4
  <2>2. k \in Nat /\ ~(1 > k)
    OBVIOUS
  <2>3. Cardinality(1..k) = (k - 1) + 1
    BY <2>2, FS_Interval
  <2>4. (k - 1) + 1 = k
    OBVIOUS
  <2> QED
    BY <2>1, <2>3, <2>4 DEF Rank
<1>2. \A k \in 1..n : Wire!Position(S, k) = k
  BY <1>0, <1>1, PositionIs
<1>3. n <= Cardinality(S)
  <2>1. CASE n = 0
    <3>1. Cardinality(S) \in Nat
      BY <1>0, RankFacts
    <3> QED
      BY <2>1, <3>1
  <2>2. CASE n # 0
    <3>1. n \in 1..n /\ n \in S
      BY <2>2
    <3>2. Rank(S, n) \in 1..Cardinality(S) /\ Cardinality(S) \in Nat
      BY <1>0, <3>1, RankFacts
    <3> QED
      BY <1>1, <3>1, <3>2
  <2> QED
    BY <2>1, <2>2
<1>4. ASSUME NEW k \in (n + 1)..Cardinality(S), Wire!Position(S, k) \in 1..n
      PROVE  FALSE
  <2>1. k \in 1..Cardinality(S)
    BY <1>0, RankFacts
  <2>2. Rank(S, Wire!Position(S, k)) = k
    BY <1>0, <2>1, PositionIs
  <2>3. k \in 1..n
    BY <1>1, <1>4, <2>2
  <2> QED
    BY <2>3
<1> QED
  BY <1>2, <1>3, <1>4

\* All elements are the sequence, none is none.
LEMMA OnlyAll ==
  ASSUME NEW T, NEW s \in Seq(T), NEW S, S = DOMAIN s
  PROVE  Wire!Only(s, S) = s
<1>1. Len(s) \in Nat /\ S = 1..Len(s) /\ S \in SUBSET DOMAIN s /\ s = [k \in 1..Len(s) |-> s[k]]
  OBVIOUS
<1>2. Cardinality(S) = Len(s)
  <2> DEFINE n == Len(s)
  <2>1. n \in Nat /\ n \in Int /\ 1 \in Int /\ S = 1..n
    BY <1>1
  <2> HIDE DEF n
  <2>2. Cardinality(1..n) = IF 1 > n THEN 0 ELSE n - 1 + 1
    BY <2>1, FS_Interval
  <2>3. Cardinality(1..n) = n
    BY <2>1, <2>2
  <2> QED
    BY <2>1, <2>3 DEF n
<1>3. Wire!Only(s, S) = [k \in 1..Len(s) |-> s[Wire!Position(S, k)]]
  BY <1>1, <1>2, OnlyIs
<1>4. \A k \in 1..Len(s) : Wire!Position(S, k) = k
  BY <1>1, OnlyStarts
<1>5. [k \in 1..Len(s) |-> s[Wire!Position(S, k)]] = [k \in 1..Len(s) |-> s[k]]
  BY <1>4
<1> QED
  BY <1>1, <1>3, <1>5

\* To select none leaves none.
LEMMA OnlyNone ==
  ASSUME NEW T, NEW s \in Seq(T)
  PROVE  Wire!Only(s, {}) = <<>>
<1>1. Cardinality({}) = 0 /\ {} \in SUBSET DOMAIN s
  BY FS_EmptySet
<1>2. Wire!Only(s, {}) \in Seq(T) /\ Len(Wire!Only(s, {})) = 0
  BY <1>1, OnlyIs
<1> QED
  BY <1>2, EmptySeq

\* One element.
LEMMA OnlyOne ==
  ASSUME NEW T, NEW s \in Seq(T), NEW p \in DOMAIN s
  PROVE  Wire!Only(s, {p}) = <<s[p]>>
<1> DEFINE S == {p}
<1>1. Cardinality(S) = 1 /\ S \in SUBSET DOMAIN s /\ \A i \in S : i = p
  BY FS_Singleton
<1> HIDE DEF S
<1>2. /\ Wire!Only(s, S) = [k \in 1..Cardinality(S) |-> s[Wire!Position(S, k)]]
      /\ \A k \in 1..Cardinality(S) : Wire!Position(S, k) \in S
  BY <1>1, OnlyIs
<1>3. \A k \in 1..1 : Wire!Position(S, k) = p
  BY <1>1, <1>2
<1>4. Wire!Only(s, S) = [k \in 1..1 |-> s[p]]
  BY <1>1, <1>2, <1>3
<1>5. <<s[p]>> = [k \in 1..1 |-> s[p]]
  OBVIOUS
<1> QED
  BY <1>4, <1>5 DEF S

\* A selection of the elements before the last.
LEMMA OnlyBefore ==
  ASSUME NEW T, NEW s \in Seq(T), NEW e \in T, NEW S \in SUBSET DOMAIN s
  PROVE  Wire!Only(Append(s, e), S) = Wire!Only(s, S)
<1> DEFINE t == Append(s, e)
<1>1. t \in Seq(T) /\ S \in SUBSET DOMAIN t /\ \A i \in S : t[i] = s[i]
  OBVIOUS
<1> HIDE DEF t
<1>2. /\ Wire!Only(t, S) = [k \in 1..Cardinality(S) |-> t[Wire!Position(S, k)]]
      /\ Wire!Only(s, S) = [k \in 1..Cardinality(S) |-> s[Wire!Position(S, k)]]
      /\ \A k \in 1..Cardinality(S) : Wire!Position(S, k) \in S
  BY <1>1, OnlyIs
<1> QED
  BY <1>1, <1>2 DEF t

\* A larger number comes last among the sorted ones, and leaves the others where they are.
LEMMA PositionGrows ==
  ASSUME NEW S \in SUBSET Int, IsFiniteSet(S), NEW x \in Int, \A i \in S : i < x
  PROVE  /\ Cardinality(S \cup {x}) = Cardinality(S) + 1
         /\ \A k \in 1..Cardinality(S) : Wire!Position(S \cup {x}, k) = Wire!Position(S, k)
         /\ Wire!Position(S \cup {x}, Cardinality(S) + 1) = x
<1> DEFINE U == S \cup {x}
<1>1. x \notin S
  OBVIOUS
<1>2. IsFiniteSet(U) /\ Cardinality(U) = Cardinality(S) + 1 /\ U \in SUBSET Int
      /\ Cardinality(S) \in Nat
  BY <1>1, FS_AddElement, FS_CardinalityType
<1>3. ASSUME NEW i \in S PROVE Rank(U, i) = Rank(S, i)
  <2>1. {j \in U : j <= i} = {j \in S : j <= i}
    <3>1. i \in Int /\ i < x /\ ~(x <= i)
      OBVIOUS
    <3> QED
      BY <3>1
  <2> QED
    BY <2>1 DEF Rank
<1>4. Rank(U, x) = Cardinality(S) + 1
  <2>1. \A j \in U : j <= x
    OBVIOUS
  <2>2. {j \in U : j <= x} = U
    BY <2>1
  <2> QED
    BY <1>2, <2>2 DEF Rank
<1>5. ASSUME NEW k \in 1..Cardinality(S) PROVE Wire!Position(U, k) = Wire!Position(S, k)
  <2>1. Wire!Position(S, k) \in S /\ Rank(S, Wire!Position(S, k)) = k
    BY PositionIs
  <2>2. Rank(U, Wire!Position(S, k)) = k /\ Wire!Position(S, k) \in U
    BY <1>3, <2>1
  <2>3. Wire!Position(U, Rank(U, Wire!Position(S, k))) = Wire!Position(S, k)
    BY <1>2, <2>2, PositionIs
  <2> QED
    BY <2>2, <2>3
<1>6. Wire!Position(U, Cardinality(S) + 1) = x
  BY <1>2, <1>4, PositionIs
<1> QED
  BY <1>2, <1>5, <1>6

\* A selection with the last element.
LEMMA OnlyGrows ==
  ASSUME NEW T, NEW s \in Seq(T), NEW e \in T, NEW S \in SUBSET DOMAIN s
  PROVE  Wire!Only(Append(s, e), S \cup {Len(s) + 1}) = Append(Wire!Only(s, S), e)
<1> DEFINE t == Append(s, e)
           l == Len(s) + 1
           U == S \cup {l}
           n == Cardinality(S)
           o == Wire!Only(s, S)
<1>1. /\ t \in Seq(T) /\ DOMAIN t = 1..l /\ l \in Nat /\ t[l] = e
      /\ U \in SUBSET DOMAIN t /\ \A i \in S : t[i] = s[i] /\ i < l
  OBVIOUS
<1>2. S \in SUBSET Int /\ IsFiniteSet(S)
  <2>1. Len(s) \in Nat /\ S \in SUBSET (1..Len(s))
    OBVIOUS
  <2>2. IsFiniteSet(1..Len(s))
    BY <2>1, FS_Interval
  <2>3. IsFiniteSet(S)
    BY <2>1, <2>2, FS_Subset
  <2> QED
    BY <2>1, <2>3
<1>3. /\ o = [k \in 1..n |-> s[Wire!Position(S, k)]] /\ o \in Seq(T) /\ Len(o) = n /\ n \in Nat
      /\ \A k \in 1..n : Wire!Position(S, k) \in S
  BY OnlyIs
<1> HIDE DEF t, l, U, o, n
<1>4. /\ Cardinality(U) = n + 1
      /\ \A k \in 1..n : Wire!Position(U, k) = Wire!Position(S, k)
      /\ Wire!Position(U, n + 1) = l
  <2>1. l \in Int /\ \A i \in S : i < l
    BY <1>1
  <2>2. /\ Cardinality(S \cup {l}) = Cardinality(S) + 1
        /\ \A k \in 1..Cardinality(S) : Wire!Position(S \cup {l}, k) = Wire!Position(S, k)
        /\ Wire!Position(S \cup {l}, Cardinality(S) + 1) = l
    BY <1>2, <2>1, PositionGrows
  <2> QED
    BY <2>2 DEF n, U
<1>5. Wire!Only(t, U) = [k \in 1..n + 1 |-> t[Wire!Position(U, k)]]
  BY <1>1, <1>4, OnlyIs
<1>6. Append(o, e) = [k \in 1..n + 1 |-> IF k = n + 1 THEN e ELSE o[k]]
  BY <1>3
<1>7. \A k \in 1..n + 1 : k = n + 1 \/ k \in 1..n
  BY <1>3
<1>8. \A k \in 1..n + 1 : t[Wire!Position(U, k)] = IF k = n + 1 THEN e ELSE o[k]
  <2> SUFFICES ASSUME NEW k \in 1..n + 1
               PROVE  t[Wire!Position(U, k)] = IF k = n + 1 THEN e ELSE o[k]
    OBVIOUS
  <2>1. CASE k = n + 1
    BY <1>1, <1>4, <2>1
  <2>2. CASE k # n + 1
    BY <1>1, <1>3, <1>4, <1>7, <2>2
  <2> QED
    BY <2>1, <2>2
<1>9. Wire!Only(t, U) = Append(o, e)
  BY <1>5, <1>6, <1>8
<1> QED
  BY <1>9 DEF t, l, U, o

\* The numbers below n are their own places, from 0.
LEMMA PositionOfRun ==
  ASSUME NEW n \in Nat
  PROVE  /\ Cardinality(0..n - 1) = n
         /\ \A k \in 1..n : Wire!Position(0..n - 1, k) = k - 1
<1> DEFINE S == 0..n - 1
<1>1. S \in SUBSET Int /\ IsFiniteSet(S)
  <2>1. 0 \in Int /\ n - 1 \in Int
    OBVIOUS
  <2> QED
    BY <2>1, FS_Interval
<1>2. Cardinality(S) = n
  <2>1. 0 \in Int /\ n - 1 \in Int
    OBVIOUS
  <2>2. Cardinality(S) = IF 0 > n - 1 THEN 0 ELSE (n - 1) - 0 + 1
    BY <2>1, FS_Interval
  <2> HIDE DEF S
  <2> QED
    BY <2>2
<1>3. ASSUME NEW k \in 1..n PROVE Wire!Position(S, k) = k - 1
  <2>1. {j \in S : j <= k - 1} = 0..k - 1
    OBVIOUS
  <2>2. Cardinality(0..k - 1) = k
    <3>1. 0 \in Int /\ k - 1 \in Int /\ ~(0 > k - 1)
      OBVIOUS
    <3>2. Cardinality(0..k - 1) = (k - 1) - 0 + 1
      BY <3>1, FS_Interval
    <3>3. (k - 1) - 0 + 1 = k
      OBVIOUS
    <3> QED
      BY <3>2, <3>3
  <2>3. k - 1 \in S
    OBVIOUS
  <2>4. Rank(S, k - 1) = k
    BY <2>1, <2>2 DEF Rank
  <2> HIDE DEF S
  <2> QED
    BY <1>1, <2>3, <2>4, PositionIs
<1> QED
  BY <1>2, <1>3

\* The largest of some positions.
LEMMA MaxIs ==
  ASSUME NEW S \in SUBSET Int, IsFiniteSet(S), S # {}
  PROVE  Max(S) \in S /\ \A i \in S : i <= Max(S)
<1> DEFINE n == Cardinality(S)
           x == Wire!Position(S, n)
<1>1. n \in Nat /\ n # 0
  BY FS_CardinalityType, FS_EmptySet
<1>2. n \in 1..n
  BY <1>1
<1>3. x \in S /\ Rank(S, x) = n
  BY <1>2, PositionIs
<1> HIDE DEF x
<1>4. ASSUME NEW i \in S, ~(x >= i) PROVE FALSE
  <2>1. x < i
    <3>1. x \in Int /\ i \in Int
      BY <1>3
    <3> QED
      BY <1>4, <3>1
  <2>2. Rank(S, x) < Rank(S, i) /\ Rank(S, i) \in 1..n
    BY <1>3, <2>1, RankFacts
  <2> HIDE DEF n
  <2> QED
    BY <1>1, <1>3, <2>2
<1>5. \E y \in S : \A i \in S : y >= i
  BY <1>3, <1>4
<1>6. Max(S) = CHOOSE y \in S : \A i \in S : y >= i
  BY DEF Max
<1>7. Max(S) \in S /\ \A i \in S : Max(S) >= i
  BY <1>5, <1>6
<1> QED
  BY <1>7

\* A larger one becomes it.
LEMMA MaxGrows ==
  ASSUME NEW S \in SUBSET Int, NEW x \in Int, \A i \in S : i <= x
  PROVE  Max(S \cup {x}) = x
<1> DEFINE U == S \cup {x}
<1>1. x \in U /\ \A i \in U : x >= i
  OBVIOUS
<1>2. \A y \in U : (\A i \in U : y >= i) => y = x
  OBVIOUS
<1> HIDE DEF U
<1>3. Max(U) = CHOOSE y \in U : \A i \in U : y >= i
  BY DEF Max
<1>4. Max(U) = x
  BY <1>1, <1>2, <1>3
<1> QED
  BY <1>4 DEF U

-----------------------------------------------------------------------------
(* What the accumulator of calls holds.                                     *)

\* The fragments ds of calls, put together by hand: those of a call that have an id, a name or a
\* piece of arguments, the last id and name, all pieces, and the calls under their indices.
IdsIn(ds, i) == {j \in DOMAIN ds : ds[j].index = i /\ ds[j].id # {}}
NamesIn(ds, i) == {j \in DOMAIN ds : ds[j].index = i /\ ds[j].name # {}}
ArgsIn(ds, i) == {j \in DOMAIN ds : ds[j].index = i /\ Piece(ds[j]) # ""}
IdOf(ds, i) == IF IdsIn(ds, i) = {} THEN {} ELSE ds[Max(IdsIn(ds, i))].id
NameOf(ds, i) == IF NamesIn(ds, i) = {} THEN {} ELSE ds[Max(NamesIn(ds, i))].name
ArgsOf(ds, i) == [k \in DOMAIN Wire!Only(ds, ArgsIn(ds, i)) |-> Piece(Wire!Only(ds, ArgsIn(ds, i))[k])]
EntryOf(ds, i) == [id |-> IdOf(ds, i), name |-> NameOf(ds, i), args |-> ArgsOf(ds, i)]
Indices(ds) == {ds[j].index : j \in DOMAIN ds}
Gathered(ds) == [i \in Indices(ds) |-> EntryOf(ds, i)]

\* Positions of a sequence are finitely many numbers.
LEMMA PositionsAre ==
  ASSUME NEW T, NEW s \in Seq(T), NEW P \in SUBSET DOMAIN s
  PROVE  P \in SUBSET Int /\ IsFiniteSet(P)
<1>1. Len(s) \in Nat /\ P \in SUBSET (1..Len(s)) /\ P \in SUBSET Int
  OBVIOUS
<1>2. IsFiniteSet(1..Len(s))
  BY <1>1, FS_Interval
<1>3. IsFiniteSet(P)
  BY <1>1, <1>2, FS_Subset
<1> QED
  BY <1>1, <1>3

\* Of a fragment more, and of those before: the last one that counts.
LEMMA LastStays ==
  ASSUME NEW ds \in Seq(Delta), NEW d \in Delta, NEW P \in SUBSET DOMAIN ds, P # {}
  PROVE  Append(ds, d)[Max(P)] = ds[Max(P)]
<1>1. Max(P) \in P
  BY PositionsAre, MaxIs
<1> QED
  BY <1>1

\* The last of a set of positions is the new one, once that is among them.
LEMMA LastMoves ==
  ASSUME NEW ds \in Seq(Delta), NEW d \in Delta, NEW P \in SUBSET DOMAIN ds
  PROVE  Append(ds, d)[Max(P \cup {Len(ds) + 1})] = d
<1>1. P \in SUBSET Int /\ Len(ds) + 1 \in Int /\ \A i \in P : i <= Len(ds) + 1
  OBVIOUS
<1>2. Max(P \cup {Len(ds) + 1}) = Len(ds) + 1
  BY <1>1, MaxGrows
<1> QED
  BY <1>2

\* A sequence with one element more, as a function.
LEMMA AppendedIs ==
  ASSUME NEW T, NEW s \in Seq(T), NEW e \in T, NEW n \in Nat, Len(s) = n
  PROVE  Append(s, e) = [k \in 1..n + 1 |-> IF k = n + 1 THEN e ELSE s[k]]
<1> DEFINE t == Append(s, e)
<1>1. t \in Seq(T) /\ Len(t) = n + 1 /\ t[n + 1] = e /\ \A k \in 1..n : t[k] = s[k]
  OBVIOUS
<1>2. \A k \in 1..n + 1 : k = n + 1 \/ k \in 1..n
  OBVIOUS
<1> HIDE DEF t
<1>3. t = [k \in 1..n + 1 |-> t[k]]
  BY <1>1
<1>4. \A k \in 1..n + 1 : t[k] = IF k = n + 1 THEN e ELSE s[k]
  <2> SUFFICES ASSUME NEW k \in 1..n + 1 PROVE t[k] = IF k = n + 1 THEN e ELSE s[k]
    OBVIOUS
  <2>1. CASE k = n + 1
    BY <1>1, <2>1
  <2>2. CASE k # n + 1
    BY <1>1, <1>2, <2>2
  <2> QED
    BY <2>1, <2>2
<1> QED
  BY <1>3, <1>4 DEF t

\* The pieces of arguments among the fragments of a selection.
ArgsAt(ds, P) == [k \in DOMAIN Wire!Only(ds, P) |-> Piece(Wire!Only(ds, P)[k])]

\* The pieces at old positions stay as they are,
LEMMA ArgsStay ==
  ASSUME NEW ds \in Seq(Delta), NEW d \in Delta, NEW P \in SUBSET DOMAIN ds
  PROVE  ArgsAt(Append(ds, d), P) = ArgsAt(ds, P)
BY OnlyBefore DEF ArgsAt

\* and those at a new one are put behind them.
LEMMA ArgsMove ==
  ASSUME NEW ds \in Seq(Delta), NEW d \in Delta, NEW P \in SUBSET DOMAIN ds
  PROVE  ArgsAt(Append(ds, d), P \cup {Len(ds) + 1}) = Append(ArgsAt(ds, P), Piece(d))
<1> DEFINE o == Wire!Only(ds, P)
           a == ArgsAt(ds, P)
           n == Len(o)
<1>1. o \in Seq(Delta)
  BY OnlyIs
<1>2. Wire!Only(Append(ds, d), P \cup {Len(ds) + 1}) = Append(o, d)
  BY OnlyGrows
<1>3. a = [k \in DOMAIN o |-> Piece(o[k])]
  BY DEF ArgsAt
<1>4. ArgsAt(Append(ds, d), P \cup {Len(ds) + 1}) = [k \in DOMAIN Append(o, d) |-> Piece(Append(o, d)[k])]
  BY <1>2 DEF ArgsAt
<1> HIDE DEF o, a
<1>5. /\ n \in Nat /\ DOMAIN o = 1..n /\ DOMAIN Append(o, d) = 1..n + 1
      /\ \A k \in 1..n : Append(o, d)[k] = o[k]
      /\ Append(o, d)[n + 1] = d
  BY <1>1
<1>6. a = [k \in 1..n |-> Piece(o[k])]
  BY <1>3, <1>5
<1>7. Append(a, Piece(d)) = [k \in 1..n + 1 |-> IF k = n + 1 THEN Piece(d) ELSE a[k]]
  <2> DEFINE x == Piece(d)
             S == {Piece(o[k]) : k \in 1..n} \cup {x}
  <2>1. a \in [1..n -> S] /\ x \in S
    BY <1>6
  <2> HIDE DEF S, x
  <2>2. a \in Seq(S) /\ Len(a) = n
    BY <1>5, <2>1
  <2>3. Append(a, x) = [k \in 1..n + 1 |-> IF k = n + 1 THEN x ELSE a[k]]
    BY <1>5, <2>1, <2>2, AppendedIs
  <2> QED
    BY <2>3 DEF x
<1>8. \A k \in 1..n + 1 : k = n + 1 \/ k \in 1..n
  BY <1>5
<1>9. \A k \in 1..n + 1 : Piece(Append(o, d)[k]) = IF k = n + 1 THEN Piece(d) ELSE a[k]
  <2> SUFFICES ASSUME NEW k \in 1..n + 1
               PROVE  Piece(Append(o, d)[k]) = IF k = n + 1 THEN Piece(d) ELSE a[k]
    OBVIOUS
  <2>1. CASE k = n + 1
    BY <1>5, <2>1
  <2>2. CASE k # n + 1
    BY <1>5, <1>6, <1>8, <2>2
  <2> QED
    BY <2>1, <2>2
<1> QED
  BY <1>4, <1>5, <1>7, <1>9 DEF a

\* One fragment more of a call; a call of which there was none.
LEMMA EntryGrows ==
  ASSUME NEW ds \in Seq(Delta), NEW d \in Delta, NEW i
  PROVE  EntryOf(Append(ds, d), i) =
           IF i # d.index THEN EntryOf(ds, i)
           ELSE [id |-> IF d.id = {} THEN IdOf(ds, i) ELSE d.id,
                 name |-> IF d.name = {} THEN NameOf(ds, i) ELSE d.name,
                 args |-> IF Piece(d) = "" THEN ArgsOf(ds, i) ELSE Append(ArgsOf(ds, i), Piece(d))]
<1> DEFINE t == Append(ds, d)
           l == Len(ds) + 1
<1>1. /\ t \in Seq(Delta) /\ DOMAIN t = DOMAIN ds \cup {l} /\ l \notin DOMAIN ds
      /\ t[l] = d /\ \A j \in DOMAIN ds : t[j] = ds[j]
  OBVIOUS
<1>2. /\ IdsIn(ds, i) \in SUBSET DOMAIN ds /\ NamesIn(ds, i) \in SUBSET DOMAIN ds
      /\ ArgsIn(ds, i) \in SUBSET DOMAIN ds
  BY DEF IdsIn, NamesIn, ArgsIn
<1> HIDE DEF t, l
<1>3. /\ IdsIn(t, i) = IF i = d.index /\ d.id # {} THEN IdsIn(ds, i) \cup {l} ELSE IdsIn(ds, i)
      /\ NamesIn(t, i) = IF i = d.index /\ d.name # {} THEN NamesIn(ds, i) \cup {l} ELSE NamesIn(ds, i)
      /\ ArgsIn(t, i) = IF i = d.index /\ Piece(d) # "" THEN ArgsIn(ds, i) \cup {l} ELSE ArgsIn(ds, i)
  BY <1>1 DEF IdsIn, NamesIn, ArgsIn
<1>4. IdOf(t, i) = IF i = d.index /\ d.id # {} THEN d.id ELSE IdOf(ds, i)
  <2>1. CASE i = d.index /\ d.id # {}
    <3>1. t[Max(IdsIn(ds, i) \cup {l})] = d
      BY <1>2, LastMoves DEF t, l
    <3>2. IdsIn(t, i) = IdsIn(ds, i) \cup {l} /\ IdsIn(t, i) # {}
      BY <1>3, <2>1
    <3> QED
      BY <2>1, <3>1, <3>2 DEF IdOf
  <2>2. CASE ~(i = d.index /\ d.id # {})
    <3>1. IdsIn(ds, i) # {} => t[Max(IdsIn(ds, i))] = ds[Max(IdsIn(ds, i))]
      BY <1>2, LastStays DEF t
    <3> QED
      BY <1>3, <2>2, <3>1 DEF IdOf
  <2> QED
    BY <2>1, <2>2
<1>5. NameOf(t, i) = IF i = d.index /\ d.name # {} THEN d.name ELSE NameOf(ds, i)
  <2>1. CASE i = d.index /\ d.name # {}
    <3>1. t[Max(NamesIn(ds, i) \cup {l})] = d
      BY <1>2, LastMoves DEF t, l
    <3>2. NamesIn(t, i) = NamesIn(ds, i) \cup {l} /\ NamesIn(t, i) # {}
      BY <1>3, <2>1
    <3> QED
      BY <2>1, <3>1, <3>2 DEF NameOf
  <2>2. CASE ~(i = d.index /\ d.name # {})
    <3>1. NamesIn(ds, i) # {} => t[Max(NamesIn(ds, i))] = ds[Max(NamesIn(ds, i))]
      BY <1>2, LastStays DEF t
    <3> QED
      BY <1>3, <2>2, <3>1 DEF NameOf
  <2> QED
    BY <2>1, <2>2
<1>6. ArgsOf(t, i) = IF i = d.index /\ Piece(d) # "" THEN Append(ArgsOf(ds, i), Piece(d)) ELSE ArgsOf(ds, i)
  <2>1. \A s : ArgsOf(s, i) = ArgsAt(s, ArgsIn(s, i))
    BY DEF ArgsOf, ArgsAt
  <2>2. ArgsAt(t, ArgsIn(ds, i)) = ArgsAt(ds, ArgsIn(ds, i))
    BY <1>2, ArgsStay DEF t
  <2>3. ArgsAt(t, ArgsIn(ds, i) \cup {l}) = Append(ArgsAt(ds, ArgsIn(ds, i)), Piece(d))
    BY <1>2, ArgsMove DEF t, l
  <2> QED
    BY <1>3, <2>1, <2>2, <2>3
<1>7. EntryOf(t, i) =
        IF i # d.index THEN EntryOf(ds, i)
        ELSE [id |-> IF d.id = {} THEN IdOf(ds, i) ELSE d.id,
              name |-> IF d.name = {} THEN NameOf(ds, i) ELSE d.name,
              args |-> IF Piece(d) = "" THEN ArgsOf(ds, i) ELSE Append(ArgsOf(ds, i), Piece(d))]
  <2>1. CASE i # d.index
    BY <1>4, <1>5, <1>6, <2>1 DEF EntryOf
  <2>2. CASE i = d.index
    BY <1>4, <1>5, <1>6, <2>2 DEF EntryOf
  <2> QED
    BY <2>1, <2>2
<1> QED
  BY <1>7 DEF t

\* Nothing is known of an index no fragment has.
LEMMA EntryOfNone ==
  ASSUME NEW ds \in Seq(Delta), NEW i, i \notin Indices(ds)
  PROVE  IdOf(ds, i) = {} /\ NameOf(ds, i) = {} /\ ArgsOf(ds, i) = <<>>
<1>1. \A j \in DOMAIN ds : ds[j].index # i
  BY DEF Indices
<1>2. IdsIn(ds, i) = {} /\ NamesIn(ds, i) = {} /\ ArgsIn(ds, i) = {}
  BY <1>1 DEF IdsIn, NamesIn, ArgsIn
<1>3. Wire!Only(ds, {}) = <<>>
  BY OnlyNone
<1>4. ArgsOf(ds, i) = <<>>
  BY <1>2, <1>3 DEF ArgsOf
<1> QED
  BY <1>2, <1>4 DEF IdOf, NameOf

\* ToolCallAccumulator::push keeps what was gathered and adds a fragment to its own call.
LEMMA PushGathers ==
  ASSUME NEW ds \in Seq(Delta), NEW d \in Delta
  PROVE  Push(Gathered(ds), d) = Gathered(Append(ds, d))
<1> DEFINE t == Append(ds, d)
           acc == Gathered(ds)
           entry == IF d.index \in DOMAIN acc THEN acc[d.index]
                    ELSE [id |-> {}, name |-> {}, args |-> << >>]
<1>1. DOMAIN t = DOMAIN ds \cup {Len(ds) + 1} /\ t[Len(ds) + 1] = d /\ \A j \in DOMAIN ds : t[j] = ds[j]
  OBVIOUS
<1> HIDE DEF t
<1>2. Indices(t) = Indices(ds) \cup {d.index}
  BY <1>1 DEF Indices
<1>3. DOMAIN acc = Indices(ds) /\ \A i \in Indices(ds) : acc[i] = EntryOf(ds, i)
  BY DEF Gathered
<1> HIDE DEF acc
<1>4. entry = [id |-> IdOf(ds, d.index), name |-> NameOf(ds, d.index), args |-> ArgsOf(ds, d.index)]
  <2>1. CASE d.index \in Indices(ds)
    BY <1>3, <2>1 DEF EntryOf
  <2>2. CASE d.index \notin Indices(ds)
    BY <1>3, <2>2, EntryOfNone
  <2> QED
    BY <2>1, <2>2
<1> HIDE DEF entry
<1>5. Push(acc, d) =
        [i \in Indices(t) |->
          IF i # d.index THEN acc[i]
          ELSE [id |-> IF d.id = {} THEN entry.id ELSE d.id,
                name |-> IF d.name = {} THEN entry.name ELSE d.name,
                args |-> IF Piece(d) = "" THEN entry.args ELSE Append(entry.args, Piece(d))]]
  BY <1>2, <1>3 DEF Push, entry
<1>6. ASSUME NEW i \in Indices(t)
      PROVE  EntryOf(t, i) =
               IF i # d.index THEN acc[i]
               ELSE [id |-> IF d.id = {} THEN entry.id ELSE d.id,
                     name |-> IF d.name = {} THEN entry.name ELSE d.name,
                     args |-> IF Piece(d) = "" THEN entry.args ELSE Append(entry.args, Piece(d))]
  <2>1. EntryOf(t, i) =
           IF i # d.index THEN EntryOf(ds, i)
           ELSE [id |-> IF d.id = {} THEN IdOf(ds, i) ELSE d.id,
                 name |-> IF d.name = {} THEN NameOf(ds, i) ELSE d.name,
                 args |-> IF Piece(d) = "" THEN ArgsOf(ds, i) ELSE Append(ArgsOf(ds, i), Piece(d))]
    BY EntryGrows DEF t
  <2>2. CASE i # d.index
    BY <1>2, <1>3, <2>1, <2>2
  <2>3. CASE i = d.index
    BY <1>4, <2>1, <2>3
  <2> QED
    BY <2>2, <2>3
<1>7. Gathered(t) = [i \in Indices(t) |-> EntryOf(t, i)]
  BY DEF Gathered
<1>8. Push(acc, d) = Gathered(t)
  BY <1>5, <1>6, <1>7
<1> QED
  BY <1>8 DEF acc, t

-----------------------------------------------------------------------------
(* Chunks one behind the other.                                             *)

\* What one chunk does to the calls, and the values it takes them through.
Pushed(acc, c) == IF c.kind = "ToolCallDelta" THEN Push(acc, c.delta) ELSE acc
Pushes(f, acc, chunks, n) ==
  /\ f = [i \in 0..n |-> f[i]]
  /\ f[0] = acc
  /\ \A i \in 1..n : f[i] = Pushed(f[i - 1], chunks[i])

\* PushAll goes through such values, and through no others.
LEMMA PushAllRuns ==
  ASSUME NEW acc, NEW chunks, Len(chunks) \in Nat
  PROVE  \E f : Pushes(f, acc, chunks, Len(chunks)) /\ PushAll(acc, chunks) = f[Len(chunks)]
<1> DEFINE n == Len(chunks)
           S == {m \in 0..n : \E f : Pushes(f, acc, chunks, m)}
<1>1. 0 \in S
  <2> DEFINE f == [i \in 0..0 |-> acc]
  <2>1. f = [i \in 0..0 |-> f[i]] /\ f[0] = acc /\ 1..0 = {}
    OBVIOUS
  <2> HIDE DEF f
  <2>2. Pushes(f, acc, chunks, 0)
    BY <2>1 DEF Pushes
  <2> QED
    BY <2>2
<1>2. ASSUME NEW m \in 0..n - 1, m \in S PROVE m + 1 \in S
  <2>1. PICK f : Pushes(f, acc, chunks, m)
    BY <1>2
  <2> DEFINE k == m + 1
             g == [i \in 0..k |-> IF i = k THEN Pushed(f[m], chunks[k]) ELSE f[i]]
  <2>2. k \in Nat /\ k - 1 = m /\ m \in Nat /\ 0 # k /\ 0 \in 0..k /\ k \in 0..n
    OBVIOUS
  <2>3. g = [i \in 0..k |-> g[i]] /\ g[0] = acc
    BY <2>1, <2>2 DEF Pushes
  <2>4. ASSUME NEW i \in 1..k PROVE g[i] = Pushed(g[i - 1], chunks[i])
    <3>1. i - 1 \in 0..k /\ i - 1 # k /\ i \in 0..k
      BY <2>2
    <3>2. g[i - 1] = f[i - 1]
      BY <3>1
    <3>3. CASE i = k
      <4>1. g[i] = Pushed(f[m], chunks[k])
        BY <3>1, <3>3
      <4> QED
        BY <2>2, <3>2, <3>3, <4>1
    <3>4. CASE i # k
      <4>1. g[i] = f[i] /\ i \in 1..m
        BY <2>2, <3>1, <3>4
      <4>2. f[i] = Pushed(f[i - 1], chunks[i])
        BY <2>1, <4>1 DEF Pushes
      <4> QED
        BY <3>2, <4>1, <4>2
    <3> QED
      BY <3>3, <3>4
  <2> HIDE DEF g
  <2>5. Pushes(g, acc, chunks, k)
    BY <2>3, <2>4 DEF Pushes
  <2> QED
    BY <2>2, <2>5
<1> HIDE DEF S
<1>3. 0..n \subseteq S
  BY <1>1, <1>2, Induction
<1>4. PICK f : Pushes(f, acc, chunks, n)
  BY <1>3 DEF S
<1> DEFINE Solves(h) == h = [i \in 0..n |-> IF i = 0 THEN acc
                                            ELSE IF chunks[i].kind = "ToolCallDelta"
                                                 THEN Push(h[i - 1], chunks[i].delta)
                                                 ELSE h[i - 1]]
           pushed == CHOOSE h : Solves(h)
<1>5. PushAll(acc, chunks) = pushed[n]
  BY DEF PushAll
<1>6. \A i \in 0..n : i # 0 => i \in 1..n
  OBVIOUS
<1>7. \A i \in 1..n : i \in 0..n /\ i # 0
  OBVIOUS
<1>8. Solves(f)
  <2>1. \A i \in 1..n : f[i] = Pushed(f[i - 1], chunks[i])
    BY <1>4 DEF Pushes
  <2>2. f = [i \in 0..n |-> f[i]] /\ f[0] = acc
    BY <1>4 DEF Pushes
  <2>3. \A i \in 0..n : f[i] = IF i = 0 THEN acc
                               ELSE IF chunks[i].kind = "ToolCallDelta"
                                    THEN Push(f[i - 1], chunks[i].delta)
                                    ELSE f[i - 1]
    BY <1>6, <2>1, <2>2 DEF Pushed
  <2>4. [i \in 0..n |-> f[i]] = [i \in 0..n |-> IF i = 0 THEN acc
                                            ELSE IF chunks[i].kind = "ToolCallDelta"
                                                 THEN Push(f[i - 1], chunks[i].delta)
                                                 ELSE f[i - 1]]
    BY <2>3
  <2> QED
    BY <2>2, <2>4
<1>9. Solves(pushed)
  <2>1. \E h : Solves(h)
    BY <1>8
  <2> HIDE DEF Solves
  <2> QED
    BY <2>1
<1> HIDE DEF pushed
<1>10. Pushes(pushed, acc, chunks, n)
  <2>1. /\ pushed = [i \in 0..n |-> pushed[i]]
        /\ \A i \in 0..n : pushed[i] = IF i = 0 THEN acc
                                       ELSE IF chunks[i].kind = "ToolCallDelta"
                                            THEN Push(pushed[i - 1], chunks[i].delta)
                                            ELSE pushed[i - 1]
    BY <1>9
  <2>2. 0 \in 0..n
    OBVIOUS
  <2> QED
    BY <1>7, <2>1, <2>2 DEF Pushes, Pushed
<1> QED
  BY <1>5, <1>10

\* PushAll is where any such run ends.
LEMMA PushAllIs ==
  ASSUME NEW acc, NEW chunks, Len(chunks) \in Nat, NEW g, Pushes(g, acc, chunks, Len(chunks))
  PROVE  PushAll(acc, chunks) = g[Len(chunks)]
<1> DEFINE n == Len(chunks)
<1>1. PICK f : Pushes(f, acc, chunks, n) /\ PushAll(acc, chunks) = f[n]
  BY PushAllRuns
<1> DEFINE S == {i \in 0..n : f[i] = g[i]}
<1>2. 0 \in S
  BY <1>1 DEF Pushes
<1>3. ASSUME NEW i \in 0..n - 1, i \in S PROVE i + 1 \in S
  <2>1. i + 1 \in 1..n /\ (i + 1) - 1 = i /\ i + 1 \in 0..n /\ f[i] = g[i]
    BY <1>3
  <2>2. f[i + 1] = Pushed(f[(i + 1) - 1], chunks[i + 1]) /\ g[i + 1] = Pushed(g[(i + 1) - 1], chunks[i + 1])
    BY <1>1, <2>1 DEF Pushes
  <2> QED
    BY <2>1, <2>2
<1> HIDE DEF S
<1>4. 0..n \subseteq S
  BY <1>2, <1>3, Induction
<1> QED
  BY <1>1, <1>4 DEF S

\* Chunks one behind the other are pushed one behind the other.
LEMMA PushAllBoth ==
  ASSUME NEW acc, NEW a, NEW b, IsSeq(a), IsSeq(b)
  PROVE  PushAll(acc, a \o b) = PushAll(PushAll(acc, a), b)
<1> DEFINE c == a \o b
           n == Len(a)
           l == Len(b)
           mid == PushAll(acc, a)
<1>1. PICK S : a \in Seq(S)
  BY DEF IsSeq
<1>2. PICK T : b \in Seq(T)
  BY DEF IsSeq
<1> DEFINE U == S \cup T
<1>3. a \in Seq(U) /\ b \in Seq(U)
  BY <1>1, <1>2
<1> HIDE DEF U
<1>4. /\ n \in Nat /\ l \in Nat /\ Len(c) = n + l
      /\ \A i \in 1..n : c[i] = a[i]
      /\ \A i \in 1..l : c[n + i] = b[i]
  BY <1>3
<1>5. PICK f : Pushes(f, acc, a, n) /\ mid = f[n]
  BY <1>4, PushAllRuns
<1>6. PICK g : Pushes(g, mid, b, l) /\ PushAll(mid, b) = g[l]
  BY <1>4, PushAllRuns
<1> HIDE DEF c, n, l, mid
<1> DEFINE m == n + l
           h == [i \in 0..m |-> IF i <= n THEN f[i] ELSE g[i - n]]
<1>7. m \in Nat /\ 0 \in 0..m /\ 0 <= n /\ m \in 0..m /\ n \in 0..m
  BY <1>4
<1>8. h = [i \in 0..m |-> h[i]] /\ h[0] = acc
  BY <1>5, <1>7 DEF Pushes
<1>9. \A i \in 0..m : n <= i => h[i] = g[i - n]
  <2>1. n - n = 0 /\ g[0] = f[n] /\ n <= n
    BY <1>4, <1>5, <1>6 DEF Pushes
  <2>2. \A i \in 0..m : n <= i /\ i # n => ~(i <= n)
    BY <1>4
  <2>3. h[n] = g[n - n]
    BY <1>7, <2>1
  <2> QED
    BY <2>2, <2>3
<1>10. \A i \in 0..m : i <= n => h[i] = f[i]
  OBVIOUS
<1> HIDE DEF h
<1>11. ASSUME NEW i \in 1..m PROVE h[i] = Pushed(h[i - 1], c[i])
  <2>1. CASE i <= n
    <3>1. i \in 1..n /\ i - 1 \in 0..m /\ i \in 0..m /\ i - 1 <= n
      BY <1>4, <2>1
    <3>2. h[i] = f[i] /\ h[i - 1] = f[i - 1]
      BY <1>10, <2>1, <3>1
    <3>3. f[i] = Pushed(f[i - 1], a[i])
      BY <1>5, <3>1 DEF Pushes
    <3> QED
      BY <1>4, <3>1, <3>2, <3>3
  <2>2. CASE ~(i <= n)
    <3> DEFINE k == i - n
    <3>1. k \in 1..l /\ n + k = i /\ i \in 0..m /\ i - 1 \in 0..m /\ n <= i /\ n <= i - 1
          /\ (i - 1) - n = k - 1
      BY <1>4, <2>2
    <3>2. h[i] = g[k] /\ h[i - 1] = g[(i - 1) - n]
      BY <1>9, <3>1
    <3> HIDE DEF k
    <3>3. g[k] = Pushed(g[k - 1], b[k])
      BY <1>6, <3>1 DEF Pushes
    <3>4. c[i] = b[k]
      BY <1>4, <3>1
    <3> QED
      BY <3>1, <3>2, <3>3, <3>4
  <2> QED
    BY <2>1, <2>2
<1>12. Pushes(h, acc, c, m)
  BY <1>8, <1>11 DEF Pushes
<1>13. PushAll(acc, c) = h[m]
  <2>1. Len(c) = m
    BY <1>4
  <2> HIDE DEF m
  <2> QED
    BY <1>7, <1>12, <2>1, PushAllIs
<1>14. h[m] = g[l]
  <2>1. n <= m /\ m - n = l
    BY <1>4
  <2> QED
    BY <1>7, <1>9, <2>1
<1> QED
  BY <1>6, <1>13, <1>14 DEF c, mid

\* Chunks that bring the fragments cs.
Delivers(c, cs) ==
  /\ IsSeq(c) /\ cs \in Seq(Delta)
  /\ \A ds \in Seq(Delta) : PushAll(Gathered(ds), c) = Gathered(ds \o cs)

\* One behind the other they bring one behind the other.
LEMMA DeliversBoth ==
  ASSUME NEW a, NEW b, NEW x, NEW y, Delivers(a, x), Delivers(b, y)
  PROVE  Delivers(a \o b, x \o y)
<1>1. IsSeq(a) /\ IsSeq(b) /\ x \in Seq(Delta) /\ y \in Seq(Delta)
  BY DEF Delivers
<1>2. IsSeq(a \o b) /\ x \o y \in Seq(Delta)
  BY <1>1, HasBoth
<1>3. ASSUME NEW ds \in Seq(Delta)
      PROVE  PushAll(Gathered(ds), a \o b) = Gathered(ds \o (x \o y))
  <2>1. PushAll(Gathered(ds), a) = Gathered(ds \o x) /\ ds \o x \in Seq(Delta)
    BY <1>1 DEF Delivers
  <2>2. PushAll(Gathered(ds \o x), b) = Gathered((ds \o x) \o y)
    BY <2>1 DEF Delivers
  <2>3. (ds \o x) \o y = ds \o (x \o y)
    BY <1>1
  <2>4. PushAll(Gathered(ds), a \o b) = PushAll(PushAll(Gathered(ds), a), b)
    BY <1>1, PushAllBoth
  <2> QED
    BY <2>1, <2>2, <2>3, <2>4
<1> QED
  BY <1>2, <1>3 DEF Delivers

\* Chunks without a fragment bring none.
LEMMA DeliversNone ==
  ASSUME NEW c, IsSeq(c), ~Has(c, "ToolCallDelta")
  PROVE  Delivers(c, <<>>)
<1>1. Len(c) \in Nat /\ \A i \in 1..Len(c) : c[i].kind # "ToolCallDelta"
  <2>1. PICK S : c \in Seq(S)
    BY DEF IsSeq
  <2>2. Len(c) \in Nat /\ DOMAIN c = 1..Len(c)
    BY <2>1
  <2> QED
    BY <2>2 DEF Has
<1>2. ASSUME NEW ds \in Seq(Delta)
      PROVE  PushAll(Gathered(ds), c) = Gathered(ds \o <<>>)
  <2> DEFINE acc == Gathered(ds)
             n == Len(c)
             g == [i \in 0..n |-> acc]
  <2>1. n \in Nat /\ 0 \in 0..n /\ n \in 0..n /\ \A i \in 1..n : i \in 0..n /\ i - 1 \in 0..n
    BY <1>1
  <2>2. g = [i \in 0..n |-> g[i]] /\ \A i \in 0..n : g[i] = acc
    OBVIOUS
  <2> HIDE DEF g, acc
  <2>3. Pushes(g, acc, c, n)
    BY <1>1, <2>1, <2>2 DEF Pushes, Pushed
  <2>4. PushAll(acc, c) = g[n]
    BY <1>1, <2>3, PushAllIs
  <2>5. ds \o <<>> = ds
    OBVIOUS
  <2> QED
    BY <2>1, <2>2, <2>4, <2>5 DEF acc
<1>3. <<>> \in Seq(Delta)
  OBVIOUS
<1> QED
  BY <1>2, <1>3 DEF Delivers

\* The fragments as chunks.
LEMMA DeliversDeltas ==
  ASSUME NEW cs \in Seq(Delta)
  PROVE  Delivers(Deltas(cs), cs)
<1> DEFINE c == Deltas(cs)
           n == Len(cs)
<1>1. n \in Nat /\ DOMAIN cs = 1..n
  OBVIOUS
<1>2. c = [i \in 1..n |-> [Chunk("ToolCallDelta") EXCEPT !.delta = cs[i]]]
  BY <1>1 DEF Deltas
<1>3. \A i \in 1..n : c[i].kind = "ToolCallDelta" /\ c[i].delta = cs[i]
  BY <1>2 DEF Chunk
<1>4. c = [i \in 1..n |-> c[i]]
  BY <1>2
<1> HIDE DEF c
<1>5. IsSeq(c) /\ Len(c) = n
  BY <1>1, <1>4, FunctionIsSeq
<1> HIDE DEF n
<1>6. ASSUME NEW ds \in Seq(Delta)
      PROVE  PushAll(Gathered(ds), c) = Gathered(ds \o cs)
  <2> DEFINE D(i) == ds \o SubSeq(cs, 1, i)
             g == [i \in 0..n |-> Gathered(D(i))]
  <2>1. g = [i \in 0..n |-> g[i]] /\ \A i \in 0..n : g[i] = Gathered(D(i))
    OBVIOUS
  <2>2. D(0) = ds
    OBVIOUS
  <2>3. D(n) = ds \o cs
    BY DEF n
  <2>4. ASSUME NEW i \in 1..n
        PROVE  D(i - 1) \in Seq(Delta) /\ cs[i] \in Delta /\ D(i) = Append(D(i - 1), cs[i])
    <3>1. /\ SubSeq(cs, 1, i - 1) \in Seq(Delta) /\ cs[i] \in Delta
          /\ SubSeq(cs, 1, i) = Append(SubSeq(cs, 1, i - 1), cs[i])
      BY <1>1 DEF n
    <3> QED
      BY <3>1
  <2>5. 0 \in 0..n /\ n \in 0..n /\ \A i \in 1..n : i \in 0..n /\ i - 1 \in 0..n
    BY <1>1
  <2> HIDE DEF g, D
  <2>6. ASSUME NEW i \in 1..n PROVE g[i] = Pushed(g[i - 1], c[i])
    <3>1. g[i - 1] = Gathered(D(i - 1)) /\ g[i] = Gathered(D(i))
      BY <2>1, <2>5
    <3>2. Push(Gathered(D(i - 1)), cs[i]) = Gathered(Append(D(i - 1), cs[i]))
      BY <2>4, PushGathers
    <3> QED
      BY <1>3, <2>4, <3>1, <3>2 DEF Pushed
  <2>7. g[0] = Gathered(ds) /\ g[n] = Gathered(ds \o cs)
    BY <2>1, <2>2, <2>3, <2>5
  <2>8. Pushes(g, Gathered(ds), c, n)
    BY <2>1, <2>6, <2>7 DEF Pushes
  <2> QED
    BY <1>1, <1>5, <2>7, <2>8, PushAllIs
<1> QED
  BY <1>5, <1>6 DEF Delivers, c

\* What chunks of one kind have.
LEMMA HasKind ==
  ASSUME NEW n \in Nat, NEW c, c = [i \in 1..n |-> c[i]], NEW kind, NEW x,
         \A i \in 1..n : c[i].kind = kind
  PROVE  IsSeq(c) /\ (Has(c, x) <=> n > 0 /\ kind = x)
<1>1. DOMAIN c = 1..n /\ IsSeq(c)
  BY FunctionIsSeq
<1>2. n > 0 => 1 \in DOMAIN c
  BY <1>1
<1>3. \A i \in DOMAIN c : n > 0
  BY <1>1
<1> QED
  BY <1>1, <1>2, <1>3 DEF Has

\* One chunk has its kind,
LEMMA HasOne ==
  ASSUME NEW kind, NEW x
  PROVE  IsSeq(<<Chunk(kind)>>) /\ (Has(<<Chunk(kind)>>, x) <=> kind = x)
<1> DEFINE e == Chunk(kind)
           c == <<e>>
<1>1. e.kind = kind
  BY DEF Chunk
<1> HIDE DEF e
<1>2. IsSeq(c) /\ DOMAIN c = {1} /\ c[1] = e
  <2>1. DOMAIN c = {1} /\ c[1] = e
    OBVIOUS
  <2> QED
    BY <2>1, OneIs
<1> HIDE DEF c
<1>3. Has(c, x) <=> kind = x
  BY <1>1, <1>2 DEF Has
<1> QED
  BY <1>2, <1>3 DEF c, e

\* and none has none.
LEMMA HasNone == \A x : IsSeq(<<>>) /\ ~Has(<<>>, x)
BY EmptyIs DEF Has

\* The chunks of the parts of a message.
LEMMA PiecesHave ==
  ASSUME NEW m \in Message, NEW x
  PROVE  /\ IsSeq(Texts(m)) /\ (Has(Texts(m), x) => x = "TextDelta")
         /\ IsSeq(Thinking(m)) /\ (Has(Thinking(m), x) => x = "ThinkingDelta")
         /\ IsSeq(Done(m)) /\ (Has(Done(m), x) <=> m.finish /\ x = "Done")
         /\ IsSeq(Usage(m)) /\ (Has(Usage(m), x) <=> m.usage # {} /\ x = "Usage")
<1>1. m.text \in Nat
  BY DEF Message
<1>2. IsSeq(Texts(m)) /\ (Has(Texts(m), x) => x = "TextDelta")
  <2> DEFINE c == Texts(m)
             n == m.text
  <2>1. c = [i \in 1..n |-> Chunk("TextDelta")]
    BY DEF Texts
  <2>2. Chunk("TextDelta").kind = "TextDelta"
    BY DEF Chunk
  <2> HIDE DEF c, n
  <2>3. c = [i \in 1..n |-> c[i]] /\ \A i \in 1..n : c[i].kind = "TextDelta"
    BY <2>1, <2>2
  <2>4. n \in Nat
    BY <1>1 DEF n
  <2> QED
    BY <2>3, <2>4, HasKind DEF c
<1>3. IsSeq(Thinking(m)) /\ (Has(Thinking(m), x) => x = "ThinkingDelta")
  BY HasOne, HasNone DEF Thinking
<1>4. IsSeq(Done(m)) /\ (Has(Done(m), x) <=> m.finish /\ x = "Done")
  BY HasOne, HasNone DEF Done
<1>5. IsSeq(Usage(m)) /\ (Has(Usage(m), x) <=> m.usage # {} /\ x = "Usage")
  BY HasOne, HasNone DEF Usage
<1> QED
  BY <1>2, <1>3, <1>4, <1>5

\* The chunks of the fragments of calls.
LEMMA DeltasHave ==
  ASSUME NEW cs \in Seq(Delta), NEW x
  PROVE  IsSeq(Deltas(cs)) /\ (Has(Deltas(cs), x) <=> cs # <<>> /\ x = "ToolCallDelta")
<1> DEFINE c == Deltas(cs)
           n == Len(cs)
<1>1. n \in Nat /\ DOMAIN cs = 1..n /\ (n > 0 <=> cs # <<>>)
  OBVIOUS
<1>2. c = [i \in 1..n |-> [Chunk("ToolCallDelta") EXCEPT !.delta = cs[i]]]
  BY <1>1 DEF Deltas
<1>3. \A i \in 1..n : c[i].kind = "ToolCallDelta"
  BY <1>2 DEF Chunk
<1>4. c = [i \in 1..n |-> c[i]]
  BY <1>2
<1> HIDE DEF c, n
<1>5. IsSeq(c) /\ (Has(c, x) <=> n > 0 /\ "ToolCallDelta" = x)
  BY <1>1, <1>3, <1>4, HasKind
<1> QED
  BY <1>1, <1>5 DEF c

\* The calls of a message as Google numbers and names them.
Numbered(cs) == [i \in DOMAIN cs |-> [cs[i] EXCEPT !.index = i - 1, !.id = cs[i].name]]
CallsTold(r, m) == IF r = "google" THEN Numbered(m.calls) ELSE m.calls

\* What is numbered is otherwise as it was.
LEMMA NumberedIs ==
  ASSUME NEW cs \in Seq(Delta)
  PROVE  /\ Numbered(cs) \in Seq(Delta) /\ DOMAIN Numbered(cs) = DOMAIN cs
         /\ \A i \in DOMAIN cs : /\ Numbered(cs)[i].index = i - 1
                                 /\ Numbered(cs)[i].id = cs[i].name
                                 /\ Numbered(cs)[i].name = cs[i].name
                                 /\ Numbered(cs)[i].args = cs[i].args
<1> DEFINE s == Numbered(cs)
<1>1. Len(cs) \in Nat /\ DOMAIN cs = 1..Len(cs) /\ \A i \in DOMAIN cs : cs[i] \in Delta /\ i - 1 \in Nat
  OBVIOUS
<1>2. s = [i \in 1..Len(cs) |-> [cs[i] EXCEPT !.index = i - 1, !.id = cs[i].name]]
  BY <1>1 DEF Numbered
<1> HIDE DEF s
<1>3. ASSUME NEW i \in DOMAIN cs
      PROVE  /\ s[i] \in Delta /\ s[i].index = i - 1 /\ s[i].id = cs[i].name
             /\ s[i].name = cs[i].name /\ s[i].args = cs[i].args
  <2>1. s[i] = [cs[i] EXCEPT !.index = i - 1, !.id = cs[i].name]
    BY <1>1, <1>2
  <2>2. cs[i] \in Delta /\ i - 1 \in Nat
    BY <1>1
  <2> QED
    BY <2>1, <2>2 DEF Delta
<1>4. s \in [1..Len(cs) -> Delta]
  BY <1>1, <1>2, <1>3
<1>5. s \in Seq(Delta) /\ DOMAIN s = DOMAIN cs
  BY <1>1, <1>4
<1> QED
  BY <1>3, <1>5 DEF s

\* What process_stream makes of a frame of the message m: the calls of m reach the accumulator, its
\* counts the other if they are where the decoder looks, and the end of the answer is seen where
\* it is.
Alone(r, m) == r = "google" /\ m.usage # {} =>
                   ~(m.parts /\ (m.text > 0 \/ m.calls # <<>> \/ m.finish))
Heard(r, m, c) ==
  /\ Delivers(c, CallsTold(r, m))
  /\ Has(c, "Done") => IsFinal(r, m)
  /\ r # "anthropic" /\ Alone(r, m) => (Has(c, "Usage") <=> m.usage # {})
                                       /\ ~Has(c, "InputTokens") /\ ~Has(c, "OutputTokens")
  /\ r = "anthropic" => /\ ~Has(c, "Usage")
                        /\ Has(c, "InputTokens") <=> \E u \in m.usage : u.in > 0
                        /\ Has(c, "OutputTokens") <=> \E u \in m.usage : u.out > 0

\* OpenAICompatCodec::decode_sse tells the calls, the end and the usage of a message;
LEMMA OpenAIHeard ==
  ASSUME NEW m \in Message, Calling("openai", m), Counting("openai", m)
  PROVE  Heard("openai", m, OpenAI(m))
<1>0. m.calls \in Seq(Delta) /\ CallsTold("openai", m) = m.calls
  BY DEF Message, CallsTold
<1>1. CASE m.kind = "[DONE]"
  <2> DEFINE c == <<Chunk("Done")>>
  <2>1. m.calls = <<>> /\ m.usage = {}
    BY <1>1 DEF Calling, Counting
  <2>2. OpenAI(m) = c
    BY <1>1 DEF OpenAI
  <2>3. IsSeq(c) /\ \A x : Has(c, x) => x = "Done"
    BY HasOne
  <2> HIDE DEF c
  <2>4. /\ ~Has(c, "ToolCallDelta") /\ ~Has(c, "Usage") /\ ~Has(c, "InputTokens")
        /\ ~Has(c, "OutputTokens")
    BY <2>3
  <2>5. Delivers(c, m.calls)
    BY <2>1, <2>3, <2>4, DeliversNone
  <2>6. IsFinal("openai", m)
    BY <1>1 DEF IsFinal
  <2> QED
    BY <1>0, <2>1, <2>2, <2>4, <2>5, <2>6 DEF Heard
<1>2. CASE m.kind # "[DONE]"
  <2> DEFINE a == Texts(m)
             b == Thinking(m)
             c == Deltas(m.calls)
             d == Done(m)
             u == Usage(m)
             all == (((a \o b) \o c) \o d) \o u
  <2>1. OpenAI(m) = all
    BY <1>2 DEF OpenAI
  <2>2. /\ IsSeq(a) /\ IsSeq(b) /\ IsSeq(c) /\ IsSeq(d) /\ IsSeq(u)
        /\ \A x : /\ Has(a, x) => x = "TextDelta"
                  /\ Has(b, x) => x = "ThinkingDelta"
                  /\ Has(c, x) => x = "ToolCallDelta"
                  /\ Has(d, x) <=> m.finish /\ x = "Done"
                  /\ Has(u, x) <=> m.usage # {} /\ x = "Usage"
    BY <1>0, PiecesHave, DeltasHave
  <2>3. /\ ~Has(a, "ToolCallDelta") /\ ~Has(b, "ToolCallDelta")
        /\ ~Has(d, "ToolCallDelta") /\ ~Has(u, "ToolCallDelta")
    BY <2>2
  <2>4. Delivers(c, m.calls)
    BY <1>0, DeliversDeltas
  <2> HIDE DEF a, b, c, d, u
  <2>5. /\ Delivers(a, <<>>) /\ Delivers(b, <<>>) /\ Delivers(d, <<>>) /\ Delivers(u, <<>>)
    BY <2>2, <2>3, DeliversNone
  <2>6. Delivers(all, (((<<>> \o <<>>) \o m.calls) \o <<>>) \o <<>>)
    BY <2>4, <2>5, DeliversBoth
  <2>7. (((<<>> \o <<>>) \o m.calls) \o <<>>) \o <<>> = m.calls
    BY <1>0
  <2>8. ASSUME NEW x PROVE Has(all, x) <=> Has(a, x) \/ Has(b, x) \/ Has(c, x) \/ Has(d, x) \/ Has(u, x)
    <3>1. IsSeq(a \o b) /\ (Has(a \o b, x) <=> Has(a, x) \/ Has(b, x))
      BY <2>2, HasBoth
    <3>2. IsSeq((a \o b) \o c) /\ (Has((a \o b) \o c, x) <=> Has(a \o b, x) \/ Has(c, x))
      BY <2>2, <3>1, HasBoth
    <3>3. IsSeq(((a \o b) \o c) \o d)
          /\ (Has(((a \o b) \o c) \o d, x) <=> Has((a \o b) \o c, x) \/ Has(d, x))
      BY <2>2, <3>2, HasBoth
    <3>4. Has(all, x) <=> Has(((a \o b) \o c) \o d, x) \/ Has(u, x)
      BY <2>2, <3>3, HasBoth
    <3> QED
      BY <3>1, <3>2, <3>3, <3>4
  <2> HIDE DEF all
  <2>9. /\ Has(all, "Done") => m.finish
        /\ Has(all, "Usage") <=> m.usage # {}
        /\ ~Has(all, "InputTokens") /\ ~Has(all, "OutputTokens")
    BY <2>2, <2>8
  <2>10. m.finish => IsFinal("openai", m)
    BY DEF IsFinal
  <2>11. Delivers(all, CallsTold("openai", m))
    BY <1>0, <2>6, <2>7
  <2>12. Heard("openai", m, all)
    BY <2>9, <2>10, <2>11 DEF Heard
  <2> QED
    BY <2>1, <2>12
<1> QED
  BY <1>1, <1>2

\* AnthropicCodec::decode_sse does, with each count by itself;
LEMMA AnthropicHeard ==
  ASSUME NEW m \in Message, Calling("anthropic", m), Counting("anthropic", m)
  PROVE  Heard("anthropic", m, Anthropic(m))
<1> DEFINE A == Anthropic(m)
           in == \E u \in m.usage : u.in > 0
           on == \E u \in m.usage : u.out > 0
<1>0. m.calls \in Seq(Delta) /\ CallsTold("anthropic", m) = m.calls
  BY DEF Message, CallsTold
<1>1. /\ in => m.kind = "message_start"
      /\ on => m.kind = "message_delta"
      /\ m.calls # <<>> => m.kind \in {"content_block_start", "content_block_delta"}
  BY DEF Calling, Counting
<1>2. /\ IsSeq(Texts(m)) /\ IsSeq(Thinking(m)) /\ IsSeq(Deltas(m.calls))
      /\ \A x : /\ Has(Texts(m), x) => x = "TextDelta"
                /\ Has(Thinking(m), x) => x = "ThinkingDelta"
                /\ Has(Deltas(m.calls), x) => x = "ToolCallDelta"
  BY <1>0, PiecesHave, DeltasHave
<1>3. Delivers(Deltas(m.calls), m.calls)
  BY <1>0, DeliversDeltas
<1>4. IsFinal("anthropic", m) <=> m.kind = "message_delta"
  BY DEF IsFinal
<1>5. CASE m.kind = "content_block_delta"
  <2> DEFINE a == Texts(m)
             b == Thinking(m)
             c == Deltas(m.calls)
             all == (a \o c) \o b
  <2>1. A = all
    BY <1>5 DEF Anthropic
  <2>2. /\ IsSeq(a) /\ IsSeq(b) /\ IsSeq(c)
        /\ \A x : /\ Has(a, x) => x = "TextDelta"
                  /\ Has(b, x) => x = "ThinkingDelta"
                  /\ Has(c, x) => x = "ToolCallDelta"
    BY <1>2
  <2>3. Delivers(c, m.calls)
    BY <1>3
  <2> HIDE DEF a, b, c, A, in, on
  <2>4. Delivers(a, <<>>) /\ Delivers(b, <<>>)
    BY <2>2, DeliversNone
  <2>5. Delivers(all, (<<>> \o m.calls) \o <<>>)
    BY <2>3, <2>4, DeliversBoth
  <2>6. (<<>> \o m.calls) \o <<>> = m.calls
    BY <1>0
  <2>7. ASSUME NEW x PROVE Has(all, x) <=> Has(a, x) \/ Has(b, x) \/ Has(c, x)
    <3>1. IsSeq(a \o c) /\ (Has(a \o c, x) <=> Has(a, x) \/ Has(c, x))
      BY <2>2, HasBoth
    <3>2. Has(all, x) <=> Has(a \o c, x) \/ Has(b, x)
      BY <2>2, <3>1, HasBoth
    <3> QED
      BY <3>1, <3>2
  <2> HIDE DEF all
  <2>8. ~Has(all, "Done") /\ ~Has(all, "Usage") /\ ~Has(all, "InputTokens") /\ ~Has(all, "OutputTokens")
    BY <2>2, <2>7
  <2>9. ~in /\ ~on
    BY <1>1, <1>5
  <2>10. Delivers(all, CallsTold("anthropic", m))
    BY <1>0, <2>5, <2>6
  <2>11. Heard("anthropic", m, all)
    BY <2>8, <2>9, <2>10 DEF Heard, in, on
  <2> QED
    BY <2>1, <2>11 DEF A
<1>6. CASE m.kind = "content_block_start"
  <2> DEFINE c == Deltas(m.calls)
  <2>1. A = c
    BY <1>6 DEF Anthropic
  <2>2. ~Has(c, "Done") /\ ~Has(c, "Usage") /\ ~Has(c, "InputTokens") /\ ~Has(c, "OutputTokens")
    BY <1>2
  <2>3. Delivers(c, CallsTold("anthropic", m))
    BY <1>0, <1>3
  <2> HIDE DEF A, c, in, on
  <2>4. ~in /\ ~on
    BY <1>1, <1>6
  <2>5. Heard("anthropic", m, c)
    BY <2>2, <2>3, <2>4 DEF Heard, in, on
  <2> QED
    BY <2>1, <2>5 DEF A
<1>7. CASE m.kind \notin {"content_block_start", "content_block_delta"}
  <2>1. m.calls = <<>>
    BY <1>1, <1>7
  <2> DEFINE a == IF m.kind = "message_start" /\ in THEN <<Chunk("InputTokens")>> ELSE <<>>
             b == IF m.kind = "message_delta" /\ on THEN <<Chunk("OutputTokens")>> ELSE <<>>
             c == IF m.kind = "message_delta" THEN <<Chunk("Done")>> ELSE <<>>
  <2>2. IsSeq(a) /\ \A x : Has(a, x) <=> m.kind = "message_start" /\ in /\ x = "InputTokens"
    BY HasOne, HasNone, Zenon
  <2>3. IsSeq(b) /\ \A x : Has(b, x) <=> m.kind = "message_delta" /\ on /\ x = "OutputTokens"
    BY HasOne, HasNone, Zenon
  <2>4. IsSeq(c) /\ \A x : Has(c, x) <=> m.kind = "message_delta" /\ x = "Done"
    BY HasOne, HasNone, Zenon
  <2>5. A = IF m.kind = "message_start" THEN a ELSE b \o c
    <3>1. CASE m.kind = "message_start"
      BY <3>1 DEF Anthropic
    <3>2. CASE m.kind = "message_delta"
      BY <3>2 DEF Anthropic
    <3>3. CASE m.kind \notin {"message_start", "message_delta"}
      <4>1. A = <<>>
        BY <1>7, <3>3 DEF Anthropic
      <4>2. b = <<>> /\ c = <<>> /\ <<>> \o <<>> = <<>>
        BY <3>3
      <4> QED
        BY <3>3, <4>1, <4>2
    <3> QED
      BY <3>1, <3>2, <3>3
  <2> HIDE DEF a, b, c, in, on, A
  <2>6. IsSeq(b \o c) /\ \A x : Has(b \o c, x) <=> Has(b, x) \/ Has(c, x)
    BY <2>3, <2>4, HasBoth
  <2>7. IsSeq(A)
    BY <2>2, <2>5, <2>6
  <2>8. /\ Has(A, "Done") => m.kind = "message_delta"
        /\ ~Has(A, "Usage") /\ ~Has(A, "ToolCallDelta")
    BY <2>2, <2>3, <2>4, <2>5, <2>6
  <2>9. Has(A, "InputTokens") <=> m.kind = "message_start" /\ in
    BY <2>2, <2>3, <2>4, <2>5, <2>6
  <2>10. Has(A, "OutputTokens") <=> m.kind = "message_delta" /\ on
    BY <2>2, <2>3, <2>4, <2>5, <2>6
  <2>11. Delivers(A, CallsTold("anthropic", m))
    BY <1>0, <2>1, <2>7, <2>8, DeliversNone
  <2>12. Heard("anthropic", m, A)
    BY <1>1, <1>4, <2>8, <2>9, <2>10, <2>11 DEF Heard, in, on
  <2> QED
    BY <2>12 DEF A
<1> QED
  BY <1>5, <1>6, <1>7

\* and GoogleCodec::decode_sse numbers the calls.
LEMMA GoogleHeard ==
  ASSUME NEW m \in Message, Calling("google", m)
  PROVE  Heard("google", m, Google(m))
<1>0. m.calls \in Seq(Delta) /\ m.finish \in BOOLEAN /\ m.parts \in BOOLEAN
  BY DEF Message
<1> DEFINE ds == Numbered(m.calls)
           a == Texts(m)
           c == Deltas(ds)
           d == Done(m)
           u == Usage(m)
           content == (a \o c) \o d
<1>1. Google(m) = IF m.parts /\ content # <<>> THEN content ELSE u
  BY DEF Google, Numbered
<1>2. ds \in Seq(Delta) /\ (ds = <<>> <=> m.calls = <<>>)
  <2>1. ds \in Seq(Delta) /\ DOMAIN ds = DOMAIN m.calls
    BY <1>0, NumberedIs
  <2> HIDE DEF ds
  <2> QED
    BY <1>0, <2>1
<1>3. CallsTold("google", m) = ds
  BY DEF CallsTold
<1>14. ~(m.text > 0) /\ ds = <<>> /\ ~m.finish => content = <<>>
  <2> SUFFICES ASSUME ~(m.text > 0), ds = <<>>, ~m.finish PROVE content = <<>>
    OBVIOUS
  <2>1. m.text \in Nat
    BY DEF Message
  <2>2. a = <<>>
    BY <2>1 DEF Texts
  <2> HIDE DEF ds
  <2>3. c = <<>> /\ d = <<>>
    BY DEF Deltas, Done
  <2>4. (<<>> \o <<>>) \o <<>> = <<>>
    OBVIOUS
  <2> HIDE DEF a, c, d
  <2> QED
    BY <2>2, <2>3, <2>4
<1> HIDE DEF ds
<1>4. /\ IsSeq(a) /\ IsSeq(c) /\ IsSeq(d) /\ IsSeq(u)
      /\ \A x : /\ Has(a, x) => x = "TextDelta"
                /\ Has(c, x) <=> ds # <<>> /\ x = "ToolCallDelta"
                /\ Has(d, x) <=> m.finish /\ x = "Done"
                /\ Has(u, x) <=> m.usage # {} /\ x = "Usage"
  BY <1>2, PiecesHave, DeltasHave
<1>5. Delivers(c, ds)
  BY <1>2, DeliversDeltas
<1> HIDE DEF a, c, d, u
<1>6. ~Has(a, "ToolCallDelta") /\ ~Has(d, "ToolCallDelta") /\ ~Has(u, "ToolCallDelta")
  BY <1>4
<1>7. Delivers(a, <<>>) /\ Delivers(d, <<>>) /\ Delivers(u, <<>>)
  BY <1>4, <1>6, DeliversNone
<1>8. Delivers(content, (<<>> \o ds) \o <<>>)
  BY <1>5, <1>7, DeliversBoth
<1>9. (<<>> \o ds) \o <<>> = ds
  BY <1>2
<1>10. ASSUME NEW x PROVE Has(content, x) <=> Has(a, x) \/ Has(c, x) \/ Has(d, x)
  <2>1. IsSeq(a \o c) /\ (Has(a \o c, x) <=> Has(a, x) \/ Has(c, x))
    BY <1>4, HasBoth
  <2>2. Has(content, x) <=> Has(a \o c, x) \/ Has(d, x)
    BY <1>4, <2>1, HasBoth
  <2> QED
    BY <2>1, <2>2
<1>11. Delivers(content, ds)
  BY <1>8, <1>9
<1> HIDE DEF content
<1>12. CASE m.parts /\ content # <<>>
  <2>1. Has(content, "Done") => m.parts /\ m.finish
    BY <1>4, <1>10, <1>12
  <2>2. m.parts /\ m.finish => IsFinal("google", m)
    BY DEF IsFinal
  <2>3. Alone("google", m) => m.usage = {}
    BY <1>2, <1>12, <1>14 DEF Alone
  <2>4. ~Has(content, "Usage") /\ ~Has(content, "InputTokens") /\ ~Has(content, "OutputTokens")
    BY <1>4, <1>10
  <2>5. Heard("google", m, content)
    BY <1>3, <1>11, <2>1, <2>2, <2>3, <2>4 DEF Heard
  <2> QED
    BY <1>1, <1>12, <2>5
<1>13. CASE ~(m.parts /\ content # <<>>)
  <2>1. ds = <<>>
    <3>1. m.calls # <<>> => m.parts
      BY DEF Calling
    <3>2. ds # <<>> => content # <<>>
      BY <1>4, <1>10, HasNone
    <3> QED
      BY <1>2, <1>13, <3>1, <3>2
  <2>2. /\ ~Has(u, "Done") /\ ~Has(u, "InputTokens") /\ ~Has(u, "OutputTokens")
        /\ Has(u, "Usage") <=> m.usage # {}
    BY <1>4
  <2>3. Heard("google", m, u)
    BY <1>3, <1>7, <2>1, <2>2 DEF Heard
  <2> QED
    BY <1>1, <1>13, <2>3
<1> QED
  BY <1>12, <1>13

\* Whichever decoder it is.
LEMMA DecodeHeard ==
  ASSUME reader \in Codec, NEW m \in Message, Calling(reader, m), Counting(reader, m)
  PROVE  Heard(reader, m, Decode(m))
<1>1. CASE reader = "openai"
  <2>1. Decode(m) = OpenAI(m) /\ Calling("openai", m) /\ Counting("openai", m)
    BY <1>1 DEF Decode
  <2>2. Heard("openai", m, OpenAI(m))
    BY <2>1, OpenAIHeard
  <2> QED
    BY <1>1, <2>1, <2>2
<1>2. CASE reader = "anthropic"
  <2>1. Decode(m) = Anthropic(m) /\ Calling("anthropic", m) /\ Counting("anthropic", m)
    BY <1>2 DEF Decode
  <2>2. Heard("anthropic", m, Anthropic(m))
    BY <2>1, AnthropicHeard
  <2> QED
    BY <1>2, <2>1, <2>2
<1>3. CASE reader = "google"
  <2>1. Decode(m) = Google(m) /\ Calling("google", m)
    BY <1>3 DEF Decode
  <2>2. Heard("google", m, Google(m))
    BY <2>1, GoogleHeard
  <2> QED
    BY <1>3, <2>1, <2>2
<1> QED
  BY <1>1, <1>2, <1>3 DEF Codec

-----------------------------------------------------------------------------
(* What the first n messages of an answer bring.                            *)

\* What the server of r may send.
Fair(r, s) ==
  /\ s \in Seq(Message)
  /\ \A k \in DOMAIN s : Calling(r, s[k]) /\ Counting(r, s[k])
  /\ \A k, j \in DOMAIN s : k < j => Follows(r, s[k], s[j])

\* The fragments of the first n messages as they reach the accumulator, and as they stand.
DeltasTold(r, s, n) == FlattenSeq([k \in 1..n |-> CallsTold(r, s[k])])
DeltasIn(s, n) == FlattenSeq([k \in 1..n |-> s[k].calls])

\* No messages bring no fragments.
LEMMA DeltasNone == \A r, s : DeltasTold(r, s, 0) = <<>> /\ DeltasIn(s, 0) = <<>>
<1> SUFFICES ASSUME NEW r, NEW s PROVE DeltasTold(r, s, 0) = <<>> /\ DeltasIn(s, 0) = <<>>
  OBVIOUS
<1>1. [k \in 1..0 |-> CallsTold(r, s[k])] = <<>> /\ [k \in 1..0 |-> s[k].calls] = <<>>
  OBVIOUS
<1>2. FlattenSeq(<<>>) = <<>>
  BY DEF FlattenSeq
<1> QED
  BY <1>1, <1>2 DEF DeltasTold, DeltasIn

\* The fragments of a message.
LEMMA CallsAre ==
  ASSUME NEW r, NEW m \in Message
  PROVE  m.calls \in Seq(Delta) /\ CallsTold(r, m) \in Seq(Delta)
<1>1. m.calls \in Seq(Delta)
  BY DEF Message
<1> QED
  BY <1>1, NumberedIs DEF CallsTold

\* With one message more.
LEMMA DeltasGrow ==
  ASSUME NEW r, NEW s \in Seq(Message), NEW n \in Nat, n + 1 \in 1..Len(s)
  PROVE  /\ DeltasTold(r, s, n + 1) = DeltasTold(r, s, n) \o CallsTold(r, s[n + 1])
         /\ DeltasIn(s, n + 1) = DeltasIn(s, n) \o s[n + 1].calls
<1> DEFINE p == n + 1
<1>1. /\ p \in Nat \ {0} /\ p - 1 = n /\ p \in 1..p
      /\ \A k \in 1..p : s[k] \in Message /\ (k \in 1..n \/ k = p)
      /\ \A k \in 1..n : k \in 1..p
  OBVIOUS
<1> HIDE DEF p
<1>2. DeltasTold(r, s, p) = DeltasTold(r, s, n) \o CallsTold(r, s[p])
  <2> DEFINE g == [k \in 1..p |-> CallsTold(r, s[k])]
  <2>1. g \in [1..p -> Seq(Delta)]
    BY <1>1, CallsAre
  <2>2. g[p] = CallsTold(r, s[p])
    BY <1>1
  <2>3. [k \in 1..p - 1 |-> g[k]] = [k \in 1..n |-> CallsTold(r, s[k])]
    BY <1>1
  <2>4. FlattenSeq(g) = DeltasTold(r, s, p)
    BY DEF DeltasTold
  <2> HIDE DEF g
  <2>5. FlattenSeq(g) = FlattenSeq([k \in 1..p - 1 |-> g[k]]) \o g[p]
    BY <1>1, <2>1, FlattenedOneMore
  <2> QED
    BY <2>2, <2>3, <2>4, <2>5 DEF DeltasTold
<1>3. DeltasIn(s, p) = DeltasIn(s, n) \o s[p].calls
  <2> DEFINE g == [k \in 1..p |-> s[k].calls]
  <2>1. g \in [1..p -> Seq(Delta)]
    BY <1>1, CallsAre
  <2>2. g[p] = s[p].calls
    BY <1>1
  <2>3. [k \in 1..p - 1 |-> g[k]] = [k \in 1..n |-> s[k].calls]
    BY <1>1
  <2>4. FlattenSeq(g) = DeltasIn(s, p)
    BY DEF DeltasIn
  <2> HIDE DEF g
  <2>5. FlattenSeq(g) = FlattenSeq([k \in 1..p - 1 |-> g[k]]) \o g[p]
    BY <1>1, <2>1, FlattenedOneMore
  <2> QED
    BY <2>2, <2>3, <2>4, <2>5 DEF DeltasIn
<1> QED
  BY <1>2, <1>3 DEF p

\* They are sequences; Google's have their names for ids, and those of one message are numbered
\* one by one.
Single(r, s, n) ==
  r = "google" => \A k, j \in 1..n : s[k].calls # <<>> /\ s[j].calls # <<>> => k = j
NamedById(ds) == \A i \in DOMAIN ds : ds[i].id = ds[i].name
DeltasFit(r, s, n) ==
  /\ DeltasIn(s, n) \in Seq(Delta) /\ DeltasTold(r, s, n) \in Seq(Delta)
  /\ r # "google" => DeltasTold(r, s, n) = DeltasIn(s, n)
  /\ r = "google" /\ Single(r, s, n) => DeltasTold(r, s, n) = Numbered(DeltasIn(s, n))
  /\ r = "google" => NamedById(DeltasTold(r, s, n))
  /\ DeltasIn(s, n) # <<>> => \E k \in 1..n : s[k].calls # <<>>

\* Of two sequences whose ids are their names the whole is one.
LEMMA NamedBoth ==
  ASSUME NEW a \in Seq(Delta), NEW b \in Seq(Delta), NamedById(a), NamedById(b)
  PROVE  NamedById(a \o b)
<1> DEFINE n == Len(a)
           l == Len(b)
           w == a \o b
<1>1. /\ n \in Nat /\ l \in Nat /\ DOMAIN a = 1..n /\ DOMAIN b = 1..l /\ DOMAIN w = 1..n + l
      /\ \A i \in 1..n : w[i] = a[i]
      /\ \A i \in 1..n + l : i \notin 1..n => i - n \in 1..l /\ w[i] = b[i - n]
  OBVIOUS
<1> HIDE DEF n, l, w
<1>2. \A i \in 1..n + l : w[i].id = w[i].name
  BY <1>1 DEF NamedById
<1> QED
  BY <1>1, <1>2 DEF NamedById, w

\* Such are the fragments of every number of messages.
LEMMA DeltasAre ==
  ASSUME NEW r, NEW s, Fair(r, s), NEW n \in 0..Len(s)
  PROVE  DeltasFit(r, s, n)
<1> DEFINE l == Len(s)
           S == {m \in 0..l : DeltasFit(r, s, m)}
<1>0. s \in Seq(Message) /\ l \in Nat /\ DOMAIN s = 1..l /\ \A k \in 1..l : s[k] \in Message
  BY DEF Fair
<1>1. 0 \in S
  <2>1. DeltasIn(s, 0) = <<>> /\ DeltasTold(r, s, 0) = <<>>
    BY DeltasNone
  <2>2. Numbered(<<>>) = <<>> /\ <<>> \in Seq(Delta) /\ DOMAIN <<>> = {}
    BY DEF Numbered
  <2>3. DeltasFit(r, s, 0)
    BY <2>1, <2>2 DEF DeltasFit, NamedById
  <2> QED
    BY <1>0, <2>3
<1>2. ASSUME NEW m \in 0..l - 1, m \in S PROVE m + 1 \in S
  <2> DEFINE p == m + 1
             a == DeltasIn(s, m)
             c == s[p].calls
  <2>1. m \in Nat /\ p \in 1..l /\ p \in 0..l /\ \A k \in 1..m : k \in 1..p /\ k \in 1..l /\ k < p
    BY <1>0
  <2>2. DeltasFit(r, s, m)
    BY <1>2
  <2>3. /\ DeltasTold(r, s, p) = DeltasTold(r, s, m) \o CallsTold(r, s[p])
        /\ DeltasIn(s, p) = a \o c
    BY <1>0, <2>1, DeltasGrow
  <2>4. a \in Seq(Delta) /\ c \in Seq(Delta) /\ CallsTold(r, s[p]) = IF r = "google" THEN Numbered(c) ELSE c
    BY <1>0, <2>1, <2>2, CallsAre DEF DeltasFit, CallsTold
  <2>5. Calling(r, s[p])
    BY <1>0, <2>1 DEF Fair
  <2>6. p \in 1..p
    BY <2>1
  <2>11. DeltasFit(r, s, p) => m + 1 \in S
    BY <2>1
  <2> HIDE DEF p, a, c, l, S
  <2> DEFINE t == DeltasTold(r, s, m)
             d == CallsTold(r, s[p])
  <2>12. t \in Seq(Delta) /\ d \in Seq(Delta) /\ (r = "google" => NamedById(t))
    BY <1>0, <2>1, <2>2, CallsAre DEF DeltasFit
  <2>13. r = "google" => NamedById(d)
    <3>1. \A i \in DOMAIN c : Numbered(c)[i].id = c[i].name /\ Numbered(c)[i].name = c[i].name
      BY <2>4, NumberedIs
    <3>2. DOMAIN Numbered(c) = DOMAIN c
      BY <2>4, NumberedIs
    <3> QED
      BY <2>4, <3>1, <3>2 DEF NamedById
  <2>14. r # "google" => t = a /\ d = c
    BY <2>2, <2>4 DEF DeltasFit, a
  <2> HIDE DEF t, d
  <2>15. /\ a \o c \in Seq(Delta) /\ t \o d \in Seq(Delta) /\ DeltasTold(r, s, p) = t \o d
         /\ r # "google" => t \o d = a \o c
         /\ r = "google" => NamedById(t \o d)
    <3>1. a \o c \in Seq(Delta) /\ t \o d \in Seq(Delta)
      BY <2>4, <2>12
    <3>2. DeltasTold(r, s, p) = t \o d
      BY <2>3 DEF t, d
    <3>3. r = "google" => NamedById(t \o d)
      BY <2>12, <2>13, NamedBoth
    <3> QED
      BY <2>14, <3>1, <3>2, <3>3
  <2>7. a \o c # <<>> => \E k \in 1..p : s[k].calls # <<>>
    <3>1. CASE c = <<>>
      <4>1. a \o c = a
        BY <2>4, <3>1
      <4> QED
        BY <2>1, <2>2, <4>1 DEF DeltasFit, a
    <3>2. CASE c # <<>>
      BY <2>6, <3>2 DEF c
    <3> QED
      BY <3>1, <3>2
  <2>8. ASSUME r = "google", Single(r, s, p)
        PROVE  t \o d = Numbered(a \o c)
    <3>1. Single(r, s, m) /\ (c # <<>> => \A k \in 1..m : s[k].calls = <<>>)
      BY <2>1, <2>6, <2>8 DEF Single, c
    <3>2. t = Numbered(a) /\ d = Numbered(c)
      BY <2>2, <2>4, <2>8, <3>1 DEF DeltasFit, t, d, a
    <3>3. Numbered(<<>>) = <<>>
      BY DEF Numbered
    <3>4. CASE c = <<>>
      <4>1. a \o c = a /\ d = <<>> /\ t \o <<>> = t
        BY <2>4, <2>12, <3>2, <3>3, <3>4
      <4> QED
        BY <3>2, <4>1
    <3>5. CASE c # <<>>
      <4>1. a = <<>>
        BY <2>2, <3>1, <3>5 DEF DeltasFit, a
      <4>2. t = <<>>
        BY <3>2, <3>3, <4>1
      <4>3. <<>> \o c = c /\ <<>> \o d = d
        BY <2>4, <2>12
      <4> QED
        BY <3>2, <4>1, <4>2, <4>3
    <3> QED
      BY <3>4, <3>5
  <2>9. DeltasFit(r, s, p)
    BY <2>3, <2>7, <2>8, <2>15 DEF DeltasFit
  <2> QED
    BY <2>9, <2>11
<1> HIDE DEF S
<1>3. 0..l \subseteq S
  BY <1>0, <1>1, <1>2, Induction
<1> QED
  BY <1>3 DEF S

\* Behind the end of the answer no call goes on.
LEMMA DeltasEnd ==
  ASSUME NEW r, NEW s, Fair(r, s), NEW n \in 0..Len(s), NEW k \in 1..n, IsFinal(r, s[k])
  PROVE  DeltasIn(s, n) = DeltasIn(s, Len(s))
<1> DEFINE l == Len(s)
           d == l - n
           S == {m \in 0..d : DeltasIn(s, n + m) = DeltasIn(s, n)}
<1>0. s \in Seq(Message) /\ l \in Nat /\ DOMAIN s = 1..l /\ n \in Nat /\ d \in Nat
  BY DEF Fair
<1>1. 0 \in S
  BY <1>0
<1>2. ASSUME NEW m \in 0..d - 1, m \in S PROVE m + 1 \in S
  <2>1. n + m \in Nat /\ (n + m) + 1 \in 1..l /\ k < (n + m) + 1 /\ k \in 1..l /\ m + 1 \in 0..d
        /\ n + (m + 1) = (n + m) + 1
    BY <1>0
  <2>2. DeltasIn(s, (n + m) + 1) = DeltasIn(s, n + m) \o s[(n + m) + 1].calls
    BY <1>0, <2>1, DeltasGrow
  <2>3. s[(n + m) + 1].calls = <<>>
    <3>1. Follows(r, s[k], s[(n + m) + 1])
      BY <1>0, <2>1 DEF Fair
    <3> QED
      BY <3>1 DEF Follows
  <2>4. DeltasIn(s, n) \in Seq(Delta)
    BY DeltasAre DEF DeltasFit
  <2>5. DeltasIn(s, n) \o <<>> = DeltasIn(s, n)
    BY <2>4
  <2> QED
    BY <1>2, <2>1, <2>2, <2>3, <2>5
<1> HIDE DEF S
<1>3. 0..d \subseteq S
  BY <1>0, <1>1, <1>2, Induction
<1>4. d \in 0..d /\ n + d = l
  BY <1>0
<1>5. d \in S
  BY <1>3, <1>4
<1> QED
  BY <1>4, <1>5 DEF S

-----------------------------------------------------------------------------
(* The counts of tokens.                                                    *)

\* The messages that report a count, and the last count, of input or of output.
Tells(s, n, f) == {k \in 1..n : \E u \in s[k].usage : u[f] > 0}
CountAt(s, n, f) ==
  IF Tells(s, n, f) = {} THEN 0 ELSE (CHOOSE u \in s[Max(Tells(s, n, f))].usage : TRUE)[f]
Knows(seen, last) == seen = {last} \/ (seen = {} /\ last = 0)
CountKind(f) == IF f = "in" THEN "InputTokens" ELSE "OutputTokens"

\* A usage has both.
LEMMA FieldsAre ==
  /\ \A u : u["in"] = u.in /\ u["out"] = u.out
  /\ \A m \in Message : \A u \in m.usage : u.in \in Nat /\ u.out \in Nat
<1>1. \A u : u["in"] = u.in /\ u["out"] = u.out
  OBVIOUS
<1>2. \A m \in Message : \A u \in m.usage : u \in [in : Nat, out : Nat]
  BY DEF Message
<1> QED
  BY <1>1, <1>2

\* The last count with one message more.
LEMMA CountGrows ==
  ASSUME NEW r, NEW s, Fair(r, s), NEW n \in Nat, n + 1 \in 1..Len(s), NEW f \in {"in", "out"}
  PROVE  /\ (\A u \in s[n + 1].usage : ~(u[f] > 0)) => CountAt(s, n + 1, f) = CountAt(s, n, f)
         /\ \A u \in s[n + 1].usage : u[f] > 0 => CountAt(s, n + 1, f) = u[f]
         /\ \/ CountAt(s, n, f) = 0
            \/ \E k \in 1..n : \E u \in s[k].usage : u[f] > 0 /\ CountAt(s, n, f) = u[f]
<1> DEFINE p == n + 1
           P == Tells(s, n, f)
<1>0. /\ s \in Seq(Message) /\ DOMAIN s = 1..Len(s) /\ Len(s) \in Nat /\ p \in Nat
      /\ \A k \in 1..p : k \in DOMAIN s /\ (k = p \/ k \in 1..n)
      /\ \A k \in 1..n : k \in 1..p /\ k # p
      /\ p \in 1..p
  BY DEF Fair
<1>1. \A k \in 1..p : \A u, v \in s[k].usage : u = v
  BY <1>0 DEF Fair, Counting
<1>2. P \in SUBSET Int /\ IsFiniteSet(P) /\ p \in Int /\ \A i \in P : i <= p
  <2>1. P \in SUBSET (1..n) /\ IsFiniteSet(1..n)
    BY FS_Interval DEF Tells
  <2>2. IsFiniteSet(P)
    BY <2>1, FS_Subset
  <2> QED
    BY <2>1, <2>2
<1> HIDE DEF p, P
<1>3. Tells(s, p, f) = IF \E u \in s[p].usage : u[f] > 0 THEN P \cup {p} ELSE P
  BY <1>0 DEF Tells, P
<1>4. ASSUME NEW k \in 1..p, NEW u \in s[k].usage
      PROVE  (CHOOSE v \in s[k].usage : TRUE) = u
  BY <1>1
<1>5. ASSUME \A u \in s[p].usage : ~(u[f] > 0)
      PROVE  CountAt(s, p, f) = CountAt(s, n, f)
  <2>1. Tells(s, p, f) = Tells(s, n, f)
    BY <1>3, <1>5 DEF P
  <2> QED
    BY <2>1 DEF CountAt
<1>6. ASSUME NEW u \in s[p].usage, u[f] > 0
      PROVE  CountAt(s, p, f) = u[f]
  <2>1. Tells(s, p, f) = P \cup {p} /\ Max(P \cup {p}) = p
    BY <1>2, <1>3, <1>6, MaxGrows
  <2>2. P \cup {p} # {}
    OBVIOUS
  <2>3. (CHOOSE v \in s[p].usage : TRUE) = u
    BY <1>0, <1>4
  <2> QED
    BY <2>1, <2>2, <2>3 DEF CountAt
<1>7. ASSUME P # {}
      PROVE  \E k \in 1..n : \E u \in s[k].usage : u[f] > 0 /\ CountAt(s, n, f) = u[f]
  <2>1. Max(P) \in P
    BY <1>2, <1>7, MaxIs
  <2>2. PICK u \in s[Max(P)].usage : u[f] > 0
    BY <2>1 DEF P, Tells
  <2>3. Max(P) \in 1..n /\ Max(P) \in 1..p
    BY <1>0, <2>1 DEF P, Tells
  <2>4. (CHOOSE v \in s[Max(P)].usage : TRUE) = u
    BY <1>4, <2>2, <2>3
  <2>5. CountAt(s, n, f) = u[f]
    BY <1>7, <2>4 DEF CountAt, P
  <2> QED
    BY <2>2, <2>3, <2>5
<1>8. P = {} => CountAt(s, n, f) = 0
  BY DEF CountAt, P
<1> QED
  BY <1>5, <1>6, <1>7, <1>8 DEF p

\* UsageAccumulator::push knows the last count.
LEMMA CountedIs ==
  ASSUME NEW r \in Codec, NEW s, Fair(r, s), NEW n \in Nat, n + 1 \in 1..Len(s),
         NEW f \in {"in", "out"}, NEW seen, Knows(seen, CountAt(s, n, f)),
         Alone(r, s[n + 1]), NEW c, Heard(r, s[n + 1], c)
  PROVE  Knows(Counted(seen, c, CountKind(f), {u[f] : u \in s[n + 1].usage}), CountAt(s, n + 1, f))
<1> DEFINE p == n + 1
           m == s[p]
           ns == {u[f] : u \in m.usage}
           old == CountAt(s, n, f)
           new == CountAt(s, p, f)
           kind == CountKind(f)
<1>0. /\ s \in Seq(Message) /\ DOMAIN s = 1..Len(s) /\ m \in Message /\ p \in DOMAIN s
      /\ \A k \in 1..n : k \in DOMAIN s /\ k < p
  BY DEF Fair
<1>1. \A k \in DOMAIN s : \A u \in s[k].usage : u[f] \in Nat
  <2>1. \A k \in DOMAIN s : s[k] \in Message
    BY <1>0
  <2> QED
    BY <2>1, FieldsAre
<1>2. /\ (\A u \in m.usage : ~(u[f] > 0)) => new = old
      /\ \A u \in m.usage : u[f] > 0 => new = u[f]
      /\ old = 0 \/ \E k \in 1..n : \E u \in s[k].usage : u[f] > 0 /\ old = u[f]
  BY CountGrows
<1>3. Counting(r, m) /\ \A k \in 1..n : Follows(r, s[k], m)
  BY <1>0 DEF Fair
<1>4. Knows(seen, old)
  OBVIOUS
<1>5. Heard(r, m, c) /\ Alone(r, m)
  OBVIOUS
<1>6. \A u \in m.usage : ns = {u[f]}
  BY <1>3 DEF Counting
<1>7. \A k \in 1..n : \A u \in s[k].usage, v \in m.usage :
         r # "anthropic" \/ v[f] > 0 => u[f] <= v[f]
  BY <1>3, FieldsAre DEF Follows
<1>8. old \in Nat
  BY <1>0, <1>1, <1>2
<1>9. \A v \in m.usage : r # "anthropic" \/ v[f] > 0 => old <= v[f]
  <2> SUFFICES ASSUME NEW v \in m.usage, r # "anthropic" \/ v[f] > 0 PROVE old <= v[f]
    OBVIOUS
  <2>1. v[f] \in Nat
    BY <1>0, <1>1
  <2>2. CASE old = 0
    BY <2>1, <2>2
  <2>3. CASE old # 0
    BY <1>2, <1>7, <2>3
  <2> QED
    BY <2>2, <2>3
<1>10. \A v \in m.usage : v[f] \in Nat
  BY <1>0, <1>1
<1> HIDE DEF p, m, ns, old, new, kind
<1>11. CASE r # "anthropic"
  <2>1. (Has(c, "Usage") <=> m.usage # {}) /\ ~Has(c, "InputTokens") /\ ~Has(c, "OutputTokens")
    BY <1>5, <1>11 DEF Heard
  <2>2. ~Has(c, kind)
    BY <2>1 DEF kind, CountKind
  <2>3. CASE m.usage = {}
    <3>1. Counted(seen, c, kind, ns) = seen
      BY <2>1, <2>2, <2>3 DEF Counted
    <3> QED
      BY <1>2, <1>4, <2>3, <3>1 DEF p, m, ns, new, kind
  <2>4. CASE m.usage # {}
    <3>1. PICK v \in m.usage : TRUE
      BY <2>4
    <3>2. Counted(seen, c, kind, ns) = {v[f]}
      BY <1>6, <2>1, <2>4 DEF Counted
    <3>3. v[f] = new
      <4>1. CASE v[f] > 0
        BY <1>2, <4>1
      <4>2. CASE ~(v[f] > 0)
        <5>1. v[f] = 0 /\ old <= v[f]
          BY <1>9, <1>10, <1>11, <4>2
        <5>2. old = 0
          BY <1>8, <5>1
        <5>3. \A u \in m.usage : u = v
          BY <1>3 DEF Counting
        <5> QED
          BY <1>2, <4>2, <5>1, <5>2, <5>3
      <4> QED
        BY <4>1, <4>2
    <3> QED
      BY <3>2, <3>3 DEF Knows, p, m, ns, new, kind
  <2> QED
    BY <2>3, <2>4
<1>12. CASE r = "anthropic"
  <2>1. ~Has(c, "Usage") /\ (Has(c, kind) <=> \E u \in m.usage : u[f] > 0)
    BY <1>5, <1>12, FieldsAre DEF Heard, kind, CountKind
  <2>2. CASE \A u \in m.usage : ~(u[f] > 0)
    <3>1. Counted(seen, c, kind, ns) = seen
      BY <2>1, <2>2 DEF Counted
    <3> QED
      BY <1>2, <1>4, <2>2, <3>1 DEF p, m, ns, new, kind
  <2>3. CASE \E u \in m.usage : u[f] > 0
    <3>1. PICK v \in m.usage : v[f] > 0
      BY <2>3
    <3>2. Counted(seen, c, kind, ns) = {Max(seen \cup {v[f]})}
      BY <1>6, <2>1, <3>1 DEF Counted
    <3>3. Max(seen \cup {v[f]}) = v[f]
      <4>1. old <= v[f] /\ v[f] \in Int
        BY <1>9, <1>10, <3>1
      <4>2. seen \in SUBSET Int /\ \A i \in seen : i <= v[f]
        BY <1>4, <1>8, <4>1 DEF Knows
      <4> QED
        BY <4>1, <4>2, MaxGrows
    <3>4. new = v[f]
      BY <1>2, <3>1
    <3> QED
      BY <3>2, <3>3, <3>4 DEF Knows, p, m, ns, new, kind
  <2> QED
    BY <2>2, <2>3
<1> QED
  BY <1>11, <1>12

-----------------------------------------------------------------------------
(* What the codecs make of a message.                                       *)

\* Blocks and messages written out.
LEMMA BlockIs ==
  /\ \A id, name, args :
       LET b == Wire!ToolCall(id, name, args)
       IN b.kind = "call" /\ b.id = id /\ b.name = name /\ Wire!IsCall(b)
  /\ \A t : LET b == Wire!Text(t) IN b.kind = "text" /\ ~Wire!IsCall(b)
  /\ \A t : LET b == Wire!CachedText(t) IN b.kind = "text" /\ ~Wire!IsCall(b)
  /\ \A t : LET b == Wire!Thinking(t) IN b.kind = "thinking" /\ ~Wire!IsCall(b)
  /\ \A b : Wire!IsCall(b) => b.kind = "call"
BY DEF Wire!ToolCall, Wire!Text, Wire!CachedText, Wire!Thinking, Wire!Block, Wire!IsCall

\* The calls stand first in what the model has said.
StartsWithCalls(c, n) ==
  /\ n \in Nat
  /\ \E T : c \in Seq(T)
  /\ n <= Len(c)
  /\ \A k \in 1..n : Wire!IsCall(c[k])
  /\ \A k \in DOMAIN c : k \notin 1..n => ~Wire!IsCall(c[k])

\* CallsIn gives back exactly the calls that stand first.
LEMMA CallsOfStart ==
  ASSUME NEW c, NEW n, StartsWithCalls(c, n)
  PROVE  DOMAIN Wire!CallsIn(c) = 1..n /\ \A k \in 1..n : Wire!CallsIn(c)[k] = c[k]
<1> DEFINE S == {i \in DOMAIN c : Wire!IsCall(c[i])}
<1>1. PICK T : c \in Seq(T)
  BY DEF StartsWithCalls
<1>2. Len(c) \in Nat /\ DOMAIN c = 1..Len(c) /\ n \in Nat /\ n <= Len(c)
  BY <1>1 DEF StartsWithCalls
<1>3. S = 1..n
  <2>1. \A k \in 1..n : k \in DOMAIN c /\ Wire!IsCall(c[k])
    BY <1>2 DEF StartsWithCalls
  <2>2. \A k \in DOMAIN c : Wire!IsCall(c[k]) => k \in 1..n
    BY DEF StartsWithCalls
  <2> QED
    BY <2>1, <2>2
<1>4. S \in SUBSET DOMAIN c
  OBVIOUS
<1>5. Wire!CallsIn(c) = Wire!Only(c, S)
  BY DEF Wire!CallsIn
<1> HIDE DEF S
<1>6. Cardinality(S) = n
  <2>1. Cardinality(1..n) = IF 1 > n THEN 0 ELSE (n - 1) + 1
    BY <1>2, FS_Interval
  <2> QED
    BY <1>2, <1>3, <2>1
<1>7. Wire!Only(c, S) = [k \in 1..n |-> c[Wire!Position(S, k)]]
  BY <1>1, <1>4, <1>6, OnlyIs
<1>8. \A k \in 1..n : Wire!Position(S, k) = k
  BY <1>2, <1>3, <1>4, OnlyStarts
<1> QED
  BY <1>5, <1>7, <1>8

\* A Google part keeps the kind and the name of its block.
Part(b) == IF Wire!IsCall(b) THEN [b EXCEPT !.id = ""] ELSE b

\* What GoogleCodec makes of a message leaves its calls first and their names as they are.
LEMMA GooglePartsStart ==
  ASSUME NEW c, NEW n, StartsWithCalls(c, n),
         \A k \in 1..n : \E id, name, args : c[k] = Wire!ToolCall(id, name, args)
  PROVE  /\ StartsWithCalls(Wire!GoogleParts(c), n)
         /\ \A k \in 1..n : Wire!GoogleParts(c)[k].name = c[k].name
<1> DEFINE S == {i \in DOMAIN c : c[i].kind \in {"text", "call"}}
           told == Wire!Only(c, S)
           g == [i \in DOMAIN told |-> Part(told[i])]
<1>1. PICK T : c \in Seq(T)
  BY DEF StartsWithCalls
<1>2. Len(c) \in Nat /\ DOMAIN c = 1..Len(c) /\ n \in Nat /\ n <= Len(c)
  BY <1>1 DEF StartsWithCalls
<1>3. Wire!GoogleParts(c) = g
  BY DEF Wire!GoogleParts, Part
<1>4. S \in SUBSET DOMAIN c /\ 1..n \subseteq S
  <2>1. \A k \in 1..n : k \in DOMAIN c /\ c[k].kind = "call"
    BY <1>2, BlockIs DEF StartsWithCalls
  <2> QED
    BY <2>1
<1> HIDE DEF S
<1>5. /\ told = [k \in 1..Cardinality(S) |-> c[Wire!Position(S, k)]]
      /\ Cardinality(S) \in Nat
      /\ \A k \in 1..Cardinality(S) : Wire!Position(S, k) \in S
  BY <1>1, <1>4, OnlyIs
<1>6. /\ n <= Cardinality(S)
      /\ \A k \in 1..n : Wire!Position(S, k) = k
      /\ \A k \in (n + 1)..Cardinality(S) : Wire!Position(S, k) \notin 1..n
  BY <1>2, <1>4, OnlyStarts
<1>7. DOMAIN told = 1..Cardinality(S)
  BY <1>5
<1>8. \A k \in 1..n : k \in 1..Cardinality(S) /\ told[k] = c[k]
  BY <1>2, <1>5, <1>6
<1> HIDE DEF told
<1>9. DOMAIN g = 1..Cardinality(S) /\ \A k \in 1..Cardinality(S) : g[k] = Part(told[k])
  BY <1>7
<1> HIDE DEF g
<1>10. \A k \in 1..n : Wire!IsCall(g[k]) /\ g[k].name = c[k].name
  <2> SUFFICES ASSUME NEW k \in 1..n PROVE Wire!IsCall(g[k]) /\ g[k].name = c[k].name
    OBVIOUS
  <2>1. g[k] = [c[k] EXCEPT !.id = ""]
    BY <1>8, <1>9 DEF Part, StartsWithCalls
  <2>2. PICK id, name, args : c[k] = Wire!ToolCall(id, name, args)
    OBVIOUS
  <2>3. c[k].kind = "call" /\ "kind" \in DOMAIN c[k] /\ "name" \in DOMAIN c[k]
    BY <2>2 DEF Wire!ToolCall, Wire!Block
  <2>4. \A b, x : "kind" \in DOMAIN b /\ "name" \in DOMAIN b =>
               [b EXCEPT !.id = x].kind = b.kind /\ [b EXCEPT !.id = x].name = b.name
    OBVIOUS
  <2>5. g[k].kind = c[k].kind /\ g[k].name = c[k].name
    BY <2>1, <2>3, <2>4
  <2> QED
    BY <2>3, <2>5 DEF Wire!IsCall
<1>11. ASSUME NEW k \in 1..Cardinality(S), k \notin 1..n
       PROVE  ~Wire!IsCall(g[k])
  <2>1. k \in (n + 1)..Cardinality(S)
    BY <1>2, <1>5, <1>11
  <2>2. Wire!Position(S, k) \in DOMAIN c /\ Wire!Position(S, k) \notin 1..n
    BY <1>4, <1>5, <1>6, <2>1
  <2>3. ~Wire!IsCall(told[k])
    BY <1>5, <2>2 DEF StartsWithCalls
  <2> QED
    BY <1>9, <2>3 DEF Part
<1>12. g \in Seq({g[k] : k \in 1..Cardinality(S)}) /\ Len(g) = Cardinality(S)
  <2> DEFINE R == {g[k] : k \in 1..Cardinality(S)}
  <2>1. g = [k \in 1..Cardinality(S) |-> Part(told[k])]
    BY <1>7 DEF g
  <2>2. \A k \in 1..Cardinality(S) : Part(told[k]) \in R
    BY <1>9
  <2> HIDE DEF R
  <2>3. g \in [1..Cardinality(S) -> R]
    BY <2>1, <2>2
  <2>4. g \in Seq(R) /\ Len(g) = Cardinality(S)
    BY <1>5, <2>3
  <2> QED
    BY <2>4 DEF R
<1> QED
  BY <1>2, <1>3, <1>6, <1>9, <1>10, <1>11, <1>12 DEF StartsWithCalls

\* The calls and the answers of a turn are those it is given.
LEMMA TurnWith ==
  ASSUME NEW r, NEW a, NEW th, NEW b
  PROVE  /\ [Wire!Turn(r) EXCEPT !.answers = a].answers = a
         /\ [Wire!Turn(r) EXCEPT !.answers = a].calls = <<>>
         /\ [Wire!Turn(r) EXCEPT !.texts = a, !.calls = b].calls = b
         /\ [Wire!Turn(r) EXCEPT !.texts = a, !.calls = b].answers = <<>>
         /\ [Wire!Turn(r) EXCEPT !.texts = a, !.thinking = th, !.calls = b].calls = b
         /\ [Wire!Turn(r) EXCEPT !.texts = a, !.thinking = th, !.calls = b].answers = <<>>
<1>1. [Wire!Turn(r) EXCEPT !.answers = a].answers = a /\ [Wire!Turn(r) EXCEPT !.answers = a].calls = <<>>
  BY DEF Wire!Turn
<1>2. /\ [Wire!Turn(r) EXCEPT !.texts = a, !.calls = b].calls = b
      /\ [Wire!Turn(r) EXCEPT !.texts = a, !.calls = b].answers = <<>>
  BY DEF Wire!Turn
<1>3. /\ [Wire!Turn(r) EXCEPT !.texts = a, !.thinking = th, !.calls = b].calls = b
      /\ [Wire!Turn(r) EXCEPT !.texts = a, !.thinking = th, !.calls = b].answers = <<>>
  BY DEF Wire!Turn
<1> QED
  BY <1>1, <1>2, <1>3

\* What a codec makes of a message.
TurnOf(v, s) == CASE v = "anthropic" -> Wire!AnthropicMessage(s)
                  [] v = "google"    -> Wire!GoogleMessage(s)
                  [] OTHER           -> Wire!OpenAIMessage(s)

\* A result makes one answer, to the id it carries.
LEMMA ToIs == \A s, b : Len(Wire!To(s, b)) = 1 /\ Wire!To(s, b)[1].to = s.id
BY DEF Wire!To

\* A text by itself has no calls, for Google neither, to whom it is a part.
LEMMA TextAlone ==
  ASSUME NEW t
  PROVE  /\ DOMAIN Wire!CallsIn(<<Wire!Text(t)>>) = {}
         /\ DOMAIN Wire!CallsIn(Wire!GoogleParts(<<Wire!Text(t)>>)) = {}
<1> DEFINE c == <<Wire!Text(t)>>
           b == Wire!Text(t)
<1>1. b.kind = "text" /\ ~Wire!IsCall(b)
  BY BlockIs
<1> HIDE DEF b
<1>2. <<b>> \in Seq({b}) /\ Len(<<b>>) = 1 /\ DOMAIN <<b>> = {1} /\ <<b>>[1] = b
  OBVIOUS
<1>3. c = <<b>>
  BY DEF b
<1>4. 1..0 = {} /\ 0 \in Nat
  OBVIOUS
<1>5. StartsWithCalls(<<b>>, 0)
  <2>1. \E T : <<b>> \in Seq(T)
    BY <1>2
  <2>2. 0 <= Len(<<b>>)
    BY <1>2
  <2>3. \A k \in DOMAIN <<b>> : ~Wire!IsCall(<<b>>[k])
    BY <1>1, <1>2
  <2> QED
    BY <1>4, <2>1, <2>2, <2>3 DEF StartsWithCalls
<1>6. \A k \in 1..0 : \E id, name, args : c[k] = Wire!ToolCall(id, name, args)
  BY <1>4
<1>7. StartsWithCalls(c, 0)
  BY <1>5, <1>3
<1> HIDE DEF c
<1>8. StartsWithCalls(Wire!GoogleParts(c), 0)
  BY <1>6, <1>7, GooglePartsStart
<1>9. DOMAIN Wire!CallsIn(c) = 1..0 /\ DOMAIN Wire!CallsIn(Wire!GoogleParts(c)) = 1..0
  BY <1>7, <1>8, CallsOfStart
<1> QED
  BY <1>4, <1>9 DEF c

\* A message with a text has parts for Google.
LEMMA TextIsPart ==
  ASSUME NEW T, NEW c \in Seq(T), NEW j \in DOMAIN c, c[j].kind = "text"
  PROVE  Wire!GoogleParts(c) # <<>>
<1> DEFINE S == {i \in DOMAIN c : c[i].kind \in {"text", "call"}}
           told == Wire!Only(c, S)
           g == [i \in DOMAIN told |-> Part(told[i])]
<1>1. Wire!GoogleParts(c) = g
  BY DEF Wire!GoogleParts, Part
<1>2. S \in SUBSET DOMAIN c /\ j \in S
  OBVIOUS
<1> HIDE DEF S
<1>3. told \in Seq(T) /\ Len(told) = Cardinality(S)
  BY <1>2, OnlyIs
<1>4. Cardinality(S) \in Nat /\ Cardinality(S) # 0
  <2>1. IsFiniteSet(S)
    BY <1>2, PositionsAre
  <2> QED
    BY <1>2, <2>1, FS_CardinalityType, FS_EmptySet
<1> HIDE DEF told
<1>5. 1 \in DOMAIN told
  BY <1>3, <1>4
<1>6. 1 \in DOMAIN g
  BY <1>5
<1>7. DOMAIN <<>> = {}
  OBVIOUS
<1> QED
  BY <1>1, <1>6, <1>7

-----------------------------------------------------------------------------
(* The history after the calls of an answer were made.                      *)

\* Calls as a response has them: numbered from one, Google's with their names for ids.
Callable(v, cs) ==
  /\ Len(cs) \in Nat /\ cs = [j \in 1..Len(cs) |-> cs[j]]
  /\ v = "google" => \A j \in 1..Len(cs) : cs[j].id = cs[j].name
Identified(cs) == \A j \in DOMAIN cs : cs[j].id # ""

\* The message that is made of an answer begins with its calls.
Spoken(cs) == Wire!Answered(Blocks(cs), "thought", "said")

\* Its calls are the blocks of the answer, and a text stands behind them.
LEMMA SpokenIs ==
  ASSUME NEW v, NEW cs, Callable(v, cs)
  PROVE  /\ Spoken(cs).role = "assistant"
         /\ StartsWithCalls(Spoken(cs).content, Len(cs))
         /\ \A j \in 1..Len(cs) :
              Spoken(cs).content[j] = Wire!ToolCall(cs[j].id, cs[j].name, cs[j].args)
         /\ \E T : Spoken(cs).content \in Seq(T)
         /\ \E j \in DOMAIN Spoken(cs).content : Spoken(cs).content[j].kind = "text"
<1> DEFINE n == Len(cs)
           b == Blocks(cs)
           think == Wire!Thinking("thought")
           text == Wire!CachedText("said")
           T == {b[j] : j \in 1..n} \cup {think, text}
           c == (b \o <<think>>) \o <<text>>
<1>1. n \in Nat /\ DOMAIN cs = 1..n
  BY DEF Callable
<1>2. /\ b = [j \in 1..n |-> Wire!ToolCall(cs[j].id, cs[j].name, cs[j].args)]
      /\ \A j \in 1..n : b[j] = Wire!ToolCall(cs[j].id, cs[j].name, cs[j].args)
  BY <1>1 DEF Blocks
<1>3. Spoken(cs).content = c /\ Spoken(cs).role = "assistant"
  BY DEF Spoken, Wire!Answered, Wire!Assistant, Wire!Message
<1>4. ~Wire!IsCall(think) /\ ~Wire!IsCall(text) /\ text.kind = "text"
  BY BlockIs
<1>5. \A j \in 1..n : Wire!IsCall(b[j])
  BY <1>2, BlockIs
<1> HIDE DEF n, b, think, text
<1>6. think \in T /\ text \in T /\ \A j \in 1..n : b[j] \in T
  OBVIOUS
<1> HIDE DEF T
<1>7. b \in Seq(T) /\ Len(b) = n
  <2>1. b \in [1..n -> T]
    BY <1>2, <1>6
  <2> QED
    BY <1>1, <2>1
<1>8. /\ c \in Seq(T) /\ Len(c) = n + 2
      /\ \A j \in 1..n : c[j] = b[j]
      /\ c[n + 1] = think /\ c[n + 2] = text
  BY <1>1, <1>6, <1>7
<1>9. DOMAIN c = 1..(n + 2)
  BY <1>8
<1> HIDE DEF c
<1>10. \A k \in DOMAIN c : k \in 1..n \/ k = n + 1 \/ k = n + 2
  BY <1>1, <1>9
<1>11. StartsWithCalls(c, n)
  <2>1. n <= Len(c)
    BY <1>1, <1>8
  <2>2. \A k \in DOMAIN c : k \notin 1..n => ~Wire!IsCall(c[k])
    BY <1>4, <1>8, <1>10
  <2>3. \A k \in 1..n : Wire!IsCall(c[k])
    BY <1>5, <1>8
  <2> QED
    BY <1>1, <1>8, <2>1, <2>2, <2>3 DEF StartsWithCalls
<1>12. n + 2 \in DOMAIN c
  BY <1>1, <1>9
<1> QED
  BY <1>2, <1>3, <1>4, <1>8, <1>11, <1>12 DEF n

\* The turns of the three kinds of messages.
TurnFits(v, t, cs, i) ==
  CASE i = 1 -> DOMAIN t.calls = {} /\ t.answers = <<>>
    [] i = 2 -> /\ DOMAIN t.calls = 1..Len(cs) /\ t.answers = <<>>
                /\ \A k \in 1..Len(cs) : Wire!Key(v, t.calls[k]) = cs[k].id
    [] OTHER -> DOMAIN t.calls = {} /\ Len(t.answers) = 1 /\ t.answers[1].to = cs[i - 2].id

\* The turn of the message of the user,
LEMMA AskedFits ==
  ASSUME NEW v \in Codec, NEW cs
  PROVE  TurnFits(v, TurnOf(v, Wire!UserText("ask")), cs, 1)
<1> DEFINE s == Wire!UserText("ask")
<1>1. s.role = "user" /\ s.content = <<Wire!Text("ask")>>
  BY DEF Wire!UserText, Wire!Message
<1> HIDE DEF s
<1>2. DOMAIN <<>> = {}
  OBVIOUS
<1>3. DOMAIN Wire!CallsIn(s.content) = {} /\ DOMAIN Wire!CallsIn(Wire!GoogleParts(s.content)) = {}
  BY <1>1, TextAlone
<1>4. TurnOf(v, s).answers = <<>>
  BY <1>1, TurnWith DEF TurnOf, Wire!AnthropicMessage, Wire!GoogleMessage, Wire!OpenAIMessage
<1>5. DOMAIN TurnOf(v, s).calls = {}
  BY <1>1, <1>2, <1>3, TurnWith
  DEF TurnOf, Wire!AnthropicMessage, Wire!GoogleMessage, Wire!OpenAIMessage
<1> QED
  BY <1>4, <1>5 DEF TurnFits, s

\* of the answer,
LEMMA SpokenFits ==
  ASSUME NEW v \in Codec, NEW cs, Callable(v, cs)
  PROVE  TurnFits(v, TurnOf(v, Spoken(cs)), cs, 2)
<1> DEFINE s == Spoken(cs)
           c == s.content
           g == Wire!GoogleParts(c)
           n == Len(cs)
<1>1. /\ s.role = "assistant" /\ StartsWithCalls(c, n)
      /\ \A j \in 1..n : c[j] = Wire!ToolCall(cs[j].id, cs[j].name, cs[j].args)
  BY SpokenIs
<1>2. \A j \in 1..n : \E id, name, args : c[j] = Wire!ToolCall(id, name, args)
  BY <1>1
<1> HIDE DEF s, n
<1>3. DOMAIN Wire!CallsIn(c) = 1..n /\ \A k \in 1..n : Wire!CallsIn(c)[k] = c[k]
  BY <1>1, CallsOfStart
<1>4. \A k \in 1..n : c[k].id = cs[k].id /\ c[k].name = cs[k].name
  BY <1>1, BlockIs
<1>5. CASE v = "google"
  <2>1. StartsWithCalls(g, n) /\ \A k \in 1..n : g[k].name = c[k].name
    BY <1>1, <1>2, GooglePartsStart
  <2>2. DOMAIN Wire!CallsIn(g) = 1..n /\ \A k \in 1..n : Wire!CallsIn(g)[k] = g[k]
    BY <2>1, CallsOfStart
  <2>6. TurnOf(v, s) = Wire!GoogleMessage(s)
    BY <1>5 DEF TurnOf
  <2>7. Wire!GoogleMessage(s).calls = Wire!CallsIn(g) /\ Wire!GoogleMessage(s).answers = <<>>
    BY <1>1, TurnWith DEF Wire!GoogleMessage
  <2>3. TurnOf(v, s).calls = Wire!CallsIn(g) /\ TurnOf(v, s).answers = <<>>
    BY <2>6, <2>7
  <2>4. \A k \in 1..n : cs[k].id = cs[k].name
    BY <1>5 DEF Callable, n
  <2>5. \A k \in 1..n : Wire!Key(v, Wire!CallsIn(g)[k]) = cs[k].id
    BY <1>4, <1>5, <2>1, <2>2, <2>4 DEF Wire!Key
  <2> QED
    BY <2>2, <2>3, <2>5 DEF TurnFits, n, s
<1>6. CASE v # "google"
  <2>1. TurnOf(v, s).calls = Wire!CallsIn(c) /\ TurnOf(v, s).answers = <<>>
    BY <1>1, <1>6, TurnWith DEF TurnOf, Wire!AnthropicMessage, Wire!OpenAIMessage
  <2>2. \A k \in 1..n : Wire!Key(v, Wire!CallsIn(c)[k]) = cs[k].id
    BY <1>3, <1>4, <1>6 DEF Wire!Key
  <2> QED
    BY <1>3, <2>1, <2>2 DEF TurnFits, n, s
<1> QED
  BY <1>5, <1>6

\* and of a result.
LEMMA ResultFits ==
  ASSUME NEW v \in Codec, NEW cs, NEW n \in Nat, NEW j \in 1..n, NEW call, call.id = cs[j].id
  PROVE  TurnFits(v, TurnOf(v, Wire!ToolResult(call, TRUE, "done")), cs, j + 2)
<1> DEFINE s == Wire!ToolResult(call, TRUE, "done")
<1>1. s.role = "result" /\ s.id = cs[j].id
  BY DEF Wire!ToolResult, Wire!Message
<1> HIDE DEF s
<1>2. DOMAIN <<>> = {}
  OBVIOUS
<1>3. /\ Wire!AnthropicMessage(s).answers = Wire!To(s, TRUE)
      /\ Wire!GoogleMessage(s).answers = Wire!To(s, FALSE)
      /\ Wire!OpenAIMessage(s).answers = Wire!To(s, FALSE)
  BY <1>1, TurnWith DEF Wire!AnthropicMessage, Wire!GoogleMessage, Wire!OpenAIMessage
<1>4. TurnOf(v, s).answers \in {Wire!To(s, TRUE), Wire!To(s, FALSE)}
  BY <1>3 DEF TurnOf
<1>5. TurnOf(v, s).calls = <<>>
  BY <1>1, TurnWith DEF TurnOf, Wire!AnthropicMessage, Wire!GoogleMessage, Wire!OpenAIMessage
<1>6. Len(TurnOf(v, s).answers) = 1 /\ TurnOf(v, s).answers[1].to = cs[j].id
  <2>1. PICK b \in BOOLEAN : TurnOf(v, s).answers = Wire!To(s, b)
    BY <1>4
  <2>2. Len(Wire!To(s, b)) = 1 /\ Wire!To(s, b)[1].to = s.id
    BY ToIs
  <2> QED
    BY <1>1, <2>1, <2>2
<1>7. j + 2 # 1 /\ j + 2 # 2 /\ (j + 2) - 2 = j
  OBVIOUS
<1>8. DOMAIN TurnOf(v, s).calls = {}
  BY <1>2, <1>5
<1> HIDE DEF s
<1> QED
  BY <1>6, <1>7, <1>8 DEF TurnFits, s

\* Turns of that kind are paired.
LEMMA FittingPaired ==
  ASSUME NEW v, NEW cs, NEW n \in Nat, Len(cs) = n, NEW t, DOMAIN t = 1..(n + 2),
         \A i \in 1..(n + 2) : TurnFits(v, t[i], cs, i)
  PROVE  Wire!Paired(v, t)
<1>1. /\ 1 \in 1..(n + 2) /\ 2 \in 1..(n + 2)
      /\ \A i \in 1..(n + 2) : i = 1 \/ i = 2 \/ (i \notin {1, 2} /\ i - 2 \in 1..n)
      /\ \A k \in 1..n : 2 + k \in 1..(n + 2) /\ 2 + k \notin {1, 2} /\ (2 + k) - 2 = k
  OBVIOUS
<1>2. ASSUME NEW i \in DOMAIN t, NEW k \in DOMAIN t[i].calls
      PROVE  /\ i + k \in DOMAIN t
             /\ Len(t[i + k].answers) = 1
             /\ t[i + k].answers[1].to = Wire!Key(v, t[i].calls[k])
  <2>1. TurnFits(v, t[i], cs, i)
    OBVIOUS
  <2>2. i = 2
    BY <1>1, <1>2, <2>1 DEF TurnFits
  <2>3. k \in 1..n /\ Wire!Key(v, t[i].calls[k]) = cs[k].id
    BY <1>2, <2>1, <2>2 DEF TurnFits
  <2>4. TurnFits(v, t[2 + k], cs, 2 + k)
    BY <1>1, <2>3
  <2> QED
    BY <1>1, <2>2, <2>3, <2>4 DEF TurnFits
<1>3. ASSUME NEW i \in DOMAIN t, t[i].answers # <<>>
      PROVE  \E j \in 1..i - 1 : i - j \in DOMAIN t[j].calls
  <2>1. TurnFits(v, t[i], cs, i) /\ TurnFits(v, t[2], cs, 2)
    BY <1>1
  <2>2. i \notin {1, 2} /\ i - 2 \in 1..n
    BY <1>1, <1>3, <2>1 DEF TurnFits
  <2>3. DOMAIN t[2].calls = 1..n
    BY <2>1 DEF TurnFits
  <2>4. 2 \in 1..i - 1
    BY <1>1, <2>2
  <2> QED
    BY <2>2, <2>3, <2>4
<1> QED
  BY <1>2, <1>3 DEF Wire!Paired

\* The history passes the checks of the next request, if no id is empty, and its calls have their
\* results.
LEMMA TalkPasses ==
  ASSUME NEW v \in Codec, NEW cs, Callable(v, cs)
  PROVE  /\ Identified(cs) => \A i \in DOMAIN Talk(cs) : Wire!Valid(Talk(cs)[i])
         /\ Wire!Paired(v, Wire!Turns(v, Talk(cs)))
<1> DEFINE n == Len(cs)
           ask == Wire!UserText("ask")
           say == Spoken(cs)
           done(j) == Wire!ToolResult(Blocks(cs)[j], TRUE, "done")
           rs == [j \in 1..n |-> done(j)]
           T == {ask, say} \cup {done(j) : j \in 1..n}
           h == <<ask, say>> \o rs
<1>1. n \in Nat /\ DOMAIN cs = 1..n
  BY DEF Callable
<1>2. Talk(cs) = h
  BY <1>1 DEF Talk, Spoken
<1>3. \A j \in 1..n : /\ done(j).role = "result" /\ done(j).id = cs[j].id
                      /\ done(j).content = <<Wire!Text("done")>>
  <2> TAKE j \in 1..n
  <2>1. Blocks(cs)[j].id = cs[j].id
    BY <1>1, BlockIs DEF Blocks
  <2> QED
    BY <2>1 DEF Wire!ToolResult, Wire!Message
<1>4. /\ ask.role = "user" /\ ask.content = <<Wire!Text("ask")>>
      /\ say.role = "assistant"
  BY SpokenIs DEF Wire!UserText, Wire!Message
<1>5. \A i \in 1..n : TurnFits(v, TurnOf(v, done(i)), cs, i + 2)
  <2> TAKE i \in 1..n
  <2>1. Blocks(cs)[i].id = cs[i].id
    BY <1>1, BlockIs DEF Blocks
  <2> QED
    BY <1>1, <2>1, ResultFits
<1>6. TurnFits(v, TurnOf(v, ask), cs, 1) /\ TurnFits(v, TurnOf(v, say), cs, 2)
  BY AskedFits, SpokenFits
<1> HIDE DEF n, ask, say, done
<1>7. h \in Seq(T) /\ Len(h) = n + 2 /\ h[1] = ask /\ h[2] = say
      /\ \A i \in 1..n : h[i + 2] = done(i)
  <2>1. <<ask, say>> \in Seq(T) /\ Len(<<ask, say>>) = 2 /\ <<ask, say>>[1] = ask /\ <<ask, say>>[2] = say
    OBVIOUS
  <2>2. rs \in [1..n -> T] /\ \A j \in 1..n : rs[j] = done(j)
    OBVIOUS
  <2> HIDE DEF T, rs
  <2>3. rs \in Seq(T) /\ Len(rs) = n
    BY <1>1, <2>2
  <2> QED
    BY <1>1, <2>1, <2>2, <2>3
<1> HIDE DEF h, T
<1>8. DOMAIN h = 1..(n + 2)
  <2>1. DOMAIN h = 1..Len(h)
    BY <1>7
  <2> QED
    BY <1>7, <2>1
<1>9. \A i \in DOMAIN h : i = 1 \/ i = 2 \/ (i - 2 \in 1..n /\ i = (i - 2) + 2)
  BY <1>1, <1>8
<1>10. \A i \in DOMAIN h : TurnFits(v, TurnOf(v, h[i]), cs, i)
  <2> TAKE i \in DOMAIN h
  <2>1. CASE i = 1
    BY <1>6, <1>7, <2>1
  <2>2. CASE i = 2
    BY <1>6, <1>7, <2>2
  <2>3. CASE i - 2 \in 1..n /\ i = (i - 2) + 2
    <3>1. h[(i - 2) + 2] = done(i - 2) /\ TurnFits(v, TurnOf(v, done(i - 2)), cs, (i - 2) + 2)
      BY <1>5, <1>7, <2>3
    <3> QED
      BY <2>3, <3>1
  <2> QED
    BY <1>9, <2>1, <2>2, <2>3
<1>11. \A i \in DOMAIN h : h[i].role # "system" /\ (h[i].role = "result" \/ Wire!GoogleParts(h[i].content) # <<>>)
  <2> TAKE i \in DOMAIN h
  <2>1. CASE i = 1
    <3>1. <<Wire!Text("ask")>> \in Seq({Wire!Text("ask")}) /\ 1 \in DOMAIN <<Wire!Text("ask")>>
          /\ <<Wire!Text("ask")>>[1] = Wire!Text("ask")
      OBVIOUS
    <3>2. <<Wire!Text("ask")>>[1].kind = "text"
      BY <3>1, BlockIs
    <3>3. Wire!GoogleParts(<<Wire!Text("ask")>>) # <<>>
      BY <3>1, <3>2, TextIsPart
    <3> QED
      BY <1>4, <1>7, <2>1, <3>3
  <2>2. CASE i = 2
    <3>1. Wire!GoogleParts(say.content) # <<>>
      BY SpokenIs, TextIsPart DEF say
    <3> QED
      BY <1>4, <1>7, <2>2, <3>1
  <2>3. CASE i - 2 \in 1..n /\ i = (i - 2) + 2
    <3>1. h[(i - 2) + 2] = done(i - 2)
      BY <1>7, <2>3
    <3>2. h[i].role = "result"
      BY <1>3, <2>3, <3>1
    <3> QED
      BY <3>2
  <2> QED
    BY <1>9, <2>1, <2>2, <2>3
<1>12. Wire!Turns(v, h) = [i \in DOMAIN h |-> TurnOf(v, h[i])]
  <2>1. CASE v = "openai"
    BY <2>1 DEF Wire!Turns, Wire!Codec, Wire!OpenAITurns, TurnOf
  <2>2. CASE v = "anthropic"
    <3>1. {i \in DOMAIN h : h[i].role # "system"} = DOMAIN h
      BY <1>11
    <3>2. Wire!Only(h, {i \in DOMAIN h : h[i].role # "system"}) = h
      BY <1>7, <3>1, OnlyAll
    <3>3. Wire!Turns(v, h) = Wire!AnthropicTurns(h)
      BY <2>2 DEF Wire!Turns, Wire!Codec
    <3> QED
      BY <2>2, <3>2, <3>3 DEF Wire!AnthropicTurns, TurnOf
  <2>3. CASE v = "google"
    <3> DEFINE told(m) == m.role = "result" \/ (m.role # "system" /\ Wire!GoogleParts(m.content) # << >>)
    <3>1. {i \in DOMAIN h : told(h[i])} = DOMAIN h
      BY <1>11
    <3>2. Wire!Only(h, {i \in DOMAIN h : told(h[i])}) = h
      BY <1>7, <3>1, OnlyAll
    <3>3. Wire!Turns(v, h) = Wire!GoogleTurns(h)
      BY <2>3 DEF Wire!Turns, Wire!Codec
    <3> QED
      BY <2>3, <3>2, <3>3 DEF Wire!GoogleTurns, TurnOf
  <2> QED
    BY <2>1, <2>2, <2>3 DEF Codec
<1>13. Wire!Paired(v, Wire!Turns(v, h))
  <2> DEFINE t == [i \in DOMAIN h |-> TurnOf(v, h[i])]
  <2>1. DOMAIN t = 1..(n + 2) /\ \A i \in 1..(n + 2) : TurnFits(v, t[i], cs, i)
    BY <1>8, <1>10
  <2> HIDE DEF t
  <2>2. Wire!Paired(v, t)
    BY <1>1, <2>1, FittingPaired DEF n
  <2> QED
    BY <1>12, <2>2 DEF t
<1>14. ASSUME Identified(cs), NEW i \in DOMAIN h PROVE Wire!Valid(h[i])
  <2>0. \A k \in 1..n : cs[k].id # ""
    BY <1>1, <1>14 DEF Identified
  <2>4. ASSUME NEW t, NEW x, x # "text" PROVE ~Wire!Has(<<Wire!Text(t)>>, x)
    <3>1. Wire!Text(t).kind = "text"
      BY BlockIs
    <3> QED
      BY <2>4, <3>1 DEF Wire!Has
  <2>1. CASE i = 1
    BY <1>4, <1>7, <2>1, <2>4 DEF Wire!Valid
  <2>2. CASE i = 2
    <3> DEFINE c == say.content
    <3>1. StartsWithCalls(c, n) /\ \A j \in 1..n : c[j] = Wire!ToolCall(cs[j].id, cs[j].name, cs[j].args)
      BY SpokenIs DEF n, say
    <3>2. DOMAIN Wire!CallsIn(c) = 1..n /\ \A k \in 1..n : Wire!CallsIn(c)[k] = c[k]
      BY <3>1, CallsOfStart
    <3>3. \A k \in 1..n : c[k].id = cs[k].id
      BY <3>1, BlockIs
    <3>5. \A k \in DOMAIN Wire!CallsIn(c) : Wire!CallsIn(c)[k].id # ""
      BY <2>0, <3>2, <3>3
    <3> QED
      BY <1>4, <1>7, <2>2, <3>5 DEF Wire!Valid
  <2>3. CASE i - 2 \in 1..n /\ i = (i - 2) + 2
    <3>1. h[i] = done(i - 2)
      BY <1>7, <2>3
    <3>2. cs[i - 2].id # ""
      BY <2>0, <2>3
    <3> QED
      BY <1>3, <2>3, <2>4, <3>1, <3>2 DEF Wire!Valid
  <2> QED
    BY <1>9, <2>1, <2>2, <2>3
<1> QED
  BY <1>2, <1>13, <1>14

-----------------------------------------------------------------------------
(* The calls of a response.                                                 *)

\* What is told of a call, all that is told, and the calls finalize makes of it.
ArgsTold(ds, i) == {j \in DOMAIN ds : ds[j].index = i /\ ds[j].args # {}}
CallMade(ds, i) ==
  [id |-> IdOf(ds, i), name |-> NameOf(ds, i),
   args |-> IF ArgsTold(ds, i) = {} THEN {} ELSE {ArgsOf(ds, i)}]
CallsMade(ds) ==
  [k \in 1..Cardinality(Indices(ds)) |-> CallMade(ds, Wire!Position(Indices(ds), k))]
DeltasBy(r, ds) == IF r = "google" THEN Numbered(ds) ELSE ds
Made(r, s, n) == CallsMade(DeltasBy(r, DeltasIn(s, n)))
FinishedAll(cs) == [k \in DOMAIN cs |-> Finished([cs[k] EXCEPT !.args = UnwrapOr(@, << >>)])]

\* Options that are set and are not.
LEMMA OptionIs ==
  /\ \A x : UnwrapOr({}, x) = x
  /\ \A x, y : UnwrapOr({y}, x) = y
  /\ \A o, x, y : o # {} => UnwrapOr(o, x) = UnwrapOr(o, y) /\ UnwrapOr(o, x) \in o
<1>1. \A x : UnwrapOr({}, x) = x
  BY DEF UnwrapOr
<1>2. ASSUME NEW o, o # {} PROVE \A x : UnwrapOr(o, x) = (CHOOSE y \in o : TRUE)
  BY <1>2 DEF UnwrapOr
<1>3. ASSUME NEW o, o # {} PROVE (CHOOSE y \in o : TRUE) \in o
  <2>1. PICK y : y \in o
    BY <1>3
  <2> QED
    BY <2>1
<1>4. ASSUME NEW o, NEW x, NEW y, o # {}
      PROVE  UnwrapOr(o, x) = UnwrapOr(o, y) /\ UnwrapOr(o, x) \in o
  BY <1>2, <1>3, <1>4
<1>5. ASSUME NEW x, NEW y PROVE UnwrapOr({y}, x) = y
  <2>1. {y} # {}
    OBVIOUS
  <2> QED
    BY <1>4, <2>1
<1> QED
  BY <1>1, <1>4, <1>5

\* CallsOf says the same, before and behind a step.
LEMMA CallsOfIs ==
  /\ \A n : CallsOf(n) = Made(reader, script, n)
  /\ \A n : CallsOf(n)' = Made(reader', script', n)
<1>1. /\ \A n : DeltasOf(n) = DeltasBy(reader, DeltasIn(script, n))
      /\ \A n : DeltasOf(n)' = DeltasBy(reader', DeltasIn(script', n'))
  BY DEF DeltasOf, DeltasIn, DeltasBy, Numbered
<1>2. \A ds, i : {j \in ArgsTold(ds, i) : Piece(ds[j]) # ""} = ArgsIn(ds, i)
  <2> TAKE ds, i
  <2>1. \A j \in DOMAIN ds : ds[j].args = {} => Piece(ds[j]) = ""
    BY OptionIs DEF Piece
  <2> QED
    BY <2>1 DEF ArgsTold, ArgsIn
<1>3. /\ \A i, n : CallOf(i, n) = CallMade(DeltasOf(n), i)
      /\ \A i, n : CallOf(i, n)' = CallMade(DeltasOf(n)', i)
  BY <1>2 DEF CallOf, CallMade, IdsIn, NamesIn, ArgsTold, ArgsOf, IdOf, NameOf
<1> QED
  BY <1>1, <1>3 DEF CallsOf, CallsMade, Made, Indices

\* The fragments of an answer have finitely many indices.
LEMMA IndicesAre ==
  ASSUME NEW ds \in Seq(Delta)
  PROVE  Indices(ds) \in SUBSET Int /\ IsFiniteSet(Indices(ds))
<1> DEFINE f == [j \in DOMAIN ds |-> ds[j].index]
<1>1. \A j \in DOMAIN ds : ds[j].index \in Int
  <2>1. \A j \in DOMAIN ds : ds[j] \in Delta
    OBVIOUS
  <2> QED
    BY <2>1 DEF Delta
<1>2. Indices(ds) \in SUBSET Int
  BY <1>1 DEF Indices
<1>3. f \in Surjection(DOMAIN ds, Indices(ds))
  BY DEF Surjection, Indices
<1>4. IsFiniteSet(DOMAIN ds)
  BY PositionsAre
<1> HIDE DEF f
<1>5. IsFiniteSet(Indices(ds))
  BY <1>3, <1>4, FS_Surjection
<1> QED
  BY <1>2, <1>5

\* An entry of the accumulator is what is told of a call, no arguments if there are none.
LEMMA EntryIsMade ==
  ASSUME NEW ds \in Seq(Delta), NEW i
  PROVE  [CallMade(ds, i) EXCEPT !.args = UnwrapOr(@, <<>>)] = EntryOf(ds, i)
<1> DEFINE id == IdOf(ds, i)
           name == NameOf(ds, i)
           told == IF ArgsTold(ds, i) = {} THEN {} ELSE {ArgsOf(ds, i)}
<1>1. UnwrapOr(told, <<>>) = ArgsOf(ds, i)
  <2>1. CASE ArgsTold(ds, i) = {}
    <3>1. \A j \in DOMAIN ds : ds[j].args = {} => Piece(ds[j]) = ""
      BY OptionIs DEF Piece
    <3>2. ArgsIn(ds, i) = {}
      BY <2>1, <3>1 DEF ArgsTold, ArgsIn
    <3>3. Wire!Only(ds, {}) = <<>>
      BY OnlyNone
    <3>4. ArgsOf(ds, i) = <<>>
      BY <3>2, <3>3 DEF ArgsOf
    <3> QED
      BY <2>1, <3>4, OptionIs
  <2>2. CASE ArgsTold(ds, i) # {}
    BY <2>2, OptionIs
  <2> QED
    BY <2>1, <2>2
<1>2. CallMade(ds, i) = [id |-> id, name |-> name, args |-> told]
  BY DEF CallMade
<1>3. EntryOf(ds, i) = [id |-> id, name |-> name, args |-> ArgsOf(ds, i)]
  BY DEF EntryOf
<1> HIDE DEF id, name, told
<1> QED
  BY <1>1, <1>2, <1>3

\* Finalize goes through the entries in the order of their indices.
LEMMA FinalizeIs ==
  ASSUME NEW ds \in Seq(Delta)
  PROVE  /\ Cardinality(Indices(ds)) \in Nat
         /\ Finalize(Gathered(ds)) =
              [k \in 1..Cardinality(Indices(ds)) |-> Finished(EntryOf(ds, Wire!Position(Indices(ds), k)))]
<1> DEFINE I == Indices(ds)
           n == Cardinality(I)
           acc == Gathered(ds)
<1>1. DOMAIN acc = I /\ \A i \in I : acc[i] = EntryOf(ds, i)
  BY DEF Gathered
<1>2. n \in Nat /\ \A k \in 1..n : Wire!Position(I, k) \in I
  BY IndicesAre, PositionIs, FS_CardinalityType
<1>3. Finalize(acc) = [k \in 1..n |-> Finished(acc[Wire!Position(I, k)])]
  BY <1>1 DEF Finalize
<1> HIDE DEF I, n, acc
<1>4. \A k \in 1..n : acc[Wire!Position(I, k)] = EntryOf(ds, Wire!Position(I, k))
  BY <1>1, <1>2
<1>5. Finalize(acc) = [k \in 1..n |-> Finished(EntryOf(ds, Wire!Position(I, k)))]
  BY <1>3, <1>4
<1> QED
  BY <1>2, <1>5 DEF I, n, acc

\* So a call for each index, made of all that is told of it.
LEMMA FinalizeGathered ==
  ASSUME NEW ds \in Seq(Delta)
  PROVE  Finalize(Gathered(ds)) = FinishedAll(CallsMade(ds))
<1> DEFINE n == Cardinality(Indices(ds))
           at(k) == Wire!Position(Indices(ds), k)
           cs == CallsMade(ds)
<1>1. Finalize(Gathered(ds)) = [k \in 1..n |-> Finished(EntryOf(ds, at(k)))]
  BY FinalizeIs
<1>2. DOMAIN cs = 1..n /\ \A k \in 1..n : cs[k] = CallMade(ds, at(k))
  BY DEF CallsMade
<1> HIDE DEF n, at, cs
<1>3. \A k \in 1..n : [cs[k] EXCEPT !.args = UnwrapOr(@, << >>)] = EntryOf(ds, at(k))
  BY <1>2, EntryIsMade
<1>4. FinishedAll(cs) = [k \in 1..n |-> Finished([cs[k] EXCEPT !.args = UnwrapOr(@, << >>)])]
  BY <1>2 DEF FinishedAll
<1>5. FinishedAll(cs) = [k \in 1..n |-> Finished(EntryOf(ds, at(k)))]
  BY <1>3, <1>4
<1> QED
  BY <1>1, <1>5 DEF cs

\* Where every fragment has its name for an id, every call has.
LEMMA CallsNamed ==
  ASSUME NEW ds \in Seq(Delta), NamedById(ds), NEW i
  PROVE  IdOf(ds, i) = NameOf(ds, i)
<1>1. IdsIn(ds, i) = NamesIn(ds, i)
  BY DEF IdsIn, NamesIn, NamedById
<1>2. IdsIn(ds, i) # {} => Max(IdsIn(ds, i)) \in DOMAIN ds
  <2>1. IdsIn(ds, i) \in SUBSET DOMAIN ds
    BY DEF IdsIn
  <2>2. IdsIn(ds, i) # {} => Max(IdsIn(ds, i)) \in IdsIn(ds, i)
    BY <2>1, PositionsAre, MaxIs
  <2> QED
    BY <2>1, <2>2
<1> QED
  BY <1>1, <1>2 DEF IdOf, NameOf, NamedById

\* The calls that are made of an answer.
LEMMA MadeCallable ==
  ASSUME NEW r, NEW s, Fair(r, s), NEW n \in 0..Len(s)
  PROVE  Callable(r, Finalize(Gathered(DeltasTold(r, s, n))))
<1> DEFINE ds == DeltasTold(r, s, n)
           cs == Finalize(Gathered(ds))
           m == Cardinality(Indices(ds))
           e(k) == EntryOf(ds, Wire!Position(Indices(ds), k))
<1>1. ds \in Seq(Delta) /\ (r = "google" => NamedById(ds))
  BY DeltasAre DEF DeltasFit
<1> HIDE DEF ds
<1>2. m \in Nat /\ cs = [k \in 1..m |-> Finished(e(k))]
  BY <1>1, FinalizeIs
<1>3. r = "google" => \A k \in 1..m : Finished(e(k)).id = Finished(e(k)).name
  <2> SUFFICES ASSUME r = "google", NEW k \in 1..m
               PROVE  Finished(e(k)).id = Finished(e(k)).name
    OBVIOUS
  <2>1. e(k).id = e(k).name
    BY <1>1, CallsNamed DEF EntryOf
  <2> HIDE DEF e
  <2> QED
    BY <2>1 DEF Finished
<1> HIDE DEF m, e, cs
<1>4. cs = [j \in 1..m |-> cs[j]] /\ \A j \in 1..m : cs[j] = Finished(e(j))
  BY <1>2
<1>5. Len(cs) = m
  BY <1>2, <1>4, FunctionIsSeq DEF IsSeq
<1>6. Callable(r, cs)
  BY <1>2, <1>3, <1>4, <1>5 DEF Callable
<1> QED
  BY <1>6 DEF cs, ds

\* What is told of them.
LEMMA MadeIs ==
  ASSUME NEW r, NEW s, Fair(r, s), NEW n \in 0..Len(s), Single(r, s, n)
  PROVE  /\ Finalize(Gathered(DeltasTold(r, s, n))) = FinishedAll(Made(r, s, n))
         /\ \E m \in Nat : Made(r, s, n) = [k \in 1..m |-> Made(r, s, n)[k]]
         /\ r = "google" => \A k \in DOMAIN Made(r, s, n) : Made(r, s, n)[k].id = Made(r, s, n)[k].name
<1> DEFINE ds == DeltasTold(r, s, n)
           cs == CallsMade(ds)
           m == Cardinality(Indices(ds))
<1>1. /\ ds \in Seq(Delta) /\ (r = "google" => NamedById(ds))
      /\ ds = DeltasBy(r, DeltasIn(s, n))
  BY DeltasAre DEF DeltasFit, DeltasBy
<1>2. Made(r, s, n) = cs
  BY <1>1 DEF Made
<1> HIDE DEF ds
<1>3. Finalize(Gathered(ds)) = FinishedAll(cs)
  BY <1>1, FinalizeGathered
<1>4. m \in Nat
  BY <1>1, FinalizeIs
<1>5. cs = [k \in 1..m |-> CallMade(ds, Wire!Position(Indices(ds), k))]
  BY DEF CallsMade
<1> HIDE DEF m
<1>6. ASSUME r = "google", NEW k \in 1..m PROVE cs[k].id = cs[k].name
  BY <1>1, <1>5, <1>6, CallsNamed DEF CallMade
<1> HIDE DEF cs
<1>7. cs = [k \in 1..m |-> cs[k]] /\ DOMAIN cs = 1..m
  BY <1>5
<1> QED
  BY <1>2, <1>3, <1>4, <1>6, <1>7 DEF ds

-----------------------------------------------------------------------------
(* The decoder of whole answers.                                            *)

\* The answer that brings the calls cs at once.
WholeOf(r, cs) ==
  [kind |-> "json",
   blocks |-> [j \in DOMAIN cs |->
                 Wire!ToolCall(IF r = "google" THEN "" ELSE UnwrapOr(cs[j].id, ""),
                               UnwrapOr(cs[j].name, ""), cs[j].args)]]

\* A block that is a call, and the same with another id.
LEMMA CallBlock ==
  ASSUME NEW id, NEW name, NEW args
  PROVE  /\ Wire!ToolCall(id, name, args).id = id
         /\ Wire!ToolCall(id, name, args).name = name
         /\ Wire!ToolCall(id, name, args).kind = "call"
         /\ Wire!IsCall(Wire!ToolCall(id, name, args))
BY BlockIs

Record(k, t, c, i, n, a) == [kind |-> k, text |-> t, cached |-> c, id |-> i, name |-> n, args |-> a]

WithId(q, x) == [q EXCEPT !.id = x]
WithName(q, x) == [q EXCEPT !.name = x]
WithArgs(q, x) == [q EXCEPT !.args = x]

\* Blocks that differ in one field.
LEMMA RecordWith ==
  ASSUME NEW k, NEW t, NEW c, NEW i, NEW n, NEW a, NEW x
  PROVE  /\ WithId(Record(k, t, c, i, n, a), x) = Record(k, t, c, x, n, a)
         /\ WithName(Record(k, t, c, i, n, a), x) = Record(k, t, c, i, x, a)
         /\ WithArgs(Record(k, t, c, i, n, a), x) = Record(k, t, c, i, n, x)
<1> DEFINE q == Record(k, t, c, i, n, a)
<1>1. q = Record(k, t, c, i, n, a)
  OBVIOUS
<1> HIDE DEF q
<1>2. [q EXCEPT !.id = x] = Record(k, t, c, x, n, a)
  BY <1>1 DEF Record
<1>3. [q EXCEPT !.name = x] = Record(k, t, c, i, x, a)
  BY <1>1 DEF Record
<1>4. [q EXCEPT !.args = x] = Record(k, t, c, i, n, x)
  BY <1>1 DEF Record
<1> QED
  BY <1>2, <1>3, <1>4 DEF WithId, WithName, WithArgs, q

\* A call with another id, or other arguments.
LEMMA BlockWith ==
  ASSUME NEW id, NEW name, NEW args, NEW x
  PROVE  /\ WithId(Wire!ToolCall(id, name, args), x) = Wire!ToolCall(x, name, args)
         /\ WithArgs(Wire!ToolCall(id, name, args), x) = Wire!ToolCall(id, name, x)
<1>1. Wire!Block("call") = Record("call", "", FALSE, "", "", <<>>)
  BY DEF Wire!Block, Record
<1>2. PICK k, t, c, i, n, a : Wire!Block("call") = Record(k, t, c, i, n, a)
  BY <1>1
<1>3. ASSUME NEW y, NEW z PROVE Wire!ToolCall(y, name, z) = Record(k, t, c, y, name, z)
  <2>1. Wire!ToolCall(y, name, z) = WithArgs(WithName(WithId(Wire!Block("call"), y), name), z)
    BY DEF Wire!ToolCall, WithId, WithName, WithArgs
  <2> QED
    BY <1>2, <2>1, RecordWith
<1>4. /\ WithId(Wire!ToolCall(id, name, args), x) = Record(k, t, c, x, name, args)
      /\ WithArgs(Wire!ToolCall(id, name, args), x) = Record(k, t, c, id, name, x)
  BY <1>3, RecordWith
<1>5. WithId(Wire!ToolCall(id, name, args), x) = Wire!ToolCall(x, name, args)
  BY <1>3, <1>4
<1>6. WithArgs(Wire!ToolCall(id, name, args), x) = Wire!ToolCall(id, name, x)
  BY <1>3, <1>4
<1> QED
  BY <1>5, <1>6

\* Of blocks that are all calls, what is selected is all or nothing.
LEMMA CallsAlone ==
  ASSUME NEW n \in Nat, NEW bs, bs = [j \in 1..n |-> bs[j]],
         \A j \in 1..n : bs[j].kind = "call" /\ Wire!IsCall(bs[j])
  PROVE  /\ Wire!CallsIn(bs) = bs
         /\ \A kinds : Wire!Told(bs, kinds) = IF "call" \in kinds THEN bs ELSE <<>>
         /\ <<>> \o bs = bs
<1> DEFINE T == {bs[j] : j \in 1..n}
<1>1. bs \in Seq(T) /\ DOMAIN bs = 1..n
  <2>1. bs \in [1..n -> T] /\ DOMAIN bs = 1..n
    OBVIOUS
  <2> HIDE DEF T
  <2> QED
    BY <2>1
<1> HIDE DEF T
<1>2. {i \in DOMAIN bs : Wire!IsCall(bs[i])} = DOMAIN bs
  BY <1>1
<1>3. Wire!CallsIn(bs) = bs
  BY <1>1, <1>2, OnlyAll DEF Wire!CallsIn
<1>4. ASSUME NEW kinds PROVE Wire!Told(bs, kinds) = IF "call" \in kinds THEN bs ELSE <<>>
  <2> DEFINE S == {i \in DOMAIN bs : bs[i].kind \in kinds /\ (Wire!IsCall(bs[i]) \/ bs[i].text # "")}
  <2>1. S = IF "call" \in kinds THEN DOMAIN bs ELSE {}
    BY <1>1
  <2>2. Wire!Told(bs, kinds) = Wire!Only(bs, S)
    BY DEF Wire!Told
  <2> HIDE DEF S
  <2> QED
    BY <1>1, <2>1, <2>2, OnlyAll, OnlyNone
<1>5. <<>> \o bs = bs
  BY <1>1
<1> QED
  BY <1>3, <1>4, <1>5

\* A call that has all it needs is finished as it is decoded.
LEMMA FinishedIsDecoded ==
  ASSUME NEW r, NEW c, c = [id |-> c.id, name |-> c.name, args |-> c.args], Complete(c)
  PROVE  LET f == Finished([c EXCEPT !.args = UnwrapOr(@, <<>>)])
         IN /\ f.id = UnwrapOr(c.id, "") /\ f.name = UnwrapOr(c.name, "")
            /\ f.args = Wire!Arguments(r, c.args, JSON)
<1> DEFINE none == << >>
           t == UnwrapOr(c.args, none)
           e == [c EXCEPT !.args = t]
           f == Finished(e)
<1>1. c.id # {} /\ c.name # {} /\ c.args \subseteq JSON
  BY DEF Complete
<1>2. e.id = c.id /\ e.name = c.name /\ e.args = t
  <2> HIDE DEF t
  <2>1. ASSUME NEW i, NEW n, NEW a, c = [id |-> i, name |-> n, args |-> a]
        PROVE  e.id = i /\ e.name = n /\ e.args = t
    BY <2>1
  <2>2. e.id = c.id /\ e.name = c.name /\ e.args = t
    <3> DEFINE i == c.id
               n == c.name
               a == c.args
    <3>1. c = [id |-> i, name |-> n, args |-> a]
      OBVIOUS
    <3> HIDE DEF i, n, a, e
    <3>2. e.id = i /\ e.name = n /\ e.args = t
      BY <2>1, <3>1
    <3> QED
      BY <3>2 DEF i, n
  <2> QED
    BY <2>2
<1>3. c.args = {} => t = none
  BY OptionIs
<1>4. c.args # {} => t \in JSON /\ t = (CHOOSE x \in c.args : TRUE)
  BY <1>1, OptionIs DEF UnwrapOr
<1>5. none \notin JSON
  BY StreamAssumption
<1> HIDE DEF e, t, none
<1>6. f.id = UnwrapOr(c.id, "unknown") /\ f.name = UnwrapOr(c.name, "unknown")
  BY <1>2 DEF Finished
<1>7. f.id = UnwrapOr(c.id, "") /\ f.name = UnwrapOr(c.name, "")
  <2> DEFINE unknown == "unknown"
             empty == ""
  <2>1. f.id = UnwrapOr(c.id, unknown) /\ f.name = UnwrapOr(c.name, unknown)
    BY <1>6
  <2> HIDE DEF unknown, empty
  <2>2. f.id = UnwrapOr(c.id, empty) /\ f.name = UnwrapOr(c.name, empty)
    BY <1>1, <2>1, OptionIs
  <2> QED
    BY <2>2 DEF empty
<1>8. f.args = IF t = none THEN Wire!EmptyObject ELSE RobustParse(t)
  BY <1>2 DEF Finished, none
<1>9. t \in JSON => RobustParse(t) = Wire!Parsed(t)
  BY DEF RobustParse
<1> HIDE DEF f
<1>10. f.args = Wire!Arguments(r, c.args, JSON)
  <2>1. CASE c.args = {}
    BY <1>3, <1>8, <2>1 DEF Wire!Arguments
  <2>2. CASE c.args # {}
    <3>1. Wire!Arguments(r, c.args, JSON) = Wire!Parsed(t)
      BY <1>4, <2>2 DEF Wire!Arguments
    <3>2. t \in JSON /\ t # none
      BY <1>4, <1>5, <2>2
    <3> QED
      BY <1>8, <1>9, <3>1, <3>2
  <2> QED
    BY <2>1, <2>2
<1> QED
  BY <1>7, <1>10 DEF f, e, t, none

\* The decoder gives back the calls it is brought, if they have all they need.
LEMMA DecodedWhole ==
  ASSUME NEW r \in Codec, NEW n \in Nat, NEW cs, cs = [j \in 1..n |-> cs[j]],
         \A j \in 1..n : cs[j] = [id |-> cs[j].id, name |-> cs[j].name, args |-> cs[j].args],
         \A j \in 1..n : Complete(cs[j]),
         r = "google" => \A j \in 1..n : cs[j].id = cs[j].name
  PROVE  Wire!CallsIn(Wire!Decode(r, WholeOf(r, cs), JSON).content) = Blocks(FinishedAll(cs))
<1> DEFINE none == ""
           id(j) == UnwrapOr(cs[j].id, none)
           name(j) == UnwrapOr(cs[j].name, none)
           args(j) == Wire!Arguments(r, cs[j].args, JSON)
           brought(j) == IF r = "google" THEN none ELSE id(j)
           f(j) == Finished([cs[j] EXCEPT !.args = UnwrapOr(@, << >>)])
           b == Blocks(FinishedAll(cs))
           w == WholeOf(r, cs).blocks
           bs == Wire!Decoded(r, w, JSON)
<1>1. DOMAIN cs = 1..n
  OBVIOUS
<1>2. \A j \in 1..n : f(j).id = id(j) /\ f(j).name = name(j) /\ f(j).args = args(j)
  <2> SUFFICES ASSUME NEW j \in 1..n
               PROVE  f(j).id = id(j) /\ f(j).name = name(j) /\ f(j).args = args(j)
    OBVIOUS
  <2> DEFINE c == cs[j]
  <2>1. c = [id |-> c.id, name |-> c.name, args |-> c.args] /\ Complete(c)
    OBVIOUS
  <2> HIDE DEF c
  <2>2. LET g == Finished([c EXCEPT !.args = UnwrapOr(@, <<>>)])
        IN /\ g.id = UnwrapOr(c.id, "") /\ g.name = UnwrapOr(c.name, "")
           /\ g.args = Wire!Arguments(r, c.args, JSON)
    BY <2>1, FinishedIsDecoded
  <2> QED
    BY <2>2 DEF c
<1>3. b = [j \in 1..n |-> b[j]] /\ \A j \in 1..n : b[j] = Wire!ToolCall(id(j), name(j), args(j))
  <2>1. FinishedAll(cs) = [j \in 1..n |-> f(j)]
    BY <1>1 DEF FinishedAll
  <2> HIDE DEF f, id, name, args
  <2>2. b = [j \in 1..n |-> Wire!ToolCall(f(j).id, f(j).name, f(j).args)]
    BY <2>1 DEF Blocks
  <2> HIDE DEF b
  <2> QED
    BY <1>2, <2>2
<1>4. /\ WholeOf(r, cs).kind = "json" /\ WholeOf(r, cs).blocks = w
      /\ w = [j \in 1..n |-> Wire!ToolCall(brought(j), name(j), cs[j].args)]
  BY <1>1 DEF WholeOf
<1> HIDE DEF w, b, id, name, brought, f
<1>5. /\ bs = [j \in 1..n |-> bs[j]]
      /\ \A j \in 1..n : bs[j] = Wire!ToolCall(brought(j), name(j), args(j))
  <2>1. bs = [i \in 1..n |-> IF Wire!IsCall(w[i]) THEN [w[i] EXCEPT !.args = Wire!Arguments(r, @, JSON)] ELSE w[i]]
    BY <1>4 DEF Wire!Decoded
  <2> HIDE DEF bs
  <2>2. ASSUME NEW j \in 1..n PROVE bs[j] = Wire!ToolCall(brought(j), name(j), args(j))
    <3> DEFINE q == w[j]
    <3>1. q = Wire!ToolCall(brought(j), name(j), cs[j].args)
      BY <1>4
    <3>2. Wire!IsCall(q) /\ q.args = cs[j].args
      <4>1. Wire!ToolCall(brought(j), name(j), cs[j].args).args = cs[j].args
        BY DEF Wire!ToolCall, Wire!Block
      <4> QED
        BY <3>1, <4>1, CallBlock
    <3>3. bs[j] = [q EXCEPT !.args = Wire!Arguments(r, q.args, JSON)]
      BY <2>1, <3>2
    <3> HIDE DEF q
    <3>4. bs[j] = [q EXCEPT !.args = args(j)]
      BY <3>2, <3>3
    <3> DEFINE x == args(j)
               y == cs[j].args
    <3>5. q = Wire!ToolCall(brought(j), name(j), y) /\ bs[j] = WithArgs(q, x)
      BY <3>1, <3>4 DEF WithArgs
    <3> HIDE DEF args, x, y
    <3>6. WithArgs(Wire!ToolCall(brought(j), name(j), y), x) = Wire!ToolCall(brought(j), name(j), x)
      BY BlockWith
    <3>7. bs[j] = Wire!ToolCall(brought(j), name(j), x)
      BY <3>5, <3>6
    <3> QED
      BY <3>7 DEF x
  <2>3. bs = [j \in 1..n |-> bs[j]]
    BY <2>1
  <2> QED
    BY <2>2, <2>3
<1> HIDE DEF bs, args, none
<1>6. ASSUME NEW c, c = [j \in 1..n |-> c[j]],
             \A j \in 1..n : c[j].kind = "call" /\ Wire!IsCall(c[j])
      PROVE  /\ Wire!CallsIn(c) = c
             /\ \A kinds : Wire!Told(c, kinds) = IF "call" \in kinds THEN c ELSE <<>>
             /\ <<>> \o c = c
  BY <1>6, CallsAlone
<1>7. \A j \in 1..n : b[j].kind = "call" /\ Wire!IsCall(b[j])
  BY <1>3, CallBlock
<1>8. Wire!CallsIn(b) = b /\ <<>> \o b = b
  BY <1>3, <1>6, <1>7
<1>9. \A j \in 1..n : bs[j].kind = "call" /\ Wire!IsCall(bs[j]) /\ bs[j].name = name(j)
  BY <1>5, CallBlock
<1>10. \A kinds : Wire!Told(bs, kinds) = IF "call" \in kinds THEN bs ELSE <<>>
  BY <1>5, <1>6, <1>9
<1>11. CASE r = "google"
  <2>1. Wire!Told(bs, {"text", "call"}) = bs
    <3>1. "call" \in {"text", "call"}
      OBVIOUS
    <3> QED
      BY <1>10, <3>1
  <2>2. DOMAIN bs = 1..n
    BY <1>5
  <2>3. Wire!GoogleBlocks(bs) =
          [i \in 1..n |-> IF Wire!IsCall(bs[i]) THEN [bs[i] EXCEPT !.id = bs[i].name] ELSE bs[i]]
    BY <2>1, <2>2 DEF Wire!GoogleBlocks
  <2>4. \A i \in 1..n : id(i) = name(i)
    BY <1>11 DEF id, name
  <2>5. \A i \in 1..n : (IF Wire!IsCall(bs[i]) THEN [bs[i] EXCEPT !.id = bs[i].name] ELSE bs[i]) = b[i]
    <3> SUFFICES ASSUME NEW i \in 1..n
                 PROVE  (IF Wire!IsCall(bs[i]) THEN [bs[i] EXCEPT !.id = bs[i].name] ELSE bs[i]) = b[i]
      OBVIOUS
    <3> DEFINE q == bs[i]
               x == name(i)
    <3>1. q = Wire!ToolCall(brought(i), x, args(i)) /\ b[i] = Wire!ToolCall(x, x, args(i))
      BY <1>3, <1>5, <2>4
    <3>2. Wire!IsCall(q) /\ q.name = x
      BY <1>9
    <3> HIDE DEF q, x
    <3>3. WithId(q, x) = b[i]
      BY <3>1, BlockWith
    <3> QED
      BY <3>2, <3>3 DEF WithId, q
  <2>6. Wire!GoogleBlocks(bs) = b
    BY <1>3, <2>3, <2>5
  <2>7. Wire!Decode(r, WholeOf(r, cs), JSON).content = Wire!GoogleBlocks(bs)
    BY <1>4, <1>11 DEF Wire!Decode, bs
  <2> QED
    BY <1>8, <2>6, <2>7 DEF b
<1>12. CASE r # "google"
  <2>1. \A j \in 1..n : bs[j] = b[j]
    BY <1>3, <1>5, <1>12 DEF brought
  <2>2. bs = b
    BY <1>3, <1>5, <2>1
  <2>3. Wire!Told(b, {"text", "thinking", "call"}) = b /\ Wire!Told(b, {"call"}) = b
        /\ Wire!Told(b, {"text"}) = <<>> /\ Wire!Told(b, {"thinking"}) = <<>>
    BY <1>10, <2>2
  <2>4. <<>> \o <<>> = <<>>
    OBVIOUS
  <2>5. Wire!AnthropicBlocks(b) = b /\ Wire!OpenAIBlocks(b) = b
    BY <1>8, <2>3, <2>4 DEF Wire!AnthropicBlocks, Wire!OpenAIBlocks
  <2>6. Wire!Decode(r, WholeOf(r, cs), JSON).content = b
    <3>1. Wire!Decode(r, WholeOf(r, cs), JSON).content \in {Wire!AnthropicBlocks(bs), Wire!OpenAIBlocks(bs)}
      BY <1>4, <1>12 DEF Wire!Decode, bs
    <3> QED
      BY <2>2, <2>5, <3>1
  <2> QED
    BY <1>8, <2>6 DEF b
<1> QED
  BY <1>11, <1>12

-----------------------------------------------------------------------------
(* A response is whole.                                                     *)

\* UsageAccumulator::finalize gives the counts it knows.
LEMMA CountIs ==
  ASSUME NEW seen, NEW last, Knows(seen, last)
  PROVE  Count(seen) = last /\ (seen = {} => last = 0)
<1>1. CASE seen = {last}
  <2>1. {last} # {}
    OBVIOUS
  <2> QED
    BY <1>1, <2>1, OptionIs DEF Count
<1>2. CASE seen = {} /\ last = 0
  BY <1>2, OptionIs DEF Count
<1> QED
  BY <1>1, <1>2 DEF Knows

\* The counts of n messages, as a response has them.
UsageIs(usage, s, n) ==
  \/ usage = {[in |-> CountAt(s, n, "in"), out |-> CountAt(s, n, "out")]}
  \/ usage = {} /\ CountAt(s, n, "in") = 0 /\ CountAt(s, n, "out") = 0

\* What CompleteIsWhole says of one response, to n messages.
WholeResponse(x, r, s, n, done) ==
  /\ Single(r, s, n) => x.calls = FinishedAll(Made(r, s, n))
  /\ done /\ Single(r, s, Len(s)) /\ (\A k \in DOMAIN Made(r, s, Len(s)) : Complete(Made(r, s, Len(s))[k])) =>
       Blocks(x.calls) = Wire!CallsIn(Wire!Decode(r, WholeOf(r, Made(r, s, Len(s))), JSON).content)
  /\ (\A k \in 1..n : Alone(r, s[k])) => UsageIs(x.usage, s, n)
  /\ Identified(x.calls) => \A i \in DOMAIN Talk(x.calls) : Wire!Valid(Talk(x.calls)[i])
  /\ Wire!Paired(r, Wire!Turns(r, Talk(x.calls)))

ArrivedAt(s, e, w) ==
  Cardinality({k \in DOMAIN s : Len(Body(SubSeq(s, 1, k), e)) <= Len(Body(s, e)) - Len(w)})

\* CompleteIsWhole says it of every response, before and behind a step.
LEMMA CompleteIs ==
  /\ CompleteIsWhole <=>
       \A x \in response : WholeResponse(x, reader, script, ArrivedAt(script, ending, wire), is_done)
  /\ CompleteIsWhole' <=>
       \A x \in response' : WholeResponse(x, reader', script', ArrivedAt(script', ending', wire'), is_done')
<1>1. Arrived = ArrivedAt(script, ending, wire) /\ Arrived' = ArrivedAt(script', ending', wire')
  BY DEF Arrived, Read, ArrivedAt
<1>2. /\ \A n : Whole(n) = WholeOf(reader, CallsOf(n))
      /\ \A n : Whole(n)' = WholeOf(reader', CallsOf(n)')
  BY DEF Whole, WholeOf
<1>3. /\ \A n : OneFrame(n) <=> Single(reader, script, n)
      /\ \A n : OneFrame(n)' <=> Single(reader', script', n)
  BY DEF OneFrame, Single
<1>4. /\ \A m : CountsAlone(m) <=> Alone(reader, m)
      /\ \A m : CountsAlone(m)' <=> Alone(reader', m)
  BY DEF CountsAlone, Alone
<1>5. /\ \A n : Reported(n) = [in |-> CountAt(script, n, "in"), out |-> CountAt(script, n, "out")]
      /\ \A n : Reported(n)' = [in |-> CountAt(script', n, "in"), out |-> CountAt(script', n, "out")]
  BY DEF Reported, LastCount, CountAt, Tells
<1>6. CompleteIsWhole <=>
        \A x \in response : WholeResponse(x, reader, script, ArrivedAt(script, ending, wire), is_done)
  BY <1>1, <1>2, <1>3, <1>4, <1>5, CallsOfIs
  DEF CompleteIsWhole, WholeResponse, UsageIs, FinishedAll, Identified
<1>7. CompleteIsWhole' <=>
        \A x \in response' : WholeResponse(x, reader', script', ArrivedAt(script', ending', wire'), is_done')
  BY <1>1, <1>2, <1>3, <1>4, <1>5, CallsOfIs
  DEF CompleteIsWhole, WholeResponse, UsageIs, FinishedAll, Identified
<1> QED
  BY <1>6, <1>7

\* When nothing of an answer changes, or there is none, it stays whole.
LEMMA CompleteStays ==
  ASSUME CompleteIsWhole,
         response' = {} \/ UNCHANGED <<reader, script, ending, wire, is_done, response>>
  PROVE  CompleteIsWhole'
BY CompleteIs

\* If the calls of n messages have all they need, they are the ones the decoder gives.
LEMMA MadeIsDecoded ==
  ASSUME NEW r \in Codec, NEW s, Fair(r, s), NEW n \in 0..Len(s), Single(r, s, n),
         \A k \in DOMAIN Made(r, s, n) : Complete(Made(r, s, n)[k])
  PROVE  Blocks(Finalize(Gathered(DeltasTold(r, s, n)))) =
           Wire!CallsIn(Wire!Decode(r, WholeOf(r, Made(r, s, n)), JSON).content)
<1> DEFINE cs == Made(r, s, n)
<1>1. PICK m \in Nat : cs = [k \in 1..m |-> cs[k]]
  BY MadeIs
<1>2. DOMAIN cs = 1..m
  BY <1>1
<1>3. \A k \in 1..m : cs[k] = [id |-> cs[k].id, name |-> cs[k].name, args |-> cs[k].args]
  <2> SUFFICES ASSUME NEW k \in 1..m
               PROVE  cs[k] = [id |-> cs[k].id, name |-> cs[k].name, args |-> cs[k].args]
    OBVIOUS
  <2>1. \E ds, i : cs[k] = CallMade(ds, i)
    BY <1>2 DEF Made, CallsMade
  <2>2. \E x, y, z : cs[k] = [id |-> x, name |-> y, args |-> z]
    BY <2>1 DEF CallMade
  <2> HIDE DEF cs
  <2> QED
    BY <2>2
<1>4. \A k \in 1..m : Complete(cs[k])
  BY <1>2
<1>5. r = "google" => \A k \in 1..m : cs[k].id = cs[k].name
  BY <1>2, MadeIs
<1>6. Finalize(Gathered(DeltasTold(r, s, n))) = FinishedAll(cs)
  BY MadeIs
<1> HIDE DEF cs
<1>7. Wire!CallsIn(Wire!Decode(r, WholeOf(r, cs), JSON).content) = Blocks(FinishedAll(cs))
  BY <1>1, <1>3, <1>4, <1>5, DecodedWhole
<1> QED
  BY <1>6, <1>7 DEF cs

\* What is gathered of n messages is a whole response.
LEMMA ResponseIsWhole ==
  ASSUME NEW r \in Codec, NEW s, Fair(r, s), NEW n \in 0..Len(s), NEW done,
         done => \E k \in 1..n : IsFinal(r, s[k]),
         NEW x, x.calls = Finalize(Gathered(DeltasTold(r, s, n))),
         (\A k \in 1..n : Alone(r, s[k])) => UsageIs(x.usage, s, n)
  PROVE  WholeResponse(x, r, s, n, done)
<1>1. Single(r, s, n) => x.calls = FinishedAll(Made(r, s, n))
  BY MadeIs
<1>2. Callable(r, x.calls)
  BY MadeCallable
<1>3. ASSUME done, Single(r, s, Len(s)), \A k \in DOMAIN Made(r, s, Len(s)) : Complete(Made(r, s, Len(s))[k])
      PROVE  Blocks(x.calls) = Wire!CallsIn(Wire!Decode(r, WholeOf(r, Made(r, s, Len(s))), JSON).content)
  <2>1. PICK k \in 1..n : IsFinal(r, s[k])
    BY <1>3
  <2>2. DeltasIn(s, n) = DeltasIn(s, Len(s))
    BY <2>1, DeltasEnd
  <2>3. Made(r, s, n) = Made(r, s, Len(s))
    BY <2>2 DEF Made
  <2>4. Single(r, s, n)
    <3>1. s \in Seq(Message)
      BY DEF Fair
    <3>2. Len(s) \in Nat /\ \A i, j \in 1..n : i \in 1..Len(s) /\ j \in 1..Len(s)
      BY <3>1
    <3> QED
      BY <1>3, <3>2 DEF Single
  <2> QED
    BY <1>3, <2>3, <2>4, MadeIsDecoded
<1>4. /\ Identified(x.calls) => \A i \in DOMAIN Talk(x.calls) : Wire!Valid(Talk(x.calls)[i])
      /\ Wire!Paired(r, Wire!Turns(r, Talk(x.calls)))
  BY <1>2, TalkPasses
<1> QED
  BY <1>1, <1>3, <1>4 DEF WholeResponse

-----------------------------------------------------------------------------
(* What is gathered while the stream is read.                               *)

\* The accumulators after n messages, and the flag.
WholeUpTo(n) ==
  /\ calls = Gathered(DeltasTold(reader, script, n))
  /\ (\A k \in 1..n : Alone(reader, script[k])) =>
       /\ Knows(prompt, CountAt(script, n, "in"))
       /\ Knows(completion, CountAt(script, n, "out"))
  /\ is_done => \E k \in 1..n : IsFinal(reader, script[k])

\* A response is whole; until there is one the accumulators hold what the messages handled say.
WholeInv ==
  /\ CompleteIsWhole
  /\ reader \notin Codec => response = {}
  /\ reader \in Codec /\ phase \in {"asked", "reading"} => response = {} /\ WholeUpTo(Len(handled))

\* At first nothing was gathered.
LEMMA WholeInitially == Init => WholeInv
<1> SUFFICES ASSUME Init PROVE WholeInv
  OBVIOUS
<1>1. response = {} /\ calls = <<>> /\ prompt = {} /\ completion = {} /\ ~is_done /\ handled = <<>>
  BY DEF Init
<1>2. CompleteIsWhole
  BY <1>1 DEF CompleteIsWhole
<1>3. Len(handled) = 0
  BY <1>1
<1>4. Gathered(DeltasTold(reader, script, 0)) = <<>>
  <2>1. DeltasTold(reader, script, 0) = <<>>
    BY DeltasNone
  <2>2. Indices(<<>>) = {}
    BY DEF Indices
  <2>3. \A f : [i \in {} |-> f[i]] = <<>>
    OBVIOUS
  <2>4. Gathered(<<>>) = <<>>
    BY <2>2 DEF Gathered
  <2> QED
    BY <2>1, <2>4
<1>5. \A f : CountAt(script, 0, f) = 0
  <2>1. \A f : Tells(script, 0, f) = {}
    BY DEF Tells
  <2> QED
    BY <2>1 DEF CountAt
<1>6. WholeUpTo(0)
  BY <1>1, <1>4, <1>5 DEF WholeUpTo, Knows
<1> QED
  BY <1>1, <1>2, <1>3, <1>6 DEF WholeInv

\* What a codec reads is an answer its server may send.
LEMMA AnswerIsFair ==
  ASSUME TellInv, reader \in Codec
  PROVE  Fair(reader, script)
<1>1. reader \in Reader /\ script \in Script[reader]
  BY DEF TellInv, TellTypes
<1>2. script \in Seq(Message)
  BY <1>1, StreamAssumption
<1> QED
  BY <1>1, <1>2, AnswerAssumption DEF Fair

\* A frame is handled: the accumulators hold one message more.
LEMMA WholeHandles ==
  ASSUME CutInv, TellInv, WholeInv, HandleFrame
  PROVE  WholeInv'
<1> DEFINE h == Len(handled)
           n == h + 1
           m == script[n]
           c == Decode(m)
<1>1. /\ phase = "reading" /\ reader \in Codec
      /\ UNCHANGED <<reader, script, ending, wire, response>>
  BY DEF HandleFrame, chosen
<1>2. response = {} /\ WholeUpTo(h) /\ CompleteIsWhole
  BY <1>1 DEF WholeInv
<1>3. /\ script \in Seq(Message) /\ h \in Nat /\ n \in 1..Len(script) /\ Len(handled') = n
      /\ Carried(Head(frames).data) = IF m.kind = "broken" THEN 0 ELSE n
  BY FrameTurns
<1>4. CompleteIsWhole'
  BY <1>1, <1>2, CompleteStays
<1>5. CASE m.kind = "broken"
  <2>1. phase' = "ending"
    BY <1>3, <1>5 DEF HandleFrame
  <2> QED
    BY <1>1, <1>4, <2>1 DEF WholeInv
<1>6. CASE m.kind # "broken"
  <2>1. n # 0 /\ Carried(Head(frames).data) = n
    BY <1>3, <1>6
  <2>2. /\ calls' = PushAll(calls, c)
        /\ prompt' = Counted(prompt, c, "InputTokens", {u.in : u \in m.usage})
        /\ completion' = Counted(completion, c, "OutputTokens", {u.out : u \in m.usage})
        /\ is_done' = (is_done \/ Has(c, "Done"))
    BY <2>1 DEF HandleFrame
  <2>3. Fair(reader, script)
    BY <1>1, AnswerIsFair
  <2>4. m \in Message /\ Calling(reader, m) /\ Counting(reader, m) /\ h \in 0..Len(script)
    BY <1>3, <2>3 DEF Fair
  <2>5. Heard(reader, m, c)
    <3> HIDE DEF m
    <3> QED
      BY <1>1, <2>4, DecodeHeard
  <2> HIDE DEF c, h
  <2>6. calls' = Gathered(DeltasTold(reader, script, n))
    <3>1. DeltasTold(reader, script, h) \in Seq(Delta)
      BY <2>3, <2>4, DeltasAre DEF DeltasFit
    <3>2. DeltasTold(reader, script, n) = DeltasTold(reader, script, h) \o CallsTold(reader, m)
      BY <1>3, DeltasGrow
    <3>3. PushAll(Gathered(DeltasTold(reader, script, h)), c) =
            Gathered(DeltasTold(reader, script, h) \o CallsTold(reader, m))
      BY <2>5, <3>1 DEF Heard, Delivers
    <3> QED
      BY <1>2, <2>2, <3>2, <3>3 DEF WholeUpTo
  <2>7. ASSUME \A k \in 1..n : Alone(reader, script[k])
        PROVE  /\ Knows(prompt', CountAt(script, n, "in"))
               /\ Knows(completion', CountAt(script, n, "out"))
    <3>0. n \in 1..n /\ \A k \in 1..h : k \in 1..n
      BY <1>3
    <3>1. Alone(reader, script[n]) /\ \A k \in 1..h : Alone(reader, script[k])
      BY <2>7, <3>0
    <3>2. Knows(prompt, CountAt(script, h, "in")) /\ Knows(completion, CountAt(script, h, "out"))
      BY <1>2, <3>1 DEF WholeUpTo
    <3>3. CountKind("in") = "InputTokens" /\ CountKind("out") = "OutputTokens"
      BY DEF CountKind
    <3>4. Knows(Counted(prompt, c, CountKind("in"), {u["in"] : u \in m.usage}), CountAt(script, n, "in"))
      BY <1>1, <1>3, <2>3, <2>5, <3>1, <3>2, CountedIs
    <3>5. Knows(Counted(completion, c, CountKind("out"), {u["out"] : u \in m.usage}), CountAt(script, n, "out"))
      BY <1>1, <1>3, <2>3, <2>5, <3>1, <3>2, CountedIs
    <3>6. {u["in"] : u \in m.usage} = {u.in : u \in m.usage} /\ {u["out"] : u \in m.usage} = {u.out : u \in m.usage}
      OBVIOUS
    <3> QED
      BY <2>2, <3>3, <3>4, <3>5, <3>6
  <2>8. is_done' => \E k \in 1..n : IsFinal(reader, script[k])
    <3>1. CASE is_done
      <4>1. PICK k \in 1..h : IsFinal(reader, script[k])
        BY <1>2, <3>1 DEF WholeUpTo
      <4>2. k \in 1..n
        BY <1>3
      <4> QED
        BY <4>1, <4>2
    <3>2. CASE Has(c, "Done")
      <4>1. IsFinal(reader, m) /\ n \in 1..n
        BY <1>3, <2>5, <3>2 DEF Heard
      <4> QED
        BY <4>1
    <3> QED
      BY <2>2, <3>1, <3>2
  <2>9. WholeUpTo(Len(handled))'
    BY <1>1, <1>3, <2>6, <2>7, <2>8 DEF WholeUpTo
  <2> QED
    BY <1>1, <1>2, <1>4, <2>9 DEF WholeInv
<1> QED
  BY <1>5, <1>6

\* The response is made of what was gathered.
LEMMA WholeCompletes ==
  ASSUME CutInv, TellInv, WholeInv, Completes
  PROVE  WholeInv'
<1> DEFINE n == ArrivedAt(script, ending, wire)
<1>1. /\ phase = "reading" /\ reader \in Codec /\ frames = <<>> /\ phase' \in {"over", "ending"}
      /\ UNCHANGED <<reader, script, ending, wire, is_done>>
  BY DEF Completes, Idle, chosen
<1>2. response = {} /\ WholeUpTo(Len(handled)) /\ CompleteIsWhole
  BY <1>1 DEF WholeInv
<1>3. reader' \in Codec
  BY <1>1
<1>4. CASE ~present
  <2>1. response' = response
    BY <1>4 DEF Completes, Gone
  <2> QED
    BY <1>1, <1>2, <2>1, CompleteStays DEF WholeInv
<1>5. CASE present
  <2> DEFINE x == [calls |-> Finalize(calls), usage |-> FinalUsage]
  <2>1. response' = {x}
    BY <1>5 DEF Completes, Gone
  <2>2. Len(handled) = n /\ n \in 0..Len(script)
    <3>1. handled \o Taken(frames) = UpTo(Arrived)
      BY <1>1, CutReturns DEF FramesAreReturned
    <3>2. Arrived = n
      BY DEF Arrived, Read, ArrivedAt
    <3>3. script \in Seq(Message)
      BY <1>1 DEF CutInv
    <3>4. n \in 0..Len(script)
      <4> DEFINE A == {k \in DOMAIN script : Len(Body(SubSeq(script, 1, k), ending)) <= Len(Body(script, ending)) - Len(wire)}
      <4>1. A \in SUBSET (1..Len(script)) /\ Len(script) \in Nat
        BY <3>3
      <4> HIDE DEF A
      <4>2. IsFiniteSet(1..Len(script)) /\ Cardinality(1..Len(script)) = Len(script)
        BY <4>1, FS_Interval
      <4>3. Cardinality(A) \in Nat /\ Cardinality(A) <= Len(script)
        BY <4>1, <4>2, FS_Subset, FS_CardinalityType
      <4> QED
        BY <4>1, <4>3 DEF ArrivedAt, A
    <3> HIDE DEF n
    <3>5. Len(handled) = n
      <4>1. Taken(<<>>) = <<>>
        BY DEF Taken
      <4>2. handled \in Seq(Nat)
        BY <1>1 DEF TellInv, TellTypes
      <4>3. handled \o <<>> = handled
        BY <4>2
      <4>4. Len(UpTo(n)) = n
        BY <3>4 DEF UpTo
      <4> QED
        BY <1>1, <3>1, <3>2, <4>1, <4>3, <4>4
    <3> QED
      BY <3>4, <3>5
  <2>3. Fair(reader, script)
    BY <1>1, AnswerIsFair
  <2> HIDE DEF n
  <2>4. WholeUpTo(n)
    BY <1>2, <2>2
  <2>5. x.calls = Finalize(Gathered(DeltasTold(reader, script, n)))
    BY <2>4 DEF WholeUpTo
  <2>6. ASSUME \A k \in 1..n : Alone(reader, script[k]) PROVE UsageIs(x.usage, script, n)
    <3>1. /\ Count(prompt) = CountAt(script, n, "in") /\ (prompt = {} => CountAt(script, n, "in") = 0)
          /\ Count(completion) = CountAt(script, n, "out") /\ (completion = {} => CountAt(script, n, "out") = 0)
      BY <2>4, <2>6, CountIs DEF WholeUpTo
    <3>2. x.usage = FinalUsage
      OBVIOUS
    <3> HIDE DEF x
    <3>3. CASE prompt \cup completion = {}
      BY <3>1, <3>2, <3>3 DEF FinalUsage, UsageIs
    <3>4. CASE prompt \cup completion # {}
      BY <3>1, <3>2, <3>4 DEF FinalUsage, UsageIs
    <3> QED
      BY <3>3, <3>4
  <2>7. is_done => \E k \in 1..n : IsFinal(reader, script[k])
    BY <2>4 DEF WholeUpTo
  <2> HIDE DEF x
  <2>8. WholeResponse(x, reader, script, n, is_done)
    BY <1>1, <2>2, <2>3, <2>5, <2>6, <2>7, ResponseIsWhole
  <2>9. CompleteIsWhole'
    <3>1. \A y \in response' : WholeResponse(y, reader', script', ArrivedAt(script', ending', wire'), is_done')
      <4> TAKE y \in response'
      <4>1. y = x
        BY <2>1
      <4>2. /\ reader' = reader /\ script' = script /\ is_done' = is_done
            /\ ArrivedAt(script', ending', wire') = n
        BY <1>1 DEF n
      <4> QED
        BY <2>8, <4>1, <4>2
    <3> QED
      BY <3>1, CompleteIs
  <2> QED
    BY <1>1, <1>3, <2>9 DEF WholeInv
<1> QED
  BY <1>4, <1>5

\* Steps that neither gather nor complete.
LEMMA WholeUnmoved ==
  ASSUME WholeInv, UNCHANGED <<reader, script, calls, prompt, completion, is_done, response, handled>>,
         response = {} \/ UNCHANGED <<ending, wire>>,
         phase' \in {"asked", "reading"} => phase \in {"asked", "reading"}
  PROVE  WholeInv'
<1>1. CompleteIsWhole /\ CompleteIsWhole'
  BY CompleteStays DEF WholeInv
<1>2. ASSUME reader \in Codec, phase' \in {"asked", "reading"}
      PROVE  response' = {} /\ WholeUpTo(Len(handled))'
  <2>1. response = {} /\ WholeUpTo(Len(handled))
    BY <1>2 DEF WholeInv
  <2> QED
    BY <2>1 DEF WholeUpTo
<1> QED
  BY <1>1, <1>2 DEF WholeInv

\* Every step keeps it.
LEMMA WholeKeeps == CutInv /\ TellInv /\ WholeInv /\ [Next]_vars => WholeInv'
<1> SUFFICES ASSUME CutInv, TellInv, WholeInv, [Next]_vars PROVE WholeInv'
  OBVIOUS
<1>1. CASE Refused
  BY <1>1, WholeUnmoved DEF Refused, chosen, accumulated
<1>2. CASE \E n \in 1 .. Len(wire) : Opened(n)
  <2>1. /\ phase = "asked"
        /\ UNCHANGED <<reader, script, ending, wire, calls, prompt, completion, is_done, response, handled>>
    BY <1>2 DEF Opened, chosen, accumulated
  <2> QED
    BY <2>1, WholeUnmoved
<1>3. CASE \E n \in 1 .. Len(wire) : ReadChunk(n)
  <2>1. /\ phase = "reading" /\ reader \in Codec
        /\ UNCHANGED <<reader, script, calls, prompt, completion, is_done, response, handled>>
    BY <1>3 DEF ReadChunk, Idle, chosen, accumulated
  <2>2. response = {}
    BY <2>1 DEF WholeInv
  <2> QED
    BY <2>1, <2>2, WholeUnmoved
<1>4. CASE Breaks
  <2>1. /\ phase' \in {"over", "ending"}
        /\ UNCHANGED <<reader, script, ending, wire, calls, prompt, completion, is_done, response, handled>>
    BY <1>4 DEF Breaks, chosen, accumulated
  <2> QED
    BY <2>1, WholeUnmoved
<1>5. CASE Completes
  BY <1>5, WholeCompletes
<1>6. CASE HandleFrame
  BY <1>6, WholeHandles
<1>7. CASE Emit
  <2>1. /\ phase' = "over" \/ phase' = phase
        /\ UNCHANGED <<reader, script, ending, wire, calls, prompt, completion, is_done, response, handled>>
    BY <1>7 DEF Emit, chosen, accumulated
  <2> QED
    BY <2>1, WholeUnmoved
<1>8. CASE Receive \/ Leave
  <2>1. /\ phase' = "over" \/ phase' = phase
        /\ UNCHANGED <<reader, script, ending, wire, calls, prompt, completion, is_done, response, handled>>
    BY <1>8 DEF Receive, Leave, chosen, accumulated
  <2> QED
    BY <2>1, WholeUnmoved
<1>9. CASE (\E n \in 1 .. Len(wire) : Listen(n)) \/ ListenedOut
  <2>1. /\ reader = "subscription" /\ UNCHANGED <<reader, response>>
    BY <1>9 DEF Listen, ListenedOut, Listening, chosen
  <2>2. reader \notin Codec /\ reader' \notin Codec
    BY <2>1 DEF Codec
  <2>3. response' = {}
    BY <2>1, <2>2 DEF WholeInv
  <2>4. CompleteIsWhole'
    BY <2>3, CompleteStays DEF WholeInv
  <2> QED
    BY <2>2, <2>3, <2>4 DEF WholeInv
<1>10. CASE UNCHANGED vars
  BY <1>10, WholeUnmoved DEF vars
<1> QED
  BY <1>1, <1>2, <1>3, <1>4, <1>5, <1>6, <1>7, <1>8, <1>9, <1>10 DEF Next

\* What is gathered of an answer is what its messages say, however it is cut.
THEOREM GatheringGoesOn == Spec => []WholeInv
<1>1. CutInv /\ TellInv /\ WholeInv /\ [Next]_vars => WholeInv'
  BY WholeKeeps
<1> QED
  BY <1>1, WholeInitially, CutsDoNotMatter, TellingGoesOn, PTL DEF Spec

\* CompleteIsWhole.
THEOREM AnswersComeWhole == Spec => []CompleteIsWhole
<1>1. WholeInv => CompleteIsWhole
  BY DEF WholeInv
<1> QED
  BY <1>1, GatheringGoesOn, PTL
=============================================================================

-------------------------- MODULE EventStreamProofs --------------------------
(***************************************************************************)
(* What a websocket client receives, for any number of clients and any     *)
(* sizes of the buffer and the queues: the events after its since_seq, in  *)
(* order and once, less those given up at the two limits (EventStream).    *)
(***************************************************************************)
EXTENDS EventStream, FiniteSetTheorems, SequenceTheorems, TLAPS

Numbers == 1 .. MaxSeq

\* What c has received or will receive.
Line(c) == sent[c] \o replay[c] \o queue[c]

\* A buffer of the last events up to e, without a gap.
Latest(buf, e) ==
    /\ buf \in Seq(Numbers) /\ Len(buf) <= BufferSize
    /\ \A i \in DOMAIN buf : buf[i] = (e - Len(buf)) + i

\* Nobody knows of an event that is still to come.
SinceIsPast == \A c \in Subscribed : since[c] <= seq

\* A line in order, of events after s.
Orderly(line, s) == Increasing(line) /\ \A i \in DOMAIN line : line[i] > s

\* The line and what was given up make up the events from s to e.
Accounted(line, given, s, e) ==
    /\ Range(line) \cup given = s + 1 .. e
    /\ Range(line) \cap given = {}

StreamInvariant ==
    /\ TypeOK
    /\ Latest(buffer, seq)
    /\ SinceIsPast
    /\ \A c \in Subscribed : Orderly(Line(c), since[c])
    /\ \A c \in Subscribed : Accounted(Line(c), lost[c], since[c], seq)

-----------------------------------------------------------------------------
(* Sequences of numbers.                                                   *)

\* Taking the head of one sequence to the end of another leaves their
\* concatenation as it is.
LEMMA MoveHead ==
    ASSUME NEW S, NEW s \in Seq(S), NEW t \in Seq(S), t # <<>>
    PROVE  Append(s, Head(t)) \o Tail(t) = s \o t
  <1>1. Head(t) \in S /\ Tail(t) \in Seq(S) /\ <<Head(t)>> \in Seq(S)
    BY HeadTailProperties
  <1>2. Append(s, Head(t)) = s \o <<Head(t)>>
    BY <1>1, AppendIsConcat
  <1>3. (s \o <<Head(t)>>) \o Tail(t) = s \o (<<Head(t)>> \o Tail(t))
    BY <1>1, ConcatAssociative
  <1>4. <<Head(t)>> \o Tail(t) = t
    <2>1. /\ <<Head(t)>> \o Tail(t) \in Seq(S)
          /\ Len(<<Head(t)>> \o Tail(t)) = Len(t)
          /\ \A i \in 1 .. Len(t) : (<<Head(t)>> \o Tail(t))[i] = IF i = 1 THEN Head(t) ELSE Tail(t)[i - 1]
      BY <1>1, HeadTailProperties, ConcatProperties
    <2>2. \A i \in 1 .. Len(t) : (<<Head(t)>> \o Tail(t))[i] = t[i]
      BY <2>1, HeadTailProperties
    <2> QED
      BY <2>1, <2>2, SeqEqual
  <1> QED
    BY <1>2, <1>3, <1>4

\* Appending to the last of three sequences appends to all.
LEMMA AppendToLine ==
    ASSUME NEW s \in Seq(Numbers), NEW r \in Seq(Numbers), NEW q \in Seq(Numbers), NEW e \in Numbers
    PROVE  s \o r \o Append(q, e) = Append(s \o r \o q, e)
  <1>1. s \o r \in Seq(Numbers) /\ s \o r \o q \in Seq(Numbers) /\ <<e>> \in Seq(Numbers)
    BY ConcatProperties
  <1>2. Append(q, e) = q \o <<e>> /\ Append(s \o r \o q, e) = (s \o r \o q) \o <<e>>
    BY <1>1, AppendIsConcat
  <1> QED
    BY <1>1, <1>2, ConcatAssociative

\* A new event goes well at the end of a line of older ones.
LEMMA AppendOrderly ==
    ASSUME NEW line \in Seq(Numbers), NEW e \in Numbers, NEW s \in Nat, s < e,
           Orderly(line, s), \A i \in DOMAIN line : line[i] < e
    PROVE  Orderly(Append(line, e), s)
  <1> DEFINE new == Append(line, e)
  <1>1. /\ new \in Seq(Numbers) /\ Len(new) = Len(line) + 1
        /\ \A i \in 1 .. Len(line) : new[i] = line[i]
        /\ new[Len(line) + 1] = e
    BY AppendProperties
  <1>2. DOMAIN new = 1 .. Len(line) + 1 /\ DOMAIN line = 1 .. Len(line) /\ Len(line) \in Nat
    BY <1>1
  <1>3. \A i \in DOMAIN line : line[i] \in Nat
    <2>1. \A i \in DOMAIN line : line[i] \in Numbers
      BY <1>2, ElementOfSeq
    <2> QED
      BY <2>1, StreamAssumption DEF Numbers
  <1> HIDE DEF new
  <1>4. Increasing(new)
    BY <1>1, <1>2, <1>3 DEF Increasing, Orderly, Numbers
  <1>5. \A i \in DOMAIN new : new[i] > s
    BY <1>1, <1>2, <1>3 DEF Orderly, Numbers
  <1> QED
    BY <1>4, <1>5 DEF Orderly, new

\* The members of a sequence with one more.
LEMMA AppendRange ==
    ASSUME NEW S, NEW line \in Seq(S), NEW e \in S
    PROVE  Range(Append(line, e)) = Range(line) \cup {e}
  <1> DEFINE new == Append(line, e)
  <1>1. /\ Len(new) = Len(line) + 1 /\ new \in Seq(S)
        /\ \A i \in 1 .. Len(line) : new[i] = line[i]
        /\ new[Len(line) + 1] = e
    BY AppendProperties
  <1>2. DOMAIN new = 1 .. Len(line) + 1 /\ DOMAIN line = 1 .. Len(line) /\ Len(line) \in Nat
    BY <1>1
  <1> HIDE DEF new
  <1>3. Range(new) = Range(line) \cup {e}
    BY <1>1, <1>2 DEF Range
  <1> QED
    BY <1>3 DEF new

-----------------------------------------------------------------------------
(* The buffer.                                                             *)

\* The latest events stay the latest when one comes: it goes to the end, and the
\* oldest makes room (event_emitter.py:17-20).
LEMMA PushLatest ==
    ASSUME TypeOK, Latest(buffer, seq), seq < MaxSeq
    PROVE  Latest(Push(buffer, seq + 1), seq + 1)
  <1> DEFINE e == seq + 1
             rest == IF Len(buffer) < BufferSize THEN buffer ELSE Tail(buffer)
  <1>1. BufferSize \in Nat \ {0} /\ MaxSeq \in Nat \ {0}
    BY StreamAssumption
  <1>2. e \in Numbers /\ seq \in Nat
    BY <1>1 DEF TypeOK, Numbers
  <1>3. buffer \in Seq(Numbers) /\ Len(buffer) \in Nat /\ Len(buffer) <= BufferSize
    BY DEF TypeOK, Numbers
  <1>4. /\ rest \in Seq(Numbers) /\ Len(rest) < BufferSize
        /\ \A i \in 1 .. Len(rest) : rest[i] = (seq - Len(rest)) + i
    <2>1. CASE Len(buffer) < BufferSize
      BY <1>3, <2>1 DEF Latest
    <2>2. CASE Len(buffer) = BufferSize
      <3>1. buffer # <<>>
        BY <1>1, <2>2
      <3>2. /\ Tail(buffer) \in Seq(Numbers) /\ Len(Tail(buffer)) = Len(buffer) - 1
            /\ \A i \in 1 .. Len(Tail(buffer)) : Tail(buffer)[i] = buffer[i + 1]
        BY <1>3, <3>1, HeadTailProperties
      <3>3. \A i \in 1 .. Len(Tail(buffer)) : buffer[i + 1] = (seq - Len(buffer)) + (i + 1)
        BY <1>2, <1>3, <3>2 DEF Latest
      <3>4. rest = Tail(buffer)
        BY <2>2, <1>1
      <3> HIDE DEF rest
      <3> QED
        BY <1>1, <1>2, <1>3, <2>2, <3>2, <3>3, <3>4
    <2> QED
      BY <1>1, <1>3, <2>1, <2>2
  <1>5. Push(buffer, e) = Append(rest, e)
    BY DEF Push
  <1> DEFINE new == Append(rest, e)
  <1>6. /\ new \in Seq(Numbers) /\ Len(new) = Len(rest) + 1 /\ Len(rest) \in Nat
        /\ \A i \in 1 .. Len(rest) : new[i] = rest[i]
        /\ new[Len(rest) + 1] = e
    <2> HIDE DEF rest, e
    <2> QED
      BY <1>2, <1>4, AppendProperties
  <1> HIDE DEF new, rest
  <1>7. \A i \in DOMAIN new : new[i] = (e - Len(new)) + i
    BY <1>2, <1>4, <1>6
  <1>8. Push(buffer, seq + 1) = new
    BY <1>5 DEF new
  <1>9. Len(new) <= BufferSize
    BY <1>1, <1>4, <1>6
  <1>10. Latest(new, e)
    BY <1>6, <1>7, <1>9 DEF Latest
  <1> QED
    BY <1>8, <1>10

\* The events a handler takes from the buffer are those after its since_seq that
\* the buffer still has, in order (event_emitter.py:38-39, events.py:14-17).
LEMMA RecentIsTheRest ==
    ASSUME TypeOK, Latest(buffer, seq), NEW s \in 0 .. seq
    PROVE  /\ Recent(s) \in Seq(Numbers) /\ Len(Recent(s)) <= BufferSize
           /\ Orderly(Recent(s), s)
           /\ Accounted(Recent(s), (s + 1 .. seq) \ Range(buffer), s, seq)
  <1> DEFINE old == {i \in DOMAIN buffer : buffer[i] <= s}
             known == Cardinality(old)
             first == seq - Len(buffer)
             rest == SubSeq(buffer, known + 1, Len(buffer))
  <1>1. seq \in Nat /\ s \in Nat /\ s <= seq /\ BufferSize \in Nat
    BY StreamAssumption DEF TypeOK
  <1>2. /\ buffer \in Seq(Numbers) /\ Len(buffer) \in Nat /\ Len(buffer) <= BufferSize
        /\ DOMAIN buffer = 1 .. Len(buffer)
    BY DEF TypeOK, Numbers
  <1>3. \A i \in 1 .. Len(buffer) : buffer[i] = first + i /\ buffer[i] \in Numbers
    BY <1>2, ElementOfSeq DEF Latest
  <1>4. known = IF s <= first THEN 0 ELSE s - first
    <2>1. CASE s <= first
      <3>1. old = {}
        BY <1>1, <1>2, <1>3, <2>1
      <3> QED
        BY <2>1, <3>1, FS_EmptySet
    <2>2. CASE s > first
      <3>1. old = 1 .. s - first
        BY <1>1, <1>2, <1>3, <2>2
      <3>2. Cardinality(1 .. s - first) = s - first
        BY <1>1, <1>2, <2>2, FS_Interval
      <3>3. ~ (s <= first)
        BY <1>1, <1>2, <2>2
      <3> QED
        BY <3>1, <3>2, <3>3
    <2> QED
      BY <1>1, <1>2, <2>1, <2>2
  <1>5. known \in 0 .. Len(buffer)
    BY <1>1, <1>2, <1>4
  <1> HIDE DEF known
  <1>6. /\ rest \in Seq(Numbers) /\ Len(rest) = Len(buffer) - known
        /\ \A i \in 1 .. Len(rest) : rest[i] = buffer[known + i]
    <2>1. \A i \in known + 1 .. Len(buffer) : buffer[i] \in Numbers
      BY <1>2, <1>3, <1>5
    <2>2. known + 1 \in Int /\ Len(buffer) \in Int
      BY <1>2, <1>5
    <2>3. /\ rest \in Seq(Numbers)
          /\ Len(rest) = IF known + 1 <= Len(buffer) THEN Len(buffer) - (known + 1) + 1 ELSE 0
          /\ \A i \in 1 .. Len(buffer) - (known + 1) + 1 : rest[i] = buffer[known + 1 + i - 1]
      BY <2>1, <2>2, SubSeqProperties
    <2> HIDE DEF rest
    <2>4. Len(rest) = Len(buffer) - known
      <3>1. known \in Nat /\ Len(buffer) \in Nat /\ known <= Len(buffer)
        BY <1>2, <1>5
      <3>2. Len(rest) = IF known + 1 <= Len(buffer) THEN Len(buffer) - (known + 1) + 1 ELSE 0
        BY <2>3
      <3> QED
        BY <3>1, <3>2
    <2>5. \A i \in 1 .. Len(rest) : known + 1 + i - 1 = known + i
      BY <1>2, <1>5, <2>4
    <2>6. ASSUME NEW i \in 1 .. Len(rest) PROVE rest[i] = buffer[known + i]
      <3>1. i \in 1 .. Len(buffer) - (known + 1) + 1
        BY <1>2, <1>5, <2>4
      <3> QED
        BY <2>3, <2>5, <3>1
    <2> QED
      BY <2>3, <2>4, <2>6
  <1> HIDE DEF rest
  <1>7. \A i \in 1 .. Len(rest) : rest[i] = first + known + i
    BY <1>1, <1>2, <1>3, <1>5, <1>6
  <1>8. DOMAIN rest = 1 .. Len(rest) /\ Len(rest) \in Nat
    BY <1>6
  <1>9. Orderly(rest, s)
    <2>1. Increasing(rest)
      BY <1>1, <1>2, <1>5, <1>7, <1>8 DEF Increasing
    <2>2. \A i \in DOMAIN rest : rest[i] > s
      BY <1>1, <1>2, <1>4, <1>5, <1>7, <1>8
    <2> QED
      BY <2>1, <2>2 DEF Orderly
  <1>10. \A n \in s + 1 .. seq : n \in Range(buffer) <=> n \in Range(rest)
    <2>1. ASSUME NEW n \in s + 1 .. seq, n \in Range(buffer) PROVE n \in Range(rest)
      <3>1. PICK i \in 1 .. Len(buffer) : n = first + i
        BY <1>2, <1>3, <2>1 DEF Range
      <3>2. i - known \in 1 .. Len(rest)
        BY <1>1, <1>2, <1>4, <1>5, <1>6, <2>1, <3>1
      <3>3. rest[i - known] = n
        BY <1>1, <1>2, <1>5, <1>7, <3>1, <3>2
      <3> QED
        BY <1>8, <3>2, <3>3 DEF Range
    <2>2. ASSUME NEW n \in Range(rest) PROVE n \in Range(buffer)
      <3>1. PICK i \in 1 .. Len(rest) : n = rest[i]
        BY <1>8, <2>2 DEF Range
      <3>2. known + i \in 1 .. Len(buffer) /\ n = buffer[known + i]
        BY <1>2, <1>5, <1>6, <1>8, <3>1
      <3> QED
        BY <1>2, <3>2 DEF Range
    <2> QED
      BY <2>1, <2>2
  <1>11. Range(rest) \subseteq s + 1 .. seq
    <2> SUFFICES ASSUME NEW i \in 1 .. Len(rest) PROVE rest[i] \in s + 1 .. seq
      BY <1>8 DEF Range
    <2> QED
      BY <1>1, <1>2, <1>4, <1>5, <1>6, <1>7
  <1>12. Accounted(rest, (s + 1 .. seq) \ Range(buffer), s, seq)
    BY <1>10, <1>11 DEF Accounted
  <1>13. Recent(s) = rest
    BY DEF Recent, rest, known
  <1> QED
    BY <1>1, <1>2, <1>5, <1>6, <1>9, <1>12, <1>13

-----------------------------------------------------------------------------
(* The steps.                                                              *)

\* What TypeOK says of one client.
LEMMA ClientTypes ==
    ASSUME TypeOK, NEW c \in Clients
    PROVE  /\ sent[c] \in Seq(Numbers) /\ replay[c] \in Seq(Numbers) /\ queue[c] \in Seq(Numbers)
           /\ since[c] \in Nat /\ lost[c] \in SUBSET Numbers
           /\ Line(c) \in Seq(Numbers)
  <1>1. /\ sent[c] \in Seq(Numbers) /\ replay[c] \in Seq(Numbers) /\ queue[c] \in Seq(Numbers)
        /\ since[c] \in Nat /\ lost[c] \in SUBSET Numbers
    BY StreamAssumption DEF TypeOK, Numbers
  <1> QED
    BY <1>1, ConcatProperties DEF Line

\* An event goes to the end of every subscribed line that has room for it, and is
\* given up by the others (event_emitter.py:17-25).
LEMMA EmitInvariant ==
    ASSUME StreamInvariant, Emit
    PROVE  StreamInvariant'
  <1> DEFINE e == seq + 1
  <1> USE DEF StreamInvariant
  <1>1. seq \in Nat /\ e \in Numbers /\ QueueSize \in Nat \ {0} /\ MaxSeq \in Nat \ {0}
    BY StreamAssumption DEF Emit, TypeOK, Numbers
  <1>2. Latest(buffer', seq')
    BY PushLatest DEF Emit
  <1>3. ASSUME NEW c \in Clients
        PROVE  /\ queue'[c] \in Seq(Numbers) /\ Len(queue'[c]) <= QueueSize
               /\ lost'[c] \in SUBSET Numbers
    <2>1. queue[c] \in Seq(Numbers) /\ Len(queue[c]) <= QueueSize /\ Len(queue[c]) \in Nat
      BY ClientTypes DEF TypeOK
    <2>2. Append(queue[c], e) \in Seq(Numbers) /\ Len(Append(queue[c], e)) = Len(queue[c]) + 1
      BY <1>1, <2>1, AppendProperties
    <2>3. queue'[c] \in {Offer(queue[c], e), queue[c]} /\ lost'[c] \in {lost[c] \cup {e}, lost[c]}
      BY DEF Emit
    <2> HIDE DEF e
    <2>4. Offer(queue[c], e) \in Seq(Numbers) /\ Len(Offer(queue[c], e)) <= QueueSize
      BY <1>1, <2>1, <2>2 DEF Offer
    <2> QED
      BY <1>1, <2>1, <2>3, <2>4, ClientTypes
  <1>4. TypeOK'
    <2>1. /\ queue' \in [Clients -> Seq(1 .. MaxSeq)] /\ lost' \in [Clients -> SUBSET (1 .. MaxSeq)]
          /\ \A c \in Clients : Len(queue'[c]) <= QueueSize
      BY <1>3 DEF Emit, Numbers
    <2>2. seq' \in 0 .. MaxSeq
      BY <1>1 DEF Emit, Numbers
    <2>3. buffer' \in Seq(1 .. MaxSeq) /\ Len(buffer') <= BufferSize
      BY <1>2 DEF Latest, Numbers
    <2> QED
      BY <2>1, <2>2, <2>3 DEF Emit, TypeOK
  <1>5. SinceIsPast'
    BY <1>1, ClientTypes DEF SinceIsPast, Emit, Subscribed
  <1>6. ASSUME NEW c \in Subscribed'
        PROVE  Orderly(Line(c)', since'[c]) /\ Accounted(Line(c)', lost'[c], since'[c], seq')
    <2>1. c \in Subscribed /\ c \in Clients /\ since'[c] = since[c] /\ since[c] <= seq
      BY DEF Emit, Subscribed, SinceIsPast
    <2>2. /\ Line(c) \in Seq(Numbers) /\ since[c] \in Nat
          /\ sent[c] \in Seq(Numbers) /\ replay[c] \in Seq(Numbers) /\ queue[c] \in Seq(Numbers)
      BY <2>1, ClientTypes
    <2>3. Orderly(Line(c), since[c]) /\ Accounted(Line(c), lost[c], since[c], seq)
      BY <2>1
    <2>4. since[c] + 1 .. e = (since[c] + 1 .. seq) \cup {e} /\ e \notin since[c] + 1 .. seq
      BY <1>1, <2>1, <2>2
    <2>5. CASE Len(queue[c]) < QueueSize
      <3>1. queue'[c] = Append(queue[c], e) /\ lost'[c] = lost[c]
        BY <1>1, <2>1, <2>2, <2>5 DEF Emit, Offer
      <3>2. Line(c)' = Append(Line(c), e)
        <4>1. sent[c] \o replay[c] \o Append(queue[c], e) = Append(sent[c] \o replay[c] \o queue[c], e)
          <5> HIDE DEF e
          <5> QED
            BY <1>1, <2>2, AppendToLine
        <4>2. Line(c)' = sent[c] \o replay[c] \o Append(queue[c], e)
          BY <3>1 DEF Line, Emit
        <4> QED
          BY <4>1, <4>2 DEF Line
      <3>3. \A i \in DOMAIN Line(c) : Line(c)[i] < e
        <4>1. \A i \in DOMAIN Line(c) : Line(c)[i] \in since[c] + 1 .. seq
          BY <2>3 DEF Accounted, Range
        <4> QED
          BY <1>1, <2>2, <4>1
      <3>4. Orderly(Line(c)', since'[c])
        BY <1>1, <2>1, <2>2, <2>3, <3>2, <3>3, AppendOrderly
      <3>5. Range(Line(c)') = Range(Line(c)) \cup {e}
        BY <1>1, <2>2, <3>2, AppendRange
      <3>6. Accounted(Line(c)', lost'[c], since'[c], seq')
        BY <2>1, <2>3, <2>4, <3>1, <3>5 DEF Accounted, Emit
      <3> QED
        BY <3>4, <3>6
    <2>6. CASE Len(queue[c]) = QueueSize
      <3>1. queue'[c] = queue[c] /\ lost'[c] = lost[c] \cup {e}
        BY <1>1, <2>1, <2>6 DEF Emit, Offer
      <3>2. Line(c)' = Line(c)
        BY <2>1, <3>1 DEF Line, Emit
      <3>3. Accounted(Line(c)', lost'[c], since'[c], seq')
        BY <2>1, <2>3, <2>4, <3>1, <3>2 DEF Accounted, Emit
      <3> QED
        BY <2>1, <2>3, <3>2, <3>3
    <2>7. Len(queue[c]) <= QueueSize /\ Len(queue[c]) \in Nat
      BY <2>1, <2>2 DEF TypeOK
    <2> QED
      BY <1>1, <2>5, <2>6, <2>7
  <1> QED
    BY <1>2, <1>4, <1>5, <1>6

\* A connection starts with the rest of the buffer, and what the buffer has lost is
\* given up (events.py:12-17).
LEMMA ConnectInvariant ==
    ASSUME StreamInvariant, NEW c \in Clients, NEW s \in 0 .. seq, Connect(c, s)
    PROVE  StreamInvariant'
  <1> USE DEF StreamInvariant
  <1>1. /\ Recent(s) \in Seq(Numbers) /\ Len(Recent(s)) <= BufferSize
        /\ Orderly(Recent(s), s)
        /\ Accounted(Recent(s), (s + 1 .. seq) \ Range(buffer), s, seq)
    BY RecentIsTheRest
  <1>2. /\ seq \in Nat /\ seq <= MaxSeq /\ MaxSeq \in Nat /\ s \in Nat /\ s <= seq
        /\ QueueSize \in Nat /\ Len(<<>>) = 0
    BY StreamAssumption DEF TypeOK
  <1>3. TypeOK'
    <2>1. s \in 0 .. MaxSeq /\ (s + 1 .. seq) \ Range(buffer) \subseteq 1 .. MaxSeq
      BY <1>2
    <2>2. Recent(s) \in Seq(1 .. MaxSeq)
      BY <1>1 DEF Numbers
    <2>3. \A d \in Clients : Len(queue'[d]) <= QueueSize /\ Len(replay'[d]) <= BufferSize
      BY <1>1, <1>2 DEF TypeOK, Connect
    <2> QED
      BY <2>1, <2>2, <2>3 DEF TypeOK, Connect
  <1>4. Latest(buffer', seq')
    BY DEF Connect
  <1>5. SinceIsPast'
    BY <1>2 DEF SinceIsPast, Subscribed, Connect, TypeOK
  <1>6. ASSUME NEW d \in Subscribed'
        PROVE  Orderly(Line(d)', since'[d]) /\ Accounted(Line(d)', lost'[d], since'[d], seq')
    <2>1. CASE d = c
      <3>1. Line(d)' = <<>> \o Recent(s) \o <<>>
        BY <2>1 DEF Line, Connect, TypeOK
      <3>2. Line(d)' = Recent(s)
        BY <1>1, <3>1, ConcatEmptySeq
      <3>3. since'[d] = s /\ lost'[d] = (s + 1 .. seq) \ Range(buffer) /\ seq' = seq
        BY <2>1 DEF Connect, TypeOK
      <3> QED
        BY <1>1, <3>2, <3>3
    <2>2. CASE d # c
      <3>1. d \in Subscribed /\ d \in Clients
        BY <2>2 DEF Subscribed, Connect, TypeOK
      <3>2. Line(d)' = Line(d) /\ since'[d] = since[d] /\ lost'[d] = lost[d] /\ seq' = seq
        BY <2>2, <3>1 DEF Line, Connect, TypeOK
      <3> QED
        BY <3>1, <3>2
    <2> QED
      BY <2>1, <2>2
  <1> QED
    BY <1>3, <1>4, <1>5, <1>6

\* A step that leaves every subscribed line as it is.
LEMMA SameLines ==
    ASSUME StreamInvariant, TypeOK', UNCHANGED <<seq, buffer, since, lost>>,
           \A d \in Subscribed' : d \in Subscribed /\ Line(d)' = Line(d)
    PROVE  StreamInvariant'
  <1>1. Latest(buffer', seq') /\ SinceIsPast'
    BY DEF StreamInvariant, SinceIsPast
  <1>2. \A d \in Subscribed' : Orderly(Line(d)', since'[d])
    BY DEF StreamInvariant
  <1>3. \A d \in Subscribed' : Accounted(Line(d)', lost'[d], since'[d], seq')
    BY DEF StreamInvariant
  <1> QED
    BY <1>1, <1>2, <1>3 DEF StreamInvariant

\* A send takes the next event of the replay, or of the queue once the replay is
\* over, and leaves the line as it is (events.py:17-21).
LEMMA SendInvariant ==
    ASSUME StreamInvariant, NEW c \in Clients, SendReplay(c) \/ SendQueued(c)
    PROVE  StreamInvariant'
  <1>1. TypeOK /\ QueueSize \in Nat /\ BufferSize \in Nat
    BY StreamAssumption DEF StreamInvariant
  <1>2. sent[c] \in Seq(Numbers) /\ replay[c] \in Seq(Numbers) /\ queue[c] \in Seq(Numbers)
    BY <1>1, ClientTypes
  <1>3. CASE SendReplay(c)
    <2>1. /\ Head(replay[c]) \in Numbers /\ Tail(replay[c]) \in Seq(Numbers)
          /\ Len(Tail(replay[c])) = Len(replay[c]) - 1 /\ Len(replay[c]) \in Nat
      BY <1>2, <1>3, HeadTailProperties DEF SendReplay
    <2>2. Append(sent[c], Head(replay[c])) \in Seq(Numbers)
      BY <1>2, <2>1, AppendProperties
    <2>3. /\ sent'[c] = Append(sent[c], Head(replay[c])) /\ replay'[c] = Tail(replay[c])
          /\ queue' = queue /\ conn' = conn
          /\ \A d \in Clients \ {c} : sent'[d] = sent[d] /\ replay'[d] = replay[d]
      BY <1>1, <1>3 DEF SendReplay, TypeOK
    <2>4. TypeOK'
      <3>1. ASSUME NEW d \in Clients
            PROVE  Len(queue'[d]) <= QueueSize /\ Len(replay'[d]) <= BufferSize
        <4>1. /\ Len(queue[d]) <= QueueSize /\ Len(replay[d]) <= BufferSize
              /\ Len(replay[c]) <= BufferSize /\ Len(queue[c]) <= QueueSize
          BY <1>1 DEF TypeOK
        <4>2. CASE d = c
          <5>1. Len(replay'[c]) = Len(replay[c]) - 1 /\ queue'[c] = queue[c] /\ Len(replay[c]) \in Nat
            BY <2>1, <2>3
          <5>2. ASSUME NEW n \in Nat, n <= BufferSize PROVE n - 1 <= BufferSize
            BY <1>1, <5>2
          <5> QED
            BY <4>1, <4>2, <5>1, <5>2
        <4>3. CASE d # c
          BY <2>3, <4>1, <4>3
        <4> QED
          BY <4>2, <4>3
      <3>2. sent' \in [Clients -> Seq(1 .. MaxSeq)] /\ replay' \in [Clients -> Seq(1 .. MaxSeq)]
        BY <1>1, <1>3, <2>1, <2>2 DEF TypeOK, SendReplay, Numbers
      <3> QED
        BY <1>1, <1>3, <3>1, <3>2 DEF TypeOK, SendReplay
    <2>5. Line(c)' = Line(c)
      <3>1. Line(c)' = Append(sent[c], Head(replay[c])) \o Tail(replay[c]) \o queue[c]
        BY <2>3 DEF Line
      <3>2. Append(sent[c], Head(replay[c])) \o Tail(replay[c]) = sent[c] \o replay[c]
        BY <1>2, <1>3, MoveHead DEF SendReplay
      <3> QED
        BY <3>1, <3>2 DEF Line
    <2>6. \A d \in Clients \ {c} : Line(d)' = Line(d)
      BY <2>3 DEF Line
    <2>7. \A d \in Subscribed' : d \in Subscribed /\ Line(d)' = Line(d)
      BY <2>3, <2>5, <2>6 DEF Subscribed
    <2> QED
      BY <1>3, <2>4, <2>7, SameLines DEF SendReplay
  <1>4. CASE SendQueued(c)
    <2>1. /\ Head(queue[c]) \in Numbers /\ Tail(queue[c]) \in Seq(Numbers)
          /\ Len(Tail(queue[c])) = Len(queue[c]) - 1 /\ Len(queue[c]) \in Nat
      BY <1>2, <1>4, HeadTailProperties DEF SendQueued, Drains
    <2>2. Append(sent[c], Head(queue[c])) \in Seq(Numbers)
      BY <1>2, <2>1, AppendProperties
    <2>3. /\ sent'[c] = Append(sent[c], Head(queue[c])) /\ queue'[c] = Tail(queue[c])
          /\ replay' = replay /\ replay[c] = <<>> /\ conn' = conn
          /\ \A d \in Clients \ {c} : sent'[d] = sent[d] /\ queue'[d] = queue[d]
      BY <1>1, <1>4 DEF SendQueued, Drains, TypeOK
    <2>4. TypeOK'
      <3>1. ASSUME NEW d \in Clients
            PROVE  Len(queue'[d]) <= QueueSize /\ Len(replay'[d]) <= BufferSize
        <4>1. /\ Len(queue[d]) <= QueueSize /\ Len(replay[d]) <= BufferSize
              /\ Len(replay[c]) <= BufferSize /\ Len(queue[c]) <= QueueSize
          BY <1>1 DEF TypeOK
        <4>2. CASE d = c
          <5>1. Len(queue'[c]) = Len(queue[c]) - 1 /\ replay'[c] = replay[c] /\ Len(queue[c]) \in Nat
            BY <2>1, <2>3
          <5>2. ASSUME NEW n \in Nat, n <= QueueSize PROVE n - 1 <= QueueSize
            BY <1>1, <5>2
          <5> QED
            BY <4>1, <4>2, <5>1, <5>2
        <4>3. CASE d # c
          BY <2>3, <4>1, <4>3
        <4> QED
          BY <4>2, <4>3
      <3>2. sent' \in [Clients -> Seq(1 .. MaxSeq)] /\ queue' \in [Clients -> Seq(1 .. MaxSeq)]
        BY <1>1, <1>4, <2>1, <2>2 DEF TypeOK, SendQueued, Numbers
      <3> QED
        BY <1>1, <1>4, <3>1, <3>2 DEF TypeOK, SendQueued
    <2>5. Line(c)' = Line(c)
      <3>1. Line(c)' = Append(sent[c], Head(queue[c])) \o <<>> \o Tail(queue[c])
        BY <2>3 DEF Line
      <3>2. Line(c) = sent[c] \o <<>> \o queue[c]
        BY <2>3 DEF Line
      <3>3. /\ Append(sent[c], Head(queue[c])) \o <<>> = Append(sent[c], Head(queue[c]))
            /\ sent[c] \o <<>> = sent[c]
        BY <1>2, <2>2, ConcatEmptySeq
      <3>4. Append(sent[c], Head(queue[c])) \o Tail(queue[c]) = sent[c] \o queue[c]
        BY <1>2, <1>4, MoveHead DEF SendQueued, Drains
      <3> QED
        BY <3>1, <3>2, <3>3, <3>4
    <2>6. \A d \in Clients \ {c} : Line(d)' = Line(d)
      BY <2>3 DEF Line
    <2>7. \A d \in Subscribed' : d \in Subscribed /\ Line(d)' = Line(d)
      BY <2>3, <2>5, <2>6 DEF Subscribed
    <2> QED
      BY <1>4, <2>4, <2>7, SameLines DEF SendQueued
  <1> QED
    BY <1>3, <1>4

\* A client that leaves changes no line, and a closed connection has none
\* (events.py:22-25).
LEMMA EndInvariant ==
    ASSUME StreamInvariant, NEW c \in Clients, Leave(c) \/ SendFails(c)
    PROVE  StreamInvariant'
  <1>1. TypeOK /\ QueueSize \in Nat /\ BufferSize \in Nat /\ Len(<<>>) = 0
    BY StreamAssumption DEF StreamInvariant
  <1>2. CASE Leave(c)
    <2>1. TypeOK'
      BY <1>1, <1>2 DEF TypeOK, Leave
    <2>2. \A d \in Subscribed' : d \in Subscribed /\ Line(d)' = Line(d)
      BY <1>1, <1>2 DEF Subscribed, Line, Leave, TypeOK
    <2> QED
      BY <1>2, <2>1, <2>2, SameLines DEF Leave
  <1>3. CASE SendFails(c)
    <2>1. TypeOK'
      <3>1. \A d \in Clients : Len(queue'[d]) <= QueueSize /\ Len(replay'[d]) <= BufferSize
        BY <1>1, <1>3 DEF TypeOK, SendFails
      <3> QED
        BY <1>1, <1>3, <3>1 DEF TypeOK, SendFails
    <2>2. \A d \in Subscribed' : d \in Subscribed /\ Line(d)' = Line(d)
      BY <1>1, <1>3 DEF Subscribed, Line, SendFails, TypeOK
    <2> QED
      BY <1>3, <2>1, <2>2, SameLines DEF SendFails
  <1> QED
    BY <1>2, <1>3

-----------------------------------------------------------------------------
(* The theorems.                                                           *)

\* The lines of the clients are right in every reachable state.
THEOREM StreamInvariantHolds == Spec => []StreamInvariant
<1>1. Init => StreamInvariant
  <2> SUFFICES ASSUME Init PROVE StreamInvariant
    OBVIOUS
  <2>1. <<>> \in Seq(Numbers) /\ Len(<<>>) = 0 /\ Subscribed = {}
    BY DEF Init, Subscribed
  <2>2. TypeOK
    BY <2>1, StreamAssumption DEF Init, TypeOK, Numbers
  <2>3. Latest(buffer, seq)
    BY <2>1, StreamAssumption DEF Init, Latest
  <2> QED
    BY <2>1, <2>2, <2>3 DEF StreamInvariant, SinceIsPast
<1>2. StreamInvariant /\ [Next]_vars => StreamInvariant'
  <2> SUFFICES ASSUME StreamInvariant, [Next]_vars PROVE StreamInvariant'
    OBVIOUS
  <2>1. CASE Emit
    BY <2>1, EmitInvariant
  <2>2. ASSUME NEW c \in Clients, HandlerStep(c) PROVE StreamInvariant'
    BY <2>2, SendInvariant, EndInvariant DEF HandlerStep
  <2>3. ASSUME NEW c \in Clients, Leave(c) PROVE StreamInvariant'
    BY <2>3, EndInvariant
  <2>4. ASSUME NEW c \in Clients, NEW s \in 0 .. seq, Connect(c, s) PROVE StreamInvariant'
    BY <2>4, ConnectInvariant
  <2>5. CASE UNCHANGED vars
    <3>1. TypeOK'
      BY <2>5 DEF vars, TypeOK, StreamInvariant
    <3>2. \A d \in Subscribed' : d \in Subscribed /\ Line(d)' = Line(d)
      BY <2>5 DEF vars, Subscribed, Line
    <3> QED
      BY <2>5, <3>1, <3>2, SameLines DEF vars
  <2> QED
    BY <2>1, <2>2, <2>3, <2>4, <2>5 DEF Next
<1> QED
  BY <1>1, <1>2, PTL DEF Spec

\* The emitter keeps its limits: no buffer, queue or replay outgrows its size, for
\* any sizes (event_emitter.py:12-30).
THEOREM StreamTypeCorrect == Spec => []TypeOK
<1>1. StreamInvariant => TypeOK
  BY DEF StreamInvariant
<1> QED
  BY <1>1, StreamInvariantHolds, PTL

\* No client is sent an event twice or out of order, for any number of clients,
\* connections and events (events.py:15-21).
THEOREM OrderAndOnce == Spec => []InOrderOnce
<1>1. StreamInvariant => InOrderOnce
  BY DEF StreamInvariant, InOrderOnce, Orderly, Line
<1> QED
  BY <1>1, StreamInvariantHolds, PTL

\* No event disappears but at the limits of the buffer and of a queue, for any sizes
\* of these (event_emitter.py:19-25).
THEOREM EventsAreAccounted == Spec => []EveryEventAccounted
<1>1. StreamInvariant => EveryEventAccounted
  BY DEF StreamInvariant, EveryEventAccounted, Accounted, Line
<1> QED
  BY <1>1, StreamInvariantHolds, PTL

=============================================================================

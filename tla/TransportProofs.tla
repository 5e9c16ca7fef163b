--------------------------- MODULE TransportProofs ---------------------------
(***************************************************************************)
(* The transport, for any number of requests and signals, any bodies and   *)
(* any limit.                                                              *)
(***************************************************************************)
EXTENDS HttpTransport, SequenceTheorems, TLAPS

(* Decoding in pieces is decoding the whole when no character is cut.      *)
LEMMA DecodedType ==
  ASSUME NEW s \in Seq(Octet)
  PROVE  /\ Decoded(s) \in Seq(Octet \cup {"replacement"})
         /\ Len(Decoded(s)) = Len(s) /\ Len(s) \in Nat
         /\ \A i \in 1..Len(s) :
              Decoded(s)[i] = IF WellPlaced(s, i) THEN s[i] ELSE "replacement"
<1>1. \A i \in 1..Len(s) :
        (IF WellPlaced(s, i) THEN s[i] ELSE "replacement") \in Octet \cup {"replacement"}
  OBVIOUS
<1> QED BY <1>1 DEF Decoded

LEMMA Concatenation ==
  ASSUME NEW S, NEW s \in Seq(S), NEW t \in Seq(S)
  PROVE  /\ s \o t \in Seq(S) /\ Len(s) \in Nat /\ Len(t) \in Nat
         /\ Len(s \o t) = Len(s) + Len(t)
         /\ \A j \in 1..(Len(s) + Len(t)) :
              (s \o t)[j] = IF j <= Len(s) THEN s[j] ELSE t[j - Len(s)]
BY ConcatProperties, LenProperties

LEMMA DecodedSplit ==
  ASSUME NEW a \in Seq(Octet), NEW b \in Seq(Octet),
         EndsOpen(a) /\ Len(b) > 0 => b[1] # "trail"
  PROVE  Decoded(a \o b) = Decoded(a) \o Decoded(b)
<1> DEFINE ab == a \o b
           n == Len(a)
           T == Octet \cup {"replacement"}
<1>1. ab \in Seq(Octet) /\ Len(ab) = n + Len(b) /\ n \in Nat /\ Len(b) \in Nat
      /\ \A j \in 1..(n + Len(b)) : ab[j] = IF j <= n THEN a[j] ELSE b[j - n]
  BY ConcatProperties
<1>2. n > 0 /\ Len(b) > 0 /\ a[n] = "lead" => b[1] # "trail" BY DEF EndsOpen
<1> HIDE DEF ab, n
<1>3. ASSUME NEW j \in 1..(n + Len(b)), j <= n
      PROVE  WellPlaced(ab, j) <=> WellPlaced(a, j)
  <2>1. n = Len(a) BY DEF n
  <2>2. ab[j] = a[j] BY <1>1, <1>3
  <2>3. j > 1 => ab[j - 1] = a[j - 1]
    <3>1. j > 1 => j - 1 \in 1..(n + Len(b)) /\ j - 1 <= n BY <1>1, <1>3
    <3> QED BY <1>1, <3>1
  <2>4. j < n => ab[j + 1] = a[j + 1]
    <3>1. j < n => j + 1 \in 1..(n + Len(b)) /\ j + 1 <= n BY <1>1, <1>3
    <3> QED BY <1>1, <3>1
  <2>5. j = n /\ j < Len(ab) => ab[j + 1] = b[1]
    <3>1. j = n /\ j < Len(ab) => j + 1 \in 1..(n + Len(b)) /\ ~(j + 1 <= n) /\ (j + 1) - n = 1
      BY <1>1, <1>3
    <3> QED BY <1>1, <3>1
  <2>6. j = n /\ j < Len(ab) => ~(a[j] = "lead" /\ ab[j + 1] = "trail")
    BY <1>1, <1>2, <2>5
  <2>7. j < n => j < Len(ab) BY <1>1
  <2> QED BY <1>1, <1>3, <2>1, <2>2, <2>3, <2>4, <2>6, <2>7 DEF WellPlaced
<1>4. ASSUME NEW j \in 1..(n + Len(b)), ~(j <= n)
      PROVE  j - n \in 1..Len(b) /\ (WellPlaced(ab, j) <=> WellPlaced(b, j - n))
  <2>1. j - n \in 1..Len(b) /\ (j < Len(ab) <=> j - n < Len(b)) /\ (j - n > 1 => j > 1)
    <3>1. j > n /\ j \in Nat /\ j <= n + Len(b) BY <1>1, <1>4
    <3>2. j - n \in 1..Len(b) BY <1>1, <3>1
    <3>3. j < Len(ab) <=> j - n < Len(b) BY <1>1, <3>1
    <3>4. j - n > 1 => j > 1 BY <1>1, <3>1
    <3> QED BY <3>2, <3>3, <3>4
  <2>2. ab[j] = b[j - n] BY <1>1, <1>4
  <2>3. j - n < Len(b) => ab[j + 1] = b[(j - n) + 1]
    <3>1. j - n < Len(b) =>
            j + 1 \in 1..(n + Len(b)) /\ ~(j + 1 <= n) /\ (j + 1) - n = (j - n) + 1
      BY <1>1, <1>4
    <3> QED BY <1>1, <3>1
  <2>4. j - n > 1 => ab[j - 1] = b[(j - n) - 1]
    <3>1. j - n > 1 => j - 1 \in 1..(n + Len(b)) /\ ~(j - 1 <= n) /\ (j - 1) - n = (j - n) - 1
      BY <1>1, <1>4
    <3> QED BY <1>1, <3>1
  <2>5. j - n = 1 /\ j > 1 => ~(b[j - n] = "trail" /\ ab[j - 1] = "lead")
    <3> SUFFICES ASSUME j - n = 1, j > 1 PROVE ~(b[1] = "trail" /\ ab[j - 1] = "lead")
      OBVIOUS
    <3>1. j - 1 = n /\ n \in 1..(n + Len(b)) /\ n > 0 /\ Len(b) > 0 BY <1>1, <1>4
    <3>2. ab[j - 1] = a[n] BY <1>1, <3>1
    <3> QED BY <1>2, <3>1, <3>2
  <2> QED BY <1>1, <1>4, <2>1, <2>2, <2>3, <2>4, <2>5 DEF WellPlaced
<1> DEFINE D == Decoded(a) \o Decoded(b)
<1>5. /\ D \in Seq(T) /\ Len(D) = n + Len(b)
      /\ \A j \in 1..(n + Len(b)) : D[j] = IF j <= n THEN Decoded(a)[j] ELSE Decoded(b)[j - n]
  <2>1. Decoded(a) \in Seq(T) /\ Decoded(b) \in Seq(T)
        /\ Len(Decoded(a)) = n /\ Len(Decoded(b)) = Len(b)
    BY DecodedType DEF n
  <2> DEFINE da == Decoded(a)
             db == Decoded(b)
  <2> HIDE DEF T, da, db
  <2>2. da \in Seq(T) /\ db \in Seq(T) /\ Len(da) = n /\ Len(db) = Len(b) BY <2>1 DEF da, db
  <2>3. /\ da \o db \in Seq(T) /\ Len(da \o db) = Len(da) + Len(db)
        /\ \A j \in 1..(Len(da) + Len(db)) :
             (da \o db)[j] = IF j <= Len(da) THEN da[j] ELSE db[j - Len(da)]
    BY <2>2, Concatenation
  <2> QED BY <2>2, <2>3 DEF da, db
<1>6. Decoded(ab) \in Seq(T) /\ Len(Decoded(ab)) = n + Len(b) BY <1>1, DecodedType
<1> HIDE DEF D
<1>7. ASSUME NEW j \in 1..(n + Len(b)) PROVE Decoded(ab)[j] = D[j]
  <2>1. Decoded(ab)[j] = IF WellPlaced(ab, j) THEN ab[j] ELSE "replacement"
    BY <1>1, DecodedType
  <2>2. CASE j <= n
    <3>1. j \in 1..Len(a) BY <1>1, <2>2 DEF n
    <3>2. Decoded(a)[j] = IF WellPlaced(a, j) THEN a[j] ELSE "replacement" BY <3>1, DecodedType
    <3> QED BY <1>1, <1>3, <1>5, <2>1, <2>2, <3>2
  <2>3. CASE ~(j <= n)
    <3>1. j - n \in 1..Len(b) /\ (WellPlaced(ab, j) <=> WellPlaced(b, j - n)) BY <1>4, <2>3
    <3>2. Decoded(b)[j - n] = IF WellPlaced(b, j - n) THEN b[j - n] ELSE "replacement"
      BY <3>1, DecodedType
    <3> QED BY <1>1, <1>5, <2>1, <2>3, <3>1, <3>2
  <2> QED BY <2>2, <2>3
<1> HIDE DEF T
<1>8. Decoded(ab) = D BY <1>5, <1>6, <1>7, SeqEqual
<1> QED BY <1>8 DEF ab, D

(* What the decoder holds back and what it lets go make up what it got.    *)
LEMMA HoldingBack ==
  ASSUME NEW s \in Seq(Octet)
  PROVE  /\ Complete(s) \in Seq(Octet) /\ HeldBack(s) \in Seq(Octet)
         /\ Complete(s) \o HeldBack(s) = s
         /\ Len(Complete(s)) + Len(HeldBack(s)) = Len(s)
         /\ EndsOpen(Complete(s)) => Len(HeldBack(s)) = 1 /\ HeldBack(s)[1] = "lead"
         /\ Decoded(Complete(s)) \o Decoded(HeldBack(s)) = Decoded(s)
<1>1. << >> \in Seq(Octet) /\ Len(<< >>) = 0 BY EmptySeq
<1>2. CASE ~EndsOpen(s)
  <2>1. Complete(s) = s /\ HeldBack(s) = << >> BY <1>2 DEF Complete, HeldBack
  <2>2. s \o << >> = s BY ConcatEmptySeq
  <2>3. Decoded(s \o << >>) = Decoded(s) \o Decoded(<< >>) BY <1>1, <1>2, DecodedSplit
  <2>4. Len(s) \in Nat BY LenProperties
  <2> QED BY <1>1, <1>2, <2>1, <2>2, <2>3, <2>4
<1>3. CASE EndsOpen(s)
  <2> DEFINE c == SubSeq(s, 1, Len(s) - 1)
             l == <<"lead">>
  <2>1. Complete(s) = c /\ HeldBack(s) = l BY <1>3 DEF Complete, HeldBack
  <2>2. Len(s) \in Nat /\ Len(s) > 0 /\ s[Len(s)] = "lead" BY <1>3 DEF EndsOpen
  <2>3. l \in Seq(Octet) /\ Len(l) = 1 /\ l[1] = "lead" BY DEF Octet
  <2> HIDE DEF l
  <2>4. 1 \in Int /\ Len(s) - 1 \in Int /\ \A i \in 1..(Len(s) - 1) : s[i] \in Octet
    BY <2>2
  <2>5. c \in Seq(Octet) /\ Len(c) = Len(s) - 1
    <3>1. SubSeq(s, 1, Len(s) - 1) \in Seq(Octet)
      BY <2>4, SubSeqProperties
    <3>2. Len(SubSeq(s, 1, Len(s) - 1)) = IF 1 <= Len(s) - 1 THEN Len(s) - 1 - 1 + 1 ELSE 0
      BY <2>4, SubSeqProperties
    <3> HIDE DEF c
    <3>3. SubSeq(s, 1, Len(s) - 1) = c BY DEF c
    <3> QED BY <2>2, <3>1, <3>2, <3>3
  <2>6. c \o l = s
    <3>1. /\ 1 \in 1..(Len(s) + 1) /\ Len(s) - 1 \in (1 - 1)..Len(s)
          /\ Len(s) \in (Len(s) - 1)..Len(s)
      BY <2>2
    <3>2. SubSeq(s, 1, Len(s) - 1) \o SubSeq(s, (Len(s) - 1) + 1, Len(s)) = SubSeq(s, 1, Len(s))
      BY <3>1, ConcatAdjacentSubSeq
    <3>3. SubSeq(s, (Len(s) - 1) + 1, Len(s)) = l
      <4>1. (Len(s) - 1) + 1 = Len(s) BY <2>2
      <4> DEFINE e == SubSeq(s, Len(s), Len(s))
      <4>2. Len(s) \in Int /\ \A i \in Len(s)..Len(s) : s[i] \in Octet BY <2>2
      <4>3. /\ e \in Seq(Octet)
            /\ Len(e) = IF Len(s) <= Len(s) THEN Len(s) - Len(s) + 1 ELSE 0
            /\ \A i \in 1..(Len(s) - Len(s) + 1) : e[i] = s[Len(s) + i - 1]
        BY <4>2, SubSeqProperties
      <4> HIDE DEF e
      <4>4. Len(e) = 1 /\ e[1] = "lead"
        <5>1. 1 \in 1..(Len(s) - Len(s) + 1) /\ Len(s) + 1 - 1 = Len(s) BY <2>2
        <5> QED BY <2>2, <4>3, <5>1
      <4>5. \A i \in 1..Len(e) : e[i] = l[i] BY <2>3, <4>4
      <4>6. e = l BY <2>3, <4>3, <4>4, <4>5, SeqEqual
      <4> QED BY <4>1, <4>6 DEF e
    <3>4. SubSeq(s, 1, Len(s)) = s BY SubSeqFull
    <3> QED BY <3>2, <3>3, <3>4
  <2> HIDE DEF c
  <2>7. Decoded(c \o l) = Decoded(c) \o Decoded(l) BY <2>3, <2>5, DecodedSplit
  <2> QED BY <2>1, <2>2, <2>3, <2>5, <2>6, <2>7
<1> QED BY <1>2, <1>3

(* One chunk more.                                                         *)
LEMMA StreamDecodes ==
  ASSUME NEW s \in Seq(Octet), NEW c \in Seq(Octet), Len(c) > 0
  PROVE  LET in == HeldBack(s) \o c IN
         /\ HeldBack(in) = HeldBack(s \o c)
         /\ Decoded(Complete(s)) \o Decoded(Complete(in)) = Decoded(Complete(s \o c))
<1> DEFINE x == Complete(s)
           h == HeldBack(s)
           in == h \o c
           sc == s \o c
           y == Complete(in)
<1>1. x \in Seq(Octet) /\ h \in Seq(Octet) /\ x \o h = s /\ (EndsOpen(x) => Len(h) = 1 /\ h[1] = "lead")
  BY HoldingBack
<1> HIDE DEF x, h
<1>2. in \in Seq(Octet) /\ Len(in) = Len(h) + Len(c)
      /\ \A i \in 1..(Len(h) + Len(c)) : in[i] = IF i <= Len(h) THEN h[i] ELSE c[i - Len(h)]
  BY <1>1, ConcatProperties
<1>3. sc = x \o in
  <2>0. x \in Seq(Octet) /\ h \in Seq(Octet) BY <1>1
  <2>1. (x \o h) \o c = x \o (h \o c) BY <2>0, ConcatAssociative
  <2> QED BY <1>1, <2>1
<1>4. Len(x) \in Nat /\ Len(h) \in Nat /\ Len(c) \in Nat BY <1>1, LenProperties
<1> HIDE DEF in, sc
<1>5. sc \in Seq(Octet) /\ Len(sc) = Len(x) + Len(in) /\ Len(in) > 0 /\ Len(in) \in Nat
      /\ \A i \in 1..(Len(x) + Len(in)) : sc[i] = IF i <= Len(x) THEN x[i] ELSE in[i - Len(x)]
  <2>1. /\ x \o in \in Seq(Octet) /\ Len(x \o in) = Len(x) + Len(in)
        /\ \A i \in 1..(Len(x) + Len(in)) :
             (x \o in)[i] = IF i <= Len(x) THEN x[i] ELSE in[i - Len(x)]
    <3>1. x \in Seq(Octet) /\ in \in Seq(Octet) BY <1>1, <1>2
    <3> QED BY <3>1, Concatenation
  <2>2. Len(in) > 0 /\ Len(in) \in Nat BY <1>2, <1>4
  <2> QED BY <1>3, <2>1, <2>2
<1>6. in[Len(in)] = sc[Len(sc)]
  <2>1. Len(sc) \in 1..(Len(x) + Len(in)) /\ ~(Len(sc) <= Len(x)) /\ Len(sc) - Len(x) = Len(in)
    BY <1>4, <1>5
  <2> QED BY <1>5, <2>1
<1>7. EndsOpen(in) <=> EndsOpen(sc) BY <1>4, <1>5, <1>6 DEF EndsOpen
<1>8. HeldBack(in) = HeldBack(sc) BY <1>7 DEF HeldBack
<1>9. y \in Seq(Octet) /\ y \o HeldBack(in) = in BY <1>2, HoldingBack
<1>10. EndsOpen(x) /\ Len(y) > 0 => y[1] # "trail"
  <2> SUFFICES ASSUME EndsOpen(x), Len(y) > 0 PROVE y[1] # "trail" OBVIOUS
  <2>2. in[1] = "lead"
    <3>1. Len(h) = 1 /\ h[1] = "lead" BY <1>1
    <3>2. 1 \in 1..(Len(h) + Len(c)) BY <1>4, <3>1
    <3> QED BY <1>2, <3>1, <3>2
  <2>3. y[1] = in[1]
    <3> DEFINE r == HeldBack(in)
    <3>1. r \in Seq(Octet) BY <1>2, HoldingBack
    <3> HIDE DEF y, r
    <3>2. Len(y) \in Nat /\ Len(r) \in Nat BY <1>9, <3>1, LenProperties
    <3>3. 1 \in 1..(Len(y) + Len(r)) /\ 1 <= Len(y) BY <3>2
    <3>4. (y \o r)[1] = IF 1 <= Len(y) THEN y[1] ELSE r[1 - Len(y)]
      BY <1>9, <3>1, <3>3, ConcatProperties
    <3> QED BY <1>9, <3>3, <3>4 DEF r
  <2> QED BY <2>2, <2>3
<1>11. Complete(sc) = x \o y
  <2> DEFINE r == HeldBack(in)
  <2>1. r \in Seq(Octet) /\ Complete(sc) \in Seq(Octet) /\ Complete(sc) \o r = sc
    BY <1>2, <1>5, <1>8, HoldingBack
  <2>2. r \in Seq(Octet) /\ y \o r = in BY <1>9, <2>1
  <2> HIDE DEF y, r
  <2>3. (x \o y) \o r = x \o (y \o r)
    <3>1. x \in Seq(Octet) /\ y \in Seq(Octet) /\ r \in Seq(Octet) BY <1>1, <1>9, <2>1
    <3> QED BY <3>1, ConcatAssociative
  <2>4. (x \o y) \o r = Complete(sc) \o r BY <1>3, <2>1, <2>2, <2>3
  <2>5. x \o y \in Seq(Octet) BY <1>1, <1>9, ConcatProperties
  <2> QED BY <2>1, <2>4, <2>5, ConcatSimplifications
<1> HIDE DEF y
<1>12. Decoded(x \o y) = Decoded(x) \o Decoded(y) BY <1>1, <1>9, <1>10, DecodedSplit
<1> QED BY <1>8, <1>11, <1>12 DEF in, sc, x, y, h

-----------------------------------------------------------------------------
(* What a step leaves alone keeps what it was.                             *)
Kept(p) ==
  /\ phase'[p] = phase[p] /\ body'[p] = body[p] /\ total'[p] = total[p]
  /\ held'[p] = held[p] /\ text'[p] = text[p] /\ result'[p] = result[p]

Sound(p) ==
  /\ DecodedSoFar(p)
  /\ result[p] \in {"answer", "notJson"} => text[p] = Decoded(body[p])
  /\ phase[p] = "reading" => total[p] <= Limit /\ Len(text[p]) + Len(held[p]) = total[p]
  /\ phase[p] = "cancelling" => total[p] > Limit /\ Len(text[p]) + Len(held[p]) <= Limit

LEMMA InvParts ==
  TransportInv <=>
    TransportTypeOK /\ NothingOutlivesTheRequest /\ \A p \in Requests : Sound(p)
BY DEF TransportInv, Sound, AnswersAreWhole, StreamsAreBounded

LEMMA InvPartsAfter ==
  TransportInv' <=>
    TransportTypeOK' /\ NothingOutlivesTheRequest' /\ \A p \in Requests : Sound(p)'
BY DEF TransportInv, Sound, AnswersAreWhole, StreamsAreBounded

LEMMA KeptIsSound ==
  ASSUME NEW p, Sound(p), Kept(p)
  PROVE  Sound(p)'
BY DEF Sound, Kept, DecodedSoFar

(* A request settles: its timer and its listener go with it.               *)
LEMMA SettlesClearly ==
  ASSUME TransportTypeOK, NothingOutlivesTheRequest, NEW q \in Requests, InFlight(q),
         NEW r \in {"answer", "status", "oversized", "notJson", "failed"},
         Settles(q, r), UNCHANGED <<signal, fired, aborted>>,
         r \in {"answer", "notJson", "status"} => q \notin aborted
  PROVE  /\ NothingOutlivesTheRequest'
         /\ phase' \in [Requests -> {"idle", "fetching", "reading", "buffering", "cancelling", "settled"}]
         /\ signal' \in [Requests -> Signals \cup {NoSignal}]
         /\ armed' \subseteq Requests /\ listening' \subseteq Requests /\ aborted' \subseteq Requests
         /\ fired' \subseteq Signals
         /\ result' \in [Requests -> {"none", "answer", "status", "oversized", "notJson", "failed"}]
         /\ phase'[q] = "settled" /\ result'[q] = r
         /\ \A p \in Requests : p # q => phase'[p] = phase[p] /\ result'[p] = result[p]
<1>1. /\ phase' = [phase EXCEPT ![q] = "settled"] /\ result' = [result EXCEPT ![q] = r]
      /\ armed' = armed \ {q} /\ listening' = listening \ {q}
      /\ signal' = signal /\ fired' = fired /\ aborted' = aborted
  BY DEF Settles
<1>2. /\ phase'[q] = "settled" /\ result'[q] = r
      /\ \A p \in Requests : p # q => phase'[p] = phase[p] /\ result'[p] = result[p]
  BY <1>1 DEF TransportTypeOK
<1>3. NothingOutlivesTheRequest'
  BY <1>1, <1>2 DEF NothingOutlivesTheRequest, InFlight, TransportTypeOK
<1> QED BY <1>1, <1>2, <1>3 DEF TransportTypeOK

LEMMA TransportInit == Init => TransportInv
<1> SUFFICES ASSUME Init PROVE TransportInv OBVIOUS
<1>1. << >> \in Seq(Octet) /\ << >> \in Seq(Octet \cup {"replacement"}) /\ Len(<< >>) = 0
  BY EmptySeq
<1>2. TransportTypeOK BY <1>1 DEF Init, TransportTypeOK
<1>3. NothingOutlivesTheRequest BY DEF Init, NothingOutlivesTheRequest, InFlight
<1>4. \A p \in Requests : Sound(p) BY <1>1 DEF Init, Sound, DecodedSoFar
<1> QED BY <1>2, <1>3, <1>4, InvParts

LEMMA StartStep ==
  ASSUME TransportInv, NEW q \in Requests, NEW s \in Signals \cup {NoSignal}, Start(q, s)
  PROVE  TransportInv'
<1>1. TransportTypeOK /\ NothingOutlivesTheRequest /\ \A p \in Requests : Sound(p) BY InvParts
<1>2. /\ phase[q] = "idle" /\ phase' = [phase EXCEPT ![q] = "fetching"]
      /\ signal' = [signal EXCEPT ![q] = s] /\ armed' = armed \cup {q}
      /\ listening' = IF s = NoSignal THEN listening ELSE listening \cup {q}
      /\ fired' = fired /\ aborted' = aborted /\ result' = result
      /\ body' = body /\ total' = total /\ held' = held /\ text' = text
  BY DEF Start, response
<1>3. /\ phase'[q] = "fetching" /\ signal'[q] = s
      /\ \A p \in Requests : p # q => phase'[p] = phase[p] /\ signal'[p] = signal[p]
  BY <1>1, <1>2 DEF TransportTypeOK
<1>4. TransportTypeOK' BY <1>1, <1>2 DEF TransportTypeOK
<1>5. q \notin listening /\ result[q] = "none"
  BY <1>1, <1>2 DEF NothingOutlivesTheRequest, InFlight, Sound, DecodedSoFar
<1>6. NothingOutlivesTheRequest'
  BY <1>1, <1>2, <1>3, <1>5 DEF NothingOutlivesTheRequest, InFlight
<1>7. ASSUME NEW p \in Requests PROVE Sound(p)'
  <2>1. CASE p # q BY <1>1, <1>2, <1>3, <2>1, KeptIsSound DEF Kept
  <2>2. CASE p = q
    <3>1. Sound(q)' BY <1>1, <1>2, <1>3, <1>5 DEF Sound, DecodedSoFar
    <3> QED BY <2>2, <3>1
  <2> QED BY <2>1, <2>2
<1> QED BY <1>4, <1>6, <1>7, InvPartsAfter

LEMMA RespondsStep ==
  ASSUME TransportInv, NEW q \in Requests, NEW b \in Bodies, NEW ok \in BOOLEAN,
         NEW streamed \in BOOLEAN, NEW d \in {0, Limit, Limit + 1}, Responds(q, b, ok, d, streamed)
  PROVE  TransportInv'
<1>1. TransportTypeOK /\ NothingOutlivesTheRequest /\ \A p \in Requests : Sound(p) BY InvParts
<1>2. /\ phase[q] = "fetching" /\ q \notin aborted
      /\ signal' = signal /\ fired' = fired /\ aborted' = aborted
      /\ total' = total /\ held' = held /\ text' = text
  BY DEF Responds
<1>3. CASE ~ok \/ d > Limit
  <2> DEFINE r == IF ok THEN "oversized" ELSE "status"
  <2>1. Settles(q, r) /\ body' = body BY <1>3 DEF Responds
  <2>2. r \in {"answer", "status", "oversized", "notJson", "failed"} OBVIOUS
  <2>3. InFlight(q) BY <1>2 DEF InFlight
  <2>4. r \notin {"answer", "notJson"} OBVIOUS
  <2> HIDE DEF r
  <2>5. /\ NothingOutlivesTheRequest' /\ TransportTypeOK'
        /\ phase'[q] = "settled" /\ result'[q] = r
        /\ \A p \in Requests : p # q => phase'[p] = phase[p] /\ result'[p] = result[p]
    BY <1>1, <1>2, <2>1, <2>2, <2>3, SettlesClearly DEF TransportTypeOK
  <2>6. ASSUME NEW p \in Requests PROVE Sound(p)'
    <3>1. CASE p # q BY <1>1, <1>2, <2>1, <2>5, <3>1, KeptIsSound DEF Kept
    <3>2. CASE p = q
      <4>1. Sound(q)' BY <1>1, <1>2, <2>1, <2>2, <2>4, <2>5 DEF Sound, DecodedSoFar
      <4> QED BY <3>2, <4>1
    <3> QED BY <3>1, <3>2
  <2> QED BY <2>5, <2>6, InvPartsAfter
<1>4. CASE ~(~ok \/ d > Limit)
  <2>1. /\ phase' = [phase EXCEPT ![q] = IF streamed THEN "reading" ELSE "buffering"]
        /\ body' = [body EXCEPT ![q] = b]
        /\ armed' = armed /\ listening' = listening /\ result' = result
    BY <1>4 DEF Responds
  <2>2. b \in Seq(Octet) BY TransportAssumption
  <2>3. /\ phase'[q] \in {"reading", "buffering"} /\ body'[q] = b
        /\ \A p \in Requests : p # q => phase'[p] = phase[p] /\ body'[p] = body[p]
    BY <1>1, <2>1 DEF TransportTypeOK
  <2>4. TransportTypeOK' BY <1>1, <1>2, <2>1, <2>2 DEF TransportTypeOK
  <2>5. NothingOutlivesTheRequest'
    BY <1>1, <1>2, <2>1, <2>3 DEF NothingOutlivesTheRequest, InFlight
  <2>6. Sound(q)'
    <3>1. total[q] = 0 /\ held[q] = << >> /\ text[q] = << >> /\ result[q] = "none"
      BY <1>1, <1>2 DEF Sound, DecodedSoFar
    <3>2. SubSeq(b, 1, 0) = << >> /\ Len(<< >>) = 0 /\ Len(b) \in Nat BY <2>2, SubSeqEmpty
    <3>3. Complete(<< >>) = << >> /\ HeldBack(<< >>) = << >> BY DEF Complete, HeldBack, EndsOpen
    <3>4. Decoded(<< >>) = << >>
      <4>1. << >> \in Seq(Octet) BY EmptySeq
      <4>2. Len(Decoded(<< >>)) = 0 /\ Decoded(<< >>) \in Seq(Octet \cup {"replacement"})
        BY <3>2, <4>1, DecodedType
      <4> QED BY <4>2
    <3>5. Complete(SubSeq(b, 1, 0)) = << >> /\ HeldBack(SubSeq(b, 1, 0)) = << >>
      BY <3>2, <3>3
    <3>6. total'[q] = 0 /\ held'[q] = << >> /\ text'[q] = << >> /\ result'[q] = "none"
      BY <1>2, <2>1, <3>1
    <3> QED BY <2>3, <3>2, <3>4, <3>5, <3>6, TransportAssumption
            DEF Sound, DecodedSoFar
  <2>7. ASSUME NEW p \in Requests PROVE Sound(p)'
    <3>1. CASE p # q BY <1>1, <1>2, <2>1, <2>3, <3>1, KeptIsSound DEF Kept
    <3> QED BY <2>6, <3>1
  <2> QED BY <2>4, <2>5, <2>7, InvPartsAfter
<1> QED BY <1>3, <1>4

LEMMA ReadsStep ==
  ASSUME TransportInv, NEW q \in Requests, NEW n \in 1..(Len(body[q]) - total[q]), Reads(q, n)
  PROVE  TransportInv'
<1> DEFINE s == SubSeq(body[q], 1, total[q])
           c == SubSeq(body[q], total[q] + 1, total[q] + n)
<1>1. TransportTypeOK /\ NothingOutlivesTheRequest /\ \A p \in Requests : Sound(p) BY InvParts
<1>2. /\ phase[q] = "reading" /\ total' = [total EXCEPT ![q] = @ + n]
      /\ signal' = signal /\ fired' = fired /\ aborted' = aborted /\ body' = body
      /\ armed' = armed /\ listening' = listening /\ result' = result
  BY DEF Reads
<1>3. /\ body[q] \in Seq(Octet) /\ Len(body[q]) \in Nat /\ total[q] \in Nat /\ n \in Nat /\ n > 0
      /\ total[q] + n <= Len(body[q])
  BY <1>1, LenProperties DEF TransportTypeOK
<1>4. /\ text[q] = Decoded(Complete(s)) /\ held[q] = HeldBack(s) /\ result[q] = "none"
      /\ Len(text[q]) + Len(held[q]) = total[q] /\ total[q] <= Limit
  BY <1>1, <1>2 DEF Sound, DecodedSoFar
<1>5. /\ total'[q] = total[q] + n
      /\ \A p \in Requests : p # q => total'[p] = total[p]
  BY <1>1, <1>2 DEF TransportTypeOK
<1>6. CASE Exceeds(total[q] + n)
  <2>1. phase' = [phase EXCEPT ![q] = "cancelling"] /\ held' = held /\ text' = text
    BY <1>6 DEF Reads
  <2>2. phase'[q] = "cancelling" /\ \A p \in Requests : p # q => phase'[p] = phase[p]
    BY <1>1, <2>1 DEF TransportTypeOK
  <2>3. TransportTypeOK' BY <1>1, <1>2, <1>3, <2>1 DEF TransportTypeOK
  <2>4. NothingOutlivesTheRequest'
    BY <1>1, <1>2, <2>2 DEF NothingOutlivesTheRequest, InFlight
  <2>5. Sound(q)'
    BY <1>2, <1>3, <1>4, <1>5, <1>6, <2>1, <2>2 DEF Sound, DecodedSoFar, Exceeds
  <2>6. ASSUME NEW p \in Requests PROVE Sound(p)'
    <3>1. CASE p # q BY <1>1, <1>2, <1>5, <2>1, <2>2, <3>1, KeptIsSound DEF Kept
    <3> QED BY <2>5, <3>1
  <2> QED BY <2>3, <2>4, <2>6, InvPartsAfter
<1>7. CASE ~Exceeds(total[q] + n)
  <2> DEFINE in == held[q] \o c
  <2>1. /\ text' = [text EXCEPT ![q] = @ \o Decoded(Complete(in))]
        /\ held' = [held EXCEPT ![q] = HeldBack(in)] /\ phase' = phase
    BY <1>7 DEF Reads, Decodes
  <2>2. s \in Seq(Octet) /\ c \in Seq(Octet) /\ Len(s) = total[q] /\ Len(c) = n
        /\ s \o c = SubSeq(body[q], 1, total[q] + n)
    <3>1. /\ 1 \in 1..(Len(body[q]) + 1) /\ total[q] \in (1 - 1)..Len(body[q])
          /\ total[q] + n \in total[q]..Len(body[q])
      BY <1>3
    <3>2. s \o c = SubSeq(body[q], 1, total[q] + n) BY <1>3, <3>1, ConcatAdjacentSubSeq
    <3>3. \A i \in 1..total[q] : body[q][i] \in Octet BY <1>3
    <3>4. s \in Seq(Octet) /\ Len(s) = IF 1 <= total[q] THEN total[q] - 1 + 1 ELSE 0
      BY <1>3, <3>3, SubSeqProperties
    <3>5. \A i \in (total[q] + 1)..(total[q] + n) : body[q][i] \in Octet BY <1>3
    <3>6. /\ c \in Seq(Octet)
          /\ Len(c) = IF total[q] + 1 <= total[q] + n THEN (total[q] + n) - (total[q] + 1) + 1 ELSE 0
      BY <1>3, <3>5, SubSeqProperties
    <3> HIDE DEF s, c
    <3> QED BY <1>3, <3>2, <3>4, <3>6
  <2>3. /\ HeldBack(in) = HeldBack(s \o c)
        /\ Decoded(Complete(s)) \o Decoded(Complete(in)) = Decoded(Complete(s \o c))
    BY <1>3, <1>4, <2>2, StreamDecodes
  <2>4. s \o c \in Seq(Octet) /\ Len(s \o c) = total[q] + n
    <3> HIDE DEF s, c
    <3>1. s \in Seq(Octet) /\ c \in Seq(Octet) BY <2>2
    <3>2. s \o c \in Seq(Octet) /\ Len(s \o c) = Len(s) + Len(c) BY <3>1, ConcatProperties
    <3>3. Len(s) = total[q] /\ Len(c) = n BY <2>2
    <3> QED BY <3>2, <3>3
  <2> HIDE DEF in, s, c
  <2>5. /\ text'[q] = Decoded(Complete(s \o c)) /\ held'[q] = HeldBack(s \o c)
        /\ \A p \in Requests : p # q => text'[p] = text[p] /\ held'[p] = held[p]
    BY <1>1, <1>4, <2>1, <2>3 DEF TransportTypeOK
  <2>6. /\ Complete(s \o c) \in Seq(Octet) /\ HeldBack(s \o c) \in Seq(Octet)
        /\ Len(Complete(s \o c)) + Len(HeldBack(s \o c)) = total[q] + n
    BY <2>4, HoldingBack
  <2>7. /\ Decoded(Complete(s \o c)) \in Seq(Octet \cup {"replacement"})
        /\ Len(Decoded(Complete(s \o c))) = Len(Complete(s \o c))
    BY <2>6, DecodedType
  <2>8. TransportTypeOK'
    <3>1. text' = [text EXCEPT ![q] = Decoded(Complete(s \o c))]
      BY <1>1, <2>1, <2>5 DEF TransportTypeOK
    <3>2. held' = [held EXCEPT ![q] = HeldBack(s \o c)]
      BY <1>1, <2>1, <2>5 DEF TransportTypeOK
    <3> DEFINE x == Decoded(Complete(s \o c))
               h == HeldBack(s \o c)
    <3>3. x \in Seq(Octet \cup {"replacement"}) /\ h \in Seq(Octet) BY <2>6, <2>7
    <3>4. text' = [text EXCEPT ![q] = x] /\ held' = [held EXCEPT ![q] = h] BY <3>1, <3>2
    <3> HIDE DEF x, h
    <3>5. text' \in [Requests -> Seq(Octet \cup {"replacement"})]
      BY <1>1, <3>3, <3>4 DEF TransportTypeOK
    <3>6. held' \in [Requests -> Seq(Octet)] BY <1>1, <3>3, <3>4 DEF TransportTypeOK
    <3>7. total' \in [Requests -> Nat] BY <1>1, <1>2, <1>3 DEF TransportTypeOK
    <3> QED BY <1>1, <1>2, <2>1, <3>5, <3>6, <3>7 DEF TransportTypeOK
  <2>9. NothingOutlivesTheRequest'
    BY <1>1, <1>2, <2>1 DEF NothingOutlivesTheRequest, InFlight
  <2>10. Sound(q)'
    <3>1. total'[q] <= Limit BY <1>3, <1>5, <1>7, TransportAssumption DEF Exceeds
    <3>2. body'[q] = body[q] /\ phase'[q] = "reading" /\ result'[q] = "none"
      BY <1>2, <1>4, <2>1
    <3>3. Len(text'[q]) + Len(held'[q]) = total'[q] BY <1>5, <2>5, <2>6, <2>7
    <3>4. SubSeq(body'[q], 1, total'[q]) = s \o c BY <1>5, <2>2, <3>2
    <3>5. total'[q] <= Len(body'[q]) BY <1>3, <1>5, <3>2
    <3> QED BY <2>5, <3>1, <3>2, <3>3, <3>4, <3>5 DEF Sound, DecodedSoFar
  <2>11. ASSUME NEW p \in Requests PROVE Sound(p)'
    <3>1. CASE p # q BY <1>1, <1>2, <1>5, <2>1, <2>5, <3>1, KeptIsSound DEF Kept
    <3> QED BY <2>10, <3>1
  <2> QED BY <2>8, <2>9, <2>11, InvPartsAfter
<1> QED BY <1>6, <1>7

(* The steps that settle a request and leave its text alone.               *)
LEMMA SettlesStep ==
  ASSUME TransportInv, NEW q \in Requests, InFlight(q), NEW r \in {"oversized", "failed"},
         Settles(q, r), UNCHANGED <<signal, fired, aborted, response>>
  PROVE  TransportInv'
<1>1. TransportTypeOK /\ NothingOutlivesTheRequest /\ \A p \in Requests : Sound(p) BY InvParts
<1>2. /\ signal' = signal /\ fired' = fired /\ aborted' = aborted
      /\ body' = body /\ total' = total /\ held' = held /\ text' = text
  BY DEF response
<1>3. r \in {"answer", "status", "oversized", "notJson", "failed"}
      /\ r \notin {"answer", "notJson", "status"}
  OBVIOUS
<1>4. /\ NothingOutlivesTheRequest' /\ TransportTypeOK'
      /\ phase'[q] = "settled" /\ result'[q] = r
      /\ \A p \in Requests : p # q => phase'[p] = phase[p] /\ result'[p] = result[p]
  BY <1>1, <1>2, <1>3, SettlesClearly DEF TransportTypeOK
<1>5. ASSUME NEW p \in Requests PROVE Sound(p)'
  <2>1. CASE p # q BY <1>1, <1>2, <1>4, <2>1, KeptIsSound DEF Kept
  <2>2. Sound(q)' BY <1>1, <1>2, <1>3, <1>4 DEF Sound, DecodedSoFar
  <2> QED BY <2>1, <2>2
<1> QED BY <1>4, <1>5, InvPartsAfter

(* The steps that settle a request with the text of its whole body.        *)
LEMMA AnswersStep ==
  ASSUME TransportInv, NEW q \in Requests, InFlight(q), q \notin aborted,
         NEW r \in {"answer", "notJson"}, Settles(q, r),
         UNCHANGED <<signal, fired, aborted, body>>,
         text' = [text EXCEPT ![q] = Decoded(body[q])],
         total' = [total EXCEPT ![q] = Len(body[q])],
         NEW h \in Seq(Octet), held' = [held EXCEPT ![q] = h]
  PROVE  TransportInv'
<1>1. TransportTypeOK /\ NothingOutlivesTheRequest /\ \A p \in Requests : Sound(p) BY InvParts
<1>2. body[q] \in Seq(Octet) /\ Len(body[q]) \in Nat /\ body' = body
  BY <1>1, LenProperties DEF TransportTypeOK
<1>3. Decoded(body[q]) \in Seq(Octet \cup {"replacement"}) BY <1>2, DecodedType
<1>4. r \in {"answer", "status", "oversized", "notJson", "failed"} OBVIOUS
<1>5. /\ NothingOutlivesTheRequest'
      /\ phase' \in [Requests -> {"idle", "fetching", "reading", "buffering", "cancelling", "settled"}]
      /\ signal' \in [Requests -> Signals \cup {NoSignal}]
      /\ armed' \subseteq Requests /\ listening' \subseteq Requests /\ aborted' \subseteq Requests
      /\ fired' \subseteq Signals
      /\ result' \in [Requests -> {"none", "answer", "status", "oversized", "notJson", "failed"}]
      /\ phase'[q] = "settled" /\ result'[q] = r
      /\ \A p \in Requests : p # q => phase'[p] = phase[p] /\ result'[p] = result[p]
  BY <1>1, <1>4, SettlesClearly
<1>6. TransportTypeOK' BY <1>1, <1>2, <1>3, <1>5 DEF TransportTypeOK
<1>7. /\ text'[q] = Decoded(body[q]) /\ total'[q] = Len(body[q])
      /\ \A p \in Requests : p # q =>
           text'[p] = text[p] /\ total'[p] = total[p] /\ held'[p] = held[p]
  BY <1>1 DEF TransportTypeOK
<1>8. ASSUME NEW p \in Requests PROVE Sound(p)'
  <2>1. CASE p # q BY <1>1, <1>2, <1>5, <1>7, <2>1, KeptIsSound DEF Kept
  <2>2. Sound(q)' BY <1>2, <1>5, <1>7 DEF Sound, DecodedSoFar
  <2> QED BY <2>1, <2>2
<1> QED BY <1>5, <1>6, <1>8, InvPartsAfter

LEMMA ReadsEndStep ==
  ASSUME TransportInv, NEW q \in Requests, NEW json \in BOOLEAN, ReadsEnd(q, json)
  PROVE  TransportInv'
<1>1. TransportTypeOK /\ Sound(q) BY InvParts
<1>2. /\ phase[q] = "reading" /\ q \notin aborted /\ total[q] = Len(body[q])
      /\ text' = [text EXCEPT ![q] = @ \o Decoded(held[q])]
      /\ held' = [held EXCEPT ![q] = << >>] /\ total' = total
      /\ Settles(q, IF json THEN "answer" ELSE "notJson")
      /\ UNCHANGED <<signal, fired, aborted, body>>
  BY DEF ReadsEnd
<1>3. body[q] \in Seq(Octet) BY <1>1 DEF TransportTypeOK
<1>4. SubSeq(body[q], 1, total[q]) = body[q] BY <1>2, <1>3, SubSeqFull
<1>5. text[q] = Decoded(Complete(body[q])) /\ held[q] = HeldBack(body[q])
  BY <1>1, <1>2, <1>4 DEF Sound, DecodedSoFar
<1>6. text[q] \o Decoded(held[q]) = Decoded(body[q]) BY <1>3, <1>5, HoldingBack
<1>7. text' = [text EXCEPT ![q] = Decoded(body[q])] BY <1>1, <1>2, <1>6 DEF TransportTypeOK
<1>8. total' = [total EXCEPT ![q] = Len(body[q])] BY <1>1, <1>2 DEF TransportTypeOK
<1>9. << >> \in Seq(Octet) BY EmptySeq
<1>10. InFlight(q) BY <1>2 DEF InFlight
<1> QED BY <1>2, <1>7, <1>8, <1>9, <1>10, AnswersStep

LEMMA BuffersStep ==
  ASSUME TransportInv, NEW q \in Requests, NEW json \in BOOLEAN, Buffers(q, json)
  PROVE  TransportInv'
<1>1. TransportTypeOK BY InvParts
<1>2. /\ phase[q] = "buffering" /\ q \notin aborted
      /\ text' = [text EXCEPT ![q] = Decoded(body[q])]
      /\ total' = [total EXCEPT ![q] = Len(body[q])] /\ held' = held
      /\ Settles(q, IF json THEN "answer" ELSE "notJson")
      /\ UNCHANGED <<signal, fired, aborted, body>>
  BY DEF Buffers
<1>3. held[q] \in Seq(Octet) /\ held' = [held EXCEPT ![q] = held[q]]
  BY <1>1, <1>2 DEF TransportTypeOK
<1>4. InFlight(q) BY <1>2 DEF InFlight
<1> QED BY <1>2, <1>3, <1>4, AnswersStep

LEMMA AbortsStep ==
  ASSUME TransportInv, UNCHANGED <<phase, signal, listening, response, result>>,
         armed' \subseteq armed, aborted \subseteq aborted', aborted' \subseteq Requests,
         fired' \subseteq Signals, armed \subseteq armed' \cup aborted',
         \A q \in aborted' \ aborted : InFlight(q)
  PROVE  TransportInv'
<1>1. TransportTypeOK /\ NothingOutlivesTheRequest /\ \A p \in Requests : Sound(p) BY InvParts
<1>2. /\ phase' = phase /\ signal' = signal /\ listening' = listening /\ result' = result
      /\ body' = body /\ total' = total /\ held' = held /\ text' = text
  BY DEF response
<1>3. TransportTypeOK' BY <1>1, <1>2 DEF TransportTypeOK
<1>4. \A p \in Requests : result[p] # "none" => ~InFlight(p)
  BY <1>1 DEF Sound, DecodedSoFar, InFlight
<1>5. NothingOutlivesTheRequest'
  BY <1>1, <1>2, <1>4 DEF NothingOutlivesTheRequest, InFlight
<1>6. \A p \in Requests : Sound(p)' BY <1>1, <1>2, KeptIsSound DEF Kept
<1> QED BY <1>3, <1>5, <1>6, InvPartsAfter

LEMMA TransportStep ==
  ASSUME TransportInv, [Next]_vars
  PROVE  TransportInv'
<1>1. TransportTypeOK /\ NothingOutlivesTheRequest BY InvParts
<1>2. ASSUME NEW q \in Requests, Step(q) PROVE TransportInv'
  <2>1. ASSUME NEW s \in Signals \cup {NoSignal}, Start(q, s) PROVE TransportInv'
    BY <2>1, StartStep
  <2>2. ASSUME NEW b \in Bodies, NEW ok \in BOOLEAN, NEW streamed \in BOOLEAN,
               NEW d \in {0, Limit, Limit + 1}, Responds(q, b, ok, d, streamed)
        PROVE  TransportInv'
    BY <2>2, RespondsStep
  <2>3. ASSUME NEW n \in 1..(Len(body[q]) - total[q]), Reads(q, n) PROVE TransportInv'
    BY <2>3, ReadsStep
  <2>4. CASE Cancelled(q) BY <2>4, SettlesStep DEF Cancelled, InFlight
  <2>5. ASSUME NEW json \in BOOLEAN, ReadsEnd(q, json) PROVE TransportInv'
    BY <2>5, ReadsEndStep
  <2>6. ASSUME NEW json \in BOOLEAN, Buffers(q, json) PROVE TransportInv'
    BY <2>6, BuffersStep
  <2>7. CASE Rejects(q) BY <2>7, SettlesStep DEF Rejects, InFlight
  <2>8. CASE TimerFires(q)
    <3>1. /\ q \in armed /\ armed' = armed \ {q} /\ aborted' = aborted \cup {q}
          /\ fired' = fired /\ UNCHANGED <<phase, signal, listening, response, result>>
      BY <2>8 DEF TimerFires
    <3>2. InFlight(q) BY <1>1, <3>1 DEF NothingOutlivesTheRequest
    <3> QED BY <1>1, <3>1, <3>2, AbortsStep DEF TransportTypeOK
  <2> QED BY <1>2, <2>1, <2>2, <2>3, <2>4, <2>5, <2>6, <2>7, <2>8
          DEF Step, Interrupted, NetworkFails
<1>3. ASSUME NEW s \in Signals, Abort(s) PROVE TransportInv'
  <2>1. /\ fired' = fired \cup {s} /\ aborted' = aborted \cup {q \in listening : signal[q] = s}
        /\ armed' = armed /\ UNCHANGED <<phase, signal, listening, response, result>>
    BY <1>3 DEF Abort
  <2>2. \A q \in listening : q \in Requests /\ InFlight(q)
    BY <1>1 DEF NothingOutlivesTheRequest
  <2> QED BY <1>1, <2>1, <2>2, AbortsStep DEF TransportTypeOK
<1>4. CASE UNCHANGED vars
  <2>1. /\ UNCHANGED <<phase, signal, listening, response, result>>
        /\ armed' = armed /\ aborted' = aborted /\ fired' = fired
    BY <1>4 DEF vars, control
  <2> QED BY <1>1, <2>1, AbortsStep DEF TransportTypeOK
<1> QED BY <1>2, <1>3, <1>4 DEF Next

-----------------------------------------------------------------------------
(* The invariant of the transport.                                         *)
THEOREM TransportInvariance == Spec => []TransportInv
<1>1. Init => TransportInv BY TransportInit
<1>2. TransportInv /\ [Next]_vars => TransportInv' BY TransportStep
<1> QED BY <1>1, <1>2, PTL DEF Spec

(* httpTransport parses the body the endpoint sent, however it was cut.    *)
THEOREM WholeAnswers == Spec => []AnswersAreWhole
<1>1. TransportInv => AnswersAreWhole BY DEF TransportInv
<1> QED BY <1>1, TransportInvariance, PTL

(* readBoundedText reads to the limit and keeps nothing past it.           *)
THEOREM BoundedStreams == Spec => []StreamsAreBounded
<1>1. TransportInv => StreamsAreBounded BY DEF TransportInv
<1> QED BY <1>1, TransportInvariance, PTL

(* The finally block leaves no timer and no listener behind.               *)
THEOREM ClearedUp == Spec => []NothingOutlivesTheRequest
<1>1. TransportInv => NothingOutlivesTheRequest BY DEF TransportInv
<1> QED BY <1>1, TransportInvariance, PTL

(* onAbort reaches the requests in flight under its signal and no other.   *)
THEOREM AbortDelivery == Spec => AbortReachesItsRequests
<1> DEFINE A == \A s \in fired' \ fired :
                  aborted' \ aborted = {q \in Requests \ aborted : InFlight(q) /\ signal[q] = s}
<1>1. ASSUME TransportInv, [Next]_vars PROVE A
  <2> SUFFICES ASSUME NEW s \in fired' \ fired
               PROVE  aborted' \ aborted = {q \in Requests \ aborted : InFlight(q) /\ signal[q] = s}
    OBVIOUS
  <2>1. PICK t \in Signals : Abort(t)
    <3>1. ASSUME NEW q \in Requests, Step(q) PROVE fired' = fired
      BY <3>1 DEF Step, Start, Responds, Reads, Cancelled, ReadsEnd, Buffers, Interrupted,
                  NetworkFails, Rejects, TimerFires
    <3>2. UNCHANGED vars => fired' = fired BY DEF vars
    <3> QED BY <1>1, <3>1, <3>2 DEF Next
  <2>2. s = t /\ aborted' = aborted \cup {q \in listening : signal[q] = t} BY <2>1 DEF Abort
  <2>3. listening = {q \in Requests : InFlight(q) /\ signal[q] # NoSignal}
    BY <1>1 DEF TransportInv, NothingOutlivesTheRequest
  <2>4. t # NoSignal BY <2>1, TransportAssumption
  <2> QED BY <2>2, <2>3, <2>4
<1>2. TransportInv /\ [Next]_vars => [A]_vars BY <1>1
<1> QED BY <1>2, TransportInvariance, PTL DEF Spec, AbortReachesItsRequests

-----------------------------------------------------------------------------
(* The transport implements Request.                                       *)

(* A body that is being read is one that the endpoint sent; a request that *)
(* was not sent was not given up.                                          *)
Mappable(p) ==
  /\ phase[p] \in {"reading", "buffering"} => body[p] \in Bodies
  /\ phase[p] = "idle" => p \notin aborted

MappingInv == \A p \in Requests : Mappable(p)

LEMMA SettledPhase ==
  ASSUME TransportTypeOK, NEW q \in Requests, NEW r, Settles(q, r)
  PROVE  /\ phase'[q] = "settled" /\ result'[q] = r
         /\ \A p \in Requests : p # q => phase'[p] = phase[p] /\ result'[p] = result[p]
BY DEF TransportTypeOK, Settles

LEMMA MappingStep ==
  ASSUME TransportInv, MappingInv, [Next]_vars
  PROVE  MappingInv'
<1>1. TransportTypeOK /\ NothingOutlivesTheRequest BY InvParts
<1> SUFFICES ASSUME NEW p \in Requests PROVE Mappable(p)' BY DEF MappingInv
<1>2. Mappable(p) BY DEF MappingInv
<1>3. ASSUME NEW q \in Requests, Step(q) PROVE Mappable(p)'
  <2>1. ASSUME NEW s \in Signals \cup {NoSignal}, Start(q, s) PROVE Mappable(p)'
    <3>1. phase' = [phase EXCEPT ![q] = "fetching"] /\ body' = body /\ aborted' = aborted
      BY <2>1 DEF Start, response
    <3> QED BY <1>1, <1>2, <3>1 DEF TransportTypeOK, Mappable
  <2>2. ASSUME NEW b \in Bodies, NEW ok \in BOOLEAN, NEW streamed \in BOOLEAN,
               NEW d \in {0, Limit, Limit + 1}, Responds(q, b, ok, d, streamed)
        PROVE  Mappable(p)'
    <3>1. CASE ~ok \/ d > Limit
      <4>1. /\ body' = body /\ aborted' = aborted
            /\ Settles(q, IF ok THEN "oversized" ELSE "status")
        BY <2>2, <3>1 DEF Responds
      <4> QED BY <1>1, <1>2, <4>1, SettledPhase DEF Mappable
    <3>2. CASE ~(~ok \/ d > Limit)
      <4>1. /\ body' = [body EXCEPT ![q] = b] /\ aborted' = aborted
            /\ phase' = [phase EXCEPT ![q] = IF streamed THEN "reading" ELSE "buffering"]
        BY <2>2, <3>2 DEF Responds
      <4> QED BY <1>1, <1>2, <4>1 DEF TransportTypeOK, Mappable
    <3> QED BY <3>1, <3>2
  <2>3. ASSUME NEW n \in 1..(Len(body[q]) - total[q]), Reads(q, n) PROVE Mappable(p)'
    <3>1. /\ body' = body /\ aborted' = aborted
          /\ phase' = phase \/ phase' = [phase EXCEPT ![q] = "cancelling"]
      BY <2>3 DEF Reads
    <3> QED BY <1>1, <1>2, <3>1 DEF TransportTypeOK, Mappable
  <2>4. ASSUME NEW r, Settles(q, r), body' = body, aborted' = aborted PROVE Mappable(p)'
    BY <1>1, <1>2, <2>4, SettledPhase DEF Mappable
  <2>5. CASE Cancelled(q) BY <2>4, <2>5 DEF Cancelled, response
  <2>6. ASSUME NEW json \in BOOLEAN, ReadsEnd(q, json) PROVE Mappable(p)'
    BY <2>4, <2>6 DEF ReadsEnd
  <2>7. ASSUME NEW json \in BOOLEAN, Buffers(q, json) PROVE Mappable(p)'
    BY <2>4, <2>7 DEF Buffers
  <2>8. CASE Rejects(q) BY <2>4, <2>8 DEF Rejects, response
  <2>9. CASE TimerFires(q)
    <3>1. q \in armed /\ aborted' = aborted \cup {q} /\ phase' = phase /\ body' = body
      BY <2>9 DEF TimerFires, response
    <3> QED BY <1>1, <1>2, <3>1 DEF Mappable, NothingOutlivesTheRequest, InFlight
  <2> QED BY <1>3, <2>1, <2>2, <2>3, <2>5, <2>6, <2>7, <2>8, <2>9
          DEF Step, Interrupted, NetworkFails
<1>4. ASSUME NEW s \in Signals, Abort(s) PROVE Mappable(p)'
  <2>1. /\ aborted' = aborted \cup {q \in listening : signal[q] = s}
        /\ phase' = phase /\ body' = body
    BY <1>4 DEF Abort, response
  <2> QED BY <1>1, <1>2, <2>1 DEF Mappable, NothingOutlivesTheRequest, InFlight
<1>5. CASE UNCHANGED vars BY <1>2, <1>5 DEF vars, control, response, Mappable
<1> QED BY <1>3, <1>4, <1>5 DEF Next

(* What the mapping sees of a step in which nothing settles.               *)
LEMMA MappedReplies ==
  ASSUME TransportInv,
         \A p \in Requests : result'[p] = result[p] /\ (result[p] # "none" => text'[p] = text[p])
  PROVE  replyBar' = replyBar
BY DEF replyBar

LEMMA MappedStages ==
  ASSUME \A p \in Requests :
           /\ (phase'[p] = "idle") = (phase[p] = "idle")
           /\ (phase'[p] = "settled") = (phase[p] = "settled")
           /\ (InFlight(p) => (p \in aborted') = (p \in aborted))
  PROVE  stageBar' = stageBar
<1>1. \A p \in Requests : StageOf(p)' = StageOf(p) BY DEF StageOf, InFlight
<1> QED BY <1>1 DEF stageBar

(* A request that settles does so in one step of Request.                  *)
LEMMA MappedSettling ==
  ASSUME TransportInv, NEW q \in Requests, InFlight(q), NEW r, Settles(q, r),
         r # "none", aborted' = aborted,
         \A p \in Requests : p # q => text'[p] = text[p]
  PROVE  Promise!Settle(q, IF q \in aborted THEN "given up" ELSE "open",
                        IF r = "answer" THEN Promise!TextOf(text'[q]) ELSE Promise!Fault(r))
<1>1. TransportTypeOK BY InvParts
<1>2. /\ phase'[q] = "settled" /\ result'[q] = r
      /\ \A p \in Requests : p # q => phase'[p] = phase[p] /\ result'[p] = result[p]
  BY <1>1, SettledPhase
<1>3. stageBar[q] = IF q \in aborted THEN "given up" ELSE "open" BY DEF stageBar, StageOf
<1>4. stageBar' = [stageBar EXCEPT ![q] = "settled"]
  <2>1. StageOf(q)' = "settled" BY <1>2 DEF StageOf, InFlight
  <2>2. \A p \in Requests : p # q => StageOf(p)' = StageOf(p)
    BY <1>2 DEF StageOf, InFlight
  <2> QED BY <2>1, <2>2 DEF stageBar
<1>5. replyBar' = [replyBar EXCEPT ![q] = IF r = "answer" THEN Promise!TextOf(text'[q])
                                          ELSE Promise!Fault(r)]
  <2>1. replyBar'[q] = IF r = "answer" THEN Promise!TextOf(text'[q]) ELSE Promise!Fault(r)
    BY <1>2 DEF replyBar, Promise!TextOf, Promise!Fault
  <2>2. \A p \in Requests : p # q => replyBar'[p] = replyBar[p] BY <1>2 DEF replyBar
  <2> QED BY <2>1, <2>2 DEF replyBar
<1> QED BY <1>3, <1>4, <1>5 DEF Promise!Settle

LEMMA MappedFault ==
  ASSUME TransportInv, NEW q \in Requests, InFlight(q), NEW r \in Promise!Faults, Settles(q, r),
         aborted' = aborted, q \in aborted => r \in Promise!LateFaults,
         \A p \in Requests : p # q => text'[p] = text[p]
  PROVE  Promise!Failed(q)
<1>1. r # "none" /\ r # "answer" BY DEF Promise!Faults
<1>2. Promise!Settle(q, IF q \in aborted THEN "given up" ELSE "open", Promise!Fault(r))
  BY <1>1, MappedSettling
<1> QED BY <1>2 DEF Promise!Failed

LEMMA MappedAnswer ==
  ASSUME TransportInv, NEW q \in Requests, NEW b \in Bodies, InFlight(q), Settles(q, "answer"),
         aborted' = aborted, q \notin aborted, text'[q] = Decoded(b),
         \A p \in Requests : p # q => text'[p] = text[p]
  PROVE  Promise!Answered(q)
<1>1. Promise!Settle(q, "open", Promise!TextOf(Decoded(b))) BY MappedSettling
<1>2. Decoded(b) \in {Decoded(c) : c \in Bodies} OBVIOUS
<1> QED BY <1>1, <1>2 DEF Promise!Answered

LEMMA MappedStep ==
  ASSUME TransportInv, TransportInv', MappingInv, [Next]_vars
  PROVE  [Promise!RequestNext]_(Promise!requestVars)
<1>1. TransportTypeOK /\ NothingOutlivesTheRequest /\ \A p \in Requests : Sound(p) BY InvParts
<1>2. ASSUME stageBar' = stageBar, replyBar' = replyBar
      PROVE  [Promise!RequestNext]_(Promise!requestVars)
  BY <1>2 DEF Promise!requestVars
<1>3. ASSUME NEW q \in Requests, Promise!Failed(q) \/ Promise!Answered(q)
      PROVE  [Promise!RequestNext]_(Promise!requestVars)
  BY <1>3 DEF Promise!RequestNext
<1>4. ASSUME NEW Q \in SUBSET Requests, \A q \in Q : InFlight(q) /\ q \notin aborted,
             aborted' = aborted \cup Q, UNCHANGED <<phase, response, result>>
      PROVE  [Promise!RequestNext]_(Promise!requestVars)
  <2>1. replyBar' = replyBar BY <1>4 DEF replyBar, response
  <2>2. \A q \in Q : stageBar[q] = "open" BY <1>4 DEF stageBar, StageOf
  <2>3. stageBar' = [q \in Requests |-> IF q \in Q THEN "given up" ELSE stageBar[q]]
    <3>1. \A q \in Requests : StageOf(q)' = IF q \in Q THEN "given up" ELSE StageOf(q)
      BY <1>4 DEF StageOf, InFlight
    <3> QED BY <3>1 DEF stageBar
  <2>4. Promise!GiveUp(Q) BY <2>1, <2>2, <2>3 DEF Promise!GiveUp
  <2> QED BY <2>4 DEF Promise!RequestNext
<1>5. ASSUME NEW q \in Requests, Step(q) PROVE [Promise!RequestNext]_(Promise!requestVars)
  <2>1. ASSUME NEW s \in Signals \cup {NoSignal}, Start(q, s)
        PROVE  [Promise!RequestNext]_(Promise!requestVars)
    <3>1. /\ phase[q] = "idle" /\ phase' = [phase EXCEPT ![q] = "fetching"]
          /\ aborted' = aborted /\ result' = result /\ text' = text
      BY <2>1 DEF Start, response
    <3>2. q \notin aborted' BY <3>1 DEF MappingInv, Mappable
    <3>3. stageBar[q] = "unsent" BY <3>1 DEF stageBar, StageOf, InFlight
    <3>4. stageBar' = [stageBar EXCEPT ![q] = "open"]
      <4>1. phase'[q] = "fetching" /\ \A p \in Requests : p # q => phase'[p] = phase[p]
        BY <1>1, <3>1 DEF TransportTypeOK
      <4>2. StageOf(q)' = "open" BY <3>2, <4>1 DEF StageOf, InFlight
      <4>3. \A p \in Requests : p # q => StageOf(p)' = StageOf(p)
        BY <3>1, <4>1 DEF StageOf, InFlight
      <4> QED BY <4>2, <4>3 DEF stageBar
    <3>5. replyBar' = replyBar BY <3>1 DEF replyBar
    <3>6. Promise!Send(q) BY <3>3, <3>4, <3>5 DEF Promise!Send
    <3> QED BY <3>6 DEF Promise!RequestNext
  <2>2. ASSUME NEW b \in Bodies, NEW ok \in BOOLEAN, NEW streamed \in BOOLEAN,
               NEW d \in {0, Limit, Limit + 1}, Responds(q, b, ok, d, streamed)
        PROVE  [Promise!RequestNext]_(Promise!requestVars)
    <3>1. phase[q] = "fetching" /\ q \notin aborted /\ aborted' = aborted /\ text' = text
      BY <2>2 DEF Responds
    <3>2. CASE ~ok \/ d > Limit
      <4>1. Settles(q, IF ok THEN "oversized" ELSE "status") BY <2>2, <3>2 DEF Responds
      <4>2. Promise!Failed(q) BY <3>1, <4>1, MappedFault DEF Promise!Faults, InFlight
      <4> QED BY <1>3, <4>2
    <3>3. CASE ~(~ok \/ d > Limit)
      <4>1. /\ phase' = [phase EXCEPT ![q] = IF streamed THEN "reading" ELSE "buffering"]
            /\ result' = result
        BY <2>2, <3>3 DEF Responds
      <4>2. stageBar' = stageBar BY <1>1, <3>1, <4>1, MappedStages DEF TransportTypeOK
      <4>3. replyBar' = replyBar BY <3>1, <4>1, MappedReplies
      <4> QED BY <1>2, <4>2, <4>3
    <3> QED BY <3>2, <3>3
  <2>3. ASSUME NEW n \in 1..(Len(body[q]) - total[q]), Reads(q, n)
        PROVE  [Promise!RequestNext]_(Promise!requestVars)
    <3>1. /\ phase[q] = "reading" /\ aborted' = aborted /\ result' = result
          /\ phase' = phase \/ phase' = [phase EXCEPT ![q] = "cancelling"]
      BY <2>3 DEF Reads
    <3>2. \A p \in Requests : result[p] # "none" => text'[p] = text[p]
      <4>1. result[q] = "none" BY <1>1, <3>1 DEF Sound, DecodedSoFar, TransportTypeOK
      <4>2. text' = text \/ text' = [text EXCEPT ![q] = text'[q]]
        <5>1. text' = text \/ Decodes(q, SubSeq(body[q], total[q] + 1, total[q] + n))
          BY <2>3 DEF Reads
        <5> QED BY <1>1, <5>1 DEF Decodes, TransportTypeOK
      <4> QED BY <1>1, <4>1, <4>2 DEF TransportTypeOK
    <3>3. stageBar' = stageBar BY <1>1, <3>1, MappedStages DEF TransportTypeOK
    <3>4. replyBar' = replyBar BY <3>1, <3>2, MappedReplies
    <3> QED BY <1>2, <3>3, <3>4
  <2>4. CASE Cancelled(q)
    <3>1. /\ phase[q] = "cancelling" /\ Settles(q, "oversized")
          /\ aborted' = aborted /\ text' = text
      BY <2>4 DEF Cancelled, response
    <3>2. Promise!Failed(q)
      BY <3>1, MappedFault DEF Promise!Faults, Promise!LateFaults, InFlight
    <3> QED BY <1>3, <3>2
  <2>5. ASSUME NEW json \in BOOLEAN, NEW b \in Bodies, InFlight(q), q \notin aborted,
               aborted' = aborted, Settles(q, IF json THEN "answer" ELSE "notJson"),
               text'[q] = Decoded(b), \A p \in Requests : p # q => text'[p] = text[p]
        PROVE  [Promise!RequestNext]_(Promise!requestVars)
    <3>1. CASE json BY <1>3, <2>5, <3>1, MappedAnswer
    <3>2. CASE ~json BY <1>3, <2>5, <3>2, MappedFault DEF Promise!Faults
    <3> QED BY <3>1, <3>2
  <2>6. ASSUME NEW json \in BOOLEAN, ReadsEnd(q, json)
        PROVE  [Promise!RequestNext]_(Promise!requestVars)
    <3>1. /\ phase[q] = "reading" /\ q \notin aborted /\ aborted' = aborted /\ body' = body
          /\ Settles(q, IF json THEN "answer" ELSE "notJson")
          /\ text' = [text EXCEPT ![q] = @ \o Decoded(held[q])]
      BY <2>6 DEF ReadsEnd
    <3>2. body[q] \in Bodies BY <3>1 DEF MappingInv, Mappable
    <3>3. text'[q] = Decoded(body[q])
      <4>1. result'[q] \in {"answer", "notJson"} BY <1>1, <3>1, SettledPhase
      <4>2. Sound(q)' BY InvPartsAfter
      <4> QED BY <3>1, <4>1, <4>2 DEF Sound
    <3>4. \A p \in Requests : p # q => text'[p] = text[p] BY <1>1, <3>1 DEF TransportTypeOK
    <3> QED BY <2>5, <3>1, <3>2, <3>3, <3>4 DEF InFlight
  <2>7. ASSUME NEW json \in BOOLEAN, Buffers(q, json)
        PROVE  [Promise!RequestNext]_(Promise!requestVars)
    <3>1. /\ phase[q] = "buffering" /\ q \notin aborted /\ aborted' = aborted
          /\ Settles(q, IF json THEN "answer" ELSE "notJson")
          /\ text' = [text EXCEPT ![q] = Decoded(body[q])]
      BY <2>7 DEF Buffers
    <3>2. body[q] \in Bodies BY <3>1 DEF MappingInv, Mappable
    <3>3. text'[q] = Decoded(body[q]) /\ \A p \in Requests : p # q => text'[p] = text[p]
      BY <1>1, <3>1 DEF TransportTypeOK
    <3> QED BY <2>5, <3>1, <3>2, <3>3 DEF InFlight
  <2>8. CASE Rejects(q)
    <3>1. InFlight(q) /\ Settles(q, "failed") /\ aborted' = aborted /\ text' = text
      BY <2>8 DEF Rejects, response, InFlight
    <3>2. Promise!Failed(q)
      BY <3>1, MappedFault DEF Promise!Faults, Promise!LateFaults
    <3> QED BY <1>3, <3>2
  <2>9. CASE TimerFires(q)
    <3>1. q \in armed /\ aborted' = aborted \cup {q} /\ UNCHANGED <<phase, response, result>>
      BY <2>9 DEF TimerFires
    <3>2. InFlight(q) BY <1>1, <3>1 DEF NothingOutlivesTheRequest
    <3>3. CASE q \in aborted
      <4>1. {} \in SUBSET Requests /\ aborted' = aborted \cup {} BY <3>1, <3>3
      <4> QED BY <1>4, <3>1, <4>1
    <3>4. CASE q \notin aborted
      <4>1. {q} \in SUBSET Requests OBVIOUS
      <4> QED BY <1>4, <3>1, <3>2, <3>4, <4>1
    <3> QED BY <3>3, <3>4
  <2> QED BY <1>5, <2>1, <2>2, <2>3, <2>4, <2>6, <2>7, <2>8, <2>9
          DEF Step, Interrupted, NetworkFails
<1>6. ASSUME NEW s \in Signals, Abort(s) PROVE [Promise!RequestNext]_(Promise!requestVars)
  <2> DEFINE Q == {q \in listening : signal[q] = s} \ aborted
  <2>1. /\ aborted' = aborted \cup {q \in listening : signal[q] = s}
        /\ UNCHANGED <<phase, response, result>>
    BY <1>6 DEF Abort
  <2>2. Q \in SUBSET Requests /\ \A q \in Q : InFlight(q) /\ q \notin aborted
    BY <1>1 DEF NothingOutlivesTheRequest
  <2>3. aborted' = aborted \cup Q BY <2>1
  <2> HIDE DEF Q
  <2> QED BY <1>4, <2>1, <2>2, <2>3
<1>7. CASE UNCHANGED vars
  BY <1>2, <1>7, MappedStages, MappedReplies DEF vars, control, response
<1> QED BY <1>5, <1>6, <1>7 DEF Next

(* httpTransport, with all that races in it, settles a request in one step *)
(* as the callers of the client take it to.                                *)
THEOREM Implementation == Spec => ImplementsRequest
<1>1. Init => Promise!RequestInit
  <2> SUFFICES ASSUME Init PROVE Promise!RequestInit OBVIOUS
  <2>1. stageBar = [q \in Requests |-> "unsent"]
    <3>1. \A q \in Requests : StageOf(q) = "unsent" BY DEF Init, StageOf, InFlight
    <3> QED BY <3>1 DEF stageBar
  <2>2. replyBar = [q \in Requests |-> Promise!NoReply] BY DEF Init, replyBar, Promise!NoReply
  <2> QED BY <2>1, <2>2 DEF Promise!RequestInit
<1>2. Init => MappingInv BY DEF Init, MappingInv, Mappable
<1>3. TransportInv /\ MappingInv /\ [Next]_vars => MappingInv' BY MappingStep
<1>4. TransportInv /\ TransportInv' /\ MappingInv /\ [Next]_vars
        => [Promise!RequestNext]_(Promise!requestVars)
  BY MappedStep
<1> QED BY <1>1, <1>2, <1>3, <1>4, TransportInvariance, PTL
        DEF Spec, ImplementsRequest, Promise!RequestSpec
=============================================================================

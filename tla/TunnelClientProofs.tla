------------------------- MODULE TunnelClientProofs -------------------------
(***************************************************************************)
(* Proofs about TunnelClient: its types and permits, and that the control  *)
(* stream it decodes implements ControlChannel, for every length of an     *)
(* event, every bound on a frame and every way the frames are cut.         *)
(*                                                                         *)
(* The inductive invariant says what the bytes under way are: those the    *)
(* decoder keeps, followed by those on the wire, are the beginning of the  *)
(* encoding of the events written and not yet acted on (Carries), all of   *)
(* it while the connection is up, and the decoder keeps less than one      *)
(* event.                                                                  *)
(***************************************************************************)
EXTENDS TunnelClient, NaturalLemmas, SequenceTheorems

LEMMA Constants ==
  /\ EventLen \in Nat \ {0} /\ MaxEvents \in Nat /\ MaxFaults \in Nat
  /\ MaxStreams \in Nat \ {0} /\ MaxCredential \in Nat \ {0} /\ MaxFrame \in Nat \ {0}
  /\ Opens \subseteq Events /\ Events \subseteq Nat
BY ClientAssumption DEF Events

-----------------------------------------------------------------------------
(***************************************************************************)
(* Sequences.                                                              *)
(***************************************************************************)
LEMMA Cut ==
  ASSUME NEW S, NEW s \in Seq(S), NEW a \in Nat \ {0}, NEW c \in Nat, c <= Len(s), a <= c + 1
  PROVE  /\ SubSeq(s, a, c) \in Seq(S)
         /\ Len(SubSeq(s, a, c)) = c - a + 1
         /\ \A i \in 1 .. c - a + 1 : SubSeq(s, a, c)[i] = s[a + i - 1]
<1>1. Len(s) \in Nat /\ \A i \in 1 .. Len(s) : s[i] \in S
  BY LenProperties
<1>2. \A i \in a .. c : s[i] \in S
  BY <1>1
<1>3. a \in Int /\ c \in Int
  OBVIOUS
<1>4. /\ SubSeq(s, a, c) \in Seq(S)
      /\ Len(SubSeq(s, a, c)) = IF a <= c THEN c - a + 1 ELSE 0
      /\ \A i \in 1 .. c - a + 1 : SubSeq(s, a, c)[i] = s[a + i - 1]
  BY <1>2, <1>3, SubSeqProperties
<1> QED BY <1>4

(* A buffer p and the first n bytes of w, of which o are taken.            *)
LEMMA CutBytes ==
  ASSUME NEW S, NEW p \in Seq(S), NEW w \in Seq(S), NEW n \in Nat, n <= Len(w)
  PROVE  LET s == p \o SubSeq(w, 1, n) IN
         /\ s \in Seq(S) /\ Len(s) = Len(p) + n
         /\ \A i \in 1 .. Len(s) : s[i] = (p \o w)[i]
<1> DEFINE x == SubSeq(w, 1, n)
           s == p \o x
<1>1. Len(p) \in Nat /\ Len(w) \in Nat
  BY LenProperties
<1>2. x \in Seq(S) /\ Len(x) = n - 1 + 1 /\ \A i \in 1 .. n - 1 + 1 : x[i] = w[1 + i - 1]
  BY <1>1, Cut
<1>3. x \in Seq(S) /\ Len(x) = n /\ \A i \in 1 .. n : x[i] = w[i]
  BY <1>2
<1> HIDE DEF x
<1>4. /\ s \in Seq(S) /\ Len(s) = Len(p) + Len(x)
      /\ \A i \in 1 .. Len(p) + Len(x) : s[i] = IF i <= Len(p) THEN p[i] ELSE x[i - Len(p)]
  BY <1>3, ConcatProperties
<1>5. \A i \in 1 .. Len(p) + Len(w) :
        (p \o w)[i] = IF i <= Len(p) THEN p[i] ELSE w[i - Len(p)]
  BY ConcatProperties
<1> HIDE DEF s
<1>6. ASSUME NEW i \in 1 .. Len(s) PROVE s[i] = (p \o w)[i]
  <2>1. i \in 1 .. Len(p) + Len(x) /\ i \in 1 .. Len(p) + Len(w)
    BY <1>1, <1>3, <1>4
  <2>2. ~ (i <= Len(p)) => i - Len(p) \in 1 .. n
    BY <1>1, <1>3, <2>1
  <2>3. s[i] = IF i <= Len(p) THEN p[i] ELSE x[i - Len(p)]
    BY <1>4, <2>1
  <2>4. (p \o w)[i] = IF i <= Len(p) THEN p[i] ELSE w[i - Len(p)]
    BY <1>5, <2>1
  <2> QED BY <1>3, <2>2, <2>3, <2>4
<1> QED BY <1>3, <1>4, <1>6 DEF s, x

CutOff(S, p, w, n, o) ==
  LET s == p \o SubSeq(w, 1, n)
      r == SubSeq(s, o + 1, Len(s))
      u == r \o SubSeq(w, n + 1, Len(w)) IN
  /\ r \in Seq(S) /\ Len(r) = Len(s) - o
  /\ u \in Seq(S) /\ Len(u) = Len(p \o w) - o
  /\ \A i \in 1 .. Len(u) : u[i] = (p \o w)[o + i]

LEMMA CutRest ==
  ASSUME NEW S, NEW p \in Seq(S), NEW w \in Seq(S), NEW n \in Nat, n <= Len(w),
         NEW o \in Nat, o <= Len(p) + n
  PROVE  CutOff(S, p, w, n, o)
<1> DEFINE s == p \o SubSeq(w, 1, n)
           r == SubSeq(s, o + 1, Len(s))
           v == SubSeq(w, n + 1, Len(w))
           u == r \o v
<1>0. s \in Seq(S) /\ Len(s) = Len(p) + n /\ \A i \in 1 .. Len(s) : s[i] = (p \o w)[i]
  BY CutBytes
<1> HIDE DEF s
<1>1. Len(p) \in Nat /\ Len(w) \in Nat /\ Len(s) \in Nat /\ o <= Len(s)
  BY <1>0, LenProperties
<1>2. o + 1 \in Nat \ {0} /\ o + 1 <= Len(s) + 1 /\ n + 1 \in Nat \ {0} /\ n + 1 <= Len(w) + 1
  BY <1>1
<1>3. /\ r \in Seq(S) /\ Len(r) = Len(s) - (o + 1) + 1
      /\ \A i \in 1 .. Len(s) - (o + 1) + 1 : r[i] = s[(o + 1) + i - 1]
  BY <1>0, <1>1, <1>2, Cut
<1>4. /\ v \in Seq(S) /\ Len(v) = Len(w) - (n + 1) + 1
      /\ \A i \in 1 .. Len(w) - (n + 1) + 1 : v[i] = w[(n + 1) + i - 1]
  BY <1>1, <1>2, Cut
<1>5. Len(r) = Len(s) - o /\ Len(v) = Len(w) - n /\ Len(r) \in Nat /\ Len(v) \in Nat
  BY <1>1, <1>3, <1>4
<1> HIDE DEF r, v
<1>6. /\ u \in Seq(S) /\ Len(u) = Len(r) + Len(v)
      /\ \A i \in 1 .. Len(r) + Len(v) : u[i] = IF i <= Len(r) THEN r[i] ELSE v[i - Len(r)]
  <2>1. r \in Seq(S) /\ v \in Seq(S)
    BY <1>3, <1>4
  <2> QED BY <2>1, ConcatProperties
<1>7. /\ Len(p \o w) = Len(p) + Len(w)
      /\ \A i \in 1 .. Len(p) + Len(w) :
           (p \o w)[i] = IF i <= Len(p) THEN p[i] ELSE w[i - Len(p)]
  BY ConcatProperties
<1> HIDE DEF u
<1>8. ASSUME NEW i \in 1 .. Len(u) PROVE u[i] = (p \o w)[o + i]
  <2>1. i \in 1 .. Len(r) + Len(v)
    BY <1>6
  <2>2. CASE i <= Len(r)
    <3>1. i \in 1 .. Len(s) - (o + 1) + 1 /\ (o + 1) + i - 1 = o + i /\ o + i \in 1 .. Len(s)
      BY <1>1, <1>5, <2>1, <2>2
    <3>2. u[i] = r[i] /\ r[i] = s[o + i]
      BY <1>3, <1>6, <2>1, <2>2, <3>1
    <3> QED BY <1>0, <3>1, <3>2
  <2>3. CASE ~ (i <= Len(r))
    <3> DEFINE k == i - Len(r)
    <3>1. k \in 1 .. Len(w) - (n + 1) + 1 /\ (n + 1) + k - 1 = (o + i) - Len(p)
          /\ o + i \in 1 .. Len(p) + Len(w) /\ ~ (o + i <= Len(p))
      BY <1>0, <1>1, <1>5, <2>1, <2>3
    <3>2. u[i] = v[k]
      BY <1>6, <2>1, <2>3
    <3> HIDE DEF k
    <3>3. v[k] = w[(o + i) - Len(p)]
      BY <1>4, <3>1
    <3>4. (p \o w)[o + i] = w[(o + i) - Len(p)]
      BY <1>7, <3>1
    <3> QED BY <3>2, <3>3, <3>4
  <2> QED BY <2>2, <2>3
<1>9. Len(u) = Len(p \o w) - o
  BY <1>0, <1>1, <1>5, <1>6, <1>7
<1> QED BY <1>3, <1>5, <1>6, <1>8, <1>9 DEF CutOff, u, r, v, s

(* Of the sequence w, a are taken; d more are.                             *)
LEMMA MoveOn ==
  ASSUME NEW S, NEW w \in Seq(S), NEW a \in Nat, NEW d \in Nat, a + d <= Len(w)
  PROVE  LET b == SubSeq(w, a + 1, Len(w))
             c == SubSeq(w, a + d + 1, Len(w)) IN
         /\ SubSeq(w, 1, a) \o SubSeq(b, 1, d) = SubSeq(w, 1, a + d)
         /\ Len(SubSeq(w, 1, a + d)) = a + d
         /\ SubSeq(w, 1, a + d) \in Seq(S)
         /\ c \in Seq(S) /\ Len(c) = Len(b) - d
         /\ \A i \in 1 .. Len(c) : c[i] = b[d + i]
<1> DEFINE b == SubSeq(w, a + 1, Len(w))
           c == SubSeq(w, a + d + 1, Len(w))
           x == SubSeq(w, 1, a)
           y == SubSeq(b, 1, d)
           z == SubSeq(w, 1, a + d)
<1>1. Len(w) \in Nat
  BY LenProperties
<1>2. /\ a + 1 \in Nat \ {0} /\ a + 1 <= Len(w) + 1 /\ a + d \in Nat /\ a <= Len(w)
      /\ a + d + 1 \in Nat \ {0} /\ a + d + 1 <= Len(w) + 1 /\ 1 <= a + 1 /\ 1 <= a + d + 1
      /\ 1 \in Nat \ {0} /\ 1 <= d + 1
  BY <1>1
<1>3. /\ b \in Seq(S) /\ Len(b) = Len(w) - (a + 1) + 1
      /\ \A i \in 1 .. Len(w) - (a + 1) + 1 : b[i] = w[(a + 1) + i - 1]
  BY <1>1, <1>2, Cut
<1>4. /\ c \in Seq(S) /\ Len(c) = Len(w) - (a + d + 1) + 1
      /\ \A i \in 1 .. Len(w) - (a + d + 1) + 1 : c[i] = w[(a + d + 1) + i - 1]
  BY <1>1, <1>2, Cut
<1>5. /\ x \in Seq(S) /\ Len(x) = a - 1 + 1 /\ \A i \in 1 .. a - 1 + 1 : x[i] = w[1 + i - 1]
  BY <1>1, <1>2, Cut
<1>6. /\ z \in Seq(S) /\ Len(z) = a + d - 1 + 1
      /\ \A i \in 1 .. a + d - 1 + 1 : z[i] = w[1 + i - 1]
  BY <1>1, <1>2, Cut
<1>7. Len(b) = Len(w) - a /\ Len(b) \in Nat /\ d <= Len(b)
      /\ \A i \in 1 .. Len(w) - a : b[i] = w[a + i]
  <2>1. Len(b) = Len(w) - a /\ Len(b) \in Nat /\ d <= Len(b)
    BY <1>1, <1>2, <1>3
  <2>2. ASSUME NEW i \in 1 .. Len(w) - a PROVE b[i] = w[a + i]
    <3>1. i \in 1 .. Len(w) - (a + 1) + 1 /\ (a + 1) + i - 1 = a + i
      BY <1>1
    <3> QED BY <1>3, <3>1
  <2> QED BY <2>1, <2>2
<1> HIDE DEF b
<1>8. /\ y \in Seq(S) /\ Len(y) = d - 1 + 1 /\ \A i \in 1 .. d - 1 + 1 : y[i] = b[1 + i - 1]
  BY <1>2, <1>3, <1>7, Cut
<1> HIDE DEF c, x, y, z
<1>9. /\ x \o y \in Seq(S) /\ Len(x \o y) = Len(x) + Len(y)
      /\ \A i \in 1 .. Len(x) + Len(y) : (x \o y)[i] = IF i <= Len(x) THEN x[i] ELSE y[i - Len(x)]
  BY <1>5, <1>8, ConcatProperties
<1>10. Len(x) = a /\ Len(y) = d /\ Len(z) = a + d
  BY <1>5, <1>6, <1>8
<1>11. ASSUME NEW i \in 1 .. Len(z) PROVE (x \o y)[i] = z[i]
  <2>1. i \in 1 .. a + d - 1 + 1 /\ 1 + i - 1 = i /\ i \in 1 .. Len(x) + Len(y)
    BY <1>10
  <2>2. z[i] = w[i]
    BY <1>6, <2>1
  <2>3. CASE i <= a
    <3>1. i \in 1 .. a - 1 + 1
      BY <2>1, <2>3
    <3>2. x[i] = w[i]
      BY <1>5, <2>1, <3>1
    <3> QED BY <1>9, <1>10, <2>1, <2>2, <2>3, <3>2
  <2>4. CASE ~ (i <= a)
    <3>1. i - a \in 1 .. d - 1 + 1 /\ i - a \in 1 .. Len(w) - a /\ 1 + (i - a) - 1 = i - a
          /\ a + (i - a) = i
      BY <1>1, <2>1, <2>4
    <3>2. y[i - a] = b[i - a] /\ b[i - a] = w[i]
      BY <1>7, <1>8, <3>1
    <3> QED BY <1>9, <1>10, <2>1, <2>2, <2>4, <3>2
  <2> QED BY <2>3, <2>4
<1>12. x \o y = z
  BY <1>6, <1>9, <1>10, <1>11, SeqEqual
<1>13. Len(c) = Len(b) - d
  BY <1>1, <1>4, <1>7
<1>14. ASSUME NEW i \in 1 .. Len(c) PROVE c[i] = b[d + i]
  <2>1. i \in 1 .. Len(w) - (a + d + 1) + 1 /\ (a + d + 1) + i - 1 = a + (d + i)
        /\ d + i \in 1 .. Len(w) - a
    BY <1>1, <1>4
  <2> QED BY <1>4, <1>7, <2>1
<1> QED BY <1>4, <1>6, <1>10, <1>12, <1>13, <1>14 DEF b, c, x, y, z

-----------------------------------------------------------------------------
(***************************************************************************)
(* The decoder's buffer. Carries(s, b) says that the bytes s are the       *)
(* beginning of the encoding of the events b.                              *)
(***************************************************************************)
Carries(s, b) ==
  /\ s \in Seq(Bytes)
  /\ Len(s) <= Len(b) * EventLen
  /\ \A m \in 0 .. Len(b) - 1, j \in 1 .. EventLen :
       m * EventLen + j <= Len(s) => s[m * EventLen + j] = <<b[m + 1], j>>

LEMMA CarriesLengths ==
  ASSUME NEW s, NEW b \in Seq(Events), Carries(s, b)
  PROVE  Len(s) \in Nat /\ Len(b) \in Nat /\ DOMAIN s = 1 .. Len(s)
BY LenProperties DEF Carries

(* The newlines are at the multiples of an event's length.                 *)
LEMMA Newlines ==
  ASSUME NEW s, NEW b \in Seq(Events), Carries(s, b),
         NEW d \in Nat, d * EventLen <= Len(s), Len(s) < d * EventLen + EventLen
  PROVE  LineEnds(s) = {m * EventLen : m \in 1 .. d}
<1>1. Len(s) \in Nat /\ Len(b) \in Nat /\ DOMAIN s = 1 .. Len(s)
  BY CarriesLengths
<1>2. EventLen \in Nat \ {0}
  BY Constants
<1>3. \A m \in Nat, j \in 1 .. EventLen : m * EventLen + j <= Len(s) =>
        m \in 0 .. Len(b) - 1 /\ s[m * EventLen + j] = <<b[m + 1], j>>
  <2> TAKE m \in Nat, j \in 1 .. EventLen
  <2> HAVE m * EventLen + j <= Len(s)
  <2>1. Len(s) <= Len(b) * EventLen
    BY DEF Carries
  <2>2. m * EventLen \in Nat /\ Len(b) * EventLen \in Nat
    BY <1>1, <1>2, Times
  <2>3. ~ (Len(b) * EventLen <= m * EventLen)
    BY <1>1, <1>2, <2>1, <2>2
  <2>4. m \in 0 .. Len(b) - 1
    BY <1>1, <1>2, <2>3, TimesCancel
  <2> QED BY <2>4 DEF Carries
<1>4. ASSUME NEW i \in LineEnds(s) PROVE i \in {m * EventLen : m \in 1 .. d}
  <2>1. i \in 1 .. Len(s) /\ s[i][2] = EventLen
    BY <1>1 DEF LineEnds, IsNewline
  <2>2. i \in Nat \ {0}
    BY <2>1
  <2>3. PICK m \in Nat, j \in 1 .. EventLen : i = m * EventLen + j
    BY <1>2, <2>2, Place
  <2>4. s[i] = <<b[m + 1], j>>
    BY <1>1, <1>3, <2>1, <2>3
  <2>5. j = EventLen
    BY <2>1, <2>4
  <2>6. i = (m + 1) * EventLen
    BY <1>2, <2>3, <2>5, Times
  <2>7. (m + 1) * EventLen < (d + 1) * EventLen /\ (d + 1) * EventLen \in Nat
    BY <1>1, <1>2, <2>1, <2>6, Times
  <2>8. ~ ((d + 1) * EventLen <= (m + 1) * EventLen)
    BY <1>2, <2>2, <2>6, <2>7
  <2>9. ~ (d + 1 <= m + 1)
    BY <1>2, <2>8, TimesCancel
  <2>10. m + 1 \in 1 .. d
    BY <2>9
  <2> QED BY <2>6, <2>10
<1>5. ASSUME NEW m \in 1 .. d PROVE m * EventLen \in LineEnds(s)
  <2>1. m - 1 \in Nat /\ m \in Nat /\ (m - 1) + 1 = m
    OBVIOUS
  <2>2. (m - 1) * EventLen + EventLen = m * EventLen /\ m * EventLen \in Nat /\ m <= m * EventLen
    BY <1>2, <2>1, Times
  <2>3. m * EventLen <= d * EventLen /\ d * EventLen \in Nat
    BY <1>2, <2>1, TimesCancel, Times
  <2>4. m * EventLen \in 1 .. Len(s)
    BY <1>1, <2>2, <2>3
  <2>5. EventLen \in 1 .. EventLen
    BY <1>2
  <2>6. s[m * EventLen] = <<b[(m - 1) + 1], EventLen>>
    BY <1>1, <1>3, <2>1, <2>2, <2>4, <2>5
  <2> QED BY <1>1, <2>4, <2>6 DEF LineEnds, IsNewline
<1> QED BY <1>4, <1>5

(* The k-th newline ends the k-th event.                                   *)
LEMMA LineEndAt ==
  ASSUME NEW s, NEW d \in Nat, LineEnds(s) = {m * EventLen : m \in 1 .. d},
         NEW k \in 0 .. d
  PROVE  LineEnd(s, k) = k * EventLen
<1>1. EventLen \in Nat \ {0}
  BY Constants
<1>2. CASE k = 0
  BY <1>1, <1>2 DEF LineEnd
<1>3. CASE k # 0
  <2>1. ASSUME NEW m \in 1 .. d
        PROVE  Cardinality({j \in LineEnds(s) : j <= m * EventLen}) = m
    <3>1. m \in Nat
      OBVIOUS
    <3>2. {j \in LineEnds(s) : j <= m * EventLen} = {x * EventLen : x \in 1 .. m}
      <4>1. \A x \in 1 .. d : x * EventLen <= m * EventLen <=> x <= m
        BY <1>1, <3>1, TimesCancel
      <4> QED BY <4>1
    <3> QED BY <1>1, <3>1, <3>2, MultiplesCount
  <2>2. k \in 1 .. d
    BY <1>3
  <2>3. k * EventLen \in LineEnds(s)
        /\ Cardinality({j \in LineEnds(s) : j <= k * EventLen}) = k
    BY <2>1, <2>2
  <2>4. \A i \in LineEnds(s) :
          Cardinality({j \in LineEnds(s) : j <= i}) = k => i = k * EventLen
    BY <2>1
  <2>5. (CHOOSE i \in LineEnds(s) : Cardinality({j \in LineEnds(s) : j <= i}) = k)
        = k * EventLen
    BY <2>3, <2>4
  <2> QED BY <1>3, <2>5 DEF LineEnd
<1> QED BY <1>2, <1>3

LEMMA LineCount ==
  ASSUME NEW s, NEW d \in Nat, LineEnds(s) = {m * EventLen : m \in 1 .. d}
  PROVE  Cardinality(LineEnds(s)) = d /\ Lines(s) = 1 .. d
<1>1. EventLen \in Nat \ {0}
  BY Constants
<1>2. Cardinality({m * EventLen : m \in 1 .. d}) = d
  BY <1>1, MultiplesCount
<1> QED BY <1>2 DEF Lines

(* The k-th line is the encoding of the k-th event.                        *)
LEMMA LineAt ==
  ASSUME NEW s, NEW b \in Seq(Events), Carries(s, b),
         NEW d \in Nat, d * EventLen <= Len(s), Len(s) < d * EventLen + EventLen,
         NEW k \in 1 .. d
  PROVE  k <= Len(b) /\ b[k] \in Events /\ Line(s, k) = Encode(b[k])
<1>1. Len(s) \in Nat /\ Len(b) \in Nat /\ Len(s) <= Len(b) * EventLen
  BY CarriesLengths DEF Carries
<1>2. EventLen \in Nat \ {0}
  BY Constants
<1>3. LineEnds(s) = {m * EventLen : m \in 1 .. d}
  BY Newlines
<1>4. k - 1 \in 0 .. d /\ k \in 0 .. d /\ k - 1 \in Nat /\ (k - 1) + 1 = k
  OBVIOUS
<1> DEFINE o == (k - 1) * EventLen
<1>5. LineEnd(s, k - 1) = o /\ LineEnd(s, k) = k * EventLen
  BY <1>3, <1>4, LineEndAt
<1>6. o \in Nat /\ k * EventLen = o + EventLen /\ d * EventLen \in Nat
  BY <1>2, <1>4, Times
<1>7. k * EventLen <= d * EventLen
  BY <1>2, TimesCancel
<1>8. k <= Len(b)
  <2>1. k * EventLen <= Len(b) * EventLen
    BY <1>1, <1>2, <1>6, <1>7, Times
  <2> QED BY <1>1, <1>2, <2>1, TimesCancel
<1>9. b[k] \in Events
  BY <1>1, <1>4, <1>8, ElementOfSeq
<1>10. Line(s, k) = SubSeq(s, o + 1, o + EventLen)
  BY <1>5, <1>6 DEF Line
<1> HIDE DEF o
<1>11. o + 1 \in Nat \ {0} /\ o + EventLen \in Nat /\ o + EventLen <= Len(s)
       /\ o + 1 <= (o + EventLen) + 1 /\ (o + EventLen) - (o + 1) + 1 = EventLen
  BY <1>1, <1>2, <1>6, <1>7
<1>12. /\ SubSeq(s, o + 1, o + EventLen) \in Seq(Bytes)
       /\ Len(SubSeq(s, o + 1, o + EventLen)) = EventLen
       /\ \A i \in 1 .. EventLen : SubSeq(s, o + 1, o + EventLen)[i] = s[(o + 1) + i - 1]
  <2>1. s \in Seq(Bytes)
    BY DEF Carries
  <2> QED BY <1>11, <2>1, Cut
<1>13. \A i \in 1 .. EventLen : s[(o + 1) + i - 1] = <<b[k], i>>
  <2> TAKE i \in 1 .. EventLen
  <2>1. (o + 1) + i - 1 = o + i /\ o + i <= Len(s) /\ k - 1 \in 0 .. Len(b) - 1
    BY <1>1, <1>2, <1>6, <1>8, <1>11
  <2>2. s[o + i] = <<b[(k - 1) + 1], i>>
    BY <2>1 DEF o, Carries
  <2> QED BY <1>4, <2>1, <2>2
<1>14. SubSeq(s, o + 1, o + EventLen) \in [1 .. EventLen -> Bytes]
  BY <1>12, LenProperties
<1>15. SubSeq(s, o + 1, o + EventLen) = [i \in 1 .. EventLen |-> <<b[k], i>>]
  BY <1>12, <1>13, <1>14
<1> QED BY <1>8, <1>9, <1>10, <1>15 DEF Encode

LEMMA EncodeInjective == \A e, f \in Events : Encode(e) = Encode(f) => e = f
<1> TAKE e, f \in Events
<1> HAVE Encode(e) = Encode(f)
<1>1. 1 \in 1 .. EventLen
  BY Constants
<1>2. Encode(e)[1] = <<e, 1>> /\ Encode(f)[1] = <<f, 1>>
  BY <1>1 DEF Encode
<1> QED BY <1>2

(* A frame that completes d events hands over just those, finds nothing    *)
(* malformed in them and keeps what follows them.                          *)
LEMMA DecodeCorrect ==
  ASSUME NEW chunk, NEW b \in Seq(Events), Carries(pending \o chunk, b),
         NEW d \in Nat, d * EventLen <= Len(pending \o chunk),
         Len(pending \o chunk) < d * EventLen + EventLen
  PROVE  /\ d <= Len(b)
         /\ ~ InvalidEncoding(chunk)
         /\ Decoded(chunk) = SubSeq(b, 1, d)
         /\ Rest(chunk) = SubSeq(pending \o chunk, d * EventLen + 1, Len(pending \o chunk))
<1> DEFINE s == pending \o chunk
<1> HIDE DEF s
<1>0. /\ Carries(s, b) /\ d * EventLen <= Len(s) /\ Len(s) < d * EventLen + EventLen
  BY DEF s
<1>1. LineEnds(s) = {m * EventLen : m \in 1 .. d}
  BY <1>0, Newlines
<1>2. Cardinality(LineEnds(s)) = d /\ Lines(s) = 1 .. d
  BY <1>1, LineCount
<1>3. \A k \in 1 .. d : k <= Len(b) /\ b[k] \in Events /\ Line(s, k) = Encode(b[k])
  BY <1>0, LineAt
<1>4. Len(b) \in Nat
  BY LenProperties
<1>5. d <= Len(b)
  <2>1. CASE d = 0
    BY <1>4, <2>1
  <2>2. CASE d # 0
    BY <1>3, <2>2
  <2> QED BY <2>1, <2>2
<1>6. ~ InvalidEncoding(chunk)
  BY <1>2, <1>3 DEF InvalidEncoding, s
<1>7. \A k \in 1 .. d : (CHOOSE e \in Events : Line(s, k) = Encode(e)) = b[k]
  BY <1>3, EncodeInjective
<1>8. Decoded(chunk) = [k \in 1 .. d |-> b[k]]
  BY <1>2, <1>7 DEF Decoded, s
<1>9. SubSeq(b, 1, d) = [k \in 1 .. d |-> b[k]]
  <2>1. /\ SubSeq(b, 1, d) \in Seq(Events)
        /\ Len(SubSeq(b, 1, d)) = d - 1 + 1
        /\ \A i \in 1 .. d - 1 + 1 : SubSeq(b, 1, d)[i] = b[1 + i - 1]
    BY <1>4, <1>5, Cut
  <2>2. Len(SubSeq(b, 1, d)) = d /\ \A i \in 1 .. d : SubSeq(b, 1, d)[i] = b[i]
    BY <2>1
  <2>3. SubSeq(b, 1, d) \in [1 .. d -> Events]
    BY <2>1, <2>2, LenProperties
  <2> QED BY <2>2, <2>3
<1>10. LineEnd(s, d) = d * EventLen
  <2>1. d \in 0 .. d
    OBVIOUS
  <2> QED BY <1>1, <2>1, LineEndAt
<1>11. Rest(chunk) = SubSeq(s, d * EventLen + 1, Len(s))
  BY <1>2, <1>10 DEF Rest, s
<1> QED BY <1>5, <1>6, <1>8, <1>9, <1>11 DEF s
LEMMA Inside ==
  ASSUME NEW a \in Nat, NEW l \in Nat, NEW j \in 1 .. l, NEW n \in Nat
  PROVE  /\ a + j <= n => a + j \in 1 .. n
         /\ a + l <= n => a + j <= n
OBVIOUS

-----------------------------------------------------------------------------
(***************************************************************************)
(* What keeps Carries: cutting bytes off the end, taking whole events off  *)
(* the front, and writing one more event at the end.                       *)
(***************************************************************************)
LEMMA CarriesPrefix ==
  ASSUME NEW t, NEW b \in Seq(Events), Carries(t, b),
         NEW s \in Seq(Bytes), Len(s) <= Len(t), \A i \in 1 .. Len(s) : s[i] = t[i]
  PROVE  Carries(s, b)
<1>1. Len(t) \in Nat /\ Len(b) \in Nat /\ Len(s) \in Nat
  BY CarriesLengths, LenProperties
<1>2. EventLen \in Nat \ {0} /\ Len(b) * EventLen \in Nat
  BY <1>1, Constants, Times
<1>3. Len(s) <= Len(b) * EventLen
  BY <1>1, <1>2 DEF Carries
<1>4. ASSUME NEW m \in 0 .. Len(b) - 1, NEW j \in 1 .. EventLen,
             m * EventLen + j <= Len(s)
      PROVE  s[m * EventLen + j] = <<b[m + 1], j>>
  <2>1. m \in Nat /\ m * EventLen \in Nat
    BY <1>1, <1>2, Times
  <2>2. m * EventLen + j \in 1 .. Len(s) /\ m * EventLen + j <= Len(t)
    BY <1>1, <1>2, <1>4, <2>1
  <2>3. t[m * EventLen + j] = <<b[m + 1], j>>
    BY <2>2 DEF Carries
  <2> QED BY <2>2, <2>3
<1> QED BY <1>3, <1>4 DEF Carries

(* What is left of the bytes t after o, and of the events b after d.       *)
BytesAfter(u, t, o) ==
  /\ u \in Seq(Bytes) /\ Len(u) = Len(t) - o
  /\ \A i \in 1 .. Len(u) : u[i] = t[o + i]
EventsAfter(c, b, d) ==
  /\ c \in Seq(Events) /\ Len(c) = Len(b) - d
  /\ \A i \in 1 .. Len(c) : c[i] = b[d + i]

LEMMA CarriesShift ==
  ASSUME NEW t, NEW b \in Seq(Events), Carries(t, b),
         NEW d \in Nat, d <= Len(b), d * EventLen <= Len(t),
         NEW u, BytesAfter(u, t, d * EventLen), NEW c, EventsAfter(c, b, d)
  PROVE  Carries(u, c)
<1>0. /\ u \in Seq(Bytes) /\ Len(u) = Len(t) - d * EventLen
      /\ \A i \in 1 .. Len(u) : u[i] = t[d * EventLen + i]
      /\ c \in Seq(Events) /\ Len(c) = Len(b) - d
      /\ \A i \in 1 .. Len(c) : c[i] = b[d + i]
  BY DEF BytesAfter, EventsAfter
<1>1. /\ Len(t) \in Nat /\ Len(b) \in Nat /\ Len(u) \in Nat /\ Len(c) \in Nat
  BY <1>0, CarriesLengths, LenProperties
<1>2. EventLen \in Nat \ {0}
  BY <1>0, Constants
<1>3. Len(u) <= Len(c) * EventLen
  <2>1. (Len(c) + d) * EventLen = Len(c) * EventLen + d * EventLen
    BY <1>0, <1>1, <1>2, TimesPlus
  <2>2. Len(c) + d = Len(b)
    BY <1>0, <1>1
  <2>3. Len(t) <= Len(b) * EventLen
    BY DEF Carries
  <2>4. Len(c) * EventLen \in Nat /\ d * EventLen \in Nat
    BY <1>0, <1>1, <1>2, Times
  <2> QED BY <1>0, <1>1, <2>1, <2>2, <2>3, <2>4
<1>4. ASSUME NEW m \in 0 .. Len(c) - 1, NEW j \in 1 .. EventLen,
             m * EventLen + j <= Len(u)
      PROVE  u[m * EventLen + j] = <<c[m + 1], j>>
  <2>1. m \in Nat /\ m * EventLen \in Nat /\ d * EventLen \in Nat
    BY <1>0, <1>1, <1>2, Times
  <2>2. (d + m) * EventLen = d * EventLen + m * EventLen
    BY <1>0, <1>2, <2>1, TimesPlus
  <2>3. m * EventLen + j \in 1 .. Len(u)
    BY <1>0, <1>1, <1>2, <1>4, <2>1, Inside
  <2>4. u[m * EventLen + j] = t[d * EventLen + (m * EventLen + j)]
    BY <1>0, <2>3
  <2>5. d * EventLen + (m * EventLen + j) = (d + m) * EventLen + j
    BY <1>0, <1>2, <2>1, <2>2
  <2>6. (d + m) * EventLen + j <= Len(t) /\ d + m \in 0 .. Len(b) - 1
    BY <1>0, <1>1, <1>2, <1>4, <2>1, <2>5
  <2>7. t[(d + m) * EventLen + j] = <<b[(d + m) + 1], j>>
    BY <1>0, <2>6 DEF Carries
  <2>8. m + 1 \in 1 .. Len(c) /\ d + (m + 1) = (d + m) + 1
    BY <1>0, <1>1
  <2>9. c[m + 1] = b[(d + m) + 1]
    BY <1>0, <2>8
  <2> QED BY <1>0, <2>4, <2>5, <2>7, <2>9
<1> QED BY <1>0, <1>3, <1>4 DEF Carries

(* The bytes u are those of t and an event e; the events c are b and e.    *)
BytesThen(u, t, e) ==
  /\ u \in Seq(Bytes) /\ Len(u) = Len(t) + EventLen
  /\ \A i \in 1 .. Len(t) : u[i] = t[i]
  /\ \A j \in 1 .. EventLen : u[Len(t) + j] = <<e, j>>
EventsThen(c, b, e) ==
  /\ c \in Seq(Events) /\ Len(c) = Len(b) + 1
  /\ \A i \in 1 .. Len(b) : c[i] = b[i]
  /\ c[Len(b) + 1] = e

LEMMA CarriesWrite ==
  ASSUME NEW t, NEW b \in Seq(Events), Carries(t, b), Len(t) = Len(b) * EventLen,
         NEW e, NEW u, BytesThen(u, t, e), NEW c, EventsThen(c, b, e)
  PROVE  Carries(u, c) /\ Len(u) = Len(c) * EventLen
<1>0. /\ u \in Seq(Bytes) /\ Len(u) = Len(t) + EventLen
      /\ \A i \in 1 .. Len(t) : u[i] = t[i]
      /\ \A j \in 1 .. EventLen : u[Len(t) + j] = <<e, j>>
      /\ c \in Seq(Events) /\ Len(c) = Len(b) + 1
      /\ \A i \in 1 .. Len(b) : c[i] = b[i]
      /\ c[Len(b) + 1] = e
  BY DEF BytesThen, EventsThen
<1>1. Len(t) \in Nat /\ Len(b) \in Nat /\ Len(u) \in Nat /\ Len(c) \in Nat
  BY <1>0, CarriesLengths, LenProperties
<1>2. EventLen \in Nat \ {0}
  BY Constants
<1>3. Len(u) = Len(c) * EventLen
  BY <1>0, <1>1, <1>2, Times
<1>4. ASSUME NEW m \in 0 .. Len(c) - 1, NEW j \in 1 .. EventLen,
             m * EventLen + j <= Len(u)
      PROVE  u[m * EventLen + j] = <<c[m + 1], j>>
  <2>1. m \in Nat /\ m * EventLen \in Nat
    BY <1>1, <1>2, Times
  <2>2. CASE m = Len(b)
    BY <1>0, <1>1, <2>2
  <2>3. CASE m # Len(b)
    <3>1. m < Len(b) /\ m \in 0 .. Len(b) - 1 /\ m + 1 \in 1 .. Len(b)
      BY <1>0, <1>1, <2>1, <2>3
    <3>2. m * EventLen + EventLen <= Len(t)
      BY <1>1, <1>2, <2>1, <3>1, TimesMonotone
    <3>3. m * EventLen + j \in 1 .. Len(t) /\ m * EventLen + j <= Len(t)
      BY <1>1, <1>2, <2>1, <3>2, Inside
    <3>4. t[m * EventLen + j] = <<b[m + 1], j>>
      BY <3>1, <3>3 DEF Carries
    <3> QED BY <1>0, <3>1, <3>3, <3>4
  <2> QED BY <2>2, <2>3
<1>5. Len(u) <= Len(c) * EventLen
  BY <1>1, <1>3
<1> QED BY <1>0, <1>3, <1>4, <1>5 DEF Carries
-----------------------------------------------------------------------------
(***************************************************************************)
(* The inductive invariant.                                                *)
(***************************************************************************)
(* The events of the session that the loop has not yet been handed.        *)
Backlog == SubSeq(written, Len(acted) + 1, Len(written))

StreamInv ==
  /\ Len(acted) <= Len(written)
  /\ acted = SubSeq(written, 1, Len(acted))
  /\ Len(pending) < EventLen
  /\ Carries(pending \o wire, Backlog)
  /\ link = "up" => Len(pending \o wire) = Len(Backlog) * EventLen

(* Before a run has posted its request there is no session.                *)
PhaseInv ==
  /\ gateway # "none" => link = "up"
  /\ pc \in {"down", "dial"} => /\ link = "none"
                                /\ written = <<>> /\ acted = <<>>
                                /\ wire = <<>> /\ pending = <<>>

Task == [ticket : Opens, pc : {"spawned", "connect", "bridge"}]

TaskInv == streams \subseteq Task /\ IsFiniteSet(streams)

IInv == TypeOK /\ StreamInv /\ PhaseInv /\ TaskInv
(* TypeOK in parts.                                                        *)
RunTypes ==
  /\ current \in 1 .. MaxCredential
  /\ file \in 0 .. MaxCredential /\ held \in 0 .. MaxCredential
  /\ pc \in {"down", "dial", "posted", "serving"}
  /\ ready = (pc = "serving")
  /\ events \in 0 .. MaxEvents
  /\ faults \in 0 .. MaxFaults
SessionTypes ==
  /\ link \in {"none", "up", "closed", "silent"}
  /\ gateway \in {"none", "authenticated", "claimed", "ended"}
  /\ lease \in BOOLEAN /\ late \in BOOLEAN /\ goaway \in BOOLEAN
StreamTypes ==
  /\ written \in Seq(Events) /\ acted \in Seq(Events)
  /\ wire \in Seq(Bytes) /\ pending \in Seq(Bytes)
TaskTypes ==
  /\ Cardinality(streams) <= MaxStreams
  /\ \A s \in streams : /\ s.pc \in {"spawned", "connect", "bridge"}
                        /\ s.ticket \in Opens \cap {acted[k] : k \in DOMAIN acted}
  /\ finished \subseteq [ticket : Opens, retired : BOOLEAN]

LEMMA TypeParts == TypeOK <=> RunTypes /\ SessionTypes /\ StreamTypes /\ TaskTypes
BY DEF TypeOK, RunTypes, SessionTypes, StreamTypes, TaskTypes

LEMMA Empty ==
  /\ Carries(<<>> \o <<>>, SubSeq(<<>>, Len(<<>>) + 1, Len(<<>>)))
  /\ Len(<<>> \o <<>>) = Len(SubSeq(<<>>, Len(<<>>) + 1, Len(<<>>))) * EventLen
  /\ <<>> = SubSeq(<<>>, 1, Len(<<>>)) /\ Len(<<>>) < EventLen /\ Len(<<>>) <= Len(<<>>)
<1>1. EventLen \in Nat \ {0}
  BY Constants
<1>2. <<>> \in Seq(Bytes) /\ <<>> \in Seq(Events) /\ Len(<<>>) = 0
  OBVIOUS
<1>3. <<>> \o <<>> = <<>>
  BY <1>2, ConcatEmptySeq
<1>4. SubSeq(<<>>, 1, 0) = <<>>
  BY SubSeqEmpty
<1>5. 0 * EventLen = 0
  BY <1>1
<1>6. Carries(<<>>, <<>>)
  BY <1>1, <1>2, <1>5 DEF Carries
<1>7. SubSeq(<<>>, Len(<<>>) + 1, Len(<<>>)) = <<>> /\ SubSeq(<<>>, 1, Len(<<>>)) = <<>>
  BY <1>2, <1>4
<1>8. Len(<<>> \o <<>>) = Len(SubSeq(<<>>, Len(<<>>) + 1, Len(<<>>))) * EventLen
  BY <1>2, <1>3, <1>5, <1>7
<1>9. Carries(<<>> \o <<>>, SubSeq(<<>>, Len(<<>>) + 1, Len(<<>>)))
  BY <1>3, <1>6, <1>7
<1>10. Len(<<>>) < EventLen /\ Len(<<>>) <= Len(<<>>)
  BY <1>1, <1>2
<1> QED BY <1>7, <1>8, <1>9, <1>10

(* A session without bytes and events satisfies the invariant.             *)
LEMMA NoSession ==
  ASSUME written = <<>>, acted = <<>>, wire = <<>>, pending = <<>>
  PROVE  StreamInv /\ Len(pending \o wire) = Len(Backlog) * EventLen
BY Empty DEF StreamInv, Backlog

LEMMA NoSessionNext ==
  ASSUME written' = <<>>, acted' = <<>>, wire' = <<>>, pending' = <<>>
  PROVE  StreamInv'
BY Empty DEF StreamInv, Backlog

LEMMA SameStream ==
  ASSUME StreamInv, UNCHANGED stream, link' = "up" => link = "up"
  PROVE  StreamInv'
<1>1. Backlog' = Backlog /\ (pending \o wire)' = pending \o wire
  BY DEF Backlog, stream
<1>2. acted' = acted /\ written' = written /\ pending' = pending
  BY DEF stream
<1> QED BY <1>1, <1>2 DEF StreamInv

LEMMA SameTasks ==
  ASSUME TaskInv, TaskTypes, UNCHANGED <<tasks, acted>>
  PROVE  TaskInv' /\ TaskTypes'
BY DEF TaskInv, TaskTypes, tasks

LEMMA Invariants ==
  ASSUME IInv
  PROVE  /\ RunTypes /\ SessionTypes /\ StreamTypes /\ TaskTypes
         /\ StreamInv /\ PhaseInv /\ TaskInv
BY TypeParts DEF IInv

LEMMA NextInvariants ==
  ASSUME RunTypes', SessionTypes', StreamTypes', TaskTypes', StreamInv', PhaseInv', TaskInv'
  PROVE  IInv'
<1>1. TypeOK'
  BY DEF TypeOK, RunTypes, SessionTypes, StreamTypes, TaskTypes
<1> QED BY <1>1 DEF IInv

(* A run that returns leaves nothing behind.                               *)
LEMMA ReturnInv ==
  ASSUME IInv, Return, UNCHANGED <<broker, events>>, faults' \in 0 .. MaxFaults
  PROVE  IInv'
<1>1. RunTypes /\ SessionTypes
  BY Invariants
<1>2. RunTypes'
  <2>1. held' \in 0 .. MaxCredential
    BY Constants DEF Return
  <2> QED BY <1>1, <2>1 DEF RunTypes, Return, broker
<1>3. SessionTypes'
  BY DEF SessionTypes, Return
<1>4. StreamTypes'
  BY DEF StreamTypes, Return
<1>5. streams' = {} /\ finished' = {}
  BY DEF Return
<1>6. IsFiniteSet(streams') /\ Cardinality(streams') = 0
  BY <1>5, FS_EmptySet
<1>7. TaskTypes' /\ TaskInv'
  BY <1>5, <1>6, Constants DEF TaskTypes, TaskInv
<1>8. StreamInv'
  BY NoSessionNext DEF Return
<1>9. PhaseInv'
  BY DEF Return, PhaseInv
<1> QED BY <1>2, <1>3, <1>4, <1>7, <1>8, <1>9, NextInvariants
-----------------------------------------------------------------------------
(***************************************************************************)
(* The bytes: the gateway writes, a frame is decoded, the connection goes. *)
(***************************************************************************)
LEMMA BacklogFacts ==
  ASSUME StreamTypes, StreamInv
  PROVE  /\ Len(written) \in Nat /\ Len(acted) \in Nat
         /\ Len(pending) \in Nat /\ Len(wire) \in Nat
         /\ Backlog \in Seq(Events)
         /\ Len(Backlog) = Len(written) - Len(acted)
         /\ \A i \in 1 .. Len(Backlog) : Backlog[i] = written[Len(acted) + i]
<1>1. Len(written) \in Nat /\ Len(acted) \in Nat /\ Len(pending) \in Nat /\ Len(wire) \in Nat
  BY LenProperties DEF StreamTypes
<1>2. written \in Seq(Events) /\ Len(acted) <= Len(written)
  BY DEF StreamTypes, StreamInv
<1>3. Len(acted) + 1 \in Nat \ {0} /\ Len(acted) + 1 <= Len(written) + 1
  BY <1>1, <1>2
<1>4. /\ Backlog \in Seq(Events)
      /\ Len(Backlog) = Len(written) - (Len(acted) + 1) + 1
      /\ \A i \in 1 .. Len(written) - (Len(acted) + 1) + 1 :
           Backlog[i] = written[(Len(acted) + 1) + i - 1]
  BY <1>1, <1>2, <1>3, Cut DEF Backlog
<1>5. Len(Backlog) = Len(written) - Len(acted)
  BY <1>1, <1>4
<1>6. ASSUME NEW i \in 1 .. Len(Backlog) PROVE Backlog[i] = written[Len(acted) + i]
  <2>1. (Len(acted) + 1) + i - 1 = Len(acted) + i
        /\ i \in 1 .. Len(written) - (Len(acted) + 1) + 1
    BY <1>1, <1>5
  <2> QED BY <1>4, <2>1
<1> QED BY <1>1, <1>4, <1>5, <1>6

LEMMA WriteStream ==
  ASSUME IInv, gateway_writes
  PROVE  StreamInv' /\ StreamTypes' /\ events' \in 0 .. MaxEvents /\ events + 1 \in Events
<1> DEFINE e == events + 1
           t == pending \o wire
<1>1. StreamTypes /\ StreamInv /\ RunTypes /\ PhaseInv
  BY Invariants
<1>2. e \in Events /\ e \in 0 .. MaxEvents
  BY <1>1, Constants DEF RunTypes, gateway_writes, Events
<1>3. /\ written' = Append(written, e) /\ wire' = wire \o Encode(e)
      /\ pending' = pending /\ acted' = acted /\ link' = link /\ events' = e
  BY DEF gateway_writes, session
<1> HIDE DEF e
<1>4. link = "up" /\ Len(t) = Len(Backlog) * EventLen /\ Carries(t, Backlog)
  BY <1>1 DEF gateway_writes, PhaseInv, StreamInv
<1>5. /\ Len(written) \in Nat /\ Len(acted) \in Nat
      /\ Len(pending) \in Nat /\ Len(wire) \in Nat
      /\ Backlog \in Seq(Events)
      /\ Len(Backlog) = Len(written) - Len(acted)
      /\ \A i \in 1 .. Len(Backlog) : Backlog[i] = written[Len(acted) + i]
  BY <1>1, BacklogFacts
<1>6. /\ written \in Seq(Events) /\ acted \in Seq(Events)
      /\ wire \in Seq(Bytes) /\ pending \in Seq(Bytes)
  BY <1>1 DEF StreamTypes
<1>7. Encode(e) \in Seq(Bytes) /\ Len(Encode(e)) = EventLen
      /\ \A j \in 1 .. EventLen : Encode(e)[j] = <<e, j>>
  BY <1>2, Constants DEF Encode, Bytes
<1>8. /\ written' \in Seq(Events) /\ Len(written') = Len(written) + 1
      /\ \A i \in 1 .. Len(written) : written'[i] = written[i]
      /\ written'[Len(written) + 1] = e
  BY <1>2, <1>3, <1>6, AppendProperties
<1>9. wire' \in Seq(Bytes) /\ StreamTypes'
  BY <1>3, <1>6, <1>7, <1>8, ConcatProperties DEF StreamTypes
<1>10. (pending \o wire)' = t \o Encode(e)
  <2>1. (pending \o wire)' = pending \o (wire \o Encode(e))
    BY <1>3
  <2>2. (pending \o wire) \o Encode(e) = pending \o (wire \o Encode(e))
    BY <1>6, <1>7, ConcatAssociative
  <2> QED BY <2>1, <2>2
<1>11. t \in Seq(Bytes) /\ Len(t) \in Nat
  BY <1>6, ConcatProperties, LenProperties
<1> HIDE DEF t
<1>12. /\ t \o Encode(e) \in Seq(Bytes)
       /\ Len(t \o Encode(e)) = Len(t) + EventLen
       /\ \A i \in 1 .. Len(t) + EventLen :
            (t \o Encode(e))[i] = IF i <= Len(t) THEN t[i] ELSE Encode(e)[i - Len(t)]
  BY <1>7, <1>11, ConcatProperties
<1>13. \A i \in 1 .. Len(t) : (t \o Encode(e))[i] = t[i]
  BY <1>11, <1>12, Constants
<1>14. ASSUME NEW j \in 1 .. EventLen PROVE (t \o Encode(e))[Len(t) + j] = <<e, j>>
  <2>1. Len(t) + j \in 1 .. Len(t) + EventLen /\ ~ (Len(t) + j <= Len(t))
        /\ (Len(t) + j) - Len(t) = j
    BY <1>11, Constants
  <2> QED BY <1>7, <1>12, <2>1
<1> DEFINE c == Backlog'
<1>15. c = SubSeq(written', Len(acted) + 1, Len(written'))
  BY <1>3 DEF Backlog
<1> HIDE DEF c
<1>16. Len(acted) <= Len(written)
  BY <1>1 DEF StreamInv
<1>17. /\ c \in Seq(Events)
       /\ Len(c) = Len(written') - (Len(acted) + 1) + 1
       /\ \A i \in 1 .. Len(written') - (Len(acted) + 1) + 1 :
            c[i] = written'[(Len(acted) + 1) + i - 1]
  <2>1. Len(acted) + 1 \in Nat \ {0} /\ Len(written') \in Nat
        /\ Len(written') <= Len(written') /\ Len(acted) + 1 <= Len(written') + 1
    BY <1>5, <1>8, <1>16
  <2> QED BY <1>8, <1>15, <2>1, Cut
<1>18. Len(c) = Len(Backlog) + 1
  BY <1>5, <1>8, <1>17
<1>19. ASSUME NEW i \in 1 .. Len(Backlog) PROVE c[i] = Backlog[i]
  <2>1. (Len(acted) + 1) + i - 1 = Len(acted) + i /\ Len(acted) + i \in 1 .. Len(written)
        /\ i \in 1 .. Len(written') - (Len(acted) + 1) + 1
    BY <1>5, <1>8, <1>16
  <2> QED BY <1>5, <1>8, <1>17, <2>1
<1>20. c[Len(Backlog) + 1] = e
  <2>1. Len(Backlog) + 1 \in 1 .. Len(written') - (Len(acted) + 1) + 1
        /\ (Len(acted) + 1) + (Len(Backlog) + 1) - 1 = Len(written) + 1
    BY <1>5, <1>8, <1>16
  <2> QED BY <1>8, <1>17, <2>1
<1>21. Carries(t \o Encode(e), c) /\ Len(t \o Encode(e)) = Len(c) * EventLen
  <2>1. BytesThen(t \o Encode(e), t, e)
    BY <1>12, <1>13, <1>14 DEF BytesThen
  <2>2. EventsThen(c, Backlog, e)
    BY <1>17, <1>18, <1>19, <1>20 DEF EventsThen
  <2>3. Backlog \in Seq(Events) /\ Carries(t, Backlog) /\ Len(t) = Len(Backlog) * EventLen
    BY <1>4, <1>5
  <2>4. \A u, f : BytesThen(u, t, e) /\ EventsThen(f, Backlog, e) =>
                   Carries(u, f) /\ Len(u) = Len(f) * EventLen
    BY <2>3, CarriesWrite
  <2> QED BY <2>1, <2>2, <2>4
<1>22. Carries((pending \o wire)', Backlog') /\ Len((pending \o wire)') = Len(Backlog') * EventLen
  BY <1>10, <1>21 DEF c
<1>23. acted' = SubSeq(written', 1, Len(acted'))
  <2>1. acted = SubSeq(written, 1, Len(acted))
    BY <1>1 DEF StreamInv
  <2>2. 1 \in Nat \ {0} /\ 1 <= Len(acted) + 1 /\ Len(acted) <= Len(written')
        /\ Len(acted) - 1 + 1 = Len(acted)
    BY <1>5, <1>8, <1>16
  <2>3. /\ SubSeq(written', 1, Len(acted)) \in Seq(Events)
        /\ Len(SubSeq(written', 1, Len(acted))) = Len(acted)
        /\ \A i \in 1 .. Len(acted) : SubSeq(written', 1, Len(acted))[i] = written'[1 + i - 1]
    BY <1>5, <1>8, <2>2, Cut
  <2>4. \A i \in 1 .. Len(acted) : SubSeq(written, 1, Len(acted))[i] = written[1 + i - 1]
    BY <1>5, <1>6, <1>16, <2>2, Cut
  <2>5. \A i \in 1 .. Len(acted) : SubSeq(written', 1, Len(acted))[i] = acted[i]
    <3> TAKE i \in 1 .. Len(acted)
    <3>1. 1 + i - 1 = i /\ i \in 1 .. Len(written)
      BY <1>5, <1>16
    <3>2. acted[i] = written[i]
      BY <2>1, <2>4, <3>1
    <3> QED BY <1>8, <2>3, <3>1, <3>2
  <2>6. SubSeq(written', 1, Len(acted)) = acted
    BY <1>6, <2>3, <2>5, SeqEqual
  <2> QED BY <1>3, <2>6
<1>24. Len(acted') <= Len(written') /\ Len(pending') < EventLen
  BY <1>1, <1>3, <1>5, <1>8, <1>16 DEF StreamInv
<1>25. StreamInv'
  BY <1>22, <1>23, <1>24 DEF StreamInv
<1> QED BY <1>2, <1>3, <1>9, <1>25 DEF e
(* A frame, however cut: the decoder hands over the next d events of the   *)
(* backlog, in order.                                                      *)
LEMMA FrameStream ==
  ASSUME IInv, NEW n \in 1 .. MaxFrame, frame(n),
         ~ (TooLarge(SubSeq(wire, 1, n)) \/ InvalidEncoding(SubSeq(wire, 1, n)))
  PROVE  /\ StreamInv' /\ StreamTypes'
         /\ Decoded(SubSeq(wire, 1, n)) \in Seq(Events)
         /\ \E d \in Nat : Len(acted) + d <= Len(written)
                           /\ acted' = SubSeq(written, 1, Len(acted) + d)
<1> DEFINE chunk == SubSeq(wire, 1, n)
           s == pending \o chunk
           t == pending \o wire
<1>1. /\ StreamTypes /\ StreamInv
  BY Invariants
<1>2. /\ n <= Len(wire) /\ link = "up"
      /\ wire' = SubSeq(wire, n + 1, Len(wire))
      /\ pending' = Rest(chunk)
      /\ acted' = acted \o Decoded(chunk)
      /\ written' = written /\ link' = link
  BY DEF frame, session
<1>3. /\ Len(written) \in Nat /\ Len(acted) \in Nat
      /\ Len(pending) \in Nat /\ Len(wire) \in Nat
      /\ Backlog \in Seq(Events)
      /\ Len(Backlog) = Len(written) - Len(acted)
  BY <1>1, BacklogFacts
<1>4. /\ written \in Seq(Events) /\ acted \in Seq(Events)
      /\ wire \in Seq(Bytes) /\ pending \in Seq(Bytes)
  BY <1>1 DEF StreamTypes
<1>5. n \in Nat
  OBVIOUS
<1>6. s \in Seq(Bytes) /\ Len(s) = Len(pending) + n /\ \A i \in 1 .. Len(s) : s[i] = t[i]
  BY <1>2, <1>4, <1>5, CutBytes
<1>7. Carries(t, Backlog) /\ Len(t) = Len(Backlog) * EventLen /\ Len(t) = Len(pending) + Len(wire)
  BY <1>1, <1>2, <1>4, ConcatProperties DEF StreamInv
<1>8. Carries(s, Backlog)
  <2> HIDE DEF s, t
  <2>1. Len(s) <= Len(t)
    BY <1>2, <1>3, <1>5, <1>6, <1>7
  <2> QED BY <1>3, <1>6, <1>7, <2>1, CarriesPrefix
<1>9. EventLen \in Nat \ {0} /\ Len(s) \in Nat
  BY <1>3, <1>5, <1>6, Constants
<1>10. PICK d \in Nat : d * EventLen <= Len(s) /\ Len(s) < d * EventLen + EventLen
  BY <1>9, Divide
<1>11. /\ d <= Len(Backlog)
       /\ Decoded(chunk) = SubSeq(Backlog, 1, d)
       /\ Rest(chunk) = SubSeq(s, d * EventLen + 1, Len(s))
  <2> HIDE DEF chunk
  <2> QED BY <1>3, <1>8, <1>10, DecodeCorrect
<1> DEFINE o == d * EventLen
           r == SubSeq(s, o + 1, Len(s))
           u == r \o SubSeq(wire, n + 1, Len(wire))
<1>12. o \in Nat /\ o <= Len(s)
  BY <1>9, <1>10, Times
<1>13. /\ r \in Seq(Bytes) /\ Len(r) = Len(s) - o
       /\ u \in Seq(Bytes) /\ Len(u) = Len(t) - o
       /\ \A i \in 1 .. Len(u) : u[i] = t[o + i]
  <2>1. n <= Len(wire) /\ o <= Len(pending) + n /\ o \in Nat
    BY <1>2, <1>6, <1>12
  <2>2. wire \in Seq(Bytes) /\ pending \in Seq(Bytes)
    BY <1>4
  <2> HIDE DEF o
  <2>3. CutOff(Bytes, pending, wire, n, o)
    BY <1>5, <2>1, <2>2, CutRest
  <2> QED BY <2>3 DEF CutOff
<1>14. pending' = r /\ (pending \o wire)' = u
  BY <1>2, <1>11
<1>15. Len(pending') < EventLen /\ pending' \in Seq(Bytes)
  <2> HIDE DEF r, s, u, t
  <2> QED BY <1>9, <1>10, <1>12, <1>13, <1>14
<1>16. wire' \in Seq(Bytes)
  <2>1. n + 1 \in Nat \ {0} /\ n + 1 <= Len(wire) + 1
    BY <1>2, <1>3
  <2> QED BY <1>2, <1>3, <1>4, <2>1, Cut
<1> DEFINE A == Len(acted)
           c == SubSeq(written, A + d + 1, Len(written))
<1>17. A + d <= Len(written) /\ A \in Nat
  BY <1>3, <1>11
<1>18. /\ SubSeq(written, 1, A) \o SubSeq(Backlog, 1, d) = SubSeq(written, 1, A + d)
       /\ Len(SubSeq(written, 1, A + d)) = A + d
       /\ SubSeq(written, 1, A + d) \in Seq(Events)
       /\ c \in Seq(Events) /\ Len(c) = Len(Backlog) - d
       /\ \A i \in 1 .. Len(c) : c[i] = Backlog[d + i]
  <2> HIDE DEF A
  <2>1. Backlog = SubSeq(written, A + 1, Len(written))
    BY DEF A, Backlog
  <2>2. \A a \in Nat : a + d <= Len(written) =>
          LET b == SubSeq(written, a + 1, Len(written))
              f == SubSeq(written, a + d + 1, Len(written)) IN
          /\ SubSeq(written, 1, a) \o SubSeq(b, 1, d) = SubSeq(written, 1, a + d)
          /\ Len(SubSeq(written, 1, a + d)) = a + d
          /\ SubSeq(written, 1, a + d) \in Seq(Events)
          /\ f \in Seq(Events) /\ Len(f) = Len(b) - d
          /\ \A i \in 1 .. Len(f) : f[i] = b[d + i]
    BY <1>4, MoveOn
  <2> QED BY <1>17, <2>1, <2>2
<1>19. acted' = SubSeq(written, 1, A + d)
  <2>1. acted = SubSeq(written, 1, A)
    BY <1>1 DEF StreamInv
  <2> QED BY <1>2, <1>11, <1>18, <2>1
<1>20. Len(acted') = A + d /\ acted' \in Seq(Events) /\ acted' = SubSeq(written', 1, Len(acted'))
       /\ Len(acted') <= Len(written')
  BY <1>2, <1>17, <1>18, <1>19
<1>21. Backlog' = c
  BY <1>2, <1>20 DEF Backlog
<1>22. Carries(u, c)
  <2> HIDE DEF u, c, t, o
  <2>1. d * EventLen <= Len(t)
    <3> HIDE DEF s
    <3> QED BY <1>2, <1>3, <1>5, <1>6, <1>7, <1>12 DEF o
  <2>2. BytesAfter(u, t, d * EventLen) /\ EventsAfter(c, Backlog, d)
    BY <1>13, <1>18 DEF BytesAfter, EventsAfter, o
  <2>3. \A v, f : BytesAfter(v, t, d * EventLen) /\ EventsAfter(f, Backlog, d) => Carries(v, f)
    BY <1>3, <1>7, <1>11, <2>1, CarriesShift
  <2> QED BY <2>2, <2>3
<1>23. Len(u) = Len(c) * EventLen
  <2> HIDE DEF u, c, t
  <2>1. Len(c) \in Nat /\ Len(c) + d = Len(Backlog)
    BY <1>3, <1>11, <1>18, LenProperties
  <2>2. (Len(c) + d) * EventLen = Len(c) * EventLen + d * EventLen
    BY <1>9, <2>1, TimesPlus
  <2>3. Len(c) * EventLen \in Nat /\ d * EventLen \in Nat
    BY <1>9, <2>1, Times
  <2>4. Len(t) = Len(c) * EventLen + d * EventLen
    BY <1>7, <2>1, <2>2
  <2>5. Len(u) = Len(t) - d * EventLen
    BY <1>13
  <2> QED BY <2>3, <2>4, <2>5
<1>24. StreamInv'
  BY <1>14, <1>15, <1>20, <1>21, <1>22, <1>23 DEF StreamInv
<1>25. StreamTypes'
  BY <1>2, <1>4, <1>15, <1>16, <1>20 DEF StreamTypes
<1>26. Decoded(chunk) \in Seq(Events)
  <2>1. 1 \in Nat \ {0} /\ 1 <= d + 1
    OBVIOUS
  <2>2. SubSeq(Backlog, 1, d) \in Seq(Events)
    BY <1>3, <1>11, <2>1, Cut
  <2> QED BY <1>11, <2>2
<1> QED BY <1>17, <1>19, <1>24, <1>25, <1>26

(* What the connection takes with it is the end of the stream.             *)
LEMMA LostStream ==
  ASSUME IInv, connection_lost
  PROVE  StreamInv' /\ StreamTypes'
<1>1. StreamTypes /\ StreamInv
  BY Invariants
<1>2. /\ wire' = <<>> /\ pending' = pending /\ written' = written /\ acted' = acted
      /\ link' # "up"
  BY DEF connection_lost
<1>3. /\ written \in Seq(Events) /\ acted \in Seq(Events)
      /\ wire \in Seq(Bytes) /\ pending \in Seq(Bytes)
  BY <1>1 DEF StreamTypes
<1>4. StreamTypes'
  BY <1>2, <1>3 DEF StreamTypes
<1>5. (pending \o wire)' = pending /\ Backlog' = Backlog
  BY <1>2, <1>3, ConcatEmptySeq DEF Backlog
<1>6. /\ Len(pending \o wire) = Len(pending) + Len(wire)
      /\ \A i \in 1 .. Len(pending) + Len(wire) :
           (pending \o wire)[i] = IF i <= Len(pending) THEN pending[i] ELSE wire[i - Len(pending)]
  BY <1>3, ConcatProperties
<1>7. Len(pending) \in Nat /\ Len(wire) \in Nat /\ Backlog \in Seq(Events)
  BY <1>1, BacklogFacts
<1>8. Len(pending) <= Len(pending \o wire)
      /\ \A i \in 1 .. Len(pending) : pending[i] = (pending \o wire)[i]
  BY <1>6, <1>7
<1>9. Carries(pending, Backlog)
  BY <1>1, <1>3, <1>7, <1>8, CarriesPrefix DEF StreamInv
<1> QED BY <1>1, <1>2, <1>4, <1>5, <1>9 DEF StreamInv
-----------------------------------------------------------------------------
(***************************************************************************)
(* The stream tasks: the permits bound them, and each belongs to an OPEN   *)
(* that was decoded.                                                       *)
(***************************************************************************)
LEMMA SpawnedBound ==
  ASSUME TaskInv, TaskTypes, NEW U, U \subseteq Opens
  PROVE  /\ Spawned(U) \subseteq U /\ IsFiniteSet(Spawned(U))
         /\ Cardinality(Spawned(U)) + Cardinality(streams) <= MaxStreams
<1>1. IsFiniteSet(U) /\ U \subseteq 0 .. MaxEvents /\ U \subseteq Nat
  <2>1. U \subseteq 1 .. MaxEvents /\ MaxEvents \in Nat
    BY Constants DEF Events
  <2>2. IsFiniteSet(1 .. MaxEvents)
    BY <2>1, FS_Interval
  <2>3. U \subseteq 0 .. MaxEvents /\ U \subseteq Nat
    BY <2>1
  <2>4. IsFiniteSet(U)
    BY <2>1, <2>2, FS_Subset
  <2> QED BY <2>3, <2>4
<1>2. Spawned(U) \subseteq U /\ Spawned(U) \subseteq 0 .. MaxEvents
  BY <1>1 DEF Spawned
<1>3. IsFiniteSet(Spawned(U)) /\ Cardinality(Spawned(U)) \in Nat
  BY <1>1, <1>2, FS_Subset, FS_CardinalityType
<1>4. Cardinality(streams) \in Nat /\ Cardinality(streams) <= MaxStreams /\ MaxStreams \in Nat
  BY FS_CardinalityType, Constants DEF TaskInv, TaskTypes
<1>5. CASE Spawned(U) = {}
  <2>1. Cardinality(Spawned(U)) = 0
    BY <1>5, FS_EmptySet
  <2> QED BY <1>2, <1>3, <1>4, <2>1
<1>6. CASE Spawned(U) # {}
  <2>1. PICK g \in Spawned(U) : \A k \in Spawned(U) : k <= g
    BY <1>2, <1>6, Greatest, Constants
  <2> DEFINE V == {f \in U : f <= g}
  <2>2. Cardinality(V) + Cardinality(streams) <= MaxStreams
    BY <2>1 DEF Spawned
  <2>3. Spawned(U) \subseteq V /\ V \subseteq U
    BY <1>2, <2>1
  <2> HIDE DEF V
  <2>4. IsFiniteSet(V)
    BY <1>1, <2>3, FS_Subset
  <2>5. Cardinality(V) \in Nat /\ Cardinality(Spawned(U)) <= Cardinality(V)
    BY <2>3, <2>4, FS_Subset, FS_CardinalityType
  <2> QED BY <1>2, <1>3, <1>4, <2>2, <2>5
<1> QED BY <1>5, <1>6

LEMMA SpawnTasks ==
  ASSUME NEW E, IsFiniteSet(E)
  PROVE  LET T == {SpawnedTask(e) : e \in E} IN
         IsFiniteSet(T) /\ Cardinality(T) \in Nat /\ Cardinality(T) <= Cardinality(E)
<1> DEFINE T == {SpawnedTask(e) : e \in E}
           f == [e \in E |-> SpawnedTask(e)]
<1>1. f \in Surjection(E, T)
  BY DEF Surjection
<1> HIDE DEF f, T
<1>2. IsFiniteSet(T) /\ Cardinality(T) <= Cardinality(E)
  BY <1>1, FS_Surjection
<1> QED BY <1>2, FS_CardinalityType DEF T

LEMMA FrameTasks ==
  ASSUME IInv, NEW n \in 1 .. MaxFrame, frame(n),
         ~ (TooLarge(SubSeq(wire, 1, n)) \/ InvalidEncoding(SubSeq(wire, 1, n)))
  PROVE  TaskInv' /\ TaskTypes'
<1> DEFINE D == Decoded(SubSeq(wire, 1, n))
           got == {D[k] : k \in DOMAIN D}
<1>1. TaskInv /\ TaskTypes /\ StreamTypes
  BY Invariants
<1>2. D \in Seq(Events) /\ acted \in Seq(Events)
  BY <1>1, FrameStream DEF StreamTypes
<1>3. acted' = acted \o D /\ finished' = finished
  BY DEF frame
<1>4. PICK U \in SUBSET (Opens \cap got) :
        streams' = streams \cup {SpawnedTask(e) : e \in Spawned(U)}
  BY DEF frame
<1>5. /\ Spawned(U) \subseteq U /\ IsFiniteSet(Spawned(U))
      /\ Cardinality(Spawned(U)) + Cardinality(streams) <= MaxStreams
  BY <1>1, <1>4, SpawnedBound
<1> DEFINE T == {SpawnedTask(e) : e \in Spawned(U)}
<1>6. IsFiniteSet(T) /\ Cardinality(T) \in Nat /\ Cardinality(T) <= Cardinality(Spawned(U))
  BY <1>5, SpawnTasks
<1>7. Cardinality(Spawned(U)) \in Nat /\ Cardinality(streams) \in Nat /\ IsFiniteSet(streams)
  BY <1>1, <1>5, FS_CardinalityType DEF TaskInv
<1>8. IsFiniteSet(streams') /\ Cardinality(streams') <= MaxStreams
  <2> HIDE DEF T
  <2>1. streams' = streams \cup T
    BY <1>4 DEF T
  <2>2. /\ IsFiniteSet(streams \cup T)
        /\ Cardinality(streams \cup T) =
             Cardinality(streams) + Cardinality(T) - Cardinality(streams \cap T)
    BY <1>6, <1>7, FS_Union
  <2>3. Cardinality(streams \cap T) \in Nat
    <3>1. IsFiniteSet(streams \cap T)
      BY <1>7, FS_Intersection
    <3> QED BY <3>1, FS_CardinalityType
  <2> QED BY <1>5, <1>6, <1>7, <2>1, <2>2, <2>3, Constants
<1>9. T \subseteq Task
  BY <1>4, <1>5 DEF SpawnedTask, Task
<1>10. TaskInv'
  BY <1>1, <1>4, <1>8, <1>9 DEF TaskInv
<1>11. /\ DOMAIN acted = 1 .. Len(acted) /\ DOMAIN D = 1 .. Len(D) /\ Len(acted) \in Nat /\ Len(D) \in Nat
       /\ acted' \in Seq(Events) /\ Len(acted') = Len(acted) + Len(D) /\ DOMAIN acted' = 1 .. Len(acted')
       /\ \A i \in 1 .. Len(acted) + Len(D) :
            acted'[i] = IF i <= Len(acted) THEN acted[i] ELSE D[i - Len(acted)]
  <2> HIDE DEF D
  <2> QED BY <1>2, <1>3, ConcatProperties, LenProperties
<1> HIDE DEF D
<1>12. \A k \in DOMAIN acted : k \in DOMAIN acted' /\ acted'[k] = acted[k]
  BY <1>11
<1>13. \A k \in DOMAIN D : Len(acted) + k \in DOMAIN acted' /\ acted'[Len(acted) + k] = D[k]
  BY <1>11
<1>14. {acted[k] : k \in DOMAIN acted} \subseteq {acted'[k] : k \in DOMAIN acted'}
  BY <1>12
<1>15. got \subseteq {acted'[k] : k \in DOMAIN acted'}
  BY <1>13
<1> HIDE DEF got
<1>16. \A s \in T : /\ s.pc \in {"spawned", "connect", "bridge"}
                    /\ s.ticket \in Opens \cap {acted'[k] : k \in DOMAIN acted'}
  BY <1>4, <1>5, <1>15 DEF SpawnedTask
<1>17. \A s \in streams : /\ s.pc \in {"spawned", "connect", "bridge"}
                          /\ s.ticket \in Opens \cap {acted'[k] : k \in DOMAIN acted'}
  BY <1>1, <1>14 DEF TaskTypes
<1>18. \A s \in streams' : /\ s.pc \in {"spawned", "connect", "bridge"}
                           /\ s.ticket \in Opens \cap {acted'[k] : k \in DOMAIN acted'}
  BY <1>4, <1>16, <1>17
<1>19. finished' \subseteq [ticket : Opens, retired : BOOLEAN]
  BY <1>1, <1>3 DEF TaskTypes
<1>20. TaskTypes'
  BY <1>8, <1>18, <1>19 DEF TaskTypes
<1> QED BY <1>10, <1>20

(* One task makes way for another, or for its completion.                  *)
LEMMA TaskMoves ==
  ASSUME IInv, NEW s \in streams, UNCHANGED acted,
         \/ streams' = streams \ {s}
         \/ \E l \in {"connect", "bridge"} :
              streams' = (streams \ {s}) \cup {[s EXCEPT !.pc = l]},
         finished' \subseteq [ticket : Opens, retired : BOOLEAN]
  PROVE  TaskInv' /\ TaskTypes'
<1>1. TaskInv /\ TaskTypes
  BY Invariants
<1>2. IsFiniteSet(streams) /\ Cardinality(streams) \in Nat /\ Cardinality(streams) <= MaxStreams
  BY <1>1, FS_CardinalityType DEF TaskInv, TaskTypes
<1>3. IsFiniteSet(streams \ {s}) /\ Cardinality(streams \ {s}) = Cardinality(streams) - 1
  BY <1>2, FS_RemoveElement
<1>4. s \in Task /\ s.ticket \in Opens \cap {acted[k] : k \in DOMAIN acted}
  BY <1>1 DEF TaskInv, TaskTypes
<1>5. CASE streams' = streams \ {s}
  <2>1. Cardinality(streams') <= MaxStreams /\ IsFiniteSet(streams')
    BY <1>2, <1>3, <1>5, Constants
  <2> QED BY <1>1, <1>5, <2>1 DEF TaskInv, TaskTypes
<1>6. ASSUME NEW l \in {"connect", "bridge"},
             streams' = (streams \ {s}) \cup {[s EXCEPT !.pc = l]}
      PROVE  TaskInv' /\ TaskTypes'
  <2> DEFINE x == [s EXCEPT !.pc = l]
  <2>1. x \in Task /\ x.pc = l /\ x.ticket = s.ticket
    BY <1>4 DEF Task
  <2> HIDE DEF x
  <2>2. streams' = (streams \ {s}) \cup {x}
    BY <1>6 DEF x
  <2>3. IsFiniteSet(streams') /\ Cardinality(streams') <= Cardinality(streams \ {s}) + 1
        /\ Cardinality(streams') \in Nat
    BY <1>3, <2>2, FS_AddElement, FS_CardinalityType
  <2>4. Cardinality(streams') <= MaxStreams
    BY <1>2, <1>3, <2>3, Constants
  <2>5. TaskInv'
    BY <1>1, <2>1, <2>2, <2>3 DEF TaskInv
  <2>6. \A y \in streams' : /\ y.pc \in {"spawned", "connect", "bridge"}
                            /\ y.ticket \in Opens \cap {acted[k] : k \in DOMAIN acted}
    BY <1>1, <1>4, <2>1, <2>2 DEF TaskTypes
  <2> QED BY <2>4, <2>5, <2>6 DEF TaskTypes
<1> QED BY <1>5, <1>6
-----------------------------------------------------------------------------
(***************************************************************************)
(* Every action keeps the invariant.                                       *)
(***************************************************************************)
LEMMA FrameInv ==
  ASSUME IInv, NEW n \in 1 .. MaxFrame, frame(n)
  PROVE  IInv'
<1> DEFINE refused == TooLarge(SubSeq(wire, 1, n)) \/ InvalidEncoding(SubSeq(wire, 1, n))
<1>1. RunTypes /\ SessionTypes /\ PhaseInv
  BY Invariants
<1>2. CASE refused
  <2>1. Return /\ UNCHANGED <<broker, events, faults>>
    BY <1>2 DEF frame
  <2>2. faults' \in 0 .. MaxFaults
    BY <1>1, <2>1 DEF RunTypes
  <2> QED BY <2>1, <2>2, ReturnInv
<1>3. CASE ~ refused
  <2>1. StreamInv' /\ StreamTypes'
    BY <1>3, FrameStream
  <2>2. TaskInv' /\ TaskTypes'
    BY <1>3, FrameTasks
  <2>3. UNCHANGED <<broker, pc, held, ready, session, goaway, events, faults>> /\ pc = "serving"
    BY <1>3 DEF frame
  <2>4. RunTypes' /\ SessionTypes'
    BY <1>1, <2>3 DEF RunTypes, SessionTypes, broker, session
  <2>5. PhaseInv'
    BY <1>1, <2>3 DEF PhaseInv, session
  <2> QED BY <2>1, <2>2, <2>4, <2>5, NextInvariants
<1> QED BY <1>2, <1>3

LEMMA WriteInv ==
  ASSUME IInv, gateway_writes
  PROVE  IInv'
<1>1. RunTypes /\ SessionTypes /\ PhaseInv /\ TaskInv /\ TaskTypes
  BY Invariants
<1>2. StreamInv' /\ StreamTypes' /\ events' \in 0 .. MaxEvents
  BY WriteStream
<1>3. /\ UNCHANGED <<broker, pc, held, ready, session, acted, goaway, tasks, faults>>
      /\ gateway = "claimed"
  BY DEF gateway_writes
<1>4. TaskInv' /\ TaskTypes'
  BY <1>1, <1>3, SameTasks
<1>5. RunTypes' /\ SessionTypes'
  BY <1>1, <1>2, <1>3 DEF RunTypes, SessionTypes, broker, session
<1>6. PhaseInv'
  BY <1>1, <1>3 DEF PhaseInv, session
<1> QED BY <1>2, <1>4, <1>5, <1>6, NextInvariants

LEMMA LostInv ==
  ASSUME IInv, connection_lost
  PROVE  IInv'
<1>1. RunTypes /\ SessionTypes /\ PhaseInv /\ TaskInv /\ TaskTypes
  BY Invariants
<1>2. StreamInv' /\ StreamTypes'
  BY LostStream
<1>3. /\ UNCHANGED <<broker, pc, held, ready, late, acted, goaway, tasks, events>>
      /\ link = "up" /\ link' \in {"closed", "silent"} /\ gateway' = "none" /\ lease' = FALSE
  BY DEF connection_lost
<1>4. TaskInv' /\ TaskTypes'
  BY <1>1, <1>3, SameTasks
<1>5. faults' \in 0 .. MaxFaults
  BY <1>1, Constants DEF RunTypes, connection_lost, Fault
<1>6. RunTypes'
  BY <1>1, <1>3, <1>5 DEF RunTypes, broker
<1>7. SessionTypes'
  BY <1>1, <1>3 DEF SessionTypes
<1>8. PhaseInv'
  BY <1>1, <1>3 DEF PhaseInv
<1> QED BY <1>2, <1>4, <1>6, <1>7, <1>8, NextInvariants

(* The steps of the run and of the gateway that touch no byte.             *)
LEMMA QuietInv ==
  ASSUME IInv, UNCHANGED <<stream, tasks>>, RunTypes', SessionTypes', PhaseInv',
         link' = "up" => link = "up" \/ pc = "dial"
  PROVE  IInv'
<1>1. StreamTypes /\ StreamInv /\ PhaseInv /\ TaskInv /\ TaskTypes
  BY Invariants
<1>2. StreamTypes'
  BY <1>1 DEF StreamTypes, stream
<1>3. TaskInv' /\ TaskTypes'
  BY <1>1, SameTasks DEF stream
<1>4. StreamInv'
  <2>1. CASE link' = "up" => link = "up"
    BY <1>1, <2>1, SameStream
  <2>2. CASE pc = "dial"
    BY <1>1, <2>2, NoSessionNext DEF PhaseInv, stream
  <2> QED BY <2>1, <2>2
<1> QED BY <1>2, <1>3, <1>4, NextInvariants

LEMMA RunInv ==
  ASSUME IInv, read_credential \/ post_tunnel \/ post_accepted
  PROVE  IInv'
<1>1. RunTypes /\ SessionTypes /\ PhaseInv
  BY Invariants
<1>2. UNCHANGED <<stream, tasks>>
  BY DEF read_credential, post_tunnel, post_accepted
<1>3. RunTypes'
  BY <1>1 DEF RunTypes, read_credential, post_tunnel, post_accepted, broker
<1>4. SessionTypes'
  BY <1>1 DEF SessionTypes, read_credential, post_tunnel, post_accepted, session
<1>5. PhaseInv'
  BY <1>1 DEF PhaseInv, read_credential, post_tunnel, post_accepted, session, stream
<1>6. link' = "up" => link = "up" \/ pc = "dial"
  BY DEF read_credential, post_tunnel, post_accepted, session
<1> QED BY <1>2, <1>3, <1>4, <1>5, <1>6, QuietInv

LEMMA GatewayInv ==
  ASSUME IInv, GatewayStep \/ rotate_credential \/ install_credential \/ peer_goaway
  PROVE  IInv'
<1> USE DEF GatewayStep, gateway_authenticates, gateway_claims, gateway_ends,
            rotate_credential, install_credential, peer_goaway
<1>1. RunTypes /\ SessionTypes /\ PhaseInv
  BY Invariants
<1>2. UNCHANGED <<stream, tasks>> /\ link' = link
  BY DEF session
<1>3. current' \in 1 .. MaxCredential /\ file' \in 0 .. MaxCredential
  BY <1>1, Constants DEF RunTypes, broker
<1>4. faults' \in 0 .. MaxFaults /\ UNCHANGED <<pc, held, ready, events>>
  BY <1>1, Constants DEF RunTypes, Fault
<1>5. RunTypes'
  BY <1>1, <1>3, <1>4 DEF RunTypes
<1>6. gateway' \in {"none", "authenticated", "claimed", "ended"} /\ (gateway' # "none" => link = "up")
  BY <1>1 DEF SessionTypes, PhaseInv, session
<1>7. lease' \in BOOLEAN /\ late' \in BOOLEAN /\ goaway' \in BOOLEAN
  BY <1>1 DEF SessionTypes, session
<1>8. SessionTypes'
  BY <1>1, <1>2, <1>6, <1>7 DEF SessionTypes
<1>9. PhaseInv'
  BY <1>1, <1>2, <1>4, <1>6 DEF PhaseInv, stream
<1> QED BY <1>2, <1>5, <1>8, <1>9, QuietInv

LEMMA EndInv ==
  ASSUME IInv, \/ post_refused \/ end_of_stream \/ data_timeout \/ connection_completes
               \/ shutdown
  PROVE  IInv'
<1>1. RunTypes
  BY Invariants
<1>2. Return /\ UNCHANGED <<broker, events>>
  BY DEF post_refused, end_of_stream, data_timeout, connection_completes, shutdown
<1>3. faults' \in 0 .. MaxFaults
  BY <1>1, Constants DEF RunTypes, post_refused, end_of_stream, data_timeout,
                         connection_completes, shutdown, Fault
<1> QED BY <1>2, <1>3, ReturnInv

(* The rest of the state while only the tasks change.                      *)
LEMMA TasksOnly ==
  ASSUME IInv, TaskInv', TaskTypes',
         UNCHANGED <<broker, pc, held, ready, session, stream, goaway, events, faults>>
  PROVE  IInv'
<1>1. RunTypes /\ SessionTypes /\ StreamTypes /\ StreamInv /\ PhaseInv
  BY Invariants
<1>2. RunTypes' /\ SessionTypes'
  BY <1>1 DEF RunTypes, SessionTypes, broker, session
<1>3. StreamTypes' /\ PhaseInv'
  BY <1>1 DEF StreamTypes, PhaseInv, session, stream
<1>4. StreamInv'
  BY <1>1, SameStream DEF session
<1> QED BY <1>2, <1>3, <1>4, NextInvariants

LEMMA StreamStepInv ==
  ASSUME IInv, NEW s \in streams, StreamStep(s)
  PROVE  IInv'
<1>1. SessionTypes /\ TaskTypes /\ TaskInv
  BY Invariants
<1>2. s.ticket \in Opens /\ goaway \in BOOLEAN
      /\ finished \subseteq [ticket : Opens, retired : BOOLEAN]
  BY <1>1 DEF SessionTypes, TaskTypes
<1>3. ASSUME NEW retired \in BOOLEAN, Finish(s, retired) PROVE IInv'
  <2>1. finished' \subseteq [ticket : Opens, retired : BOOLEAN] /\ streams' = streams \ {s}
        /\ UNCHANGED <<broker, pc, held, ready, session, stream, goaway, events, faults>>
    BY <1>2, <1>3 DEF Finish
  <2>2. TaskInv' /\ TaskTypes'
    BY <2>1, TaskMoves DEF stream
  <2> QED BY <2>1, <2>2, TasksOnly
<1>4. ASSUME NEW l \in {"connect", "bridge"}, Proceed(s, l) PROVE IInv'
  <2>1. finished' = finished /\ streams' = (streams \ {s}) \cup {[s EXCEPT !.pc = l]}
        /\ UNCHANGED <<broker, pc, held, ready, session, stream, goaway, events, faults>>
    BY <1>4 DEF Proceed
  <2>2. TaskInv' /\ TaskTypes'
    BY <1>2, <2>1, TaskMoves DEF stream
  <2> QED BY <2>1, <2>2, TasksOnly
<1>5. CASE send_request(s)
  BY <1>3, <1>4, <1>5 DEF send_request
<1>6. CASE open_stream(s)
  BY <1>4, <1>6 DEF open_stream
<1>7. CASE stream_ends(s)
  BY <1>2, <1>3, <1>7 DEF stream_ends
<1> QED BY <1>5, <1>6, <1>7 DEF StreamStep

LEMMA JoinInv ==
  ASSUME IInv, NEW c \in finished, join_next(c)
  PROVE  IInv'
<1>1. RunTypes /\ TaskInv /\ TaskTypes
  BY Invariants
<1>2. CASE Return /\ UNCHANGED <<broker, events, faults>>
  <2>1. faults' \in 0 .. MaxFaults
    BY <1>1, <1>2 DEF RunTypes
  <2> QED BY <1>2, <2>1, ReturnInv
<1>3. CASE /\ finished' = finished \ {c}
           /\ UNCHANGED <<broker, pc, held, ready, session, stream, goaway, streams, events, faults>>
  <2>1. TaskInv' /\ TaskTypes'
    BY <1>1, <1>3 DEF TaskInv, TaskTypes, stream
  <2> QED BY <1>3, <2>1, TasksOnly
<1> QED BY <1>2, <1>3 DEF join_next

-----------------------------------------------------------------------------
(***************************************************************************)
(* The invariant, and the theorems.                                        *)
(***************************************************************************)
LEMMA InvInit == Init => IInv
<1> SUFFICES ASSUME Init PROVE IInv
  OBVIOUS
<1>1. RunTypes
  <2>1. ready = (pc = "serving") /\ pc \in {"down", "dial", "posted", "serving"}
    BY DEF Init
  <2>2. /\ current \in 1 .. MaxCredential
        /\ file \in 0 .. MaxCredential /\ held \in 0 .. MaxCredential
        /\ events \in 0 .. MaxEvents /\ faults \in 0 .. MaxFaults
    BY Constants DEF Init
  <2> QED BY <2>1, <2>2 DEF RunTypes
<1>2. SessionTypes /\ PhaseInv
  BY DEF Init, SessionTypes, PhaseInv
<1>3. StreamTypes
  BY DEF Init, StreamTypes
<1>4. TaskTypes /\ TaskInv
  BY FS_EmptySet, Constants DEF Init, TaskTypes, TaskInv
<1>5. StreamInv
  BY NoSession DEF Init
<1> QED BY <1>1, <1>2, <1>3, <1>4, <1>5, TypeParts DEF IInv

LEMMA InvStep ==
  ASSUME IInv, [Next]_vars
  PROVE  IInv'
<1>1. CASE UNCHANGED vars
  <2>1. TaskInv' /\ TaskTypes'
    BY <1>1, Invariants DEF vars, TaskInv, TaskTypes, tasks, stream
  <2> QED BY <1>1, <2>1, TasksOnly DEF vars
<1>2. CASE RunStep
  BY <1>2, RunInv, EndInv, FrameInv, JoinInv DEF RunStep
<1>3. CASE \E s \in streams : StreamStep(s)
  BY <1>3, StreamStepInv
<1>4. CASE GatewayStep \/ rotate_credential \/ install_credential \/ peer_goaway
  BY <1>4, GatewayInv
<1>5. CASE gateway_writes
  BY <1>5, WriteInv
<1>6. CASE shutdown
  BY <1>6, EndInv
<1>7. CASE connection_lost
  BY <1>7, LostInv
<1> QED BY <1>1, <1>2, <1>3, <1>4, <1>5, <1>6, <1>7 DEF Next

LEMMA Invariant == Spec => []IInv
BY InvInit, InvStep, PTL DEF Spec

(* Every variable keeps its shape, readiness is shown only by a run that   *)
(* serves, and whatever OPENs one frame brings, the stream tasks stay      *)
(* within the permits and belong to OPENs the decoder handed over.         *)
THEOREM TypeCorrect == Spec => []TypeOK
BY Invariant, PTL DEF IInv

(* The detailed client, with its bytes, frames, buffer, lost connections   *)
(* and restarts, implements ControlChannel.                                *)
LEMMA ChannelStep ==
  ASSUME IInv, [Next]_vars
  PROVE  [Channel!Next]_<<written, acted>>
<1> USE DEF Channel!Next, Channel!Write, Channel!Act, Channel!Restart
<1>1. CASE Return
  BY <1>1 DEF Return
<1>2. CASE gateway_writes
  <2>1. events + 1 \in Events
    BY <1>2, WriteStream
  <2> QED BY <1>2, <2>1 DEF gateway_writes
<1>3. ASSUME NEW n \in 1 .. MaxFrame, frame(n) PROVE [Channel!Next]_<<written, acted>>
  <2>1. CASE TooLarge(SubSeq(wire, 1, n)) \/ InvalidEncoding(SubSeq(wire, 1, n))
    BY <1>1, <1>3, <2>1 DEF frame
  <2>2. CASE ~ (TooLarge(SubSeq(wire, 1, n)) \/ InvalidEncoding(SubSeq(wire, 1, n)))
    <3>1. PICK d \in Nat : Len(acted) + d <= Len(written)
                           /\ acted' = SubSeq(written, 1, Len(acted) + d)
      BY <1>3, <2>2, FrameStream
    <3>2. written' = written
      BY <1>3, <2>2 DEF frame
    <3>3. Len(written) \in Nat /\ Len(acted) \in Nat /\ acted = SubSeq(written, 1, Len(acted))
      BY Invariants, BacklogFacts DEF StreamInv
    <3>4. CASE d = 0
      <4>1. Len(acted) + d = Len(acted)
        BY <3>3, <3>4
      <4> QED BY <3>1, <3>2, <3>3, <4>1
    <3>5. CASE d # 0
      <4>1. Len(acted) + d \in Len(acted) + 1 .. Len(written)
        BY <3>1, <3>3, <3>5
      <4> QED BY <3>1, <3>2, <4>1
    <3> QED BY <3>4, <3>5
  <2> QED BY <2>1, <2>2
<1>4. CASE UNCHANGED stream
  BY <1>4 DEF stream
<1>5. CASE connection_lost
  BY <1>5 DEF connection_lost
<1>6. CASE UNCHANGED vars
  BY <1>6 DEF vars, stream
<1>7. CASE RunStep
  BY <1>1, <1>3, <1>4, <1>7
     DEF RunStep, read_credential, post_tunnel, post_accepted, post_refused, end_of_stream,
         data_timeout, connection_completes, join_next
<1>8. CASE \E s \in streams : StreamStep(s)
  BY <1>4, <1>8 DEF StreamStep, send_request, open_stream, stream_ends, Finish, Proceed
<1>9. CASE GatewayStep \/ rotate_credential \/ install_credential \/ peer_goaway
  BY <1>4, <1>9 DEF GatewayStep, gateway_authenticates, gateway_claims, gateway_ends,
                    rotate_credential, install_credential, peer_goaway
<1>10. CASE shutdown
  BY <1>1, <1>10 DEF shutdown
<1> QED BY <1>2, <1>5, <1>6, <1>7, <1>8, <1>9, <1>10 DEF Next

(* However the frames are cut and joined, and wherever a session breaks    *)
(* off, the loop acts on exactly what the gateway wrote, in order, none    *)
(* twice and none skipped.                                                 *)
THEOREM DecodesTheChannel == Spec => ImplementsControlChannel
<1>1. Init => Channel!Init
  BY DEF Init, Channel!Init
<1>2. IInv /\ [Next]_vars => [Channel!Next]_(Channel!channel)
  BY ChannelStep DEF Channel!channel
<1> QED BY <1>1, <1>2, Invariant, PTL DEF Spec, ImplementsControlChannel, Channel!Spec
(* A frame of a gateway's stream is never refused as malformed, wherever   *)
(* it is cut: the decoder's only refusal is of size.                       *)
NothingMalformed ==
  \A n \in 1 .. MaxFrame : n <= Len(wire) => ~ InvalidEncoding(SubSeq(wire, 1, n))

LEMMA FrameIsWellFormed ==
  ASSUME IInv, NEW n \in 1 .. MaxFrame, n <= Len(wire)
  PROVE  ~ InvalidEncoding(SubSeq(wire, 1, n))
<1> DEFINE chunk == SubSeq(wire, 1, n)
           s == pending \o chunk
           t == pending \o wire
<1>1. StreamTypes /\ StreamInv
  BY Invariants
<1>2. wire \in Seq(Bytes) /\ pending \in Seq(Bytes) /\ Backlog \in Seq(Events)
      /\ Len(pending) \in Nat /\ Len(wire) \in Nat
  BY <1>1, BacklogFacts DEF StreamTypes
<1>3. Carries(t, Backlog) /\ Len(t) = Len(pending) + Len(wire)
  BY <1>1, <1>2, ConcatProperties DEF StreamInv
<1>4. s \in Seq(Bytes) /\ Len(s) = Len(pending) + n /\ \A i \in 1 .. Len(s) : s[i] = t[i]
  BY <1>2, CutBytes
<1>5. Carries(s, Backlog)
  <2> HIDE DEF s, t
  <2>1. Len(s) <= Len(t)
    BY <1>2, <1>3, <1>4
  <2> QED BY <1>2, <1>3, <1>4, <2>1, CarriesPrefix
<1>6. EventLen \in Nat \ {0} /\ Len(s) \in Nat
  BY <1>2, <1>4, Constants
<1>7. PICK d \in Nat : d * EventLen <= Len(s) /\ Len(s) < d * EventLen + EventLen
  BY <1>6, Divide
<1> HIDE DEF chunk
<1> QED BY <1>2, <1>5, <1>7, DecodeCorrect DEF chunk

(* No way of cutting and joining the gateway's frames makes the client end *)
(* a session as malformed (ProtocolError::InvalidEncoding).                *)
THEOREM NeverMalformed == Spec => []NothingMalformed
<1>1. IInv => NothingMalformed
  BY FrameIsWellFormed DEF NothingMalformed
<1> QED BY <1>1, Invariant, PTL
=============================================================================

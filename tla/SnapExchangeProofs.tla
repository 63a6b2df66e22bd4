------------------------- MODULE SnapExchangeProofs -------------------------
(***************************************************************************)
(* Proofs about SnapExchange for any requests, keys, faults and payloads.  *)
(***************************************************************************)
EXTENDS SnapExchange, SequenceTheorems, FiniteSetTheorems, WellFoundedInduction, TLAPS

-----------------------------------------------------------------------------
(* Texts. *)

\* What a text is made of, on the wire too; every one of them is a string.
Letters ==
    STRING \cup {":", "|", Space, "=", "base64", "base64url", "hex", "Bearer", "bearer",
                "hmac-sha512", "rsa-sha256", "now", "/", "api", "token", "hook", "?", "q",
                "POST", Opaque}
Strings == Seq(Letters)

\* A nonempty set of naturals has a least element.
LEMMA Least ==
    ASSUME NEW T, T \subseteq Nat, T # {}
    PROVE  Min(T) \in T /\ \A y \in T : Min(T) <= y
<1> DEFINE R == {ss \in Nat \X Nat : ss[1] < ss[2]}
<1>1. IsWellFoundedOn(R, Nat)
  BY NatLessThanWellFounded DEF OpToRel
<1>2. \A x, y \in Nat : y < x => <<y, x>> \in R
  OBVIOUS
<1> HIDE DEF R
<1>3. PICK x \in T : \A y \in T : ~ (<<y, x>> \in R)
  BY <1>1, WFMin
<1>4. \A y \in T : ~ (y < x)
  BY <1>2, <1>3
<1>5. x \in T /\ \A y \in T : x <= y
  BY <1>4
<1>6. QED
  BY <1>5 DEF Min

\* The elements of a concatenation.
LEMMA Joined ==
    ASSUME NEW s \in Strings, NEW t \in Strings
    PROVE  /\ s \o t \in Strings /\ Len(s \o t) = Len(s) + Len(t)
           /\ \A i \in 1 .. Len(s) : (s \o t)[i] = s[i]
           /\ \A i \in 1 .. Len(t) : (s \o t)[i + Len(s)] = t[i]
BY ConcatProperties, Z3 DEF Strings

LEMMA Grouped ==
    ASSUME NEW s \in Strings, NEW t \in Strings, NEW u \in Strings
    PROVE  (s \o t) \o u = s \o (t \o u)
BY ConcatAssociative DEF Strings

LEMMA Tuples ==
    ASSUME NEW x \in Letters, NEW y \in Letters, NEW z \in Letters
    PROVE  /\ <<>> \in Strings /\ Len(<<>>) = 0
           /\ <<x>> \in Strings /\ Len(<<x>>) = 1 /\ <<x>>[1] = x
           /\ <<x, y>> \in Strings /\ Len(<<x, y>>) = 2 /\ <<x, y>>[1] = x /\ <<x, y>>[2] = y
           /\ <<x, y, z>> \in Strings /\ Len(<<x, y, z>>) = 3
           /\ <<x, y, z>>[1] = x /\ <<x, y, z>>[2] = y /\ <<x, y, z>>[3] = z
BY DEF Strings

\* Equal texts cut at the same place have equal parts.
LEMMA SameCut ==
    ASSUME NEW a \in Strings, NEW b \in Strings, NEW s \in Strings, NEW t \in Strings,
           a \o s = b \o t, Len(a) = Len(b)
    PROVE  a = b /\ s = t
<1>1. Len(a) \in Nat /\ Len(s) \in Nat /\ Len(t) \in Nat
  BY LenProperties DEF Strings
<1>2. Len(s) = Len(t)
  BY <1>1, Joined
<1>3. \A i \in 1 .. Len(a) : a[i] = b[i]
  BY Joined
<1>4. \A i \in 1 .. Len(s) : s[i] = t[i]
  <2> SUFFICES ASSUME NEW i \in 1 .. Len(s) PROVE s[i] = t[i]
    OBVIOUS
  <2>1. (a \o s)[i + Len(a)] = s[i]
    BY ZenonT(30), Joined
  <2>2. (b \o t)[i + Len(b)] = t[i]
    BY Joined, <1>2
  <2>3. QED
    BY <2>1, <2>2
<1>5. a = b
  BY <1>3, SeqEqual DEF Strings
<1>6. s = t
  BY <1>2, <1>4, SeqEqual DEF Strings
<1>7. QED
  BY <1>5, <1>6

LEMMA SameTail ==
    ASSUME NEW a \in Strings, NEW b \in Strings, NEW s \in Strings, NEW t \in Strings,
           a \o s = b \o t, Len(s) = Len(t)
    PROVE  a = b /\ s = t
<1>1. Len(a) \in Nat /\ Len(b) \in Nat /\ Len(s) \in Nat /\ Len(t) \in Nat
  BY LenProperties DEF Strings
<1>2. Len(a) = Len(b)
  BY <1>1, Joined
<1>3. QED
  BY <1>2, SameCut

LEMMA OfLexemes ==
    /\ Seq(Lexemes) \subseteq Strings /\ Lexemes \subseteq Letters
    /\ Instants \subseteq Strings
<1>1. Lexemes \subseteq Letters
  BY DEF Lexemes, Letters
<1>2. \A x \in Seq(Lexemes) : x \in Strings
  BY <1>1, SeqMonotonic DEF Strings
<1>3. QED
  BY <1>1, <1>2, SnapRequestAssumption

\* No instant ends in another, so a text has one reading as something before an
\* instant.
LEMMA InstantLast ==
    ASSUME NEW a \in Strings, NEW b \in Strings, NEW s \in Strings, NEW t \in Strings
    PROVE  s \in Instants /\ t \in Instants /\ a \o s = b \o t => a = b /\ s = t
<1>1. Instants \subseteq Strings
  BY OfLexemes
<1>2. ASSUME NEW c \in Strings, NEW d \in Strings, NEW x \in Instants, NEW y \in Instants,
             c \o x = d \o y, Len(x) < Len(y)
      PROVE  FALSE
  <2>1. Len(c) \in Nat /\ Len(d) \in Nat /\ Len(x) \in Nat /\ Len(y) \in Nat
    BY <1>1, LenProperties DEF Strings
  <2>2. Len(c) + Len(x) = Len(d) + Len(y)
    BY <1>1, <1>2, Joined
  <2> DEFINE k == Len(y) - Len(x)
  <2>3. k \in Nat \ {0} /\ Len(c) = Len(d) + k
    BY <1>2, <2>1, <2>2
  <2>4. \A i \in 1 .. Len(x) : x[i] = y[i + k]
    <3> SUFFICES ASSUME NEW i \in 1 .. Len(x) PROVE x[i] = y[i + k]
      OBVIOUS
    <3>1. (c \o x)[i + Len(c)] = x[i]
      BY <1>1, Joined
    <3>2. i + k \in 1 .. Len(y)
      BY <2>1, <2>3
    <3>3. (d \o y)[(i + k) + Len(d)] = y[i + k]
      <4>1. \A j \in 1 .. Len(y) : (d \o y)[j + Len(d)] = y[j]
        BY <1>1, Joined
      <4> HIDE DEF k
      <4>2. QED
        BY <3>2, <4>1
    <3>4. (i + k) + Len(d) = i + Len(c)
      BY <2>1, <2>3
    <3>5. QED
      BY <1>2, <3>1, <3>3, <3>4
  <2>5. SubSeq(y, k + 1, Len(y)) = x
    <3>1. \A i \in k + 1 .. Len(y) : y[i] \in Letters
      BY <1>1, <2>1, <2>3, ElementOfSeq DEF Strings
    <3>2. /\ SubSeq(y, k + 1, Len(y)) \in Strings /\ Len(SubSeq(y, k + 1, Len(y))) = Len(x)
          /\ \A i \in 1 .. Len(x) : SubSeq(y, k + 1, Len(y))[i] = y[i + k]
      <4>1. k + 1 \in Int /\ Len(y) \in Int
        BY <2>1, <2>3
      <4>2. /\ SubSeq(y, k + 1, Len(y)) \in Seq(Letters)
            /\ Len(SubSeq(y, k + 1, Len(y))) = IF k + 1 <= Len(y) THEN Len(y) - (k + 1) + 1 ELSE 0
            /\ \A i \in 1 .. Len(y) - (k + 1) + 1 : SubSeq(y, k + 1, Len(y))[i] = y[k + 1 + i - 1]
        BY <3>1, <4>1, SubSeqProperties
      <4>3. Len(y) - (k + 1) + 1 = Len(x) /\ (k + 1 <= Len(y) \/ Len(x) = 0)
        BY <2>1, <2>3
      <4>4. \A i \in 1 .. Len(x) : k + 1 + i - 1 = i + k
        BY <2>1, <2>3
      <4> HIDE DEF k
      <4>5. QED
        BY <4>2, <4>3, <4>4 DEF Strings
    <3> HIDE DEF k
    <3>3. QED
      BY <1>1, <2>4, <3>2, SeqEqual DEF Strings
  <2>6. x # <<>>
    BY SnapRequestAssumption
  <2>7. Len(x) > 0
    BY <1>1, <2>1, <2>6, EmptySeq DEF Strings
  <2>8. k + 1 \in 2 .. Len(y)
    BY <2>1, <2>3, <2>7
  <2> HIDE DEF k
  <2>9. QED
    BY <2>5, <2>8, SnapRequestAssumption
<1>3. Len(s) \in Nat /\ Len(t) \in Nat
  BY LenProperties DEF Strings
<1>4. s \in Instants /\ t \in Instants /\ a \o s = b \o t => Len(s) = Len(t)
  <2> SUFFICES ASSUME s \in Instants, t \in Instants, a \o s = b \o t
               PROVE  Len(s) = Len(t)
    OBVIOUS
  <2>1. b \o t = a \o s
    OBVIOUS
  <2>2. ~ (Len(s) < Len(t)) /\ ~ (Len(t) < Len(s))
    BY <1>2, <2>1
  <2>3. QED
    BY <1>3, <2>2
<1>5. a \o s = b \o t /\ Len(s) = Len(t) => a = b /\ s = t
  BY ZenonT(30), SameTail
<1>6. QED
  BY <1>4, <1>5

\* What follows the last colon of a text holds none.
LEMMA LastColon ==
    ASSUME NEW u \in Strings, NEW v \in Strings, NEW c \in Strings, NEW d \in Strings
    PROVE  /\ Len(u) > 0 /\ u[Len(u)] = ":" /\ Len(v) > 0 /\ v[Len(v)] = ":"
           /\ ":" \notin ToSet(c) /\ ":" \notin ToSet(d)
           /\ u \o c = v \o d
           => u = v /\ c = d
<1>1. ASSUME NEW x \in Strings, NEW y \in Strings, NEW e \in Strings, NEW f \in Strings,
             Len(x) > 0, x[Len(x)] = ":", ":" \notin ToSet(f), Len(e) < Len(f)
      PROVE  x \o e # y \o f
  <2> SUFFICES ASSUME x \o e = y \o f PROVE FALSE
    OBVIOUS
  <2>1. Len(x) \in Nat /\ Len(y) \in Nat /\ Len(e) \in Nat /\ Len(f) \in Nat
    BY LenProperties DEF Strings
  <2>2. Len(x) + Len(e) = Len(y) + Len(f)
    BY Joined
  <2>3. PICK k \in 1 .. Len(f) : Len(x) = k + Len(y)
    <3>1. Len(f) - Len(e) \in 1 .. Len(f) /\ Len(x) = (Len(f) - Len(e)) + Len(y)
      BY <1>1, <2>1, <2>2
    <3>2. QED
      BY <3>1
  <2>4. (y \o f)[k + Len(y)] = f[k]
    BY Joined
  <2>5. (x \o e)[Len(x)] = x[Len(x)]
    <3>1. \A i \in 1 .. Len(x) : (x \o e)[i] = x[i]
      BY Joined
    <3>2. Len(x) \in 1 .. Len(x)
      BY <1>1, <2>1
    <3>3. QED
      BY <3>1, <3>2
  <2>6. f[k] = ":"
    BY <1>1, <2>3, <2>4, <2>5
  <2>7. k \in DOMAIN f
    BY LenProperties DEF Strings
  <2>8. QED
    BY <1>1, <2>6, <2>7 DEF ToSet
<1>2. Len(c) \in Nat /\ Len(d) \in Nat
  BY LenProperties DEF Strings
<1>3. /\ Len(u) > 0 /\ u[Len(u)] = ":" /\ Len(v) > 0 /\ v[Len(v)] = ":"
      /\ ":" \notin ToSet(c) /\ ":" \notin ToSet(d)
      /\ u \o c = v \o d
      => Len(c) = Len(d)
  <2> SUFFICES ASSUME Len(u) > 0, u[Len(u)] = ":", Len(v) > 0, v[Len(v)] = ":",
                      ":" \notin ToSet(c), ":" \notin ToSet(d), u \o c = v \o d
               PROVE  Len(c) = Len(d)
    OBVIOUS
  <2>1. v \o d = u \o c
    OBVIOUS
  <2>2. ~ (Len(c) < Len(d)) /\ ~ (Len(d) < Len(c))
    BY <1>1, <2>1
  <2>3. QED
    BY <1>2, <2>2
<1>4. u \o c = v \o d /\ Len(c) = Len(d) => u = v /\ c = d
  BY ZenonT(30), SameTail
<1>5. QED
  BY <1>3, <1>4

LEMMA HashesDiffer ==
    /\ \A a \in DOMAIN BodyHash : a \in Lexemes /\ BodyHash[a] \in Lexemes
    /\ \A a, b \in DOMAIN BodyHash : BodyHash[a] = BodyHash[b] => a = b
BY SnapRequestAssumption

-----------------------------------------------------------------------------
(* What is signed has one reading. *)

Readable(m, p, c, b, t) ==
    /\ m \in Letters /\ p \in Strings /\ c \in Strings /\ b \in DOMAIN BodyHash /\ t \in Strings
    /\ t \in Instants /\ ":" \notin ToSet(c)

LEMMA ServiceStringReads ==
    ASSUME NEW m1, NEW p1, NEW c1, NEW b1, NEW t1, Readable(m1, p1, c1, b1, t1),
           NEW m2, NEW p2, NEW c2, NEW b2, NEW t2, Readable(m2, p2, c2, b2, t2),
           ServiceString(m1, p1, c1, b1, t1) = ServiceString(m2, p2, c2, b2, t2)
    PROVE  m1 = m2 /\ p1 = p2 /\ c1 = c2 /\ b1 = b2 /\ t1 = t2
<1> SUFFICES ASSUME m1 \in Letters, p1 \in Strings, c1 \in Strings, b1 \in DOMAIN BodyHash,
                    t1 \in Strings, t1 \in Instants, ":" \notin ToSet(c1),
                    m2 \in Letters, p2 \in Strings, c2 \in Strings, b2 \in DOMAIN BodyHash,
                    t2 \in Strings, t2 \in Instants, ":" \notin ToSet(c2)
             PROVE  m1 = m2 /\ p1 = p2 /\ c1 = c2 /\ b1 = b2 /\ t1 = t2
  BY DEF Readable
<1> DEFINE head(m, p)    == <<m, ":">> \o p
           cut(m, p)     == head(m, p) \o <<":">>
           token(m, p, c) == cut(m, p) \o c
           hash(b)       == <<":", BodyHash[b], ":">>
           before(m, p, c, b) == token(m, p, c) \o hash(b)
<1>1. \A m \in Letters, p, c \in Strings, b \in DOMAIN BodyHash :
         /\ head(m, p) \in Strings
         /\ cut(m, p) \in Strings /\ Len(cut(m, p)) > 0 /\ cut(m, p)[Len(cut(m, p))] = ":"
         /\ token(m, p, c) \in Strings
         /\ before(m, p, c, b) \in Strings
         /\ hash(b) \in Strings /\ Len(hash(b)) = 3 /\ hash(b)[2] = BodyHash[b]
  <2> SUFFICES ASSUME NEW m \in Letters, NEW p \in Strings, NEW c \in Strings,
                      NEW b \in DOMAIN BodyHash
               PROVE  /\ head(m, p) \in Strings
                      /\ cut(m, p) \in Strings /\ Len(cut(m, p)) > 0
                      /\ cut(m, p)[Len(cut(m, p))] = ":"
                      /\ token(m, p, c) \in Strings
                      /\ before(m, p, c, b) \in Strings
                      /\ hash(b) \in Strings /\ Len(hash(b)) = 3 /\ hash(b)[2] = BodyHash[b]
    BY ZenonT(30)
  <2>1. <<m, ":">> \in Strings /\ <<":">> \in Strings /\ Len(<<":">>) = 1 /\ <<":">>[1] = ":"
    BY Tuples DEF Letters
  <2>2. head(m, p) \in Strings
    BY <2>1, Joined
  <2>3. hash(b) \in Strings /\ Len(hash(b)) = 3 /\ hash(b)[2] = BodyHash[b]
    <3>1. BodyHash[b] \in Letters /\ ":" \in Letters
      BY HashesDiffer, OfLexemes DEF Letters
    <3>2. QED
      BY <3>1, Tuples
  <2> HIDE DEF head, hash
  <2>4. /\ cut(m, p) \in Strings /\ Len(cut(m, p)) = Len(head(m, p)) + 1
        /\ cut(m, p)[1 + Len(head(m, p))] = ":"
    BY <2>1, <2>2, Joined
  <2>5. Len(head(m, p)) \in Nat
    BY <2>2, LenProperties DEF Strings
  <2>6. Len(cut(m, p)) > 0 /\ cut(m, p)[Len(cut(m, p))] = ":"
    <3> HIDE DEF cut
    <3>1. Len(cut(m, p)) = 1 + Len(head(m, p))
      BY <2>4, <2>5
    <3>2. QED
      BY <2>4, <2>5, <3>1
  <2> HIDE DEF cut
  <2>7. token(m, p, c) \in Strings
    BY <2>4, Joined
  <2> HIDE DEF token
  <2>8. before(m, p, c, b) \in Strings
    BY <2>3, <2>7, Joined
  <2>9. QED
    BY <2>2, <2>3, <2>4, <2>6, <2>7, <2>8
<1>2. before(m1, p1, c1, b1) \o t1 = before(m2, p2, c2, b2) \o t2
  BY DEF ServiceString
<1>3. before(m1, p1, c1, b1) = before(m2, p2, c2, b2) /\ t1 = t2
  <2>1. before(m1, p1, c1, b1) \in Strings /\ before(m2, p2, c2, b2) \in Strings
    BY <1>1
  <2> HIDE DEF before
  <2>2. /\ t1 \in Strings /\ t2 \in Strings /\ t1 \in Instants /\ t2 \in Instants
    BY DEF Readable
  <2>3. PICK x, y, s, t \in Strings : /\ x = before(m1, p1, c1, b1) /\ y = before(m2, p2, c2, b2)
                                      /\ s = t1 /\ t = t2
    BY <2>1, <2>2
  <2>4. s \in Instants /\ t \in Instants /\ x \o s = y \o t
    BY <1>2, <2>2, <2>3, Zenon
  <2>5. s \in Instants /\ t \in Instants /\ x \o s = y \o t => x = y /\ s = t
    BY ZenonT(30), InstantLast
  <2>6. QED
    BY <2>3, <2>4, <2>5, Zenon
<1>4. token(m1, p1, c1) = token(m2, p2, c2) /\ hash(b1) = hash(b2)
  <2>1. /\ token(m1, p1, c1) \in Strings /\ token(m2, p2, c2) \in Strings
        /\ hash(b1) \in Strings /\ hash(b2) \in Strings /\ Len(hash(b1)) = Len(hash(b2))
    BY <1>1
  <2>2. token(m1, p1, c1) \o hash(b1) = token(m2, p2, c2) \o hash(b2)
    <3> HIDE DEF token, hash
    <3>1. QED
      BY <1>3 DEF before
  <2> HIDE DEF token, hash, before
  <2>3. PICK x, y, h, i \in Strings :
           /\ x = token(m1, p1, c1) /\ y = token(m2, p2, c2)
           /\ h = hash(b1) /\ i = hash(b2) /\ Len(h) = Len(i)
    BY <2>1
  <2>4. x \o h = y \o i
    BY <2>2, <2>3, Zenon
  <2>5. x \o h = y \o i /\ Len(h) = Len(i) => x = y /\ h = i
    BY ZenonT(30), SameTail
  <2>6. QED
    BY <2>3, <2>4, <2>5, Zenon
<1>5. b1 = b2
  <2>1. hash(b1)[2] = BodyHash[b1] /\ hash(b2)[2] = BodyHash[b2]
    BY <1>1
  <2> HIDE DEF hash
  <2>2. QED
    BY <1>4, <2>1, HashesDiffer
<1>6. cut(m1, p1) = cut(m2, p2) /\ c1 = c2
  <2>1. /\ cut(m1, p1) \in Strings /\ Len(cut(m1, p1)) > 0 /\ cut(m1, p1)[Len(cut(m1, p1))] = ":"
        /\ cut(m2, p2) \in Strings /\ Len(cut(m2, p2)) > 0 /\ cut(m2, p2)[Len(cut(m2, p2))] = ":"
    BY <1>1
  <2>2. cut(m1, p1) \o c1 = cut(m2, p2) \o c2
    BY <1>4
  <2> HIDE DEF cut
  <2>3. QED
    BY <2>1, <2>2, LastColon
<1>7. head(m1, p1) = head(m2, p2)
  <2>1. PICK x, y, h \in Strings :
           x = head(m1, p1) /\ y = head(m2, p2) /\ h = <<":">>
    BY <1>1, Tuples DEF Letters
  <2>2. x \o h = y \o h
    BY <1>6, <2>1
  <2>3. x = y
    BY <2>2, SameTail
  <2>4. QED
    BY <2>1, <2>3
<1>8. m1 = m2 /\ p1 = p2
  <2>1. /\ <<m1, ":">> \in Strings /\ Len(<<m1, ":">>) = 2 /\ <<m1, ":">>[1] = m1
        /\ <<m2, ":">> \in Strings /\ Len(<<m2, ":">>) = 2 /\ <<m2, ":">>[1] = m2
    BY Tuples DEF Letters
  <2>2. <<m1, ":">> = <<m2, ":">> /\ p1 = p2
    BY <1>7, <2>1, SameCut
  <2>3. QED
    BY <2>1, <2>2
<1>9. QED
  BY <1>3, <1>5, <1>6, <1>8

LEMMA OAuthStringReads ==
    ASSUME NEW c1 \in Strings, NEW t1 \in Strings, NEW c2 \in Strings, NEW t2 \in Strings
    PROVE  /\ t1 \in Instants /\ t2 \in Instants
           /\ OAuthString(c1, t1) = OAuthString(c2, t2)
           => c1 = c2 /\ t1 = t2
<1> DEFINE before(c) == c \o <<"|">>
<1>1. <<"|">> \in Strings
  BY Tuples DEF Letters
<1>2. before(c1) \in Strings /\ before(c2) \in Strings
  BY <1>1, Joined
<1>3. OAuthString(c1, t1) = before(c1) \o t1 /\ OAuthString(c2, t2) = before(c2) \o t2
  BY DEF OAuthString
<1>4. ASSUME before(c1) = before(c2) PROVE c1 = c2
  <2>1. PICK bar \in Strings : bar = <<"|">>
    BY <1>1
  <2>2. c1 \o bar = c2 \o bar
    BY <1>4, <2>1
  <2>3. QED
    BY <2>2, SameTail
<1> HIDE DEF before
<1>5. /\ t1 \in Instants /\ t2 \in Instants /\ before(c1) \o t1 = before(c2) \o t2
      => before(c1) = before(c2) /\ t1 = t2
  <2>1. PICK x, y \in Strings : x = before(c1) /\ y = before(c2)
    BY <1>2
  <2>2. t1 \in Instants /\ t2 \in Instants /\ x \o t1 = y \o t2 => x = y /\ t1 = t2
    BY ZenonT(30), InstantLast
  <2>3. QED
    BY <2>1, <2>2
<1>6. QED
  BY <1>3, <1>4, <1>5

-----------------------------------------------------------------------------
(* Signatures. *)

\* A text behind one lexeme, and behind two.
LEMMA Behind ==
    ASSUME NEW x \in Letters, NEW s \in Strings
    PROVE  /\ <<x>> \o s \in Strings /\ <<x>> \o s # <<>> /\ (<<x>> \o s)[1] = x
           /\ Len(<<x>> \o s) = Len(s) + 1
           /\ \A i \in 1 .. Len(s) : (<<x>> \o s)[i + 1] = s[i]
<1>1. Len(s) \in Nat
  BY LenProperties DEF Strings
<1>2. PICK p \in Strings : p = <<x>> /\ Len(p) = 1 /\ p[1] = x
  BY Tuples
<1>3. /\ p \o s \in Strings /\ Len(p \o s) = Len(p) + Len(s)
      /\ \A i \in 1 .. Len(p) : (p \o s)[i] = p[i]
      /\ \A i \in 1 .. Len(s) : (p \o s)[i + Len(p)] = s[i]
  BY Joined
<1>4. /\ p \o s \in Strings /\ Len(p \o s) = Len(s) + 1 /\ (p \o s)[1] = x
      /\ \A i \in 1 .. Len(s) : (p \o s)[i + 1] = s[i]
  BY <1>1, <1>2, <1>3
<1>5. p \o s # <<>>
  <2>1. \A t \in Strings : Len(t) > 0 => t # <<>>
    BY EmptySeq
  <2>2. QED
    BY <1>1, <1>4, <2>1
<1>6. QED
  BY <1>2, <1>4, <1>5

LEMMA BehindTwo ==
    ASSUME NEW x \in Letters, NEW y \in Letters, NEW s \in Strings
    PROVE  /\ <<x, y>> \o s \in Strings /\ <<x, y>> \o s # <<>>
           /\ (<<x, y>> \o s)[1] = x /\ (<<x, y>> \o s)[2] = y
           /\ Len(<<x, y>> \o s) = Len(s) + 2
           /\ \A i \in 1 .. Len(s) : (<<x, y>> \o s)[i + 2] = s[i]
<1>1. Len(s) \in Nat
  BY LenProperties DEF Strings
<1>2. PICK q \in Strings : q = <<x, y>> /\ Len(q) = 2 /\ q[1] = x /\ q[2] = y
  <2>1. <<x, y>> \in Strings /\ Len(<<x, y>>) = 2 /\ <<x, y>>[1] = x /\ <<x, y>>[2] = y
    BY Tuples
  <2>2. QED
    BY <2>1
<1>3. /\ q \o s \in Strings /\ Len(q \o s) = Len(q) + Len(s)
      /\ \A i \in 1 .. Len(q) : (q \o s)[i] = q[i]
      /\ \A i \in 1 .. Len(s) : (q \o s)[i + Len(q)] = s[i]
  BY Joined
<1>4. /\ q \o s \in Strings /\ Len(q \o s) = Len(s) + 2 /\ (q \o s)[1] = x /\ (q \o s)[2] = y
      /\ \A i \in 1 .. Len(s) : (q \o s)[i + 2] = s[i]
  BY <1>1, <1>2, <1>3
<1>5. q \o s # <<>>
  <2>1. \A t \in Strings : Len(t) > 0 => t # <<>>
    BY EmptySeq
  <2>2. QED
    BY <1>1, <1>4, <2>1
<1>6. QED
  BY <1>2, <1>4, <1>5

\* What is cut off in front of a text.
LEMMA Cut ==
    ASSUME NEW s \in Strings, NEW u \in Strings, NEW k \in Nat,
           Len(u) = Len(s) + k, \A i \in 1 .. Len(s) : u[i + k] = s[i]
    PROVE  SubSeq(u, k + 1, Len(u)) = s
<1>1. Len(s) \in Nat /\ Len(u) \in Nat /\ k + 1 \in Int /\ Len(u) \in Int
  BY LenProperties DEF Strings
<1>2. \A i \in k + 1 .. Len(u) : u[i] \in Letters
  BY <1>1, ElementOfSeq DEF Strings
<1>3. /\ SubSeq(u, k + 1, Len(u)) \in Seq(Letters)
      /\ Len(SubSeq(u, k + 1, Len(u))) = IF k + 1 <= Len(u) THEN Len(u) - (k + 1) + 1 ELSE 0
      /\ \A i \in 1 .. Len(u) - (k + 1) + 1 : SubSeq(u, k + 1, Len(u))[i] = u[k + 1 + i - 1]
  BY <1>1, <1>2, SubSeqProperties
<1>4. PICK v : v = SubSeq(u, k + 1, Len(u))
  OBVIOUS
<1>5. v \in Seq(Letters) /\ Len(v) = Len(s)
  BY <1>1, <1>3, <1>4
<1>6. \A i \in 1 .. Len(s) : v[i] = s[i]
  <2> SUFFICES ASSUME NEW i \in 1 .. Len(s) PROVE v[i] = s[i]
    OBVIOUS
  <2>1. i \in 1 .. Len(u) - (k + 1) + 1 /\ k + 1 + i - 1 = i + k
    BY <1>1
  <2>2. v[i] = u[k + 1 + i - 1]
    BY <1>3, <1>4, <2>1
  <2>3. QED
    BY <2>1, <2>2
<1>7. v = s
  BY <1>5, <1>6, SeqEqual DEF Strings
<1>8. QED
  BY <1>4, <1>7

LEMMA Encoded ==
    ASSUME NEW b \in Strings, NEW e \in {"base64", "base64url", "hex"}
    PROVE  /\ Encode(e, b) \in Strings /\ Encode(e, b) # <<>>
           /\ IsBase64(Encode(e, b)) <=> e # "base64url"
           /\ e = "base64" => FromBase64(Encode(e, b)) = b
           /\ e = "hex" => /\ SignatureSize(FromBase64(Encode(e, b))) = 96
                          /\ FromBase64(Encode(e, b))[1] = "hex"
<1>1. PICK u \in Strings : u = Encode(e, b)
  BY Behind DEF Encode, Letters
<1>2. /\ u # <<>> /\ u[1] = e /\ Len(u) = Len(b) + 1
      /\ \A i \in 1 .. Len(b) : u[i + 1] = b[i]
  <2>1. e \in Letters
    BY DEF Letters
  <2>2. QED
    BY <1>1, <2>1, Behind DEF Encode
<1>3. IsBase64(u) <=> e # "base64url"
  BY <1>2 DEF IsBase64
<1>4. e = "base64" => FromBase64(u) = b
  <2>1. SubSeq(u, 1 + 1, Len(u)) = b
    BY <1>2, Cut
  <2>2. QED
    BY <1>2, <2>1 DEF FromBase64
<1>5. e = "hex" => SignatureSize(FromBase64(u)) = 96 /\ FromBase64(u)[1] = "hex"
  BY <1>2 DEF FromBase64, SignatureSize
<1>6. QED
  BY <1>1, <1>2, <1>3, <1>4, <1>5

\* A signature names its key and the text it was made over.
LEMMA Signed ==
    ASSUME NEW k1 \in Letters, NEW t1 \in Strings, NEW k2 \in Letters, NEW t2 \in Strings
    PROVE  /\ Hmac(k1, t1) \in Strings /\ SignatureSize(Hmac(k1, t1)) = HmacSize
           /\ Rsa(k1, t1) \in Strings /\ SignatureSize(Rsa(k1, t1)) = RsaSize
           /\ Hmac(k1, t1) = Hmac(k2, t2) => k1 = k2 /\ t1 = t2
           /\ Rsa(k1, t1) = Rsa(k2, t2) => k1 = k2 /\ t1 = t2
<1>1. ASSUME NEW a \in Letters
      PROVE  /\ <<a, k1>> \o t1 \in Strings /\ <<a, k1>> \o t1 # <<>>
             /\ (<<a, k1>> \o t1)[1] = a
             /\ <<a, k1>> \o t1 = <<a, k2>> \o t2 => k1 = k2 /\ t1 = t2
  <2>1. PICK p, q \in Strings : /\ p = <<a, k1>> /\ Len(p) = 2 /\ p[2] = k1
                               /\ q = <<a, k2>> /\ Len(q) = 2 /\ q[2] = k2
    <3>1. <<a, k1>> \in Strings /\ Len(<<a, k1>>) = 2 /\ <<a, k1>>[2] = k1
      BY Tuples
    <3>2. <<a, k2>> \in Strings /\ Len(<<a, k2>>) = 2 /\ <<a, k2>>[2] = k2
      BY Tuples
    <3>3. QED
      BY <3>1, <3>2
  <2>2. p \o t1 = q \o t2 /\ Len(p) = Len(q) => p = q /\ t1 = t2
    BY SameCut
  <2>3. <<a, k1>> \o t1 = <<a, k2>> \o t2 => p = q /\ t1 = t2
    BY <2>1, <2>2, Zenon
  <2>4. <<a, k1>> \o t1 = <<a, k2>> \o t2 => k1 = k2 /\ t1 = t2
    <3>1. p = q => k1 = k2
      BY <2>1
    <3>2. QED
      BY <2>3, <3>1, Zenon
  <2>5. /\ <<a, k1>> \o t1 \in Strings /\ <<a, k1>> \o t1 # <<>>
        /\ (<<a, k1>> \o t1)[1] = a
    BY BehindTwo
  <2>6. QED
    BY <2>4, <2>5, Zenon
<1>2. /\ Hmac(k1, t1) \in Strings /\ Hmac(k1, t1) # <<>> /\ Hmac(k1, t1)[1] = "hmac-sha512"
      /\ Hmac(k1, t1) = Hmac(k2, t2) => k1 = k2 /\ t1 = t2
  BY <1>1 DEF Hmac, Letters
<1>3. /\ Rsa(k1, t1) \in Strings /\ Rsa(k1, t1) # <<>> /\ Rsa(k1, t1)[1] = "rsa-sha256"
      /\ Rsa(k1, t1) = Rsa(k2, t2) => k1 = k2 /\ t1 = t2
  BY <1>1 DEF Rsa, Letters
<1>4. SignatureSize(Hmac(k1, t1)) = HmacSize
  BY <1>2 DEF SignatureSize
<1>5. SignatureSize(Rsa(k1, t1)) = RsaSize
  BY <1>3 DEF SignatureSize
<1>6. QED
  BY <1>2, <1>3, <1>4, <1>5

-----------------------------------------------------------------------------
(* Credentials. *)

LEMMA Differ ==
    /\ Space # "Bearer" /\ Space # "bearer" /\ Space # "=" /\ Space # Opaque
    /\ "\t" # "=" /\ Opaque # "=" /\ Opaque # "Bearer" /\ Opaque # "bearer"
    /\ Opaque # ":" /\ Opaque # "|"
    /\ Opaque # "base64" /\ Opaque # "hmac-sha512" /\ Opaque # "rsa-sha256"
BY Zenon DEF Space, Opaque

\* What a credential that was accepted is made of.
LEMMA CredentialHolds ==
    ASSUME NEW c \in Strings, FromCredential(c) = Fine
    PROVE  /\ c # <<>> /\ ":" \notin ToSet(c) /\ Opaque \notin ToSet(c)
           /\ ToSet(c) \cap Whitespace = {}
<1>1. c # <<>>
  BY DEF FromCredential, Then, Reject, Fine, Authorization, Err
<1>2. PICK n \in 1 .. Len(c) : /\ \A i \in 1 .. n : c[i] \in TokenLexemes
                              /\ \A i \in n + 1 .. Len(c) : c[i] = "="
  BY <1>1 DEF FromCredential, Then, Reject, Fine, Authorization, Err
<1>3. Len(c) \in Nat /\ DOMAIN c = 1 .. Len(c)
  BY LenProperties DEF Strings
<1>4. \A i \in DOMAIN c : c[i] \in TokenLexemes \cup {"="}
  BY <1>2, <1>3
<1>5. /\ ":" \notin TokenLexemes \cup {"="} /\ Opaque \notin TokenLexemes \cup {"="}
      /\ (TokenLexemes \cup {"="}) \cap Whitespace = {}
  <2>1. "=" \notin Whitespace /\ "=" # Opaque
    BY Differ DEF Whitespace
  <2>2. QED
    BY <2>1, SnapRequestAssumption DEF Lexemes
<1>6. QED
  BY <1>1, <1>4, <1>5 DEF ToSet

\* The first space of a header with a scheme follows the scheme.
LEMMA SchemeAndCredential ==
    ASSUME NEW w \in Letters \ {Space}, NEW c \in Strings
    PROVE  /\ FirstSpace(<<w, Space>> \o c) = 2
           /\ Scheme(<<w, Space>> \o c) = <<w>>
           /\ Credential(<<w, Space>> \o c) = c
<1>1. Len(c) \in Nat
  BY LenProperties DEF Strings
<1>2. PICK text \in Strings :
         /\ text = <<w, Space>> \o c /\ Len(text) = Len(c) + 2 /\ text[1] = w /\ text[2] = Space
         /\ \A i \in 1 .. Len(c) : text[i + 2] = c[i]
  <2>1. Space \in Letters
    BY DEF Letters
  <2>2. PICK y \in Letters : y = Space
    BY <2>1
  <2>3. /\ <<w, y>> \o c \in Strings /\ Len(<<w, y>> \o c) = Len(c) + 2
        /\ (<<w, y>> \o c)[1] = w /\ (<<w, y>> \o c)[2] = y
        /\ \A i \in 1 .. Len(c) : (<<w, y>> \o c)[i + 2] = c[i]
    BY BehindTwo
  <2>4. PICK u \in Strings : u = <<w, y>> \o c
    BY <2>3
  <2>5. QED
    BY <2>2, <2>3, <2>4
<1>3. FirstSpace(text) = 2
  <2>1. PICK spaces : spaces = {i \in 1 .. Len(text) : text[i] = Space}
    OBVIOUS
  <2>2. 1 \in 1 .. Len(text) /\ 2 \in 1 .. Len(text) /\ Len(text) \in Nat
    BY <1>1, <1>2
  <2>3. spaces \subseteq Nat /\ 2 \in spaces /\ 1 \notin spaces /\ 0 \notin spaces
    BY <1>2, <2>1, <2>2
  <2>4. FirstSpace(text) = Min(spaces)
    BY <2>1, <2>3 DEF FirstSpace, SelectInSeq
  <2>5. Min(spaces) \in spaces /\ \A y \in spaces : Min(spaces) <= y
    BY <2>3, Least
  <2>6. PICK x \in spaces : x = Min(spaces) /\ \A y \in spaces : x <= y
    BY <2>5
  <2>7. x \in Nat /\ x <= 2 /\ x # 0 /\ x # 1
    BY <2>3, <2>6
  <2>8. x = 2
    BY <2>7
  <2>9. QED
    BY <2>4, <2>6, <2>8
<1>4. Credential(text) = c
  <2>1. SubSeq(text, 2 + 1, Len(text)) = c
    BY <1>2, Cut
  <2>2. QED
    BY <1>3, <2>1 DEF Credential
<1>5. Scheme(text) = <<w>>
  <2>1. PICK u : u = SubSeq(text, 1, 1)
    OBVIOUS
  <2>2. u \in Strings /\ Len(u) = 1 /\ u[1] = w
    <3>1. 1 \in 1 .. Len(text)
      BY <1>1, <1>2
    <3>2. \A i \in 1 .. 1 : text[i] \in Letters
      BY <3>1, ElementOfSeq DEF Strings
    <3>3. /\ SubSeq(text, 1, 1) \in Seq(Letters)
          /\ Len(SubSeq(text, 1, 1)) = IF 1 <= 1 THEN 1 - 1 + 1 ELSE 0
          /\ \A i \in 1 .. 1 - 1 + 1 : SubSeq(text, 1, 1)[i] = text[1 + i - 1]
      <4>1. 1 \in Int
        OBVIOUS
      <4>2. QED
        BY <3>2, <4>1, SubSeqProperties
    <3>4. u \in Seq(Letters) /\ Len(u) = 1 /\ u[1] = text[1 + 1 - 1]
      BY <2>1, <3>3
    <3>5. QED
      BY <1>2, <3>4 DEF Strings
  <2>3. u = <<w>>
    <3>1. PICK v \in Strings : v = <<w>> /\ Len(v) = 1 /\ v[1] = w
      BY Tuples
    <3>2. u = v
      BY <2>2, <3>1, SeqEqual DEF Strings
    <3>3. QED
      BY <3>1, <3>2
  <2>4. FirstSpace(text) - 1 = 1
    BY <1>3
  <2>5. QED
    BY <2>1, <2>3, <2>4, Zenon DEF Scheme
<1>6. QED
  BY <1>2, <1>3, <1>4, <1>5, Zenon

LEMMA TokenAccepted ==
    ASSUME NEW w \in {"Bearer", "bearer"}, NEW c \in Strings, FromCredential(c) = Fine
    PROVE  AccessToken(<<w, Space>> \o c) = Fine
<1>1. w \in Letters \ {Space}
  BY Differ DEF Letters
<1>2. PICK text : text = <<w, Space>> \o c
  OBVIOUS
<1>3. FirstSpace(text) = 2 /\ Scheme(text) = <<w>> /\ Credential(text) = c
  BY <1>1, <1>2, SchemeAndCredential
<1>4. c # <<>> /\ ToSet(c) \cap Whitespace = {}
  BY CredentialHolds
<1>5. AccessToken(text) = Fine
  BY <1>3, <1>4 DEF AccessToken, Then, Reject
<1>6. QED
  BY <1>2, <1>5

\* A second space makes the credential begin with one.
LEMMA TokenSpaced ==
    ASSUME NEW c \in Strings
    PROVE  AccessToken(<<"Bearer", Space, Space>> \o c) = Authorization("InvalidSeparator")
<1>1. PICK w, y \in Letters : w = "Bearer" /\ y = Space
  BY DEF Letters
<1>2. PICK d \in Strings : d = <<y>> \o c /\ d # <<>> /\ d[1] = y /\ Len(d) = Len(c) + 1
                          /\ \A i \in 1 .. Len(c) : d[i + 1] = c[i]
  BY Behind
<1>3. PICK text : text = <<w, y, y>> \o c
  OBVIOUS
<1>4. text = <<w, y>> \o d
  <2>1. PICK p, q, r \in Strings :
           /\ p = <<w, y>> /\ Len(p) = 2 /\ p[1] = w /\ p[2] = y
           /\ q = <<y>> /\ Len(q) = 1 /\ q[1] = y
           /\ r = <<w, y, y>> /\ Len(r) = 3 /\ r[1] = w /\ r[2] = y /\ r[3] = y
    <3>1. \A x \in Letters : <<x>> \in Strings /\ Len(<<x>>) = 1 /\ <<x>>[1] = x
      BY Tuples
    <3>2. /\ <<w, y>> \in Strings /\ Len(<<w, y>>) = 2 /\ <<w, y>>[1] = w /\ <<w, y>>[2] = y
      BY Tuples
    <3>3. /\ <<w, y, y>> \in Strings /\ Len(<<w, y, y>>) = 3
          /\ <<w, y, y>>[1] = w /\ <<w, y, y>>[2] = y /\ <<w, y, y>>[3] = y
      BY Tuples
    <3>4. QED
      BY <3>1, <3>2, <3>3
  <2>2. p \o q = r
    <3>1. PICK v \in Strings : v = p \o q
      BY Joined
    <3>2. /\ Len(v) = 3
          /\ \A i \in 1 .. 2 : v[i] = p[i]
          /\ \A i \in 1 .. 1 : v[i + 2] = q[i]
      BY <2>1, <3>1, Joined
    <3>3. v[1] = w /\ v[2] = y /\ v[1 + 2] = y
      BY <2>1, <3>2
    <3>4. \A i \in 1 .. 3 : v[i] = r[i]
      BY <2>1, <3>3
    <3>5. v = r
      BY <2>1, <3>2, <3>4, SeqEqual DEF Strings
    <3>6. QED
      BY <3>1, <3>5
  <2>3. (p \o q) \o c = p \o (q \o c)
    BY ZenonT(30), Grouped
  <2>4. QED
    BY <1>2, <1>3, <2>1, <2>2, <2>3
<1>5. FirstSpace(text) = 2 /\ Scheme(text) = <<w>> /\ Credential(text) = d
  BY <1>1, <1>4, Differ, SchemeAndCredential
<1>6. Space \in ToSet(d)
  <2>1. 1 \in DOMAIN d
    BY <1>2, LenProperties DEF Strings
  <2>2. QED
    BY <1>1, <1>2, <2>1 DEF ToSet
<1>7. AccessToken(text) = Authorization("InvalidSeparator")
  BY <1>1, <1>2, <1>5, <1>6 DEF AccessToken, Then, Reject, Whitespace, Fine, Authorization, Err
<1>8. QED
  BY <1>1, <1>3, <1>7

LEMMA TokenRead ==
    ASSUME NEW text \in Strings
    PROVE  /\ Credential(text) \in Strings
           /\ AccessToken(text) = Fine => FromCredential(Credential(text)) = Fine
<1>1. Len(text) \in Nat
  BY LenProperties DEF Strings
<1>2. FirstSpace(text) \in Nat
  <2>1. PICK spaces : spaces = {i \in 1 .. Len(text) : text[i] = Space}
    OBVIOUS
  <2>2. FirstSpace(text) = IF spaces # {} THEN Min(spaces) ELSE 0
    BY <2>1 DEF FirstSpace, SelectInSeq
  <2>3. spaces \subseteq Nat
    BY <1>1, <2>1
  <2>4. spaces # {} => Min(spaces) \in spaces
    BY <2>3, Least
  <2>5. CASE spaces = {}
    BY <2>2, <2>5
  <2>6. CASE spaces # {}
    <3>1. FirstSpace(text) = Min(spaces)
      BY <2>2, <2>6
    <3>2. QED
      BY <2>3, <2>4, <2>6, <3>1
  <2>7. QED
    BY <2>5, <2>6
<1>3. Credential(text) \in Strings
  <2>1. PICK k \in Nat : k = FirstSpace(text)
    BY <1>2
  <2>2. \A i \in k + 1 .. Len(text) : text[i] \in Letters
    BY <1>1, ElementOfSeq DEF Strings
  <2>3. SubSeq(text, k + 1, Len(text)) \in Seq(Letters)
    <3>1. k + 1 \in Int /\ Len(text) \in Int
      BY <1>1
    <3>2. QED
      BY <2>2, <3>1, SubSeqProperties
  <2>4. QED
    BY <2>1, <2>3 DEF Credential, Strings
<1>4. AccessToken(text) = Fine => FromCredential(Credential(text)) = Fine
  BY DEF AccessToken, Then, Reject, Fine, Authorization, Err
<1>5. QED
  BY <1>3, <1>4

-----------------------------------------------------------------------------
(* Refusals. *)

\* Whatever it refuses for, the class is k; and it does refuse, for k.
Blames(error, k) == error = Fine \/ CryptoErrorClass(error) = k
Denies(error, k) == error # Fine /\ CryptoErrorClass(error) = k

LEMMA Blaming ==
    ASSUME NEW a, NEW b, NEW k
    PROVE  /\ Blames(a, k) /\ Blames(b, k) => Blames(Then(a, b), k)
           /\ Denies(a, k) => Denies(Then(a, b), k)
           /\ a = Fine /\ Denies(b, k) => Denies(Then(a, b), k)
           /\ a = Fine => Then(a, b) = b
           /\ Then(a, b) = Fine <=> a = Fine /\ b = Fine
           /\ Blames(Fine, k)
BY DEF Blames, Denies, Then

\* A chain of checks passes when each of them does.
LEMMA Passing ==
    ASSUME NEW a, NEW b
    PROVE  Then(a, b) = Fine <=> a = Fine /\ b = Fine
BY DEF Then

LEMMA Rejecting ==
    ASSUME NEW fails \in BOOLEAN, NEW e, NEW k, CryptoErrorClass(e) = k, e # Fine
    PROVE  /\ Blames(Reject(fails, e), k)
           /\ fails => Denies(Reject(fails, e), k)
           /\ Reject(fails, e) = Fine <=> ~ fails
BY DEF Blames, Denies, Reject

AuthKinds == {"InvalidSignatureEncoding", "InvalidSignatureLength", "SignatureMismatch",
              "SignatureDecode", "InvalidRawSignature", "SymmetricVerifyFailed",
              "AsymmetricVerifyFailed"}

LEMMA Classes ==
    /\ \A e : e.layer = "authorization"
              /\ e.kind \notin {"InvalidPublicKey", "InvalidSecretKey", "MissingHeader", "InvalidHeader"}
              => CryptoErrorClass(e) = Unauthorized
    /\ \A e : e.layer \in {"verification", "crypto"} /\ e.kind \in AuthKinds
              => CryptoErrorClass(e) = Unauthorized
    /\ \A e : e.layer \in {"verification", "crypto"} /\ e.kind \in {"MissingHeader", "InvalidHeader"}
              => CryptoErrorClass(e) = IF e.name \in AuthHeaders THEN Unauthorized ELSE BadRequest
    /\ \A e : e.layer = "input"
              /\ e.kind \notin AuthKinds \cup {"InvalidPublicKey", "InvalidSecretKey", "MissingHeader",
                                               "InvalidHeader"}
              => CryptoErrorClass(e) = BadRequest
    /\ \A e : e.kind = "InvalidPublicKey" /\ e.layer = "crypto"
              => CryptoErrorClass(e) = InternalServerError
BY DEF CryptoErrorClass, CryptoFailureClass, IsAuthHeader, AuthKinds

\* What each check refuses for.
LEMMA Checks ==
    /\ \A m, name : \A layer \in {"verification", "crypto"} :
         LET k == IF name \in AuthHeaders THEN Unauthorized ELSE BadRequest
         IN  /\ Blames(HeaderStr(m, name, layer), k)
             /\ HeaderStr(m, name, layer) = Fine
                <=> name \in DOMAIN m.headers /\ Opaque \notin ToSet(HeaderText(m, name))
    /\ \A text : Blames(AccessToken(text), Unauthorized)
    /\ \A path : Blames(CanonicalPath(path), BadRequest)
    /\ \A t : Blames(SnapTimestamp(t), BadRequest) /\ (SnapTimestamp(t) = Fine <=> t \in Instants)
    /\ \A name, text : Blames(ValidateHeader(name, text), BadRequest)
<1>1. ASSUME NEW m, NEW name, NEW layer \in {"verification", "crypto"}
      PROVE  LET k == IF name \in AuthHeaders THEN Unauthorized ELSE BadRequest
             IN  /\ Blames(HeaderStr(m, name, layer), k)
                 /\ HeaderStr(m, name, layer) = Fine
                    <=> name \in DOMAIN m.headers /\ Opaque \notin ToSet(HeaderText(m, name))
  <2> DEFINE k  == IF name \in AuthHeaders THEN Unauthorized ELSE BadRequest
             e1 == Err(layer, "MissingHeader", name)
             e2 == Err(layer, "InvalidHeader", name)
  <2>1. CryptoErrorClass(e1) = k /\ CryptoErrorClass(e2) = k
    BY Classes DEF Err
  <2>2. e1 # Fine /\ e2 # Fine
    BY DEF Err, Fine
  <2> HIDE DEF k, e1, e2
  <2>3. /\ Blames(Reject(name \notin DOMAIN m.headers, e1), k)
        /\ Reject(name \notin DOMAIN m.headers, e1) = Fine <=> name \in DOMAIN m.headers
    BY <2>1, <2>2 DEF Blames, Reject
  <2>4. /\ Blames(Reject(Opaque \in ToSet(HeaderText(m, name)), e2), k)
        /\ Reject(Opaque \in ToSet(HeaderText(m, name)), e2) = Fine
           <=> Opaque \notin ToSet(HeaderText(m, name))
    BY <2>1, <2>2 DEF Blames, Reject
  <2>5. HeaderStr(m, name, layer) = Then(Reject(name \notin DOMAIN m.headers, e1),
                                         Reject(Opaque \in ToSet(HeaderText(m, name)), e2))
    BY DEF HeaderStr, e1, e2
  <2>6. /\ Blames(HeaderStr(m, name, layer), k)
        /\ HeaderStr(m, name, layer) = Fine
           <=> name \in DOMAIN m.headers /\ Opaque \notin ToSet(HeaderText(m, name))
    BY <2>3, <2>4, <2>5, Blaming
  <2>7. QED
    BY <2>6 DEF k
<1>2. ASSUME NEW text PROVE Blames(AccessToken(text), Unauthorized)
  <2>1. /\ CryptoErrorClass(Authorization("InvalidSeparator")) = Unauthorized
        /\ CryptoErrorClass(Authorization("UnsupportedScheme")) = Unauthorized
        /\ CryptoErrorClass(Authorization("MissingCredential")) = Unauthorized
        /\ CryptoErrorClass(Authorization("InvalidCredential")) = Unauthorized
    BY Classes DEF Authorization, Err
  <2>2. QED
    BY <2>1 DEF AccessToken, FromCredential, Then, Reject, Blames
<1>3. ASSUME NEW path PROVE Blames(CanonicalPath(path), BadRequest)
  <2>1. /\ CryptoErrorClass(Input("InvalidPath", "")) = BadRequest
        /\ CryptoErrorClass(Input("QueryOrFragment", "")) = BadRequest
    BY Classes DEF Input, Err, AuthKinds
  <2>2. QED
    BY <2>1 DEF CanonicalPath, Then, Reject, Blames
<1>4. ASSUME NEW t
      PROVE  Blames(SnapTimestamp(t), BadRequest) /\ (SnapTimestamp(t) = Fine <=> t \in Instants)
  <2>1. CryptoErrorClass(Input("InvalidTimestamp", "")) = BadRequest
    BY Classes DEF Input, Err, AuthKinds
  <2>2. Input("InvalidTimestamp", "") # Fine
    BY DEF Input, Err, Fine
  <2>3. QED
    BY <2>1, <2>2 DEF SnapTimestamp, Reject, Blames
<1>5. ASSUME NEW name, NEW text PROVE Blames(ValidateHeader(name, text), BadRequest)
  <2>1. /\ CryptoErrorClass(Input("EmptyHeaderValue", name)) = BadRequest
        /\ CryptoErrorClass(Input("InvalidHeaderValue", name)) = BadRequest
    BY Classes DEF Input, Err, AuthKinds
  <2>2. QED
    BY <2>1 DEF ValidateHeader, Then, Reject, Blames
<1>6. QED
  BY <1>1, <1>2, <1>3, <1>4, <1>5

-----------------------------------------------------------------------------
(* What a fault leaves of a message. *)

Wire(k, t, p, q, b, h, i) ==
    [kind |-> k, method |-> t, path |-> p, query |-> q, body |-> b, headers |-> h, ids |-> i]

\* The headers a fault takes away or rewrites; all others arrive as they were.
Spared(f, w, name) ==
    /\ f.kind \in {"drop", "garble"} => f.name # name
    /\ f.kind = "recode" => name # Signature(w)
    /\ f.kind = "time" => name # "X-TIMESTAMP"
    /\ f.kind \in {"scheme", "space"} => name # "Authorization"

FaultKinds == {"drop", "garble", "prefix", "query", "body", "recode", "time", "scheme", "space", "ids"}

\* A fault that took effect found what it strikes.
Struck(f, w) ==
    /\ f.kind \in FaultKinds
    /\ f.kind \in {"drop", "garble"} => f.name \in DOMAIN w.headers
    /\ f.kind = "time" => "X-TIMESTAMP" \in DOMAIN w.headers
    /\ f.kind \in {"scheme", "space"} => "Authorization" \in DOMAIN w.headers

Landed(k, t, p, q, b, h, f, w, m) ==
    /\ m.kind = k /\ m.method = t
    /\ m.path = IF f.kind = "prefix" THEN <<"/", "api">> \o p ELSE p
    /\ m.query = IF f.kind = "query" THEN <<"?", "q">> ELSE q
    /\ m.body = IF f.kind = "body" THEN f.name ELSE b
    /\ m.ids = IF f.kind = "ids" THEN f.ids ELSE w.ids
    /\ \A name \in DOMAIN h : Spared(f, w, name) =>
          name \in DOMAIN m.headers /\ HeaderText(m, name) = h[name]
    /\ DOMAIN m.headers = IF f.kind = "drop" THEN DOMAIN h \ {f.name} ELSE DOMAIN h
    /\ f.kind = "garble" /\ f.name \in DOMAIN h => HeaderText(m, f.name) = <<Opaque>>
    /\ f.kind = "recode" /\ Signature(w) \in DOMAIN h =>
          HeaderText(m, Signature(w)) = Encode(f.name, FromBase64(h[Signature(w)]))
    /\ f.kind = "time" /\ "X-TIMESTAMP" \in DOMAIN h =>
          HeaderText(m, "X-TIMESTAMP") = <<"now">>
    /\ f.kind = "scheme" /\ "Authorization" \in DOMAIN h =>
          HeaderText(m, "Authorization") = <<"bearer", Space>> \o Credential(h["Authorization"])
    /\ f.kind = "space" /\ "Authorization" \in DOMAIN h =>
          HeaderText(m, "Authorization")
             = <<"Bearer", Space, Space>> \o Credential(h["Authorization"])
    /\ m # w => Struck(f, w)

LEMMA Landing ==
    ASSUME NEW k, NEW t, NEW p, NEW q, NEW b, NEW h, NEW i, NEW f,
           NEW w, w = Wire(k, t, p, q, b, h, i), NEW m, m = Altered(w, f)
    PROVE  Landed(k, t, p, q, b, h, f, w, m)
<1> USE DEF Landed
<1>1. /\ w.kind = k /\ w.method = t /\ w.path = p /\ w.query = q /\ w.body = b /\ w.headers = h /\ w.ids = i
      /\ \A name \in DOMAIN h : HeaderText(w, name) = h[name]
  BY DEF Wire, HeaderText
<1>2. CASE f.kind \notin FaultKinds
  <2>1. m = w
    BY <1>2 DEF Altered, FaultKinds
  <2>2. QED
    BY <1>1, <1>2, <2>1 DEF FaultKinds
<1>3. CASE f.kind = "drop"
  <2>1. CASE f.name \in DOMAIN h
    <3>1. m = [w EXCEPT !.headers = [n \in DOMAIN w.headers \ {f.name} |-> w.headers[n]]]
      BY <1>1, <1>3, <2>1 DEF Altered
    <3>2. m = Wire(k, t, p, q, b, [n \in DOMAIN h \ {f.name} |-> h[n]], i)
      BY <1>1, <3>1 DEF Wire
    <3>3. QED
      BY <1>1, <1>3, <2>1, <3>2 DEF Wire, HeaderText, Spared, Struck, FaultKinds
  <2>2. CASE f.name \notin DOMAIN h
    <3>1. m = w
      BY <1>1, <1>3, <2>2 DEF Altered
    <3>2. QED
      BY <1>1, <1>3, <2>2, <3>1
  <2>3. QED
    BY <2>1, <2>2
<1>4. CASE f.kind = "garble"
  <2>1. CASE f.name \in DOMAIN h
    <3>1. m = [w EXCEPT !.headers[f.name] = <<Opaque>>]
      BY <1>1, <1>4, <2>1 DEF Altered, WithHeader
    <3>2. m = Wire(k, t, p, q, b, [h EXCEPT ![f.name] = <<Opaque>>], i)
      BY <1>1, <3>1 DEF Wire
    <3>3. QED
      BY <1>1, <1>4, <2>1, <3>2 DEF Wire, HeaderText, Spared, Struck, FaultKinds
  <2>2. CASE f.name \notin DOMAIN h
    <3>1. m = w
      BY <1>1, <1>4, <2>2 DEF Altered
    <3>2. QED
      BY <1>1, <1>4, <2>2, <3>1
  <2>3. QED
    BY <2>1, <2>2
<1>5. CASE f.kind = "prefix"
  <2>1. m = Wire(k, t, <<"/", "api">> \o p, q, b, h, i)
    BY <1>1, <1>5 DEF Altered, Wire
  <2>2. QED
    BY <1>1, <1>5, <2>1 DEF Wire, HeaderText, Struck, FaultKinds
<1>6. CASE f.kind = "query"
  <2>1. m = Wire(k, t, p, <<"?", "q">>, b, h, i)
    BY <1>1, <1>6 DEF Altered, Wire
  <2>2. QED
    BY <1>1, <1>6, <2>1 DEF Wire, HeaderText, Struck, FaultKinds
<1>7. CASE f.kind = "body"
  <2>1. m = Wire(k, t, p, q, f.name, h, i)
    BY <1>1, <1>7 DEF Altered, Wire
  <2>2. QED
    BY <1>1, <1>7, <2>1 DEF Wire, HeaderText, Struck, FaultKinds
<1>8. CASE f.kind = "recode"
  <2> DEFINE text == Encode(f.name, FromBase64(HeaderText(w, Signature(w))))
  <2>1. m = [w EXCEPT !.headers[Signature(w)] = text]
    BY <1>1, <1>8 DEF Altered, WithHeader
  <2>2. Signature(w) \in DOMAIN h => text = Encode(f.name, FromBase64(h[Signature(w)]))
    BY <1>1
  <2> HIDE DEF text
  <2>3. m = Wire(k, t, p, q, b, [h EXCEPT ![Signature(w)] = text], i)
    BY <1>1, <2>1 DEF Wire
  <2>4. QED
    BY <1>1, <1>8, <2>2, <2>3 DEF Wire, HeaderText, Spared, Struck, FaultKinds
<1>9. CASE f.kind = "time"
  <2>1. CASE "X-TIMESTAMP" \in DOMAIN h
    <3>1. m = [w EXCEPT !.headers["X-TIMESTAMP"] = <<"now">>]
      BY <1>1, <1>9, <2>1 DEF Altered, WithHeader
    <3>2. m = Wire(k, t, p, q, b, [h EXCEPT !["X-TIMESTAMP"] = <<"now">>], i)
      BY <1>1, <3>1 DEF Wire
    <3>3. QED
      BY <1>1, <1>9, <2>1, <3>2 DEF Wire, HeaderText, Spared, Struck, FaultKinds
  <2>2. CASE "X-TIMESTAMP" \notin DOMAIN h
    <3>1. m = w
      BY <1>1, <1>9, <2>2 DEF Altered
    <3>2. QED
      BY <1>1, <1>9, <2>2, <3>1
  <2>3. QED
    BY <2>1, <2>2
<1>10. ASSUME NEW text, "Authorization" \in DOMAIN h, f.kind \in {"scheme", "space"},
             m = [w EXCEPT !.headers["Authorization"] = text]
      PROVE  /\ m = Wire(k, t, p, q, b, [h EXCEPT !["Authorization"] = text], i)
             /\ HeaderText(m, "Authorization") = text
             /\ \A name \in DOMAIN h : Spared(f, w, name) =>
                   name \in DOMAIN m.headers /\ HeaderText(m, name) = h[name]
             /\ DOMAIN m.headers = DOMAIN h
  <2>1. m = Wire(k, t, p, q, b, [h EXCEPT !["Authorization"] = text], i)
    BY <1>1, <1>10 DEF Wire
  <2>2. QED
    BY <1>10, <2>1 DEF Wire, HeaderText, Spared
<1>11. CASE f.kind = "scheme"
  <2> DEFINE text == <<"bearer", Space>> \o Credential(HeaderText(w, "Authorization"))
  <2>1. CASE "Authorization" \in DOMAIN h
    <3>1. m = [w EXCEPT !.headers["Authorization"] = text]
      BY <1>1, <1>11, <2>1 DEF Altered, WithHeader
    <3>2. text = <<"bearer", Space>> \o Credential(h["Authorization"])
      BY <1>1, <2>1
    <3> HIDE DEF text
    <3>3. QED
      BY <1>1, <1>10, <1>11, <2>1, <3>1, <3>2 DEF Wire, Struck, FaultKinds
  <2>2. CASE "Authorization" \notin DOMAIN h
    <3>1. m = w
      BY <1>1, <1>11, <2>2 DEF Altered
    <3>2. QED
      BY <1>1, <1>11, <2>2, <3>1
  <2>3. QED
    BY <2>1, <2>2
<1>12. CASE f.kind = "space"
  <2> DEFINE text == <<"Bearer", Space, Space>> \o Credential(HeaderText(w, "Authorization"))
  <2>1. CASE "Authorization" \in DOMAIN h
    <3>1. m = [w EXCEPT !.headers["Authorization"] = text]
      BY <1>1, <1>12, <2>1 DEF Altered, WithHeader
    <3>2. text = <<"Bearer", Space, Space>> \o Credential(h["Authorization"])
      BY <1>1, <2>1
    <3> HIDE DEF text
    <3>3. QED
      BY <1>1, <1>10, <1>12, <2>1, <3>1, <3>2 DEF Wire, Struck, FaultKinds
  <2>2. CASE "Authorization" \notin DOMAIN h
    <3>1. m = w
      BY <1>1, <1>12, <2>2 DEF Altered
    <3>2. QED
      BY <1>1, <1>12, <2>2, <3>1
  <2>3. QED
    BY <2>1, <2>2
<1>13. CASE f.kind = "ids"
  <2>1. m = Wire(k, t, p, q, b, h, f.ids)
    BY <1>1, <1>13 DEF Altered, Wire
  <2>2. QED
    BY <1>1, <1>13, <2>1 DEF Wire, HeaderText, Struck, FaultKinds
<1>14. QED
  BY <1>2, <1>3, <1>4, <1>5, <1>6, <1>7, <1>8, <1>9, <1>11, <1>12, <1>13 DEF FaultKinds

-----------------------------------------------------------------------------
(* What senders send. *)

Clean(text) == text \in Strings /\ Opaque \notin ToSet(text)

LEMMA CleanTexts ==
    /\ \A s \in Seq(Lexemes) : Clean(s)
    /\ \A s, t : Clean(s) /\ Clean(t) => Clean(s \o t)
    /\ \A x \in Letters \ {Opaque} : Clean(<<x>>)
    /\ \A x, y \in Letters \ {Opaque} : Clean(<<x, y>>)
    /\ \A x, y, z \in Letters \ {Opaque} : Clean(<<x, y, z>>)
    /\ \A s \in Instants : Clean(s)
<1>1. \A s \in Seq(Lexemes) : Clean(s)
  <2> SUFFICES ASSUME NEW s \in Seq(Lexemes) PROVE Opaque \notin ToSet(s)
    BY OfLexemes DEF Clean
  <2>1. \A i \in DOMAIN s : s[i] \in Lexemes
    BY LenProperties, ElementOfSeq
  <2>2. Opaque \notin Lexemes
    BY DEF Lexemes
  <2>3. QED
    BY <2>1, <2>2 DEF ToSet
<1>2. ASSUME NEW s, NEW t, Clean(s), Clean(t) PROVE Clean(s \o t)
  <2>1. s \in Strings /\ t \in Strings
    BY <1>2 DEF Clean
  <2>2. /\ Len(s) \in Nat /\ DOMAIN s = 1 .. Len(s)
        /\ Len(t) \in Nat /\ DOMAIN t = 1 .. Len(t)
    BY <2>1, LenProperties DEF Strings
  <2>3. PICK u \in Strings :
           /\ u = s \o t /\ Len(u) = Len(s) + Len(t) /\ DOMAIN u = 1 .. Len(u)
           /\ \A i \in 1 .. Len(s) : u[i] = s[i]
           /\ \A i \in 1 .. Len(t) : u[i + Len(s)] = t[i]
    <3>1. \A u \in Strings : DOMAIN u = 1 .. Len(u)
      BY LenProperties DEF Strings
    <3>2. QED
      BY <2>1, <3>1, Joined
  <2>4. \A i \in 1 .. Len(u) : u[i] # Opaque
    <3> SUFFICES ASSUME NEW i \in 1 .. Len(u) PROVE u[i] # Opaque
      OBVIOUS
    <3>1. CASE i \in 1 .. Len(s)
      <4>1. s[i] # Opaque
        BY <1>2, <2>2, <3>1 DEF Clean, ToSet
      <4>2. QED
        BY <2>3, <3>1, <4>1
    <3>2. CASE i \notin 1 .. Len(s)
      <4>1. PICK j \in 1 .. Len(t) : i = j + Len(s)
        <5>1. i - Len(s) \in 1 .. Len(t) /\ i = (i - Len(s)) + Len(s)
          BY <2>2, <2>3, <3>2
        <5>2. QED
          BY <5>1
      <4>2. t[j] # Opaque
        BY <1>2, <2>2 DEF Clean, ToSet
      <4>3. QED
        BY <2>3, <4>1, <4>2
    <3>3. QED
      BY <3>1, <3>2
  <2>5. Clean(u)
    BY <2>3, <2>4 DEF Clean, ToSet
  <2>6. QED
    BY <2>3, <2>5
<1>3. \A u \in Strings : (\A i \in 1 .. Len(u) : u[i] # Opaque) => Clean(u)
  BY LenProperties DEF Clean, ToSet, Strings
<1>4. ASSUME NEW x \in Letters \ {Opaque}, NEW y \in Letters \ {Opaque}, NEW z \in Letters \ {Opaque}
      PROVE  Clean(<<x>>) /\ Clean(<<x, y>>) /\ Clean(<<x, y, z>>)
  <2>1. PICK a \in Strings : a = <<x>> /\ Len(a) = 1 /\ a[1] = x
    BY Tuples
  <2>2. PICK b \in Strings : b = <<x, y>> /\ Len(b) = 2 /\ b[1] = x /\ b[2] = y
    <3>1. <<x, y>> \in Strings /\ Len(<<x, y>>) = 2 /\ <<x, y>>[1] = x /\ <<x, y>>[2] = y
      BY Tuples
    <3>2. QED
      BY <3>1
  <2>3. PICK c \in Strings : c = <<x, y, z>> /\ Len(c) = 3 /\ c[1] = x /\ c[2] = y /\ c[3] = z
    <3>1. /\ <<x, y, z>> \in Strings /\ Len(<<x, y, z>>) = 3
          /\ <<x, y, z>>[1] = x /\ <<x, y, z>>[2] = y /\ <<x, y, z>>[3] = z
      BY Tuples
    <3>2. QED
      BY <3>1
  <2>4. /\ \A i \in 1 .. 1 : a[i] # Opaque
        /\ \A i \in 1 .. 2 : b[i] # Opaque
        /\ \A i \in 1 .. 3 : c[i] # Opaque
    BY <2>1, <2>2, <2>3
  <2>5. Clean(a) /\ Clean(b) /\ Clean(c)
    BY <1>3, <2>1, <2>2, <2>3, <2>4
  <2>6. QED
    BY <2>1, <2>2, <2>3, <2>5
<1>5. \A s \in Instants : Clean(s)
  BY <1>1, SnapRequestAssumption
<1>6. QED
  BY <1>1, <1>2, <1>4, <1>5

LEMMA CleanSignatures ==
    ASSUME NEW key \in Lexemes, NEW text, Clean(text)
    PROVE  /\ Clean(Encode("base64", Hmac(key, text)))
           /\ Clean(Encode("base64", Rsa(key, text)))
<1>1. PICK b, h, r \in Letters \ {Opaque} : b = "base64" /\ h = "hmac-sha512" /\ r = "rsa-sha256"
  BY Differ DEF Letters
<1>2. key \in Letters \ {Opaque}
  BY OfLexemes DEF Lexemes
<1>3. Clean(<<b>>) /\ Clean(<<h, key>>) /\ Clean(<<r, key>>)
  BY <1>2, CleanTexts
<1>4. Clean(<<h, key>> \o text) /\ Clean(<<r, key>> \o text)
  BY <1>3, CleanTexts
<1>5. Clean(<<b>> \o (<<h, key>> \o text)) /\ Clean(<<b>> \o (<<r, key>> \o text))
  BY <1>3, <1>4, CleanTexts
<1>6. QED
  BY <1>1, <1>5 DEF Encode, Hmac, Rsa

ServiceText(c) == ServiceString(c.method, c.path, c.credential, c.body, c.timestamp)

LEMMA ServiceSent ==
    ASSUME NEW key \in Keys, NEW c \in Requests, NewServiceRequest(c) = Fine
    PROVE  /\ key \in Letters /\ c.method \in Letters /\ c.body \in DOMAIN BodyHash
           /\ c.path \in Strings /\ c.credential \in Strings /\ c.timestamp \in Strings
           /\ c.timestamp \in Instants
           /\ FromCredential(c.credential) = Fine /\ CanonicalPath(c.path) = Fine
           /\ Clean(ServiceText(c)) /\ Clean(c.timestamp)
           /\ Clean(<<"Bearer", Space>> \o c.credential)
           /\ Clean(Encode("base64", Hmac(key, ServiceText(c))))
<1>1. /\ key \in Lexemes /\ c.method \in Lexemes /\ c.body \in DOMAIN BodyHash
      /\ c.path \in Seq(Lexemes) /\ c.credential \in Seq(Lexemes) /\ c.timestamp \in Seq(Lexemes)
  BY SnapExchangeAssumption
<1>2. /\ key \in Letters /\ c.method \in Letters \ {Opaque}
      /\ c.path \in Strings /\ c.credential \in Strings /\ c.timestamp \in Strings
  BY <1>1, OfLexemes DEF Lexemes
<1>3. CanonicalRequest(c) = Fine
  BY Blaming DEF NewServiceRequest
<1>4. /\ FromCredential(c.credential) = Fine
      /\ Then(CanonicalPath(c.path), SnapTimestamp(c.timestamp)) = Fine
  BY <1>3, Blaming DEF CanonicalRequest
<1>5. CanonicalPath(c.path) = Fine /\ c.timestamp \in Instants
  BY <1>4, Blaming, Checks
<1>6. Clean(c.path) /\ Clean(c.credential) /\ Clean(c.timestamp)
  BY <1>1, CleanTexts
<1>7. PICK colon, bearer, space, hash \in Letters \ {Opaque} :
         colon = ":" /\ bearer = "Bearer" /\ space = Space /\ hash = BodyHash[c.body]
  <2>1. ":" \in Letters \ {Opaque} /\ "Bearer" \in Letters \ {Opaque} /\ Space \in Letters \ {Opaque}
    BY Differ DEF Letters
  <2>2. BodyHash[c.body] \in Letters \ {Opaque}
    BY <1>1, HashesDiffer, OfLexemes DEF Lexemes
  <2>3. QED
    BY <2>1, <2>2
<1>8. /\ Clean(<<c.method, colon>>) /\ Clean(<<colon>>) /\ Clean(<<colon, hash, colon>>)
      /\ Clean(<<bearer, space>>)
  BY <1>2, CleanTexts
<1>9. Clean(<<c.method, colon>> \o c.path \o <<colon>> \o c.credential
              \o <<colon, hash, colon>> \o c.timestamp)
  BY <1>6, <1>8, CleanTexts
<1>10. Clean(ServiceText(c))
  BY <1>7, <1>9 DEF ServiceText, ServiceString
<1>11. Clean(<<"Bearer", Space>> \o c.credential)
  <2>1. Clean(<<bearer, space>> \o c.credential)
    BY <1>6, <1>8, CleanTexts
  <2>2. QED
    BY <1>7, <2>1
<1>12. QED
  BY <1>1, <1>2, <1>4, <1>5, <1>6, <1>10, <1>11, CleanSignatures

-----------------------------------------------------------------------------
(* The verdict on a service request. *)

\* The arriving message, from the request it was built from and its fault.
ServiceArrival(key, c, f, m) ==
    LET w == ServiceMessage(key, c).wire
    IN  m = Altered(w, f) /\ (f = NoFault \/ (m # w /\ f \in Faults))

ServiceLanded(key, c, f, m) ==
    LET text(name) == HeaderText(m, name)
        there(name) == name \in DOMAIN m.headers
        struck(name) == f.kind \in {"drop", "garble"} /\ f.name = name
    IN  /\ m.kind = "service" /\ m.method = c.method
        /\ m.path = IF f.kind = "prefix" THEN <<"/", "api">> \o c.path ELSE c.path
        /\ m.query = IF f.kind = "query" THEN <<"?", "q">> ELSE <<>>
        /\ m.body = IF f.kind = "body" THEN f.name ELSE c.body
        /\ m.body \in DOMAIN BodyHash
        /\ \A name \in {"X-SIGNATURE", "X-TIMESTAMP", "Authorization"} :
              struck(name) => ~ there(name) \/ text(name) = <<Opaque>>
        /\ ~ struck("X-SIGNATURE") =>
              /\ there("X-SIGNATURE")
              /\ f.kind # "recode" => text("X-SIGNATURE") = Encode("base64", Hmac(key, ServiceText(c)))
              /\ f.kind = "recode" =>
                    /\ f.name \in {"hex", "base64url"}
                    /\ text("X-SIGNATURE") = Encode(f.name, Hmac(key, ServiceText(c)))
        /\ ~ struck("X-TIMESTAMP") =>
              /\ there("X-TIMESTAMP")
              /\ text("X-TIMESTAMP") = IF f.kind = "time" THEN <<"now">> ELSE c.timestamp
        /\ ~ struck("Authorization") =>
              /\ there("Authorization")
              /\ text("Authorization")
                    = CASE f.kind = "scheme" -> <<"bearer", Space>> \o c.credential
                        [] f.kind = "space"  -> <<"Bearer", Space, Space>> \o c.credential
                        [] OTHER             -> <<"Bearer", Space>> \o c.credential
        /\ f.kind \in {"drop", "garble"} => f.name # "X-CLIENT-KEY"

LEMMA ServiceLands ==
    ASSUME NEW key \in Keys, NEW c \in Requests, NewServiceRequest(c) = Fine,
           NEW f, NEW m, ServiceArrival(key, c, f, m)
    PROVE  ServiceLanded(key, c, f, m)
<1> DEFINE h == ServiceHeaders(key, c)
           w == ServiceMessage(key, c).wire
<1>1. w = Wire("service", c.method, c.path, <<>>, c.body, h, CallerIds)
  BY DEF ServiceMessage, Wire
<1>2. /\ DOMAIN h = {"X-PARTNER-ID", "CHANNEL-ID", "X-EXTERNAL-ID", "X-TIMESTAMP",
                     "X-SIGNATURE", "Authorization"}
      /\ h["X-SIGNATURE"] = Encode("base64", Hmac(key, ServiceText(c)))
      /\ h["X-TIMESTAMP"] = c.timestamp
      /\ h["Authorization"] = <<"Bearer", Space>> \o c.credential
  BY DEF ServiceHeaders, ServiceText
<1>3. /\ Hmac(key, ServiceText(c)) \in Strings
      /\ FromBase64(h["X-SIGNATURE"]) = Hmac(key, ServiceText(c))
  <2>1. key \in Letters /\ ServiceText(c) \in Strings
    BY ServiceSent DEF Clean
  <2>2. Hmac(key, ServiceText(c)) \in Strings
    BY <2>1, Signed
  <2>3. QED
    BY <1>2, <2>2, Encoded
<1>4. Credential(h["Authorization"]) = c.credential
  <2>1. PICK b \in Letters \ {Space} : b = "Bearer"
    BY Differ DEF Letters
  <2>2. Credential(<<b, Space>> \o c.credential) = c.credential
    BY ServiceSent, SchemeAndCredential
  <2>3. QED
    BY <1>2, <2>1, <2>2
<1>5. Signature(w) = "X-SIGNATURE"
  BY <1>1 DEF Signature, Wire
<1>6. m = Altered(w, f) /\ (f = NoFault \/ (m # w /\ f \in Faults))
  BY DEF ServiceArrival
<1> HIDE DEF h, w
<1>7. /\ m.kind = "service" /\ m.method = c.method
      /\ m.path = IF f.kind = "prefix" THEN <<"/", "api">> \o c.path ELSE c.path
      /\ m.query = IF f.kind = "query" THEN <<"?", "q">> ELSE <<>>
      /\ m.body = IF f.kind = "body" THEN f.name ELSE c.body
      /\ \A name \in DOMAIN h : Spared(f, w, name) =>
            name \in DOMAIN m.headers /\ HeaderText(m, name) = h[name]
      /\ DOMAIN m.headers = IF f.kind = "drop" THEN DOMAIN h \ {f.name} ELSE DOMAIN h
      /\ f.kind = "garble" /\ f.name \in DOMAIN h => HeaderText(m, f.name) = <<Opaque>>
      /\ f.kind = "recode" =>
            HeaderText(m, "X-SIGNATURE") = Encode(f.name, Hmac(key, ServiceText(c)))
      /\ f.kind = "time" => HeaderText(m, "X-TIMESTAMP") = <<"now">>
      /\ f.kind = "scheme" => HeaderText(m, "Authorization") = <<"bearer", Space>> \o c.credential
      /\ f.kind = "space" =>
            HeaderText(m, "Authorization") = <<"Bearer", Space, Space>> \o c.credential
      /\ m # w => Struck(f, w)
  <2>1. Landed("service", c.method, c.path, <<>>, c.body, h, f, w, m)
    BY <1>1, <1>6, Landing
  <2>2. /\ "X-SIGNATURE" \in DOMAIN h /\ "X-TIMESTAMP" \in DOMAIN h /\ "Authorization" \in DOMAIN h
    BY <1>2
  <2>3. QED
    BY <1>3, <1>4, <1>5, <2>1, <2>2 DEF Landed
<1>8. w.headers = h
  BY <1>1 DEF Wire
<1>9. m.body \in DOMAIN BodyHash
  <2>1. CASE f.kind = "body"
    <3>1. NoFault.kind # "body"
      BY DEF NoFault
    <3>2. f \in Faults
      BY <1>6, <2>1, <3>1
    <3>3. QED
      BY <1>7, <2>1, <3>2, SnapExchangeAssumption
  <2>2. CASE f.kind # "body"
    BY <1>7, <2>2, SnapExchangeAssumption
  <2>3. QED
    BY <2>1, <2>2
<1>10. f.kind = "recode" => f.name \in {"hex", "base64url"}
  <2>1. f # NoFault => f \in Faults
    BY <1>6
  <2>2. NoFault.kind # "recode"
    BY DEF NoFault
  <2>3. QED
    BY <2>1, <2>2, SnapExchangeAssumption
<1>11. f.kind \in {"drop", "garble"} => f.name \in DOMAIN h
  <2>1. CASE f = NoFault
    BY <2>1 DEF NoFault
  <2>2. CASE m # w
    BY <1>7, <1>8, <2>2 DEF Struck
  <2>3. QED
    BY <1>6, <2>1, <2>2
<1>12. \A name \in {"X-SIGNATURE", "X-TIMESTAMP", "Authorization"} :
          f.kind \in {"drop", "garble"} /\ f.name = name
          => name \notin DOMAIN m.headers \/ HeaderText(m, name) = <<Opaque>>
  BY <1>2, <1>7
<1>13. /\ ~ (f.kind \in {"drop", "garble"} /\ f.name = "X-SIGNATURE") =>
             "X-SIGNATURE" \in DOMAIN m.headers
       /\ ~ (f.kind \in {"drop", "garble"} /\ f.name = "X-SIGNATURE") /\ f.kind # "recode" =>
             HeaderText(m, "X-SIGNATURE") = h["X-SIGNATURE"]
  BY <1>2, <1>5, <1>7 DEF Spared
<1>14. ~ (f.kind \in {"drop", "garble"} /\ f.name = "X-TIMESTAMP") =>
          /\ "X-TIMESTAMP" \in DOMAIN m.headers
          /\ HeaderText(m, "X-TIMESTAMP") = IF f.kind = "time" THEN <<"now">> ELSE c.timestamp
  BY <1>2, <1>5, <1>7 DEF Spared
<1>15. ~ (f.kind \in {"drop", "garble"} /\ f.name = "Authorization") =>
          /\ "Authorization" \in DOMAIN m.headers
          /\ f.kind \notin {"scheme", "space"} => HeaderText(m, "Authorization") = h["Authorization"]
  BY <1>2, <1>5, <1>7 DEF Spared
<1>16. f.kind \in {"drop", "garble"} => f.name # "X-CLIENT-KEY"
  BY <1>2, <1>11
<1>17. QED
  BY <1>2, <1>7, <1>9, <1>10, <1>12, <1>13, <1>14, <1>15, <1>16 DEF ServiceLanded

\* The parts of an arrived request are texts again.
LEMMA ServiceTexts ==
    ASSUME NEW key \in Keys, NEW c \in Requests, NewServiceRequest(c) = Fine,
           NEW f, NEW m, ServiceArrival(key, c, f, m)
    PROVE  /\ m.path \in Strings /\ m.method \in Letters
           /\ ~ (f.kind \in {"drop", "garble"} /\ f.name = "X-TIMESTAMP")
              => HeaderText(m, "X-TIMESTAMP") \in Strings
           /\ ~ (f.kind \in {"drop", "garble"} /\ f.name = "Authorization")
              => HeaderText(m, "Authorization") \in Strings
<1>1. ServiceLanded(key, c, f, m)
  BY ServiceLands
<1>2. PICK api \in Strings : api = <<"/", "api">>
  <2>1. PICK x, y \in Letters : x = "/" /\ y = "api"
    BY DEF Letters
  <2>2. <<x, y>> \in Strings
    BY Tuples
  <2>3. QED
    BY <2>1, <2>2
<1>3. PICK now \in Strings : now = <<"now">>
  <2>1. PICK x \in Letters : x = "now"
    BY DEF Letters
  <2>2. <<x>> \in Strings
    BY Tuples
  <2>3. QED
    BY <2>1, <2>2
<1>4. api \o c.path \in Strings
  BY ServiceSent, Joined
<1>5. /\ <<"bearer", Space>> \o c.credential \in Strings
      /\ <<"Bearer", Space>> \o c.credential \in Strings
      /\ <<"Bearer", Space, Space>> \o c.credential \in Strings
  <2>1. PICK x, y, z \in Letters : x = "bearer" /\ y = "Bearer" /\ z = Space
    BY DEF Letters
  <2>2. <<x, z>> \in Strings /\ <<y, z>> \in Strings /\ <<y, z, z>> \in Strings
    BY Tuples
  <2>3. PICK p, q, r \in Strings : p = <<x, z>> /\ q = <<y, z>> /\ r = <<y, z, z>>
    BY <2>2
  <2>4. p \o c.credential \in Strings /\ q \o c.credential \in Strings
        /\ r \o c.credential \in Strings
    BY ServiceSent, Joined
  <2>5. QED
    BY <2>1, <2>3, <2>4
<1>6. m.path \in Strings /\ m.method \in Letters
  BY <1>1, <1>2, <1>4, ServiceSent DEF ServiceLanded
<1>7. ~ (f.kind \in {"drop", "garble"} /\ f.name = "X-TIMESTAMP")
      => HeaderText(m, "X-TIMESTAMP") \in Strings
  BY <1>1, <1>3, ServiceSent DEF ServiceLanded
<1>8. ~ (f.kind \in {"drop", "garble"} /\ f.name = "Authorization")
      => HeaderText(m, "Authorization") \in Strings
  BY <1>1, <1>5, Zenon DEF ServiceLanded
<1>9. QED
  BY <1>6, <1>7, <1>8

\* A path handed over with its query is refused, and any other is read as it is.
LEMMA PathsSeen ==
    ASSUME NEW key \in Keys, NEW c \in Requests, NewServiceRequest(c) = Fine,
           NEW f, NEW m, ServiceArrival(key, c, f, m), NEW adapter
    PROVE  LET path == PathSeen(adapter, m)
           IN  /\ f.kind = "query" /\ adapter = "actix_path" => Denies(CanonicalPath(path), BadRequest)
               /\ ~ (f.kind = "query" /\ adapter = "actix_path") => path = m.path
               /\ CanonicalPath(path) = Fine => path = m.path
<1> DEFINE path  == PathSeen(adapter, m)
<1>1. ServiceLanded(key, c, f, m)
  BY ServiceLands
<1>2. adapter # "actix_path" => path = m.path
  BY DEF PathSeen
<1>3. m.query = <<>> => path = m.path
  <2>1. m.path \o <<>> = m.path
    BY ServiceTexts, ConcatEmptySeq DEF Strings
  <2>2. QED
    BY <2>1 DEF PathSeen
<1>4. adapter = "actix_path" /\ f.kind = "query" => CanonicalPath(path) # Fine
  <2> SUFFICES ASSUME adapter = "actix_path", f.kind = "query" PROVE CanonicalPath(path) # Fine
    OBVIOUS
  <2>1. path = m.path \o <<"?", "q">>
    BY <1>1 DEF ServiceLanded, PathSeen
  <2>2. PICK q \in Strings : q = <<"?", "q">> /\ Len(q) = 2 /\ q[1] = "?"
    <3>1. PICK x, y \in Letters : x = "?" /\ y = "q"
      BY DEF Letters
    <3>2. <<x, y>> \in Strings /\ Len(<<x, y>>) = 2 /\ <<x, y>>[1] = x
      BY Tuples
    <3>3. QED
      BY <3>1, <3>2
  <2>3. PICK p \in Strings : p = m.path \o q /\ Len(p) = Len(m.path) + 2
                            /\ p[1 + Len(m.path)] = "?"
    <3>1. /\ m.path \o q \in Strings /\ Len(m.path \o q) = Len(m.path) + 2
          /\ (m.path \o q)[1 + Len(m.path)] = q[1]
      BY <2>2, ServiceTexts, Joined
    <3>2. QED
      BY <2>2, <3>1
  <2>4. Len(m.path) \in Nat /\ DOMAIN p = 1 .. Len(p)
    BY <2>3, ServiceTexts, LenProperties DEF Strings
  <2>5. "?" \in ToSet(p)
    BY SMTT(30), <2>3, <2>4 DEF ToSet
  <2>6. CanonicalPath(p) # Fine
    BY <2>5 DEF CanonicalPath, Then, Reject, Input, Err, Fine
  <2>7. QED
    BY <2>1, <2>2, <2>3, <2>6
<1>5. Blames(CanonicalPath(path), BadRequest)
  BY Checks
<1>6. f.kind # "query" => m.query = <<>>
  BY <1>1 DEF ServiceLanded
<1>7. QED
  BY <1>2, <1>3, <1>4, <1>5, <1>6 DEF Blames, Denies

\* What the verifier accepted is what was signed, under the server's secret.
LEMMA ServiceSound ==
    ASSUME NEW key \in Keys, NEW c \in Requests, NewServiceRequest(c) = Fine,
           NEW f, NEW m, ServiceArrival(key, c, f, m), NEW adapter,
           VerifyRequest(Secret, adapter, m) = Fine
    PROVE  key = Secret /\ ServiceParts(c) = ArrivedParts(m)
<1>1. ServiceLanded(key, c, f, m)
  BY ServiceLands
<1> DEFINE wire  == HeaderText(m, "X-SIGNATURE")
           token == HeaderText(m, "Authorization")
           at    == HeaderText(m, "X-TIMESTAMP")
           path  == PathSeen(adapter, m)
<1>2. /\ HeaderStr(m, "X-SIGNATURE", "verification") = Fine
      /\ HeaderStr(m, "X-TIMESTAMP", "verification") = Fine
      /\ HeaderStr(m, "Authorization", "verification") = Fine
      /\ ServiceRequestParts(m, path) = Fine
      /\ VerifyServiceRequest(Secret, m, path) = Fine
  BY Blaming DEF VerifyRequest
<1>3. \A name \in {"X-SIGNATURE", "X-TIMESTAMP", "Authorization"} :
         ~ (f.kind \in {"drop", "garble"} /\ f.name = name)
  <2>1. \A name \in {"X-SIGNATURE", "X-TIMESTAMP", "Authorization"} :
           name \in DOMAIN m.headers /\ Opaque \notin ToSet(HeaderText(m, name))
    BY <1>2, Checks
  <2>2. Opaque \in ToSet(<<Opaque>>)
    BY DEF ToSet
  <2>3. \A name \in {"X-SIGNATURE", "X-TIMESTAMP", "Authorization"} :
           f.kind \in {"drop", "garble"} /\ f.name = name
           => name \notin DOMAIN m.headers \/ HeaderText(m, name) = <<Opaque>>
    BY <1>1, Zenon DEF ServiceLanded
  <2>4. QED
    BY <2>1, <2>2, <2>3, Zenon
<1>4. CanonicalPath(path) = Fine /\ AccessToken(token) = Fine /\ at \in Instants
      /\ Then(Reject(~ IsBase64(wire), Verification("InvalidSignatureEncoding", "")),
              Reject(SignatureSize(FromBase64(wire)) # HmacSize,
                     Verification("InvalidSignatureLength", ""))) = Fine
  <2>1. ServiceRequestParts(m, path) = Fine
    BY <1>2
  <2> DEFINE sized == Then(Reject(~ IsBase64(wire), Verification("InvalidSignatureEncoding", "")),
                           Reject(SignatureSize(FromBase64(wire)) # HmacSize,
                                  Verification("InvalidSignatureLength", "")))
             rest == Then(SnapTimestamp(at), sized)
  <2>2. Then(CanonicalPath(path), Then(AccessToken(token), rest)) = Fine
    BY <2>1 DEF ServiceRequestParts
  <2> HIDE DEF rest
  <2>3. CanonicalPath(path) = Fine /\ Then(AccessToken(token), rest) = Fine
    BY <2>2, Blaming
  <2>4. AccessToken(token) = Fine /\ rest = Fine
    BY <2>3, Blaming
  <2> HIDE DEF sized
  <2>5. SnapTimestamp(at) = Fine /\ sized = Fine
    BY <2>4, Blaming DEF rest
  <2>6. QED
    BY <2>3, <2>4, <2>5, Checks DEF sized
<1>5. IsBase64(wire) /\ SignatureSize(FromBase64(wire)) = HmacSize
  BY <1>4 DEF Then, Reject, Verification, Err, Fine
<1>6. key \in Letters /\ ServiceText(c) \in Strings /\ Hmac(key, ServiceText(c)) \in Strings
  <2>1. key \in Letters /\ ServiceText(c) \in Strings
    BY ServiceSent DEF Clean
  <2>2. QED
    BY <2>1, Signed
<1>7. f.kind # "recode"
  <2> SUFFICES ASSUME f.kind = "recode" PROVE FALSE
    OBVIOUS
  <2>1. f.name \in {"hex", "base64url"} /\ wire = Encode(f.name, Hmac(key, ServiceText(c)))
    BY <1>1, <1>3 DEF ServiceLanded
  <2>2. CASE f.name = "base64url"
    BY <1>5, <1>6, <2>1, <2>2, Encoded
  <2>3. CASE f.name = "hex"
    BY <1>5, <1>6, <2>1, <2>3, Encoded DEF HmacSize
  <2>4. QED
    BY <2>1, <2>2, <2>3
<1>8. FromBase64(wire) = Hmac(key, ServiceText(c))
  BY <1>1, <1>3, <1>6, <1>7, Encoded DEF ServiceLanded
<1>9. path = m.path
  BY <1>4, PathsSeen
<1>10. /\ Credential(token) \in Strings /\ ":" \notin ToSet(Credential(token))
      /\ ":" \notin ToSet(c.credential)
  <2>1. token \in Strings
    BY <1>3, ServiceTexts
  <2>2. Credential(token) \in Strings /\ FromCredential(Credential(token)) = Fine
    BY <1>4, <2>1, TokenRead
  <2>3. QED
    BY <2>2, CredentialHolds, ServiceSent
<1>11. PICK text : text = ServiceString(m.method, m.path, Credential(token), m.body, at)
  OBVIOUS
<1>12. text \in Strings
  <2>1. PICK colon, hash \in Letters : colon = ":" /\ hash = BodyHash[m.body]
    BY <1>1, HashesDiffer, OfLexemes DEF ServiceLanded, Letters
  <2>2. PICK x, y, z \in Strings :
           x = <<m.method, colon>> /\ y = <<colon>> /\ z = <<colon, hash, colon>>
    <3>1. <<m.method, colon>> \in Strings /\ <<colon>> \in Strings
          /\ <<colon, hash, colon>> \in Strings
      BY ServiceTexts, Tuples
    <3>2. QED
      BY <3>1
  <2>3. at \in Strings
    BY <1>3, ServiceTexts
  <2>4. x \o m.path \o y \o Credential(token) \o z \o at \in Strings
    <3>1. \A r, s \in Strings : r \o s \in Strings
      BY Joined
    <3>2. QED
      BY <1>10, <2>3, <3>1, ServiceTexts
  <2>5. QED
    BY <1>11, <2>1, <2>2, <2>4 DEF ServiceString
<1>13. Hmac(key, ServiceText(c)) = Hmac(Secret, text)
  BY <1>2, <1>8, <1>9, <1>11 DEF VerifyServiceRequest, Reject, Verification, Err, Fine
<1>14. key = Secret /\ ServiceText(c) = text
  <2>1. Secret \in Letters
    BY SnapExchangeAssumption, OfLexemes
  <2>2. QED
    BY <1>6, <1>12, <1>13, <2>1, Signed
<1>15. /\ c.method = m.method /\ c.path = m.path /\ c.credential = Credential(token)
       /\ c.body = m.body /\ c.timestamp = at
  <2>1. m.method \in Letters /\ m.path \in Strings /\ at \in Strings /\ m.body \in DOMAIN BodyHash
    BY <1>1, <1>3, ServiceTexts DEF ServiceLanded
  <2>2. ServiceString(c.method, c.path, c.credential, c.body, c.timestamp)
           = ServiceString(m.method, m.path, Credential(token), m.body, at)
    BY <1>11, <1>14 DEF ServiceText
  <2>3. /\ c.method \in Letters /\ c.path \in Strings /\ c.credential \in Strings
        /\ c.timestamp \in Strings /\ c.timestamp \in Instants /\ c.body \in DOMAIN BodyHash
    BY ServiceSent
  <2>4. /\ Readable(c.method, c.path, c.credential, c.body, c.timestamp)
        /\ Readable(m.method, m.path, Credential(token), m.body, at)
    BY <1>4, <1>10, <2>1, <2>3 DEF Readable
  <2>5. QED
    BY <2>2, <2>4, ServiceStringReads
<1>16. m.kind = "service"
  BY <1>1 DEF ServiceLanded
<1>17. QED
  BY <1>14, <1>15, <1>16 DEF ServiceParts, ArrivedParts

\* The headers the fault spares are read, and the checks behind them refuse the
\* signature only.
LEMMA ServiceReads ==
    ASSUME NEW key \in Keys, NEW c \in Requests, NewServiceRequest(c) = Fine,
           NEW f, NEW m, ServiceArrival(key, c, f, m)
    PROVE  LET struck(name) == f.kind \in {"drop", "garble"} /\ f.name = name
           IN  /\ ~ struck("X-SIGNATURE") /\ f.kind # "recode" =>
                     HeaderStr(m, "X-SIGNATURE", "verification") = Fine
               /\ ~ struck("X-TIMESTAMP") =>
                     HeaderStr(m, "X-TIMESTAMP", "verification") = Fine
               /\ struck("X-TIMESTAMP") =>
                     Denies(HeaderStr(m, "X-TIMESTAMP", "verification"), BadRequest)
               /\ ~ struck("Authorization") =>
                     HeaderStr(m, "Authorization", "verification") = Fine
               /\ ~ struck("Authorization") /\ f.kind # "space" =>
                     AccessToken(HeaderText(m, "Authorization")) = Fine
               /\ CanonicalPath(m.path) = Fine
<1>1. ServiceLanded(key, c, f, m)
  BY ServiceLands
<1>2. ~ (f.kind \in {"drop", "garble"} /\ f.name = "X-SIGNATURE") /\ f.kind # "recode" =>
         HeaderStr(m, "X-SIGNATURE", "verification") = Fine
  <2>1. Opaque \notin ToSet(Encode("base64", Hmac(key, ServiceText(c))))
    BY ServiceSent DEF Clean
  <2>2. QED
    BY <1>1, <2>1, Checks DEF ServiceLanded
<1>3. Opaque \notin ToSet(<<"now">>)
  <2>1. PICK x \in Letters \ {Opaque} : x = "now"
    <3>1. "now" # Opaque
      BY Zenon DEF Opaque
    <3>2. QED
      BY <3>1 DEF Letters
  <2>2. Clean(<<x>>)
    BY CleanTexts
  <2>3. QED
    BY <2>1, <2>2 DEF Clean
<1>4. ~ (f.kind \in {"drop", "garble"} /\ f.name = "X-TIMESTAMP") =>
         HeaderStr(m, "X-TIMESTAMP", "verification") = Fine
  <2>1. Opaque \notin ToSet(c.timestamp)
    BY ServiceSent DEF Clean
  <2>2. QED
    BY <1>1, <1>3, <2>1, Checks DEF ServiceLanded
<1>5. f.kind \in {"drop", "garble"} /\ f.name = "X-TIMESTAMP" =>
         Denies(HeaderStr(m, "X-TIMESTAMP", "verification"), BadRequest)
  <2> SUFFICES ASSUME f.kind \in {"drop", "garble"}, f.name = "X-TIMESTAMP"
               PROVE  Denies(HeaderStr(m, "X-TIMESTAMP", "verification"), BadRequest)
    OBVIOUS
  <2>1. "X-TIMESTAMP" \notin DOMAIN m.headers \/ HeaderText(m, "X-TIMESTAMP") = <<Opaque>>
    BY <1>1 DEF ServiceLanded
  <2>2. Opaque \in ToSet(<<Opaque>>)
    BY DEF ToSet
  <2>3. HeaderStr(m, "X-TIMESTAMP", "verification") # Fine
    BY <2>1, <2>2, Checks
  <2>4. "X-TIMESTAMP" \notin AuthHeaders
    BY DEF AuthHeaders
  <2>5. Blames(HeaderStr(m, "X-TIMESTAMP", "verification"), BadRequest)
    BY <2>4, Checks
  <2>6. QED
    BY <2>3, <2>5 DEF Blames, Denies
<1>6. PICK b1, b2, sp \in Letters \ {Opaque} : b1 = "bearer" /\ b2 = "Bearer" /\ sp = Space
  BY Differ DEF Letters
<1>7. ~ (f.kind \in {"drop", "garble"} /\ f.name = "Authorization") =>
         HeaderStr(m, "Authorization", "verification") = Fine
  <2>1. Clean(c.credential)
    BY ServiceSent, CredentialHolds DEF Clean
  <2>2. Clean(<<b1, sp>>) /\ Clean(<<b2, sp>>) /\ Clean(<<b2, sp, sp>>)
    BY CleanTexts
  <2>3. /\ Clean(<<b1, sp>> \o c.credential) /\ Clean(<<b2, sp>> \o c.credential)
        /\ Clean(<<b2, sp, sp>> \o c.credential)
    BY <2>1, <2>2, CleanTexts
  <2>4. PICK x, y, z : /\ x = <<b1, sp>> \o c.credential /\ y = <<b2, sp>> \o c.credential
                       /\ z = <<b2, sp, sp>> \o c.credential
                       /\ Opaque \notin ToSet(x) /\ Opaque \notin ToSet(y) /\ Opaque \notin ToSet(z)
    BY <2>3 DEF Clean
  <2>5. ~ (f.kind \in {"drop", "garble"} /\ f.name = "Authorization") =>
           /\ "Authorization" \in DOMAIN m.headers
           /\ HeaderText(m, "Authorization") \in {x, y, z}
    BY <1>1, <1>6, <2>4, Zenon DEF ServiceLanded
  <2>6. QED
    BY <2>4, <2>5, Checks
<1>8. ~ (f.kind \in {"drop", "garble"} /\ f.name = "Authorization") /\ f.kind # "space" =>
         AccessToken(HeaderText(m, "Authorization")) = Fine
  <2>1. \A w \in {"Bearer", "bearer"} : AccessToken(<<w, Space>> \o c.credential) = Fine
    BY ServiceSent, TokenAccepted
  <2>2. PICK x, y : /\ x = <<"bearer", Space>> \o c.credential /\ y = <<"Bearer", Space>> \o c.credential
                    /\ AccessToken(x) = Fine /\ AccessToken(y) = Fine
    BY <2>1
  <2>3. ~ (f.kind \in {"drop", "garble"} /\ f.name = "Authorization") /\ f.kind # "space" =>
           HeaderText(m, "Authorization") \in {x, y}
    BY <1>1, <2>2, Zenon DEF ServiceLanded
  <2>4. QED
    BY <2>2, <2>3
<1>9. CanonicalPath(m.path) = Fine
  <2>1. c.path \in Strings /\ c.path # <<>> /\ c.path[1] = "/" /\ ToSet(c.path) \cap {"?", "#"} = {}
    BY ServiceSent DEF CanonicalPath, Then, Reject, Input, Err, Fine
  <2>2. CASE f.kind # "prefix"
    BY <1>1, <2>2, ServiceSent DEF ServiceLanded
  <2>3. CASE f.kind = "prefix"
    <3>1. PICK x, y \in Letters : x = "/" /\ y = "api"
      BY DEF Letters
    <3>2. PICK u \in Strings :
             /\ u = <<x, y>> \o c.path /\ u # <<>> /\ u[1] = x /\ u[2] = y
             /\ Len(u) = Len(c.path) + 2
             /\ \A i \in 1 .. Len(c.path) : u[i + 2] = c.path[i]
      <4>1. /\ <<x, y>> \o c.path \in Strings /\ <<x, y>> \o c.path # <<>>
            /\ (<<x, y>> \o c.path)[1] = x /\ (<<x, y>> \o c.path)[2] = y
            /\ Len(<<x, y>> \o c.path) = Len(c.path) + 2
            /\ \A i \in 1 .. Len(c.path) : (<<x, y>> \o c.path)[i + 2] = c.path[i]
        BY <2>1, BehindTwo
      <4>2. QED
        BY <4>1
    <3>3. Len(c.path) \in Nat /\ DOMAIN c.path = 1 .. Len(c.path) /\ DOMAIN u = 1 .. Len(u)
      BY <2>1, <3>2, LenProperties DEF Strings
    <3>4. \A i \in 1 .. Len(u) : u[i] \in {"/", "api"} \cup ToSet(c.path)
      <4> SUFFICES ASSUME NEW i \in 1 .. Len(u) PROVE u[i] \in {"/", "api"} \cup ToSet(c.path)
        OBVIOUS
      <4>1. CASE i \in {1, 2}
        BY <3>1, <3>2, <4>1
      <4>2. CASE i \notin {1, 2}
        <5>1. i - 2 \in 1 .. Len(c.path) /\ i = (i - 2) + 2
          BY <3>2, <3>3, <4>2
        <5>2. u[i] = c.path[i - 2]
          BY <3>2, <5>1
        <5>3. QED
          BY <3>3, <5>1, <5>2 DEF ToSet
      <4>3. QED
        BY <4>1, <4>2
    <3>5. ToSet(u) \cap {"?", "#"} = {}
      BY <2>1, <3>3, <3>4 DEF ToSet
    <3>6. CanonicalPath(u) = Fine
      BY <3>1, <3>2, <3>5 DEF CanonicalPath, Then, Reject
    <3>7. QED
      BY <1>1, <2>3, <3>1, <3>2, <3>6 DEF ServiceLanded
  <2>4. QED
    BY <2>2, <2>3
<1>10. QED
  BY <1>2, <1>4, <1>5, <1>7, <1>8, <1>9

\* What is refused past the headers of a request is refused for its signature.
LEMMA SignatureChecks ==
    ASSUME NEW m, NEW path, NEW wire
    PROVE  /\ Blames(Reject(~ IsBase64(wire), Verification("InvalidSignatureEncoding", "")),
                     Unauthorized)
           /\ Blames(Reject(SignatureSize(FromBase64(wire)) # HmacSize,
                            Verification("InvalidSignatureLength", "")), Unauthorized)
           /\ Blames(VerifyServiceRequest(Secret, m, path), Unauthorized)
<1>1. \A k \in AuthKinds : CryptoErrorClass(Verification(k, "")) = Unauthorized
  BY Classes DEF Verification, Err
<1>2. /\ CryptoErrorClass(Verification("InvalidSignatureEncoding", "")) = Unauthorized
      /\ CryptoErrorClass(Verification("InvalidSignatureLength", "")) = Unauthorized
      /\ CryptoErrorClass(Verification("SignatureMismatch", "")) = Unauthorized
  BY <1>1 DEF AuthKinds
<1>3. Blames(VerifyServiceRequest(Secret, m, path), Unauthorized)
  BY <1>2 DEF VerifyServiceRequest, Reject, Blames
<1>4. QED
  BY <1>2, <1>3 DEF Reject, Blames

\* What a service request is refused for, and when it is not refused.
LEMMA ServiceJudged ==
    ASSUME NEW key \in Keys, NEW c \in Requests, NewServiceRequest(c) = Fine,
           NEW f, NEW m, ServiceArrival(key, c, f, m), NEW adapter
    PROVE  LET bad == \/ f.kind \in {"drop", "garble"} /\ f.name = "X-TIMESTAMP"
                      \/ f.kind = "time"
                      \/ f.kind = "query" /\ adapter = "actix_path"
           IN  /\ Blames(VerifyRequest(Secret, adapter, m), IF bad THEN BadRequest ELSE Unauthorized)
               /\ key = Secret /\ Harmless(f, adapter) => VerifyRequest(Secret, adapter, m) = Fine
<1> DEFINE wire  == HeaderText(m, "X-SIGNATURE")
           token == HeaderText(m, "Authorization")
           at    == HeaderText(m, "X-TIMESTAMP")
           path  == PathSeen(adapter, m)
           hs    == HeaderStr(m, "X-SIGNATURE", "verification")
           ht    == HeaderStr(m, "X-TIMESTAMP", "verification")
           ha    == HeaderStr(m, "Authorization", "verification")
           enc   == Reject(~ IsBase64(wire), Verification("InvalidSignatureEncoding", ""))
           size  == Reject(SignatureSize(FromBase64(wire)) # HmacSize,
                           Verification("InvalidSignatureLength", ""))
           sig   == VerifyServiceRequest(Secret, m, path)
           parts == ServiceRequestParts(m, path)
           struck(name) == f.kind \in {"drop", "garble"} /\ f.name = name
           error == VerifyRequest(Secret, adapter, m)
<1>1. ServiceLanded(key, c, f, m)
  BY ServiceLands
<1>2. error = Then(hs, Then(ht, Then(ha, Then(parts, sig))))
  BY DEF VerifyRequest
<1>3. parts = Then(CanonicalPath(path), Then(AccessToken(token),
                   Then(SnapTimestamp(at), Then(enc, size))))
  BY DEF ServiceRequestParts
<1>4. /\ Blames(hs, Unauthorized) /\ Blames(ha, Unauthorized) /\ Blames(AccessToken(token), Unauthorized)
      /\ Blames(enc, Unauthorized) /\ Blames(size, Unauthorized) /\ Blames(sig, Unauthorized)
  <2>1. "X-SIGNATURE" \in AuthHeaders /\ "Authorization" \in AuthHeaders
    BY DEF AuthHeaders
  <2>2. QED
    BY <2>1, Checks, SignatureChecks
<1>5. ~ struck("X-TIMESTAMP") /\ f.kind # "time" => SnapTimestamp(at) = Fine
  BY <1>1, ServiceSent, Checks DEF ServiceLanded
<1>6. f.kind = "time" => Denies(SnapTimestamp(at), BadRequest)
  <2> SUFFICES ASSUME f.kind = "time" PROVE Denies(SnapTimestamp(at), BadRequest)
    OBVIOUS
  <2>1. at = <<"now">>
    BY <1>1 DEF ServiceLanded
  <2>2. SnapTimestamp(at) # Fine
    BY <2>1, Checks, SnapExchangeAssumption
  <2>3. Blames(SnapTimestamp(at), BadRequest)
    BY Checks
  <2>4. QED
    BY <2>2, <2>3 DEF Blames, Denies
<1>7. /\ ~ struck("X-SIGNATURE") /\ f.kind # "recode" => hs = Fine
      /\ ~ struck("X-TIMESTAMP") => ht = Fine
      /\ struck("X-TIMESTAMP") => Denies(ht, BadRequest)
      /\ ~ struck("Authorization") => ha = Fine
      /\ ~ struck("Authorization") /\ f.kind # "space" => AccessToken(token) = Fine
      /\ CanonicalPath(m.path) = Fine
  BY ServiceReads
<1>8. /\ f.kind = "query" /\ adapter = "actix_path" => Denies(CanonicalPath(path), BadRequest)
      /\ ~ (f.kind = "query" /\ adapter = "actix_path") => CanonicalPath(path) = Fine
  BY <1>7, PathsSeen
<1> HIDE DEF error, hs, ht, ha, enc, size, sig, parts, token, at, path
<1>9. CASE struck("X-TIMESTAMP")
  <2>1. hs = Fine /\ Denies(ht, BadRequest)
    BY <1>7, <1>9
  <2>2. Denies(error, BadRequest)
    BY <1>2, <2>1, Blaming
  <2>3. ~ Harmless(f, adapter)
    BY <1>9 DEF Harmless
  <2>4. QED
    BY <1>9, <2>2, <2>3 DEF Denies, Blames, error
<1>10. CASE f.kind = "time"
  <2>1. hs = Fine /\ ht = Fine /\ ha = Fine
    BY <1>7, <1>10
  <2>2. CanonicalPath(path) = Fine /\ AccessToken(token) = Fine
    BY <1>7, <1>8, <1>10
  <2>3. Denies(parts, BadRequest)
    BY <1>3, <1>6, <1>10, <2>2, Blaming
  <2>4. Denies(error, BadRequest)
    BY <1>2, <2>1, <2>3, Blaming
  <2>5. ~ Harmless(f, adapter)
    BY <1>10 DEF Harmless
  <2>6. QED
    BY <1>10, <2>4, <2>5 DEF Denies, Blames, error
<1>11. CASE f.kind = "query" /\ adapter = "actix_path"
  <2>1. hs = Fine /\ ht = Fine /\ ha = Fine
    BY <1>7, <1>11
  <2>2. Denies(parts, BadRequest)
    BY <1>3, <1>8, <1>11, Blaming
  <2>3. Denies(error, BadRequest)
    BY <1>2, <2>1, <2>2, Blaming
  <2>4. ~ Harmless(f, adapter)
    BY <1>11 DEF Harmless
  <2>5. QED
    BY <1>11, <2>3, <2>4 DEF Denies, Blames, error
<1>12. CASE /\ ~ struck("X-TIMESTAMP") /\ f.kind # "time"
            /\ ~ (f.kind = "query" /\ adapter = "actix_path")
  <2>1. ht = Fine /\ SnapTimestamp(at) = Fine /\ CanonicalPath(path) = Fine
    BY <1>5, <1>7, <1>8, <1>12
  <2>2. Blames(parts, Unauthorized)
    BY <1>3, <1>4, <2>1, Blaming
  <2>3. Blames(error, Unauthorized)
    BY <1>2, <1>4, <2>1, <2>2, Blaming
  <2>4. ASSUME key = Secret, Harmless(f, adapter)
        PROVE  error = Fine
    <3>1. /\ ~ struck("X-SIGNATURE") /\ ~ struck("Authorization")
          /\ f.kind \notin {"recode", "space", "prefix", "body", "time"}
      BY <2>4 DEF Harmless
    <3>2. hs = Fine /\ ha = Fine /\ AccessToken(token) = Fine
      BY <1>7, <3>1
    <3>3. /\ HeaderText(m, "X-SIGNATURE") = Encode("base64", Hmac(key, ServiceText(c)))
          /\ m.method = c.method /\ m.path = c.path /\ m.body = c.body
          /\ HeaderText(m, "X-TIMESTAMP") = c.timestamp
      BY <1>1, <1>12, <3>1 DEF ServiceLanded
    <3>4. Credential(HeaderText(m, "Authorization")) = c.credential
      <4>1. PICK b1, b2 \in Letters \ {Space} : b1 = "Bearer" /\ b2 = "bearer"
        BY Differ DEF Letters
      <4>2. PICK x, y : /\ x = <<b1, Space>> \o c.credential /\ y = <<b2, Space>> \o c.credential
                        /\ Credential(x) = c.credential /\ Credential(y) = c.credential
        <5>1. Credential(<<b1, Space>> \o c.credential) = c.credential
          BY ServiceSent, SchemeAndCredential
        <5>2. Credential(<<b2, Space>> \o c.credential) = c.credential
          BY ServiceSent, SchemeAndCredential
        <5>3. QED
          BY <5>1, <5>2
      <4>3. HeaderText(m, "Authorization") \in {x, y}
        BY <1>1, <3>1, <4>1, <4>2, Zenon DEF ServiceLanded
      <4>4. QED
        BY <4>2, <4>3
    <3>5. key \in Letters /\ ServiceText(c) \in Strings
      BY ServiceSent DEF Clean
    <3>6. /\ Hmac(key, ServiceText(c)) \in Strings
          /\ SignatureSize(Hmac(key, ServiceText(c))) = HmacSize
      BY <3>5, Signed
    <3>7. /\ IsBase64(HeaderText(m, "X-SIGNATURE"))
          /\ FromBase64(HeaderText(m, "X-SIGNATURE")) = Hmac(key, ServiceText(c))
      BY <3>3, <3>6, Encoded
    <3>8. enc = Fine /\ size = Fine
      BY <3>6, <3>7 DEF enc, size, Reject
    <3>9. path = m.path
      BY <1>12, PathsSeen DEF path
    <3>10. sig = Fine
      BY <2>4, <3>3, <3>4, <3>7, <3>9 DEF sig, VerifyServiceRequest, ServiceText, Reject
    <3>11. parts = Fine
      BY <1>3, <2>1, <3>2, <3>8, Blaming
    <3>12. QED
      BY <1>2, <2>1, <3>2, <3>10, <3>11, Blaming
  <2>5. QED
    BY <1>12, <2>3, <2>4 DEF error
<1>13. QED
  BY <1>9, <1>10, <1>11, <1>12

-----------------------------------------------------------------------------
(* The verdict on a callback. *)

CallbackArrival(key, body, f, m) ==
    LET w == CallbackMessage(key, body).wire
    IN  m = Altered(w, f) /\ (f = NoFault \/ (m # w /\ f \in Faults))

CallbackLanded(key, body, f, m) ==
    LET wire == HeaderText(m, "X-Signature")
        struck == f.kind \in {"drop", "garble"} /\ f.name = "X-Signature"
    IN  /\ m.kind = "callback"
        /\ m.body = IF f.kind = "body" THEN f.name ELSE body
        /\ m.body \in DOMAIN BodyHash
        /\ f.kind \notin {"time", "scheme", "space"}
        /\ f.kind \in {"drop", "garble"} => f.name = "X-Signature"
        /\ struck => "X-Signature" \notin DOMAIN m.headers \/ wire = <<Opaque>>
        /\ ~ struck =>
              /\ "X-Signature" \in DOMAIN m.headers
              /\ f.kind # "recode" => wire = Encode("base64", Hmac(key, <<body>>))
              /\ f.kind = "recode" => /\ f.name \in {"hex", "base64url"}
                                      /\ wire = Encode(f.name, Hmac(key, <<body>>))

LEMMA CallbackSent ==
    ASSUME NEW key \in Keys, NEW body \in Callbacks
    PROVE  /\ key \in Letters /\ body \in DOMAIN BodyHash /\ body \in Letters
           /\ <<body>> \in Strings /\ Hmac(key, <<body>>) \in Strings
           /\ Clean(Encode("base64", Hmac(key, <<body>>)))
<1>1. key \in Lexemes /\ body \in DOMAIN BodyHash /\ body \in Lexemes
  BY SnapExchangeAssumption, HashesDiffer
<1>2. key \in Letters /\ body \in Letters \ {Opaque}
  BY <1>1, OfLexemes DEF Lexemes
<1>3. Clean(<<body>>) /\ <<body>> \in Strings
  BY <1>2, CleanTexts DEF Clean
<1>4. Hmac(key, <<body>>) \in Strings
  BY <1>2, <1>3, Signed
<1>5. QED
  BY <1>1, <1>2, <1>3, <1>4, CleanSignatures

LEMMA CallbackLands ==
    ASSUME NEW key \in Keys, NEW body \in Callbacks, NEW f, NEW m, CallbackArrival(key, body, f, m)
    PROVE  CallbackLanded(key, body, f, m)
<1> DEFINE h == [n \in {"X-Signature"} |-> Encode("base64", Hmac(key, <<body>>))]
           w == CallbackMessage(key, body).wire
<1>1. w = Wire("callback", "POST", <<"/", "hook">>, <<>>, body, h, CallerIds)
  BY DEF CallbackMessage, Wire
<1>2. DOMAIN h = {"X-Signature"} /\ h["X-Signature"] = Encode("base64", Hmac(key, <<body>>))
  OBVIOUS
<1>3. FromBase64(h["X-Signature"]) = Hmac(key, <<body>>)
  BY <1>2, CallbackSent, Encoded
<1>4. m = Altered(w, f) /\ (f = NoFault \/ (m # w /\ f \in Faults))
  BY DEF CallbackArrival
<1>5. w.kind = "callback" /\ w.headers = h
  BY <1>1 DEF Wire
<1>6. Signature(w) = "X-Signature"
  BY <1>5 DEF Signature
<1> HIDE DEF h, w
<1>7. Landed("callback", "POST", <<"/", "hook">>, <<>>, body, h, f, w, m)
  BY <1>1, <1>4, Landing
<1>8. f = NoFault \/ Struck(f, w)
  BY <1>4, <1>7 DEF Landed
<1>9. /\ f.kind \notin {"time", "scheme", "space"}
      /\ f.kind \in {"drop", "garble"} => f.name = "X-Signature"
  <2>1. CASE f = NoFault
    BY <2>1 DEF NoFault
  <2>2. CASE Struck(f, w)
    BY <1>2, <1>5, <2>2 DEF Struck
  <2>3. QED
    BY <1>8, <2>1, <2>2
<1>10. /\ f.kind = "body" => f.name \in DOMAIN BodyHash
       /\ f.kind = "recode" => f.name \in {"hex", "base64url"}
  <2>1. f # NoFault => f \in Faults
    BY <1>4
  <2>2. NoFault.kind # "recode" /\ NoFault.kind # "body"
    BY DEF NoFault
  <2>3. QED
    BY <2>1, <2>2, SnapExchangeAssumption
<1>11. m.kind = "callback" /\ m.body = (IF f.kind = "body" THEN f.name ELSE body)
       /\ m.body \in DOMAIN BodyHash
  BY <1>7, <1>10, CallbackSent DEF Landed
<1>12. f.kind \in {"drop", "garble"} /\ f.name = "X-Signature" =>
          "X-Signature" \notin DOMAIN m.headers \/ HeaderText(m, "X-Signature") = <<Opaque>>
  BY <1>2, <1>7 DEF Landed
<1>13. ~ (f.kind \in {"drop", "garble"} /\ f.name = "X-Signature") =>
          /\ "X-Signature" \in DOMAIN m.headers
          /\ f.kind # "recode" => HeaderText(m, "X-Signature") = Encode("base64", Hmac(key, <<body>>))
          /\ f.kind = "recode" =>
                HeaderText(m, "X-Signature") = Encode(f.name, Hmac(key, <<body>>))
  BY <1>2, <1>3, <1>6, <1>7 DEF Landed, Spared
<1>14. QED
  BY <1>9, <1>10, <1>11, <1>12, <1>13 DEF CallbackLanded

LEMMA CallbackJudged ==
    ASSUME NEW key \in Keys, NEW body \in Callbacks, NEW f, NEW m, CallbackArrival(key, body, f, m)
    PROVE  /\ VerifyBody(Secret, m) = Fine => key = Secret /\ m.body = body
           /\ Blames(VerifyBody(Secret, m), Unauthorized)
           /\ key = Secret /\ Harmless(f, "axum") => VerifyBody(Secret, m) = Fine
<1> DEFINE wire  == HeaderText(m, "X-Signature")
           head  == HeaderStr(m, "X-Signature", "crypto")
           enc   == SignatureFromBase64(wire)
           sig   == Reject(FromBase64(wire) # Hmac(Secret, <<m.body>>),
                           Crypto("SymmetricVerifyFailed", ""))
           error == VerifyBody(Secret, m)
           struck == f.kind \in {"drop", "garble"} /\ f.name = "X-Signature"
<1>1. CallbackLanded(key, body, f, m)
  BY CallbackLands
<1>2. error = Then(head, Then(enc, sig))
  BY DEF VerifyBody
<1>3. /\ Blames(head, Unauthorized) /\ Blames(enc, Unauthorized) /\ Blames(sig, Unauthorized)
      /\ enc = Fine <=> IsBase64(wire)
      /\ sig = Fine <=> FromBase64(wire) = Hmac(Secret, <<m.body>>)
  <2>1. "X-Signature" \in AuthHeaders
    BY DEF AuthHeaders
  <2>2. \A k \in AuthKinds : CryptoErrorClass(Crypto(k, "")) = Unauthorized /\ Crypto(k, "") # Fine
    BY Classes DEF Crypto, Err, Fine
  <2>3. /\ CryptoErrorClass(Crypto("SignatureDecode", "")) = Unauthorized
        /\ CryptoErrorClass(Crypto("SymmetricVerifyFailed", "")) = Unauthorized
        /\ Crypto("SignatureDecode", "") # Fine /\ Crypto("SymmetricVerifyFailed", "") # Fine
    BY <2>2 DEF AuthKinds
  <2>4. Blames(enc, Unauthorized) /\ Blames(sig, Unauthorized)
    BY <2>3 DEF SignatureFromBase64, Reject, Blames
  <2>5. /\ enc = Fine <=> IsBase64(wire)
        /\ sig = Fine <=> FromBase64(wire) = Hmac(Secret, <<m.body>>)
    BY <2>3 DEF SignatureFromBase64, Reject
  <2>6. Blames(head, Unauthorized)
    BY <2>1, Checks
  <2>7. QED
    BY <2>4, <2>5, <2>6
<1>4. head = Fine <=> ~ struck
  <2>1. head = Fine <=> "X-Signature" \in DOMAIN m.headers /\ Opaque \notin ToSet(wire)
    BY Checks
  <2>2. Opaque \in ToSet(<<Opaque>>)
    BY DEF ToSet
  <2>3. \A e \in {"base64", "hex", "base64url"} : Opaque \notin ToSet(Encode(e, Hmac(key, <<body>>)))
    <3> SUFFICES ASSUME NEW e \in {"base64", "hex", "base64url"}
                 PROVE  Opaque \notin ToSet(Encode(e, Hmac(key, <<body>>)))
      OBVIOUS
    <3>1. PICK b, g \in Letters \ {Opaque} : b = e /\ g = "hmac-sha512"
      <4>1. /\ Opaque # "base64" /\ Opaque # "hex" /\ Opaque # "base64url"
            /\ Opaque # "hmac-sha512"
        BY Zenon DEF Opaque
      <4>2. QED
        BY <4>1 DEF Letters
    <3>2. key \in Letters \ {Opaque} /\ body \in Letters \ {Opaque}
      BY SnapExchangeAssumption, HashesDiffer, OfLexemes DEF Lexemes
    <3>3. Clean(<<b>>) /\ Clean(<<g, key>>) /\ Clean(<<body>>)
      BY <3>1, <3>2, CleanTexts
    <3>4. Clean(<<g, key>> \o <<body>>)
      BY <3>3, CleanTexts
    <3>5. Clean(<<b>> \o (<<g, key>> \o <<body>>))
      BY <3>3, <3>4, CleanTexts
    <3>6. QED
      BY <3>1, <3>5 DEF Clean, Encode, Hmac
  <2>4. QED
    BY <1>1, <2>1, <2>2, <2>3 DEF CallbackLanded
<1>5. ~ struck /\ f.kind # "recode" =>
         IsBase64(wire) /\ FromBase64(wire) = Hmac(key, <<body>>)
  BY <1>1, CallbackSent, Encoded DEF CallbackLanded
<1>6. ~ struck /\ f.kind = "recode" =>
         ~ IsBase64(wire) \/ SignatureSize(FromBase64(wire)) = 96
  BY <1>1, CallbackSent, Encoded DEF CallbackLanded
<1>7. /\ Secret \in Letters /\ m.body \in Letters /\ <<m.body>> \in Strings
      /\ Len(<<m.body>>) = 1 /\ <<m.body>>[1] = m.body
      /\ <<body>> \in Strings /\ Len(<<body>>) = 1 /\ <<body>>[1] = body
  <2>1. Secret \in Letters /\ m.body \in Letters /\ body \in Letters
    BY <1>1, CallbackSent, SnapExchangeAssumption, HashesDiffer, OfLexemes DEF CallbackLanded
  <2>2. QED
    BY <2>1, Tuples
<1>8. /\ SignatureSize(Hmac(Secret, <<m.body>>)) = HmacSize
      /\ Hmac(key, <<body>>) = Hmac(Secret, <<m.body>>) => key = Secret /\ <<body>> = <<m.body>>
  BY <1>7, CallbackSent, Signed
<1> HIDE DEF wire, head, enc, sig, error
<1>9. Blames(error, Unauthorized)
  BY <1>2, <1>3, Blaming
<1>10. error = Fine => key = Secret /\ m.body = body
  <2> SUFFICES ASSUME error = Fine PROVE key = Secret /\ m.body = body
    OBVIOUS
  <2>1. head = Fine /\ enc = Fine /\ sig = Fine
    BY <1>2, Blaming
  <2>2. f.kind # "recode"
    BY <1>3, <1>4, <1>6, <1>8, <2>1 DEF HmacSize
  <2>3. Hmac(key, <<body>>) = Hmac(Secret, <<m.body>>)
    BY <1>3, <1>4, <1>5, <2>1, <2>2
  <2>4. QED
    BY <1>7, <1>8, <2>3
<1>11. ASSUME key = Secret, Harmless(f, "axum") PROVE error = Fine
  <2>1. f.kind \notin {"recode", "body"} /\ ~ struck
    BY <1>11 DEF Harmless
  <2>2. m.body = body
    BY <1>1, <2>1 DEF CallbackLanded
  <2>3. QED
    BY <1>2, <1>3, <1>4, <1>5, <1>11, <2>1, <2>2, Blaming
<1>12. QED
  BY <1>9, <1>10, <1>11 DEF error

-----------------------------------------------------------------------------
(* The verdict on a token request. *)

OAuthArrival(key, t, f, m) ==
    LET w == OAuthMessage(key, t).wire
    IN  m = Altered(w, f) /\ (f = NoFault \/ (m # w /\ f \in Faults))

OAuthBytes(key, t) == Rsa(key, OAuthString(t.client, t.signed))

OAuthBuilt(key, t) ==
    /\ NewOAuthString(t.client, t.signed) = Fine
    /\ NewOAuthHeaders(t.client, t.header, OAuthSignature(key, t)) = Fine

OAuthLanded(key, t, f, m) ==
    LET text(name) == HeaderText(m, name)
        there(name) == name \in DOMAIN m.headers
        struck(name) == f.kind \in {"drop", "garble"} /\ f.name = name
    IN  /\ m.kind = "oauth"
        /\ f.kind \notin {"scheme", "space"}
        /\ f.kind \in {"drop", "garble"} => f.name \in {"X-CLIENT-KEY", "X-TIMESTAMP", "X-SIGNATURE"}
        /\ \A name \in {"X-CLIENT-KEY", "X-TIMESTAMP", "X-SIGNATURE"} :
              struck(name) => ~ there(name) \/ text(name) = <<Opaque>>
        /\ ~ struck("X-SIGNATURE") =>
              /\ there("X-SIGNATURE")
              /\ f.kind # "recode" => text("X-SIGNATURE") = Encode("base64", OAuthBytes(key, t))
              /\ f.kind = "recode" =>
                    /\ f.name \in {"hex", "base64url"}
                    /\ text("X-SIGNATURE") = Encode(f.name, OAuthBytes(key, t))
        /\ ~ struck("X-TIMESTAMP") =>
              /\ there("X-TIMESTAMP")
              /\ text("X-TIMESTAMP") = IF f.kind = "time" THEN <<"now">> ELSE t.header
        /\ ~ struck("X-CLIENT-KEY") => there("X-CLIENT-KEY") /\ text("X-CLIENT-KEY") = t.client

LEMMA OAuthSent ==
    ASSUME NEW key \in Keys, NEW t \in OAuthTries, OAuthBuilt(key, t)
    PROVE  /\ key \in Letters \ {Opaque} /\ Clean(t.client) /\ Clean(t.signed) /\ Clean(t.header)
           /\ t.signed \in Instants /\ t.header \in Instants
           /\ \A at \in Instants : NewOAuthString(t.client, at) = Fine
           /\ OAuthString(t.client, t.signed) \in Strings /\ Clean(OAuthString(t.client, t.signed))
           /\ OAuthBytes(key, t) \in Strings /\ Clean(Encode("base64", OAuthBytes(key, t)))
<1>1. /\ key \in Lexemes /\ t.client \in Seq(Lexemes)
      /\ t.signed \in Seq(Lexemes) /\ t.header \in Seq(Lexemes)
  BY SnapExchangeAssumption
<1>2. Clean(t.client) /\ Clean(t.signed) /\ Clean(t.header) /\ key \in Letters \ {Opaque}
  BY <1>1, CleanTexts, OfLexemes DEF Lexemes
<1>3. ValidateHeader("X-CLIENT-KEY", t.client) = Fine /\ t.signed \in Instants
  BY Blaming, Checks DEF OAuthBuilt, NewOAuthString
<1>4. t.header \in Instants
  <2>1. Then(SnapTimestamp(t.header), ValidateHeader("X-SIGNATURE", OAuthSignature(key, t))) = Fine
    BY Blaming DEF OAuthBuilt, NewOAuthHeaders
  <2>2. SnapTimestamp(t.header) = Fine
    BY <2>1, Blaming
  <2>3. QED
    BY <2>2, Checks
<1>5. \A at \in Instants : NewOAuthString(t.client, at) = Fine
  BY <1>3, Blaming, Checks DEF NewOAuthString
<1>6. Clean(OAuthString(t.client, t.signed))
  <2>1. PICK x \in Letters \ {Opaque} : x = "|"
    BY Differ DEF Letters
  <2>2. Clean(<<x>>)
    BY CleanTexts
  <2>3. Clean(t.client \o <<x>> \o t.signed)
    BY <1>2, <2>2, CleanTexts
  <2>4. QED
    BY <2>1, <2>3 DEF OAuthString
<1>7. OAuthString(t.client, t.signed) \in Strings
  BY <1>6 DEF Clean
<1>8. OAuthBytes(key, t) \in Strings
  BY <1>2, <1>7, Signed DEF OAuthBytes
<1>9. Clean(Encode("base64", OAuthBytes(key, t)))
  BY <1>1, <1>6, CleanSignatures DEF OAuthBytes
<1>10. QED
  BY <1>2, <1>3, <1>4, <1>5, <1>6, <1>7, <1>8, <1>9

LEMMA OAuthLands ==
    ASSUME NEW key \in Keys, NEW t \in OAuthTries, OAuthBuilt(key, t),
           NEW f, NEW m, OAuthArrival(key, t, f, m)
    PROVE  OAuthLanded(key, t, f, m)
<1> DEFINE h == OAuthHeaders(t.client, t.header, OAuthSignature(key, t))
           w == OAuthMessage(key, t).wire
<1>1. w = Wire("oauth", "POST", <<"/", "token">>, <<>>, "", h, CallerIds)
  BY DEF OAuthMessage, Wire
<1>2. /\ DOMAIN h = {"X-CLIENT-KEY", "X-TIMESTAMP", "X-SIGNATURE"}
      /\ h["X-CLIENT-KEY"] = t.client /\ h["X-TIMESTAMP"] = t.header
      /\ h["X-SIGNATURE"] = Encode("base64", OAuthBytes(key, t))
  BY DEF OAuthHeaders, OAuthSignature, OAuthBytes
<1>3. FromBase64(h["X-SIGNATURE"]) = OAuthBytes(key, t)
  BY <1>2, OAuthSent, Encoded
<1>4. m = Altered(w, f) /\ (f = NoFault \/ (m # w /\ f \in Faults))
  BY DEF OAuthArrival
<1>5. w.kind = "oauth" /\ w.headers = h
  <2>1. \A k, t1, p, q, b, hs, i : /\ Wire(k, t1, p, q, b, hs, i).kind = k
                                 /\ Wire(k, t1, p, q, b, hs, i).headers = hs
    BY DEF Wire
  <2> HIDE DEF h, w
  <2>2. PICK p, b : w = Wire("oauth", "POST", p, <<>>, b, h, CallerIds)
    BY <1>1
  <2>3. QED
    BY <2>1, <2>2
<1>6. Signature(w) = "X-SIGNATURE"
  BY <1>5 DEF Signature
<1> HIDE DEF h, w
<1>7. Landed("oauth", "POST", <<"/", "token">>, <<>>, "", h, f, w, m)
  BY <1>1, <1>4, Landing
<1>8. f = NoFault \/ Struck(f, w)
  BY <1>4, <1>7 DEF Landed
<1>9. /\ f.kind \notin {"scheme", "space"}
      /\ f.kind \in {"drop", "garble"} => f.name \in {"X-CLIENT-KEY", "X-TIMESTAMP", "X-SIGNATURE"}
  <2>1. CASE f = NoFault
    BY <2>1 DEF NoFault
  <2>2. CASE Struck(f, w)
    BY <1>2, <1>5, <2>2 DEF Struck
  <2>3. QED
    BY <1>8, <2>1, <2>2
<1>10. f.kind = "recode" => f.name \in {"hex", "base64url"}
  <2>1. f # NoFault => f \in Faults
    BY <1>4
  <2>2. NoFault.kind # "recode"
    BY DEF NoFault
  <2>3. QED
    BY <2>1, <2>2, SnapExchangeAssumption
<1>11. m.kind = "oauth"
  BY <1>7 DEF Landed
<1>12. \A name \in {"X-CLIENT-KEY", "X-TIMESTAMP", "X-SIGNATURE"} :
          f.kind \in {"drop", "garble"} /\ f.name = name
          => name \notin DOMAIN m.headers \/ HeaderText(m, name) = <<Opaque>>
  BY <1>2, <1>7 DEF Landed
<1>13. ~ (f.kind \in {"drop", "garble"} /\ f.name = "X-SIGNATURE") =>
          /\ "X-SIGNATURE" \in DOMAIN m.headers
          /\ f.kind # "recode" => HeaderText(m, "X-SIGNATURE") = h["X-SIGNATURE"]
          /\ f.kind = "recode" => HeaderText(m, "X-SIGNATURE") = Encode(f.name, OAuthBytes(key, t))
  BY <1>2, <1>3, <1>6, <1>7 DEF Landed, Spared
<1>14. ~ (f.kind \in {"drop", "garble"} /\ f.name = "X-TIMESTAMP") =>
          /\ "X-TIMESTAMP" \in DOMAIN m.headers
          /\ HeaderText(m, "X-TIMESTAMP") = IF f.kind = "time" THEN <<"now">> ELSE t.header
  BY <1>2, <1>6, <1>7 DEF Landed, Spared
<1>15. ~ (f.kind \in {"drop", "garble"} /\ f.name = "X-CLIENT-KEY") =>
          "X-CLIENT-KEY" \in DOMAIN m.headers /\ HeaderText(m, "X-CLIENT-KEY") = t.client
  BY <1>2, <1>6, <1>7 DEF Landed, Spared
<1>16. QED
  BY <1>2, <1>9, <1>10, <1>11, <1>12, <1>13, <1>14, <1>15 DEF OAuthLanded

LEMMA OAuthJudged ==
    ASSUME NEW key \in Keys, NEW t \in OAuthTries, OAuthBuilt(key, t),
           NEW f, NEW m, OAuthArrival(key, t, f, m), NEW readable \in BOOLEAN
    PROVE  LET error == VerifyOAuth(Secret, readable, m)
               bad   == \/ f.kind \in {"drop", "garble"} /\ f.name \in {"X-TIMESTAMP", "X-CLIENT-KEY"}
                        \/ f.kind = "time"
           IN  /\ error = Fine => /\ key = Secret /\ t.client = HeaderText(m, "X-CLIENT-KEY")
                                  /\ t.signed = HeaderText(m, "X-TIMESTAMP")
               /\ ~ readable => Denies(error, InternalServerError)
               /\ readable => Blames(error, IF bad THEN BadRequest ELSE Unauthorized)
               /\ key = Secret /\ readable /\ t.signed = t.header /\ Harmless(f, "axum")
                  => error = Fine
<1> DEFINE wire   == HeaderText(m, "X-SIGNATURE")
           client == HeaderText(m, "X-CLIENT-KEY")
           at     == HeaderText(m, "X-TIMESTAMP")
           rk     == Reject(~ readable, Crypto("InvalidPublicKey", ""))
           hc     == HeaderStr(m, "X-CLIENT-KEY", "crypto")
           ht     == HeaderStr(m, "X-TIMESTAMP", "crypto")
           hs     == HeaderStr(m, "X-SIGNATURE", "crypto")
           new    == NewOAuthString(client, at)
           enc    == SignatureFromBase64(wire)
           size   == Reject(SignatureSize(FromBase64(wire)) # RsaSize,
                            Crypto("InvalidRawSignature", ""))
           sig    == Reject(FromBase64(wire) # Rsa(Secret, OAuthString(client, at)),
                            Crypto("AsymmetricVerifyFailed", ""))
           error  == VerifyOAuth(Secret, readable, m)
           struck(name) == f.kind \in {"drop", "garble"} /\ f.name = name
<1>1. OAuthLanded(key, t, f, m)
  BY OAuthLands
<1>2. error = Then(rk, Then(hc, Then(ht, Then(hs, Then(new, Then(enc, Then(size, sig)))))))
  BY DEF VerifyOAuth
<1>3. /\ Blames(hs, Unauthorized) /\ Blames(enc, Unauthorized) /\ Blames(size, Unauthorized)
      /\ Blames(sig, Unauthorized)
      /\ enc = Fine <=> IsBase64(wire)
      /\ size = Fine <=> SignatureSize(FromBase64(wire)) = RsaSize
      /\ sig = Fine <=> FromBase64(wire) = Rsa(Secret, OAuthString(client, at))
  <2>1. "X-SIGNATURE" \in AuthHeaders
    BY DEF AuthHeaders
  <2>2. \A k \in AuthKinds : CryptoErrorClass(Crypto(k, "")) = Unauthorized /\ Crypto(k, "") # Fine
    BY Classes DEF Crypto, Err, Fine
  <2>3. /\ CryptoErrorClass(Crypto("SignatureDecode", "")) = Unauthorized
        /\ CryptoErrorClass(Crypto("InvalidRawSignature", "")) = Unauthorized
        /\ CryptoErrorClass(Crypto("AsymmetricVerifyFailed", "")) = Unauthorized
        /\ Crypto("SignatureDecode", "") # Fine /\ Crypto("InvalidRawSignature", "") # Fine
        /\ Crypto("AsymmetricVerifyFailed", "") # Fine
    BY <2>2 DEF AuthKinds
  <2>4. Blames(enc, Unauthorized) /\ Blames(size, Unauthorized) /\ Blames(sig, Unauthorized)
    BY <2>3 DEF SignatureFromBase64, Reject, Blames
  <2>5. /\ enc = Fine <=> IsBase64(wire)
        /\ size = Fine <=> SignatureSize(FromBase64(wire)) = RsaSize
        /\ sig = Fine <=> FromBase64(wire) = Rsa(Secret, OAuthString(client, at))
    BY <2>3 DEF SignatureFromBase64, Reject
  <2>6. Blames(hs, Unauthorized)
    BY <2>1, Checks
  <2>7. QED
    BY <2>4, <2>5, <2>6
<1>4. readable => rk = Fine
  BY DEF Reject
<1>5. ~ readable => Denies(rk, InternalServerError)
  <2>1. /\ CryptoErrorClass(Crypto("InvalidPublicKey", "")) = InternalServerError
        /\ Crypto("InvalidPublicKey", "") # Fine
    BY Classes DEF Crypto, Err, Fine
  <2>2. QED
    BY <2>1 DEF Reject, Denies
<1>6. \A name \in {"X-CLIENT-KEY", "X-TIMESTAMP"} :
         /\ Blames(HeaderStr(m, name, "crypto"), BadRequest)
         /\ struck(name) => HeaderStr(m, name, "crypto") # Fine
         /\ ~ struck(name) => HeaderStr(m, name, "crypto") = Fine
  <2>1. \A name \in {"X-CLIENT-KEY", "X-TIMESTAMP"} :
           /\ Blames(HeaderStr(m, name, "crypto"), BadRequest)
           /\ HeaderStr(m, name, "crypto") = Fine
              <=> name \in DOMAIN m.headers /\ Opaque \notin ToSet(HeaderText(m, name))
    <3>1. "X-CLIENT-KEY" \notin AuthHeaders /\ "X-TIMESTAMP" \notin AuthHeaders
      BY DEF AuthHeaders
    <3>2. QED
      BY <3>1, Checks
  <2>2. Opaque \in ToSet(<<Opaque>>)
    BY DEF ToSet
  <2>3. Opaque \notin ToSet(<<"now">>)
    <3>1. PICK x \in Letters \ {Opaque} : x = "now"
      <4>1. "now" # Opaque
        BY Zenon DEF Opaque
      <4>2. QED
        BY <4>1 DEF Letters
    <3>2. Clean(<<x>>)
      BY CleanTexts
    <3>3. QED
      BY <3>1, <3>2 DEF Clean
  <2>4. Opaque \notin ToSet(t.client) /\ Opaque \notin ToSet(t.header)
    BY OAuthSent DEF Clean
  <2>5. QED
    BY <1>1, <2>1, <2>2, <2>3, <2>4 DEF OAuthLanded
<1>7. ~ struck("X-SIGNATURE") /\ f.kind # "recode" => hs = Fine
  <2>1. Opaque \notin ToSet(Encode("base64", OAuthBytes(key, t)))
    BY OAuthSent DEF Clean
  <2>2. QED
    BY <1>1, <2>1, Checks DEF OAuthLanded
<1>8. ~ struck("X-CLIENT-KEY") /\ ~ struck("X-TIMESTAMP") /\ f.kind # "time"
      => new = Fine /\ client = t.client /\ at = t.header
  BY <1>1, OAuthSent DEF OAuthLanded
<1>9. Blames(new, BadRequest)
  BY Blaming, Checks DEF NewOAuthString
<1>10. f.kind = "time" => new # Fine
  <2>1. f.kind = "time" => at = <<"now">>
    BY <1>1 DEF OAuthLanded
  <2>2. new = Fine => at \in Instants
    BY Blaming, Checks DEF NewOAuthString
  <2>3. QED
    BY <2>1, <2>2, SnapExchangeAssumption
<1>11. hs = Fine => ~ struck("X-SIGNATURE")
  <2>1. hs = Fine => "X-SIGNATURE" \in DOMAIN m.headers /\ Opaque \notin ToSet(wire)
    BY Checks
  <2>2. Opaque \in ToSet(<<Opaque>>)
    BY DEF ToSet
  <2>3. QED
    BY <1>1, <2>1, <2>2 DEF OAuthLanded
<1>12. ~ struck("X-SIGNATURE") /\ f.kind # "recode" =>
          IsBase64(wire) /\ FromBase64(wire) = OAuthBytes(key, t)
  BY <1>1, OAuthSent, Encoded DEF OAuthLanded
<1>13. ~ struck("X-SIGNATURE") /\ f.kind = "recode" =>
          ~ IsBase64(wire) \/ SignatureSize(FromBase64(wire)) = 96
  BY <1>1, OAuthSent, Encoded DEF OAuthLanded
<1>14. SignatureSize(OAuthBytes(key, t)) = RsaSize
  BY OAuthSent, Signed DEF OAuthBytes
<1>15. hc = Fine /\ ht = Fine => ~ struck("X-CLIENT-KEY") /\ ~ struck("X-TIMESTAMP")
  BY <1>6
<1>16. client = t.client /\ at = t.header /\ OAuthBytes(key, t) = Rsa(Secret, OAuthString(client, at))
       => key = Secret /\ t.signed = at
  <2>1. PICK c1, t1, t2 \in Strings :
           /\ c1 = t.client /\ t1 = t.signed /\ t2 = t.header
           /\ t1 \in Instants /\ t2 \in Instants
    BY OAuthSent DEF Clean
  <2>2. PICK x, y \in Strings : x = OAuthString(c1, t1) /\ y = OAuthString(c1, t2)
    <3>1. <<"|">> \in Strings
      BY Tuples DEF Letters
    <3>2. OAuthString(c1, t1) \in Strings /\ OAuthString(c1, t2) \in Strings
      BY <3>1, Joined DEF OAuthString
    <3>3. QED
      BY <3>2
  <2>3. key \in Letters /\ Secret \in Letters
    BY OAuthSent, SnapExchangeAssumption, OfLexemes
  <2>4. Rsa(key, x) = Rsa(Secret, y) => key = Secret /\ x = y
    BY <2>3, Signed
  <2>5. x = y => t1 = t2
    <3>1. t1 \in Instants /\ t2 \in Instants /\ OAuthString(c1, t1) = OAuthString(c1, t2) => t1 = t2
      BY OAuthStringReads
    <3>2. QED
      BY <2>1, <2>2, <3>1
  <2>6. QED
    BY <2>1, <2>2, <2>4, <2>5 DEF OAuthBytes
<1> HIDE DEF wire, client, at, rk, new, enc, size, sig, error
<1>17. error = Fine => /\ rk = Fine /\ hc = Fine /\ ht = Fine /\ hs = Fine /\ new = Fine
                       /\ enc = Fine /\ size = Fine /\ sig = Fine
  <2> DEFINE checked == Then(new, Then(enc, Then(size, sig)))
  <2>1. error = Then(rk, Then(hc, Then(ht, Then(hs, checked))))
    BY <1>2
  <2> HIDE DEF hc, ht, hs, checked
  <2>2. error = Fine => rk = Fine /\ Then(hc, Then(ht, Then(hs, checked))) = Fine
    BY <2>1, Passing
  <2>3. Then(hc, Then(ht, Then(hs, checked))) = Fine => hc = Fine /\ Then(ht, Then(hs, checked)) = Fine
    BY Passing
  <2>4. Then(ht, Then(hs, checked)) = Fine => ht = Fine /\ hs = Fine /\ checked = Fine
    BY Passing
  <2>5. checked = Fine => new = Fine /\ enc = Fine /\ size = Fine /\ sig = Fine
    BY Passing DEF checked
  <2>6. QED
    BY <2>2, <2>5, <2>3, <2>4
<1>18. error = Fine => key = Secret /\ t.client = client /\ t.signed = at
  <2> SUFFICES ASSUME error = Fine PROVE key = Secret /\ t.client = client /\ t.signed = at
    OBVIOUS
  <2>1. ~ struck("X-CLIENT-KEY") /\ ~ struck("X-TIMESTAMP") /\ ~ struck("X-SIGNATURE") /\ f.kind # "time"
    BY <1>10, <1>11, <1>15, <1>17
  <2>2. f.kind # "recode"
    BY <1>3, <1>13, <1>17, <2>1 DEF RsaSize
  <2>3. QED
    BY <1>3, <1>8, <1>12, <1>16, <1>17, <2>1, <2>2
<1>19. ~ readable => Denies(error, InternalServerError)
  <2> HIDE DEF hc, ht, hs
  <2>1. QED
    BY <1>2, <1>5, Blaming
<1>20. ASSUME readable, struck("X-CLIENT-KEY") \/ struck("X-TIMESTAMP")
       PROVE  Denies(error, BadRequest)
  <2>1. hs = Fine /\ Blames(hc, BadRequest) /\ Blames(ht, BadRequest) /\ ~ (hc = Fine /\ ht = Fine)
    BY <1>6, <1>7, <1>15, <1>20
  <2> HIDE DEF hc, ht, hs
  <2>2. Denies(hc, BadRequest) \/ (hc = Fine /\ Denies(ht, BadRequest))
    BY <2>1 DEF Blames, Denies
  <2>3. QED
    BY <1>2, <1>4, <1>20, <2>2, Blaming
<1>21. ASSUME readable, f.kind = "time" PROVE Denies(error, BadRequest)
  <2>1. hs = Fine /\ hc = Fine /\ ht = Fine
    BY <1>6, <1>7, <1>21
  <2>2. Denies(new, BadRequest)
    BY <1>9, <1>10, <1>21 DEF Blames, Denies
  <2> HIDE DEF hc, ht, hs
  <2>3. QED
    BY <1>2, <1>4, <1>21, <2>1, <2>2, Blaming
<1>22. ASSUME readable, ~ struck("X-CLIENT-KEY"), ~ struck("X-TIMESTAMP"), f.kind # "time"
       PROVE  Blames(error, Unauthorized)
  <2>1. rk = Fine /\ hc = Fine /\ ht = Fine /\ new = Fine
    BY <1>4, <1>6, <1>8, <1>22
  <2> HIDE DEF hc, ht, hs
  <2>2. QED
    BY <1>2, <1>3, <2>1, Blaming
<1>23. ASSUME key = Secret, readable, t.signed = t.header, Harmless(f, "axum") PROVE error = Fine
  <2>1. /\ ~ struck("X-CLIENT-KEY") /\ ~ struck("X-TIMESTAMP") /\ ~ struck("X-SIGNATURE")
        /\ f.kind \notin {"time", "recode"}
    BY <1>23 DEF Harmless
  <2>2. rk = Fine /\ hc = Fine /\ ht = Fine /\ hs = Fine /\ new = Fine
    BY <1>4, <1>6, <1>7, <1>8, <1>23, <2>1
  <2>3. enc = Fine /\ size = Fine
    BY <1>3, <1>12, <1>14, <2>1
  <2>4. sig = Fine
    BY <1>3, <1>8, <1>12, <1>23, <2>1 DEF OAuthBytes
  <2> HIDE DEF hc, ht, hs
  <2>5. QED
    BY <1>2, <2>2, <2>3, <2>4, Blaming
<1>24. QED
  BY <1>18, <1>19, <1>20, <1>21, <1>22, <1>23 DEF Denies, Blames, error, client, at

-----------------------------------------------------------------------------
(* Responses. *)

LEMMA TwoDigits ==
    ASSUME NEW n \in Nat, n <= 99
    PROVE  \E a, b \in 0 .. 9 : a = n \div 10 /\ b = n % 10 /\ 10 * a + b = n
<1>1. n \div 10 \in 0 .. 9 /\ n % 10 \in 0 .. 9
  OBVIOUS
<1>2. PICK a, b \in 0 .. 9 : a = n \div 10 /\ b = n % 10
  BY <1>1
<1>3. b = n - 10 * a
  BY <1>2
<1>4. 10 * a + b = n
  BY <1>3
<1>5. QED
  BY <1>2, <1>4

LEMMA ThreeDigits ==
    ASSUME NEW n \in Nat, 100 <= n, n <= 999
    PROVE  \E a, b, c \in 0 .. 9 :
              /\ a = n \div 100 /\ b = (n \div 10) % 10 /\ c = n % 10
              /\ 100 * a + 10 * b + c = n
<1>1. n \div 100 \in 0 .. 9 /\ n % 10 \in 0 .. 9
  OBVIOUS
<1>2. PICK a, c \in 0 .. 9 : a = n \div 100 /\ c = n % 10
  BY <1>1
<1>3. PICK q \in Nat : q = n \div 10 /\ q <= 99 /\ 10 * q <= n /\ n < 10 * q + 10
  <2>1. n \div 10 \in Nat /\ n \div 10 <= 99
    OBVIOUS
  <2>2. 10 * (n \div 10) <= n /\ n < 10 * (n \div 10) + 10
    OBVIOUS
  <2>3. QED
    BY <2>1, <2>2
<1>4. PICK d, b \in 0 .. 9 : d = q \div 10 /\ b = q % 10 /\ 10 * d + b = q
  BY <1>3, TwoDigits
<1>5. d = a
  <2>1. 10 * d <= q /\ q < 10 * d + 10
    BY <1>3, <1>4
  <2>2. 100 * a <= n /\ n < 100 * a + 100
    BY <1>2
  <2>3. QED
    BY <1>3, <2>1, <2>2
<1>6. b = (n \div 10) % 10
  BY <1>3, <1>4
<1>7. c = n - 10 * q
  BY <1>2, <1>3
<1>8. 100 * a + 10 * b + c = n
  BY <1>4, <1>5, <1>7
<1>9. QED
  BY <1>2, <1>6, <1>8

\* A response code gives back the parts it was made of.
LEMMA CodeParts ==
    ASSUME NEW http \in 100 .. 999, NEW service \in 0 .. 99, NEW case \in 0 .. 99
    PROVE  LET code == FromParts(http, service, case)
           IN  /\ IsValidResponseCode(code)
               /\ Http(code) = http /\ Service(code) = service /\ Case(code) = case
<1>1. PICK h, s, c \in Nat : /\ h = http /\ 100 <= h /\ h <= 999
                            /\ s = service /\ s <= 99 /\ c = case /\ c <= 99
  OBVIOUS
<1>2. PICK h1, h2, h3 \in 0 .. 9 : /\ h1 = h \div 100 /\ h2 = (h \div 10) % 10 /\ h3 = h % 10
                                  /\ 100 * h1 + 10 * h2 + h3 = h
  BY ZenonT(30), <1>1, ThreeDigits
<1>3. PICK s1, s2 \in 0 .. 9 : s1 = s \div 10 /\ s2 = s % 10 /\ 10 * s1 + s2 = s
  BY <1>1, TwoDigits
<1>4. PICK c1, c2 \in 0 .. 9 : c1 = c \div 10 /\ c2 = c % 10 /\ 10 * c1 + c2 = c
  BY <1>1, TwoDigits
<1>5. FromParts(http, service, case) = <<h1, h2, h3, s1, s2, c1, c2>>
  BY <1>1, <1>2, <1>3, <1>4 DEF FromParts
<1>6. PICK code : code = <<h1, h2, h3, s1, s2, c1, c2>>
  OBVIOUS
<1>7. /\ Len(code) = 7 /\ code[1] = h1 /\ code[2] = h2 /\ code[3] = h3
      /\ code[4] = s1 /\ code[5] = s2 /\ code[6] = c1 /\ code[7] = c2
  BY <1>6
<1>8. Http(code) = h /\ Service(code) = s /\ Case(code) = c
  BY <1>2, <1>3, <1>4, <1>7 DEF Http, Service, Case
<1>9. \A i \in 1 .. 7 : code[i] \in 0 .. 9
  BY <1>7
<1>10. IsValidResponseCode(code)
  BY <1>1, <1>7, <1>8, <1>9 DEF IsValidResponseCode, ResponseCodeError, WireLen
<1>11. QED
  BY <1>1, <1>5, <1>6, <1>8, <1>10

LEMMA ClassParts ==
    /\ \A class \in ErrorClasses :
          /\ class = Class(class.http, class.case) /\ class.http \in 400 .. 504
          /\ class.case \in 0 .. 99
    /\ InternalServerError \in ErrorClasses /\ NoClass \notin ErrorClasses
    /\ BadRequest \in ErrorClasses /\ Unauthorized \in ErrorClasses
<1>1. DOMAIN CaseCount = {400, 401, 403, 404, 405, 409, 429, 500, 504}
  BY DEF CaseCount
<1>2. \A h \in DOMAIN CaseCount : CaseCount[h] \in 1 .. 24
  BY DEF CaseCount
<1>3. CaseCount[500] = 3 /\ CaseCount[400] = 3 /\ CaseCount[401] = 5
  BY DEF CaseCount
<1>4. ErrorClasses = {k \in ErrorClasses : \E h \in DOMAIN CaseCount : \E c \in 0 .. CaseCount[h] - 1 :
                                              k = Class(h, c)}
  BY DEF ErrorClasses
<1>5. \A h \in DOMAIN CaseCount : \A c \in 0 .. CaseCount[h] - 1 : Class(h, c) \in ErrorClasses
  BY DEF ErrorClasses
<1>6. ASSUME NEW class \in ErrorClasses
      PROVE  /\ class = Class(class.http, class.case) /\ class.http \in 400 .. 504
             /\ class.case \in 0 .. 99
  <2>1. PICK h \in DOMAIN CaseCount : \E c \in 0 .. CaseCount[h] - 1 : class = Class(h, c)
    BY <1>4
  <2>2. PICK c \in 0 .. CaseCount[h] - 1 : class = Class(h, c)
    BY <2>1
  <2>3. class.http = h /\ class.case = c
    BY <2>2 DEF Class
  <2>4. h \in 400 .. 504
    BY <1>1
  <2>5. c \in 0 .. 99
    BY <1>2
  <2>6. QED
    BY <2>2, <2>3, <2>4, <2>5
<1>7. Class(500, 1) \in ErrorClasses /\ Class(400, 0) \in ErrorClasses /\ Class(401, 0) \in ErrorClasses
  <2>1. /\ 500 \in DOMAIN CaseCount /\ 400 \in DOMAIN CaseCount /\ 401 \in DOMAIN CaseCount
        /\ 1 \in 0 .. CaseCount[500] - 1 /\ 0 \in 0 .. CaseCount[400] - 1
        /\ 0 \in 0 .. CaseCount[401] - 1
    BY <1>1, <1>3
  <2>2. QED
    BY <1>5, <2>1
<1>8. NoClass \notin ErrorClasses
  BY <1>6 DEF NoClass, Class
<1>9. QED
  BY <1>6, <1>7, <1>8 DEF InternalServerError, BadRequest, Unauthorized

\* What a reader makes of a body.
LEMMA Readings ==
    ASSUME NEW type, NEW body
    PROVE  LET readable == body.fields = Reserved /\ DOMAIN body.members \cap Reserved = {}
               valid    == IsValidResponseCode(body.code)
               success  == valid /\ Http(body.code) \in 200 .. 299
               payload  == SuccessPayload(type, body.members)
               read     == Deserialize(type, body)
               class    == FromHttpAndCase(Http(body.code), Case(body.code))
           IN  /\ ~ readable \/ (success /\ payload = Unread) => read = Undecoded
               /\ readable /\ success /\ payload # Unread =>
                     read = Response("Success", body.code, body.message, payload, NoClass)
               /\ readable /\ valid /\ ~ success =>
                     read = Response("Failure", body.code, body.message, Object(body.members), class)
               /\ readable /\ ~ valid =>
                     read = Response("Malformed", body.code, body.message, Object(body.members), NoClass)
<1> DEFINE readable == body.fields = Reserved /\ DOMAIN body.members \cap Reserved = {}
           valid    == IsValidResponseCode(body.code)
           success  == valid /\ Http(body.code) \in 200 .. 299
           payload  == SuccessPayload(type, body.members)
           class    == FromHttpAndCase(Http(body.code), Case(body.code))
<1>1. Deserialize(type, body) =
         CASE ~ readable \/ (success /\ payload = Unread) -> Undecoded
           [] readable /\ success /\ payload # Unread ->
                Response("Success", body.code, body.message, payload, NoClass)
           [] readable /\ valid /\ ~ success ->
                Response("Failure", body.code, body.message, Object(body.members), class)
           [] OTHER -> Response("Malformed", body.code, body.message, Object(body.members), NoClass)
  BY DEF Deserialize
<1>2. success => valid
  OBVIOUS
<1> HIDE DEF readable, valid, success, payload, class
<1>3. /\ ~ readable \/ (success /\ payload = Unread) => Deserialize(type, body) = Undecoded
      /\ readable /\ success /\ payload # Unread =>
            Deserialize(type, body) = Response("Success", body.code, body.message, payload, NoClass)
      /\ readable /\ valid /\ ~ success =>
            Deserialize(type, body)
               = Response("Failure", body.code, body.message, Object(body.members), class)
      /\ readable /\ ~ valid =>
            Deserialize(type, body)
               = Response("Malformed", body.code, body.message, Object(body.members), NoClass)
  BY <1>1, <1>2
<1>4. QED
  BY <1>3 DEF readable, valid, success, payload, class

\* What a failure is made of, and what its reader makes of its body.
LEMMA FailureReading ==
    ASSUME NEW type, NEW body, body.fields = Reserved, DOMAIN body.members \cap Reserved = {},
           IsValidResponseCode(body.code), ~ (Http(body.code) \in 200 .. 299)
    PROVE  Deserialize(type, body)
              = Response("Failure", body.code, body.message, Object(body.members),
                         FromHttpAndCase(Http(body.code), Case(body.code)))
BY Readings

LEMMA FailureRead ==
    ASSUME NEW class \in ErrorClasses, NEW service \in 0 .. 99, NEW type
    PROVE  LET r == Failure(class, service)
           IN  /\ r.state = "Failure" /\ r.class = class /\ r.payload = Object(<<>>)
               /\ Http(r.code) = class.http /\ IsValidResponseCode(r.code)
               /\ Service(r.code) = service
               /\ Deserialize(type, Serialize(r, r.payload)) = r
               /\ Serialize(r, r.payload).code = r.code
<1>1. /\ class = Class(class.http, class.case) /\ class.http \in 400 .. 504
      /\ class.case \in 0 .. 99
  BY ClassParts
<1>2. PICK code : /\ code = FromParts(class.http, service, class.case) /\ IsValidResponseCode(code)
                  /\ Http(code) = class.http /\ Service(code) = service /\ Case(code) = class.case
  <2>1. class.http \in 100 .. 999
    BY <1>1
  <2>2. PICK h \in 100 .. 999, c \in 0 .. 99 : h = class.http /\ c = class.case
    BY ZenonT(30), <1>1, <2>1
  <2>3. PICK code : code = FromParts(h, service, c)
    OBVIOUS
  <2>4. IsValidResponseCode(code) /\ Http(code) = h /\ Service(code) = service /\ Case(code) = c
    BY ZenonT(30), <2>3, CodeParts
  <2>5. QED
    BY <2>2, <2>3, <2>4
<1>3. Failure(class, service) = Response("Failure", code, "Failed", Object(<<>>), class)
  BY <1>2 DEF Failure
<1>4. PICK r : r = Failure(class, service)
  OBVIOUS
<1>5. /\ r.state = "Failure" /\ r.class = class /\ r.payload = Object(<<>>) /\ r.code = code
      /\ r.message = "Failed"
  BY <1>3, <1>4 DEF Response
<1>6. Serialize(r, r.payload) = Body(code, "Failed", <<>>)
  BY <1>5 DEF Serialize, Object
<1>7. PICK body : body = Body(code, "Failed", <<>>)
  OBVIOUS
<1>8. /\ body.fields = Reserved /\ body.code = code /\ body.message = "Failed"
      /\ body.members = <<>> /\ DOMAIN body.members \cap Reserved = {}
  BY <1>7 DEF Body
<1>9. Http(code) \notin 200 .. 299
  BY <1>1, <1>2
<1>10. FromHttpAndCase(Http(code), Case(code)) = class
  BY <1>1, <1>2 DEF FromHttpAndCase
<1>11. Deserialize(type, body) = Response("Failure", code, "Failed", Object(<<>>), class)
  <2>1. Deserialize(type, body) = Response("Failure", body.code, body.message, Object(body.members),
                                           FromHttpAndCase(Http(body.code), Case(body.code)))
    <3>1. IsValidResponseCode(body.code) /\ Http(body.code) \notin 200 .. 299
      <4>1. IsValidResponseCode(code) /\ Http(code) \notin 200 .. 299
        BY <1>2, <1>9
      <4>2. body.code = code
        BY <1>8
      <4>3. QED
        BY <4>1, <4>2
    <3>2. /\ body.fields = Reserved /\ DOMAIN body.members \cap Reserved = {}
          /\ ~ (IsValidResponseCode(body.code) /\ Http(body.code) \in 200 .. 299)
      BY <1>8, <3>1, Zenon
    <3>3. /\ body.fields = Reserved /\ DOMAIN body.members \cap Reserved = {}
          /\ IsValidResponseCode(body.code) /\ ~ (Http(body.code) \in 200 .. 299)
      BY <3>1, <3>2
    <3>4. QED
      BY <3>3, FailureReading
  <2>2. QED
    BY <1>8, <1>10, <2>1
<1>12. QED
  BY <1>2, <1>3, <1>4, <1>5, <1>6, <1>7, <1>8, <1>11

\* What a payload is sent as and what is read of it: what it is, but for nothing
\* when the type reads an empty object.
Carried(type, payload, read) ==
    /\ read # Unread /\ PayloadError(payload) = "Ok"
    /\ DOMAIN payload.members \cap Reserved = {}
    /\ SuccessPayload(type, payload.members) = read
    /\ read = payload \/ (payload = Null /\ read = FromValue(type, Object(<<>>)))

LEMMA ObjectParts ==
    ASSUME NEW members
    PROVE  /\ Object(members).kind = "object" /\ Object(members).members = members
           /\ Object(members) # Unread /\ Object(members) # Null
BY DEF Object, Unread, Null

LEMMA NullParts ==
    /\ Null.kind = "null" /\ Null.members = <<>> /\ DOMAIN Null.members = {} /\ Null # Unread
    /\ DOMAIN Object(<<>>).members = {}
BY DEF Null, Unread, Object

\* What is read of an object is an object, and is read again as it was.
LEMMA ObjectKept ==
    ASSUME NEW type, NEW members, DOMAIN members \cap Reserved = {},
           NEW value, value = FromValue(type, Object(members)), value # Unread
    PROVE  Carried(type, value, value)
<1> DEFINE some == [k \in {"amount"} |-> members[k]]
<1>1. /\ Object(members).kind = "object" /\ Object(members).members = members
  BY ObjectParts
<1>2. \/ type = "value" /\ value = Object(members)
      \/ type \in {"struct", "struct option", "record", "record option"} /\ value = Object(some)
      \/ type \in {"record", "record option"} /\ value = Object(<<>>)
  BY <1>1 DEF FromValue
<1>3. \E kept : /\ value = Object(kept) /\ DOMAIN kept \cap Reserved = {}
               /\ FromValue(type, Object(kept)) = Object(kept)
  <2>1. CASE type = "value" /\ value = Object(members)
    BY <2>1
  <2>2. CASE type \in {"struct", "struct option", "record", "record option"} /\ value = Object(some)
    <3>1. PICK kept : kept = some
      OBVIOUS
    <3>2. DOMAIN kept = {"amount"} /\ kept = [k \in {"amount"} |-> kept[k]]
      BY <3>1
    <3>3. Object(kept).kind = "object" /\ Object(kept).members = kept
      BY ObjectParts
    <3>4. FromValue(type, Object(kept)) = Object(kept)
      BY <2>2, <3>2, <3>3 DEF FromValue
    <3>5. DOMAIN kept \cap Reserved = {}
      BY <3>2 DEF Reserved
    <3> HIDE DEF some
    <3>6. QED
      BY <2>2, <3>1, <3>4, <3>5
  <2>3. CASE type \in {"record", "record option"} /\ value = Object(<<>>)
    <3>1. PICK kept : kept = <<>> /\ DOMAIN kept = {}
      OBVIOUS
    <3>2. Object(kept).kind = "object" /\ Object(kept).members = kept
      BY ObjectParts
    <3>3. FromValue(type, Object(kept)) = Object(kept)
      BY <2>3, <3>1, <3>2 DEF FromValue
    <3>4. QED
      BY <2>3, <3>1, <3>3
  <2>4. QED
    BY <1>2, <2>1, <2>2, <2>3
<1>4. PICK kept : /\ value = Object(kept) /\ DOMAIN kept \cap Reserved = {}
                  /\ FromValue(type, Object(kept)) = Object(kept)
  BY <1>3
<1>5. value.kind = "object" /\ value.members = kept
  BY <1>4, ObjectParts
<1>6. SuccessPayload(type, kept) = value
  BY <1>4 DEF SuccessPayload
<1>7. PayloadError(value) = "Ok"
  BY <1>4, <1>5 DEF PayloadError
<1>8. QED
  BY <1>4, <1>5, <1>6, <1>7 DEF Carried

\* Nothing is read as nothing, unless the type reads an empty object.
LEMMA NullCarried ==
    ASSUME NEW type, FromValue(type, Null) = Null
    PROVE  \E read : Carried(type, Null, read)
<1> DEFINE empty == FromValue(type, Object(<<>>))
<1>1. PICK none : none = <<>> /\ none = Null.members /\ DOMAIN none = {}
  BY NullParts
<1>2. SuccessPayload(type, none) = IF empty = Unread THEN Null ELSE empty
  BY <1>1 DEF SuccessPayload
<1>3. PayloadError(Null) = "Ok"
  BY NullParts DEF PayloadError
<1> HIDE DEF empty
<1>4. CASE empty = Unread
  <2>1. Carried(type, Null, Null)
    BY <1>1, <1>2, <1>3, <1>4, NullParts DEF Carried
  <2>2. QED
    BY <2>1
<1>5. CASE empty # Unread
  <2>1. Carried(type, Null, empty)
    BY <1>1, <1>2, <1>3, <1>5, NullParts DEF Carried, empty
  <2>2. QED
    BY <2>1
<1>6. QED
  BY <1>4, <1>5

\* A payload that was read is read again as it was.
LEMMA PayloadKept ==
    ASSUME NEW type, NEW members, DOMAIN members \cap Reserved = {},
           NEW payload, payload = SuccessPayload(type, members), payload # Unread
    PROVE  Carried(type, payload, payload)
<1> DEFINE object == FromValue(type, Object(members))
<1>1. CASE object # Unread
  <2>1. payload = object
    BY <1>1 DEF SuccessPayload
  <2>2. QED
    BY <1>1, <2>1, ObjectKept
<1>2. CASE object = Unread
  <2>1. payload = FromValue(type, Null) /\ DOMAIN members = {}
    BY <1>2 DEF SuccessPayload
  <2>2. payload = Null
    BY <2>1, NullParts DEF FromValue
  <2>3. type # "value" /\ type \notin {"record", "record option"}
    <3>1. \/ Object(members).kind = "object"
      BY ObjectParts
    <3>2. Object(members).members = members /\ Object(members) # Unread /\ Object(<<>>) # Unread
      BY ObjectParts
    <3>3. QED
      BY <1>2, <2>1, <3>1, <3>2 DEF FromValue
  <2>4. FromValue(type, Object(<<>>)) = Unread
    <3>1. Object(<<>>).kind = "object" /\ DOMAIN Object(<<>>).members = {}
      BY ObjectParts, NullParts
    <3>2. QED
      BY <2>3, <3>1 DEF FromValue
  <2>5. PICK none : none = Null.members /\ none = <<>> /\ DOMAIN none = {}
    BY NullParts
  <2>6. SuccessPayload(type, none) = Null
    BY <2>1, <2>2, <2>4, <2>5 DEF SuccessPayload
  <2>7. PayloadError(Null) = "Ok"
    BY NullParts DEF PayloadError
  <2>8. QED
    BY <2>2, <2>5, <2>6, <2>7, NullParts DEF Carried
<1>3. QED
  BY <1>1, <1>2

\* The answers a server gives: a response it built or was given, and what the
\* payload says of itself when it is serialized.
Given(r, type, json) ==
    \/ \E class \in ErrorClasses, service \in Services : r = Failure(class, service)
    \/ \E p \in Payloads, service \in Services, case \in {0, 5} :
          /\ PayloadError(p.json) = "Ok" /\ type = p.type /\ json = p.again
          /\ r = SuccessWithCase(p.json, service, case)
    \/ \E body \in Upstreams : /\ r = Deserialize(type, body) /\ r # Undecoded
                               /\ json = r.payload

\* Nothing was sent, and the type reads an empty object.
Emptied(r, type, read) ==
    LET empty == FromValue(type, Object(<<>>))
    IN  /\ r.state = "Success" /\ r.payload = Null /\ empty # Unread
        /\ read = [r EXCEPT !.payload = empty]

\* An answer whose status, body and reading agree with the response it was made of.
Faithful(r, type, answer) ==
    LET code == answer.body.code
        read == Deserialize(type, answer.body)
    IN  /\ answer.status = IF IsValidResponseCode(code) THEN Http(code) ELSE 500
        /\ answer.status \in 100 .. 999
        /\ answer.status \in 200 .. 299 => read.state = "Success"
        /\ \/ read = r
           \/ r.state = "Success" /\ read = Failure(InternalServerError, Service(r.code))
           \/ Emptied(r, type, read)

\* The answer in place of a payload that would not serialize.
LEMMA InternalErrorRead ==
    ASSUME NEW service \in 0 .. 99, NEW type
    PROVE  LET body == InternalErrorBody(service)
           IN  /\ IsValidResponseCode(body.code) /\ Http(body.code) = 500
               /\ Deserialize(type, body) = Failure(InternalServerError, service)
<1>1. InternalServerError \in ErrorClasses /\ InternalServerError.http = 500
  BY ClassParts DEF InternalServerError, Class
<1>2. PICK k \in ErrorClasses : k = InternalServerError /\ k.http = 500
  BY <1>1
<1> DEFINE f == Failure(k, service)
<1>3. /\ Http(f.code) = k.http /\ IsValidResponseCode(f.code)
      /\ Deserialize(type, Serialize(f, f.payload)) = f
      /\ Serialize(f, f.payload).code = f.code
  BY FailureRead
<1>4. InternalErrorBody(service) = Serialize(f, f.payload)
  BY <1>2 DEF InternalErrorBody
<1> HIDE DEF f
<1>5. QED
  BY <1>2, <1>3, <1>4 DEF f

LEMMA SuccessFaithful ==
    ASSUME NEW code, NEW message, NEW payload, NEW type, NEW json, NEW value,
           IsValidResponseCode(code), Http(code) \in 200 .. 299, Service(code) \in 0 .. 99,
           Carried(type, payload, value), PayloadError(json) = "Ok" => json = payload
    PROVE  LET r == Response("Success", code, message, payload, NoClass)
           IN  Faithful(r, type, Respond(r, json))
<1>1. PICK r : r = Response("Success", code, message, payload, NoClass)
  OBVIOUS
<1>2. r.state = "Success" /\ r.code = code /\ r.message = message /\ r.payload = payload
  BY <1>1 DEF Response
<1>3. CASE PayloadError(json) = "Ok"
  <2>1. Serializes(r, json) /\ json = payload
    BY <1>2, <1>3 DEF Serializes
  <2>2. PICK body : body = Body(code, message, payload.members)
    OBVIOUS
  <2>3. Respond(r, json) = [status |-> Http(code), body |-> body]
    BY <1>2, <2>1, <2>2 DEF Respond, HttpStatus, Serialize
  <2>4. /\ body.fields = Reserved /\ body.code = code /\ body.message = message
        /\ body.members = payload.members
    BY <2>2 DEF Body
  <2>5. /\ DOMAIN body.members \cap Reserved = {} /\ SuccessPayload(type, body.members) = value
        /\ value # Unread
    BY <2>4 DEF Carried
  <2>6. IsValidResponseCode(body.code) /\ Http(body.code) \in 200 .. 299
    BY <2>4
  <2>7. Deserialize(type, body)
           = Response("Success", body.code, body.message, SuccessPayload(type, body.members), NoClass)
    BY <2>4, <2>5, <2>6, Readings
  <2>8. Deserialize(type, body) = Response("Success", code, message, value, NoClass)
    BY <2>4, <2>5, <2>7
  <2>9. Response("Success", code, message, value, NoClass).state = "Success"
    BY DEF Response
  <2>10. PICK read : /\ read = Response("Success", code, message, value, NoClass)
                     /\ read = Deserialize(type, body) /\ read.state = "Success"
    BY <2>8, <2>9
  <2>11. read = r \/ Emptied(r, type, read)
    <3>1. CASE value = payload
      BY <1>1, <2>10, <3>1
    <3>2. CASE payload = Null /\ value = FromValue(type, Object(<<>>))
      <4>1. read = [r EXCEPT !.payload = value]
        BY <1>1, <2>10 DEF Response
      <4>2. QED
        BY <1>2, <2>5, <3>2, <4>1 DEF Emptied
    <3>3. QED
      BY <3>1, <3>2 DEF Carried
  <2>12. Faithful(r, type, Respond(r, json))
    BY <1>2, <2>3, <2>4, <2>6, <2>10, <2>11 DEF Faithful
  <2>13. QED
    BY <1>1, <2>12
<1>4. CASE PayloadError(json) # "Ok"
  <2>1. ~ Serializes(r, json)
    BY <1>2, <1>4 DEF Serializes
  <2>2. PICK body : body = InternalErrorBody(Service(code))
    OBVIOUS
  <2>3. Respond(r, json) = [status |-> 500, body |-> body]
    BY <1>2, <2>1, <2>2 DEF Respond
  <2>4. /\ IsValidResponseCode(body.code) /\ Http(body.code) = 500
        /\ Deserialize(type, body) = Failure(InternalServerError, Service(code))
    BY <2>2, InternalErrorRead
  <2>5. Faithful(r, type, Respond(r, json))
    BY <1>2, <2>3, <2>4 DEF Faithful
  <2>6. QED
    BY <1>1, <2>5
<1>5. QED
  BY <1>3, <1>4

\* A failure, or a response with a malformed code, as it was read or built.
LEMMA OtherFaithful ==
    ASSUME NEW r, NEW type, NEW json, r.state \in {"Failure", "Malformed"},
           Deserialize(type, Serialize(r, r.payload)) = r,
           r.state = "Failure" <=> IsValidResponseCode(r.code),
           r.state = "Failure" => Http(r.code) \in 100 .. 999 /\ Http(r.code) \notin 200 .. 299
    PROVE  Faithful(r, type, Respond(r, json))
<1>1. Serializes(r, json) /\ Serialize(r, json) = Serialize(r, r.payload)
  BY DEF Serializes, Serialize
<1>2. PICK body : body = Serialize(r, r.payload) /\ body.code = r.code
  BY DEF Serialize, Body
<1>3. Respond(r, json) = [status |-> HttpStatus(r), body |-> body]
  BY <1>1, <1>2 DEF Respond
<1>4. HttpStatus(r) = IF IsValidResponseCode(r.code) THEN Http(r.code) ELSE 500
  BY DEF HttpStatus
<1>5. Deserialize(type, body) = r
  BY <1>2
<1>6. QED
  BY <1>2, <1>3, <1>4, <1>5 DEF Faithful

LEMMA ValidCode ==
    ASSUME NEW code, IsValidResponseCode(code)
    PROVE  Http(code) \in 100 .. 999 /\ Service(code) \in 0 .. 99
<1>1. \A i \in 1 .. 7 : code[i] \in 0 .. 9
  BY DEF IsValidResponseCode, ResponseCodeError, WireLen
<1>2. ~ (Http(code) < 100)
  BY DEF IsValidResponseCode, ResponseCodeError
<1>3. /\ code[1] \in 0 .. 9 /\ code[2] \in 0 .. 9 /\ code[3] \in 0 .. 9
      /\ code[4] \in 0 .. 9 /\ code[5] \in 0 .. 9
  BY <1>1
<1>4. PICK a, b, c, d, e \in 0 .. 9 : a = code[1] /\ b = code[2] /\ c = code[3] /\ d = code[4] /\ e = code[5]
  BY <1>3
<1>5. Http(code) = 100 * a + 10 * b + c /\ Service(code) = 10 * d + e
  BY <1>4 DEF Http, Service
<1>6. QED
  BY <1>2, <1>5

\* What a relayed response is.
LEMMA RelayFaithful ==
    ASSUME NEW type, NEW given, Deserialize(type, given) # Undecoded
    PROVE  LET r == Deserialize(type, given)
           IN  /\ Faithful(r, type, Respond(r, r.payload))
               /\ r.class \in ErrorClasses \cup {NoClass}
               /\ r.state \in {"Success", "Failure", "Malformed"}
<1> DEFINE readable == given.fields = Reserved /\ DOMAIN given.members \cap Reserved = {}
           valid    == IsValidResponseCode(given.code)
           success  == valid /\ Http(given.code) \in 200 .. 299
           payload  == SuccessPayload(type, given.members)
           class    == FromHttpAndCase(Http(given.code), Case(given.code))
<1>1. PICK r : r = Deserialize(type, given)
  OBVIOUS
<1>2. readable
  BY Readings
<1>3. class \in ErrorClasses \cup {NoClass}
  BY DEF FromHttpAndCase
<1>4. CASE success
  <2>1. payload # Unread
    BY <1>4, Readings
  <2>2. r = Response("Success", given.code, given.message, payload, NoClass)
    BY <1>1, <1>2, <1>4, <2>1, Readings
  <2>3. r.class = NoClass /\ r.state = "Success" /\ r.payload = payload
    BY <2>2 DEF Response
  <2>4. Carried(type, payload, payload)
    BY <1>2, <2>1, PayloadKept
  <2>5. Service(given.code) \in 0 .. 99
    BY <1>4, ValidCode
  <2> HIDE DEF payload
  <2>6. Faithful(r, type, Respond(r, payload))
    BY <1>4, <2>2, <2>4, <2>5, SuccessFaithful
  <2>7. QED
    BY <1>1, <2>3, <2>6
<1>5. CASE ~ success
  <2>1. \/ valid /\ r = Response("Failure", given.code, given.message, Object(given.members), class)
        \/ ~ valid /\ r = Response("Malformed", given.code, given.message, Object(given.members), NoClass)
    BY <1>1, <1>2, <1>5, Readings
  <2>2. /\ r.state = (IF valid THEN "Failure" ELSE "Malformed") /\ r.code = given.code
        /\ r.message = given.message /\ r.payload = Object(given.members)
        /\ r.class = (IF valid THEN class ELSE NoClass)
    BY <2>1 DEF Response
  <2>3. PICK body : body = Body(given.code, given.message, given.members)
    OBVIOUS
  <2>4. Serialize(r, r.payload) = body
    BY <2>2, <2>3 DEF Serialize, Object
  <2>5. /\ body.fields = Reserved /\ body.code = given.code /\ body.message = given.message
        /\ body.members = given.members
    BY <2>3 DEF Body
  <2>6. /\ DOMAIN body.members \cap Reserved = {} /\ IsValidResponseCode(body.code) <=> valid
        /\ ~ (IsValidResponseCode(body.code) /\ Http(body.code) \in 200 .. 299)
    BY <1>2, <1>5, <2>5
  <2>7. Deserialize(type, body) = r
    <3>1. CASE valid
      <4>1. Deserialize(type, body)
               = Response("Failure", body.code, body.message, Object(body.members),
                          FromHttpAndCase(Http(body.code), Case(body.code)))
        BY <2>5, <2>6, <3>1, Readings
      <4>2. QED
        BY <2>1, <2>5, <3>1, <4>1
    <3>2. CASE ~ valid
      <4>1. Deserialize(type, body)
               = Response("Malformed", body.code, body.message, Object(body.members), NoClass)
        BY <2>5, <2>6, <3>2, Readings
      <4>2. QED
        BY <2>1, <2>5, <3>2, <4>1
    <3>3. QED
      BY <3>1, <3>2
  <2>8. valid => Http(given.code) \in 100 .. 999
    BY ValidCode
  <2>9. Faithful(r, type, Respond(r, r.payload))
    <3>1. r.state = "Failure" <=> IsValidResponseCode(r.code)
      BY <2>2
    <3>2. r.state = "Failure" => Http(r.code) \in 100 .. 999 /\ Http(r.code) \notin 200 .. 299
      BY <1>5, <2>2, <2>8
    <3>3. r.state \in {"Failure", "Malformed"} /\ Deserialize(type, Serialize(r, r.payload)) = r
      BY <2>2, <2>4, <2>7
    <3>4. QED
      BY <3>1, <3>2, <3>3, OtherFaithful
  <2>10. QED
    BY <1>1, <1>3, <2>2, <2>9
<1>6. QED
  BY <1>4, <1>5

LEMMA SuccessParts ==
    ASSUME NEW service \in 0 .. 99, NEW case \in 0 .. 99
    PROVE  LET code == FromParts(200, service, case)
           IN  IsValidResponseCode(code) /\ Http(code) = 200 /\ Service(code) = service
<1>1. PICK http \in 100 .. 999 : http = 200
  OBVIOUS
<1>2. LET code == FromParts(http, service, case)
      IN  IsValidResponseCode(code) /\ Http(code) = http /\ Service(code) = service
  BY ZenonT(30), CodeParts
<1>3. QED
  BY <1>1, <1>2

LEMMA GivenFaithful ==
    ASSUME NEW r, NEW type, NEW json, Given(r, type, json)
    PROVE  /\ Faithful(r, type, Respond(r, json))
           /\ r.class \in ErrorClasses \cup {NoClass}
           /\ r.state \in {"Success", "Failure", "Malformed"}
<1>1. ASSUME NEW class \in ErrorClasses, NEW service \in Services, r = Failure(class, service)
      PROVE  /\ Faithful(r, type, Respond(r, json))
             /\ r.class \in ErrorClasses \cup {NoClass}
             /\ r.state \in {"Success", "Failure", "Malformed"}
  <2>1. service \in 0 .. 99
    BY SnapExchangeAssumption
  <2>2. class.http \in 400 .. 504
    BY ClassParts
  <2>3. /\ r.state = "Failure" /\ r.class = class /\ Http(r.code) = class.http
        /\ IsValidResponseCode(r.code) /\ Deserialize(type, Serialize(r, r.payload)) = r
    <3> DEFINE e == Failure(class, service)
    <3>1. /\ e.state = "Failure" /\ e.class = class /\ Http(e.code) = class.http
          /\ IsValidResponseCode(e.code) /\ Deserialize(type, Serialize(e, e.payload)) = e
      BY <2>1, FailureRead
    <3> HIDE DEF e
    <3>2. r = e
      BY <1>1 DEF e
    <3>3. QED
      BY <3>1, <3>2
  <2>4. Http(r.code) \in 100 .. 999 /\ Http(r.code) \notin 200 .. 299
    <3>1. PICK h \in 400 .. 504 : h = class.http
      BY <2>2
    <3>2. h \in 100 .. 999 /\ h \notin 200 .. 299
      BY <3>1
    <3>3. Http(r.code) = h
      BY <2>3, <3>1
    <3>4. QED
      BY <3>2, <3>3
  <2>5. Faithful(r, type, Respond(r, json))
    BY <2>3, <2>4, OtherFaithful
  <2>6. QED
    BY <2>3, <2>5
<1>2. ASSUME NEW p \in Payloads, NEW service \in Services, NEW case \in {0, 5},
             PayloadError(p.json) = "Ok", type = p.type, json = p.again,
             r = SuccessWithCase(p.json, service, case)
      PROVE  /\ Faithful(r, type, Respond(r, json))
             /\ r.class \in ErrorClasses \cup {NoClass}
             /\ r.state \in {"Success", "Failure", "Malformed"}
  <2>1. service \in 0 .. 99 /\ case \in 0 .. 99
    BY SnapExchangeAssumption
  <2>2. /\ p.json # Unread /\ FromValue(p.type, p.json) = p.json
        /\ p.json \in {Null, Scalar, Object(p.json.members)}
        /\ PayloadError(p.again) = "Ok" => p.again = p.json
    BY <1>2, PayloadsAssumption
  <2>3. PICK value : Carried(type, p.json, value)
    <3>1. CASE p.json = Null
      <4>1. FromValue(type, Null) = Null
        BY <1>2, <2>2, <3>1
      <4>2. \E value : Carried(type, Null, value)
        BY <4>1, NullCarried
      <4>3. QED
        BY <3>1, <4>2
    <3>2. CASE p.json = Object(p.json.members)
      <4>1. PICK members, json1 : members = p.json.members /\ json1 = p.json /\ json1 = Object(members)
        BY <3>2
      <4>2. json1.kind = "object" /\ json1.members = members
        BY <4>1, ObjectParts
      <4>3. DOMAIN members \cap Reserved = {}
        BY <1>2, <4>1, <4>2 DEF PayloadError
      <4>4. json1 = FromValue(p.type, Object(members)) /\ json1 # Unread
        BY <2>2, <4>1
      <4>5. Carried(p.type, json1, json1)
        BY <4>3, <4>4, ObjectKept
      <4>6. Carried(type, p.json, json1)
        <5>1. type = p.type
          BY <1>2
        <5>2. QED
          BY <4>1, <4>5, <5>1
      <4>7. QED
        BY <4>6
    <3>3. p.json # Scalar
      BY <1>2 DEF PayloadError, Scalar
    <3>4. QED
      BY <2>2, <3>1, <3>2, <3>3
  <2>4. PICK code : /\ code = FromParts(200, service, case) /\ IsValidResponseCode(code)
                    /\ Http(code) = 200 /\ Service(code) = service
    BY ZenonT(30), <2>1, SuccessParts
  <2>5. r = Response("Success", code, "Successful", p.json, NoClass)
    BY <1>2, <2>4 DEF SuccessWithCase
  <2>6. r.class = NoClass /\ r.state = "Success"
    BY <2>5 DEF Response
  <2>7. Http(code) \in 200 .. 299 /\ Service(code) \in 0 .. 99
    BY <2>1, <2>4
  <2>8. PICK payload, message : payload = p.json /\ message = "Successful"
    OBVIOUS
  <2>9. r = Response("Success", code, message, payload, NoClass)
    BY <2>5, <2>8
  <2>10. Carried(type, payload, value) /\ (PayloadError(json) = "Ok" => json = payload)
    BY <1>2, <2>2, <2>3, <2>8
  <2>11. Faithful(r, type, Respond(r, json))
    BY <2>4, <2>7, <2>9, <2>10, SuccessFaithful
  <2>12. QED
    BY <2>6, <2>11
<1>3. ASSUME NEW body \in Upstreams, r = Deserialize(type, body), r # Undecoded, json = r.payload
      PROVE  /\ Faithful(r, type, Respond(r, json))
             /\ r.class \in ErrorClasses \cup {NoClass}
             /\ r.state \in {"Success", "Failure", "Malformed"}
  BY <1>3, RelayFaithful
<1>4. QED
  BY <1>1, <1>2, <1>3 DEF Given

-----------------------------------------------------------------------------
(* The correlation id: the parser against the grammar. *)

LEMMA Widths == TraceIdLen \in Nat \ {0} /\ ParentIdLen \in Nat \ {0} /\ BaseLen \in Nat
  BY CorrelationAssumption DEF BaseLen

\* What TraceParent::parse accepts, its rules one by one.
Accepts(t) ==
    /\ Len(t) >= BaseLen
    /\ \A i \in Delimiters : t[i] = "-"
    /\ IsLowerHex(Version(t)) /\ Version(t) # <<"f", "f">>
    /\ Version(t) = <<"0", "0">> => Len(t) = BaseLen
    /\ Version(t) # <<"0", "0">> /\ Len(t) > BaseLen => t[BaseLen + 1] = "-"
    /\ IsLowerHex(TraceId(t)) /\ ~ IsZero(TraceId(t))
    /\ IsLowerHex(ParentId(t)) /\ ~ IsZero(ParentId(t))
    /\ IsLowerHex(TraceFlags(t))

LEMMA Parsed ==
    ASSUME NEW t \in Seq(STRING)
    PROVE  TraceParent(t) = "Ok" <=> Accepts(t)
<1>1. Len(t) \in Nat /\ BaseLen \in Nat
  BY Widths
<1>2. CASE Len(t) < BaseLen
  BY <1>1, <1>2 DEF TraceParent, Accepts
<1>3. CASE Len(t) >= BaseLen
  <2> DEFINE rules  == TraceParentRules(t)
             broken == {i \in 1 .. Len(rules) : ~ rules[i].holds}
  <2>1. Len(rules) = 10
    BY DEF TraceParentRules
  <2>2. Accepts(t) <=> \A i \in 1 .. 10 : rules[i].holds
    <3>1. (\A i \in 1 .. 10 : rules[i].holds) <=>
             /\ rules[1].holds /\ rules[2].holds /\ rules[3].holds /\ rules[4].holds
             /\ rules[5].holds /\ rules[6].holds /\ rules[7].holds /\ rules[8].holds
             /\ rules[9].holds /\ rules[10].holds
      OBVIOUS
    <3>2. /\ rules[1].holds = (\A i \in Delimiters : t[i] = "-")
          /\ rules[2].holds = IsLowerHex(Version(t))
          /\ rules[3].holds = (Version(t) # <<"f", "f">>)
          /\ rules[4].holds = (Version(t) = <<"0", "0">> => Len(t) = BaseLen)
          /\ rules[5].holds =
               (Version(t) # <<"0", "0">> /\ Len(t) > BaseLen => t[BaseLen + 1] = "-")
          /\ rules[6].holds = IsLowerHex(TraceId(t))
          /\ rules[7].holds = (~ IsZero(TraceId(t)))
          /\ rules[8].holds = IsLowerHex(ParentId(t))
          /\ rules[9].holds = (~ IsZero(ParentId(t)))
          /\ rules[10].holds = IsLowerHex(TraceFlags(t))
      BY DEF TraceParentRules
    <3> HIDE DEF rules
    <3>3. QED
      BY <1>3, <3>1, <3>2 DEF Accepts
  <2>3. \A i \in 1 .. 10 : rules[i].error # "Ok"
    BY DEF TraceParentRules
  <2>4. TraceParent(t) =
          IF (IF broken # {} THEN Min(broken) ELSE 0) = 0 THEN "Ok"
          ELSE rules[IF broken # {} THEN Min(broken) ELSE 0].error
    BY <1>1, <1>3 DEF TraceParent, SelectInSeq
  <2>5. broken = {i \in 1 .. 10 : ~ rules[i].holds}
    BY <2>1
  <2> HIDE DEF rules, broken
  <2>6. broken \subseteq Nat /\ 0 \notin broken /\ broken \subseteq 1 .. 10
    BY <2>5
  <2>7. broken # {} => Min(broken) \in broken
    BY <2>6, Least
  <2>8. TraceParent(t) = "Ok" <=> broken = {}
    BY <2>3, <2>4, <2>6, <2>7
  <2>9. QED
    BY <2>2, <2>5, <2>8
<1>4. QED
  BY <1>1, <1>2, <1>3

LEMMA Fields ==
    ASSUME NEW t \in Seq(STRING), NEW a \in Nat, NEW b \in Nat, b <= Len(t) + 1
    PROVE  /\ Between(t, a, b) \in Seq(STRING)
           /\ Len(Between(t, a, b)) = IF a + 1 <= b - 1 THEN b - a - 1 ELSE 0
<1>1. a + 1 \in Int /\ b - 1 \in Int /\ Len(t) \in Nat
  OBVIOUS
<1>2. \A i \in a + 1 .. b - 1 : t[i] \in STRING
  <2>1. \A i \in a + 1 .. b - 1 : i \in 1 .. Len(t)
    BY <1>1
  <2>2. QED
    BY <2>1
<1>3. /\ SubSeq(t, a + 1, b - 1) \in Seq(STRING)
      /\ Len(SubSeq(t, a + 1, b - 1))
           = IF a + 1 <= b - 1 THEN (b - 1) - (a + 1) + 1 ELSE 0
  BY <1>1, <1>2, SubSeqProperties
<1>4. QED
  BY <1>3 DEF Between

LEMMA FieldLength ==
    ASSUME NEW t \in Seq(STRING), NEW a \in Nat, NEW b \in Nat, b <= Len(t) + 1,
           NEW n \in Nat, n > 0
    PROVE  /\ Len(Between(t, a, b)) = n => b = a + n + 1
           /\ b = a + n + 1 => Len(Between(t, a, b)) = n
<1>1. Len(Between(t, a, b)) = IF a + 1 <= b - 1 THEN b - a - 1 ELSE 0
  BY Fields
<1>2. PICK l : l = Len(Between(t, a, b))
  OBVIOUS
<1>3. l = IF a + 1 <= b - 1 THEN b - a - 1 ELSE 0
  BY <1>1, <1>2
<1>4. (l = n => b = a + n + 1) /\ (b = a + n + 1 => l = n)
  BY <1>3
<1>5. QED
  BY <1>2, <1>4

\* Where the parser looks is between the hyphens it demands.
LEMMA FieldsRead ==
    ASSUME NEW t
    PROVE  /\ Version(t)    = Between(t, 0, 3)
           /\ TraceId(t)    = Between(t, 3, TraceIdLen + 4)
           /\ ParentId(t)   = Between(t, TraceIdLen + 4, TraceIdLen + ParentIdLen + 5)
           /\ TraceFlags(t) = Between(t, TraceIdLen + ParentIdLen + 5, TraceIdLen + ParentIdLen + 8)
<1>1. /\ 0 + 1 = 1 /\ 3 - 1 = 2 /\ 3 + 1 = 4
      /\ (TraceIdLen + 4) - 1 = TraceIdLen + 3 /\ (TraceIdLen + 4) + 1 = TraceIdLen + 5
      /\ (TraceIdLen + ParentIdLen + 5) - 1 = TraceIdLen + ParentIdLen + 4
      /\ (TraceIdLen + ParentIdLen + 5) + 1 = BaseLen - 1
      /\ (TraceIdLen + ParentIdLen + 8) - 1 = BaseLen
  BY Widths DEF BaseLen
<1>2. QED
  BY <1>1 DEF Version, TraceId, ParentId, TraceFlags, Between

LEMMA Nonzero ==
    ASSUME NEW x \in Seq(STRING)
    PROVE  ~ IsZero(x) <=> \E i \in 1 .. Len(x) : x[i] # "0"
  BY DEF IsZero, ToSet

\* A text is accepted exactly if it is one of the grammar, and the trace id is the
\* grammar's; no text is one in two ways.
LEMMA Grammar ==
    ASSUME NEW t \in Seq(STRING)
    PROVE  /\ \A a, b \in Hyphens(t) : IsTraceIdOf(t, a, b) =>
                 TraceParent(t) = "Ok" /\ a = 3 /\ b = TraceIdLen + 4
           /\ TraceParent(t) = "Ok" =>
                 /\ {3, TraceIdLen + 4} \subseteq Hyphens(t)
                 /\ IsTraceIdOf(t, 3, TraceIdLen + 4)
<1>1. Len(t) \in Nat /\ DOMAIN t = 1 .. Len(t)
  OBVIOUS
<1>2. \A i \in Hyphens(t) : i \in 1 .. Len(t) /\ t[i] = "-"
  BY <1>1 DEF Hyphens
<1>3. PICK j \in Nat, k \in Nat :
        j = TraceIdLen + 4 /\ k = TraceIdLen + ParentIdLen + 5
  BY Widths
<1>4. /\ TraceIdLen \in Nat /\ TraceIdLen > 0 /\ ParentIdLen \in Nat /\ ParentIdLen > 0
      /\ BaseLen = k + 2
  BY <1>3, Widths DEF BaseLen
<1>5. TraceIdLen + ParentIdLen + 8 = k + 3
  BY <1>3, <1>4
<1>6. /\ Version(t) = Between(t, 0, 3) /\ TraceId(t) = Between(t, 3, j)
      /\ ParentId(t) = Between(t, j, k) /\ TraceFlags(t) = Between(t, k, k + 3)
  <2>1. /\ Version(t)    = Between(t, 0, 3)
        /\ TraceId(t)    = Between(t, 3, TraceIdLen + 4)
        /\ ParentId(t)   = Between(t, TraceIdLen + 4, TraceIdLen + ParentIdLen + 5)
        /\ TraceFlags(t)
             = Between(t, TraceIdLen + ParentIdLen + 5, TraceIdLen + ParentIdLen + 8)
    BY FieldsRead
  <2>2. QED
    BY <1>3, <1>5, <2>1
<1>7. Delimiters = {3, j, k}
  BY <1>3 DEF Delimiters
<1>8. ASSUME NEW a \in Hyphens(t), NEW b \in Hyphens(t), IsTraceIdOf(t, a, b)
      PROVE  TraceParent(t) = "Ok" /\ a = 3 /\ b = j
  <2>1. PICK c \in Hyphens(t), d \in Hyphens(t) \cup {Len(t) + 1} :
          /\ HexField(Between(t, 0, a), 2) /\ Between(t, 0, a) # <<"f", "f">>
          /\ SomeHexField(Between(t, a, b), TraceIdLen)
          /\ SomeHexField(Between(t, b, c), ParentIdLen)
          /\ HexField(Between(t, c, d), 2)
          /\ Between(t, 0, a) = <<"0", "0">> => d = Len(t) + 1
    BY <1>8 DEF IsTraceIdOf
  <2>2. /\ a \in 1 .. Len(t) /\ b \in 1 .. Len(t) /\ c \in 1 .. Len(t) /\ d \in 1 .. Len(t) + 1
        /\ t[a] = "-" /\ t[b] = "-" /\ t[c] = "-" /\ (d # Len(t) + 1 => t[d] = "-")
    BY <1>1, <1>2
  <2>3. /\ Len(Between(t, 0, a)) = 2 /\ Len(Between(t, a, b)) = TraceIdLen
        /\ Len(Between(t, b, c)) = ParentIdLen /\ Len(Between(t, c, d)) = 2
    BY <2>1 DEF HexField, SomeHexField
  <2>4. /\ a \in Nat /\ b \in Nat /\ c \in Nat /\ d \in Nat /\ 0 \in Nat
        /\ a <= Len(t) + 1 /\ b <= Len(t) + 1 /\ c <= Len(t) + 1 /\ d <= Len(t) + 1
    BY <1>1, <2>2
  <2>5. a = 3
    <3>1. PICK n \in Nat, z \in Nat : n = 2 /\ z = 0
      OBVIOUS
    <3>2. n > 0 /\ Len(Between(t, z, a)) = n
      BY <2>3, <3>1
    <3>3. a = z + n + 1
      BY <2>4, <3>2, FieldLength
    <3>4. QED
      BY <3>1, <3>3
  <2>6. b = j
    <3>1. b = a + TraceIdLen + 1
      BY <1>4, <2>3, <2>4, FieldLength
    <3>2. QED
      BY <1>3, <1>4, <2>5, <3>1
  <2>7. c = k
    <3>1. c = b + ParentIdLen + 1
      BY <1>4, <2>3, <2>4, FieldLength
    <3>2. QED
      BY <1>3, <1>4, <2>6, <3>1
  <2>8. d = k + 3
    <3>1. PICK n \in Nat : n = 2
      OBVIOUS
    <3>2. n > 0 /\ Len(Between(t, c, d)) = n
      BY <2>3, <3>1
    <3>3. d = c + n + 1
      BY <2>4, <3>2, FieldLength
    <3>4. QED
      BY <2>7, <3>1, <3>3
  <2>9. Accepts(t)
    <3>1. /\ Between(t, 0, 3) = Version(t) /\ Between(t, 3, j) = TraceId(t)
          /\ Between(t, j, k) = ParentId(t) /\ Between(t, k, k + 3) = TraceFlags(t)
      BY <1>6
    <3>2. Len(t) >= BaseLen /\ BaseLen + 1 = d /\ (d = Len(t) + 1 => Len(t) = BaseLen)
      <4>1. PICK n \in Nat : n = Len(t)
        BY <1>1
      <4>2. k + 3 \in 1 .. n + 1 /\ (k + 3 = n + 1 => n = k + 2) /\ n >= k + 2
        <5>1. d \in 1 .. n + 1
          BY <2>2, <4>1
        <5>2. k + 3 \in 1 .. n + 1
          BY <2>8, <5>1
        <5>3. k \in Int
          BY <1>3
        <5>4. QED
          BY <4>1, <5>2, <5>3
      <4>3. QED
        BY <1>3, <1>4, <2>8, <4>1, <4>2
    <3>3. \A i \in Delimiters : t[i] = "-"
      BY <1>7, <2>2, <2>5, <2>6, <2>7
    <3>4. /\ IsLowerHex(Version(t)) /\ Version(t) # <<"f", "f">>
          /\ IsLowerHex(TraceId(t)) /\ IsLowerHex(ParentId(t)) /\ IsLowerHex(TraceFlags(t))
          /\ (Version(t) = <<"0", "0">> => d = Len(t) + 1)
      BY <2>1, <2>5, <2>6, <2>7, <2>8, <3>1 DEF HexField, SomeHexField, IsLowerHex
    <3>5. ~ IsZero(TraceId(t))
      <4>1. Between(t, a, b) \in Seq(STRING)
        BY <2>4, Fields
      <4>2. \E i \in 1 .. Len(Between(t, a, b)) : Between(t, a, b)[i] # "0"
        BY <2>1, <2>3 DEF SomeHexField
      <4>3. ~ IsZero(Between(t, a, b))
        BY <4>1, <4>2, Nonzero
      <4>4. QED
        BY <2>5, <2>6, <3>1, <4>3
    <3>6. ~ IsZero(ParentId(t))
      <4>1. Between(t, b, c) \in Seq(STRING)
        BY <2>4, Fields
      <4>2. \E i \in 1 .. Len(Between(t, b, c)) : Between(t, b, c)[i] # "0"
        BY <2>1, <2>3 DEF SomeHexField
      <4>3. ~ IsZero(Between(t, b, c))
        BY <4>1, <4>2, Nonzero
      <4>4. QED
        BY <2>6, <2>7, <3>1, <4>3
    <3>7. Len(t) > BaseLen => t[BaseLen + 1] = "-"
      <4>1. d \in 1 .. Len(t) + 1 /\ BaseLen \in Nat
        BY <2>2, Widths
      <4>2. Len(t) > BaseLen => d # Len(t) + 1
        <5>1. PICK n \in Nat, m \in Nat : n = Len(t) /\ m = BaseLen
          BY <1>1, Widths
        <5>2. m + 1 = d /\ (d = n + 1 => n = m)
          BY <3>2, <5>1
        <5>3. QED
          BY <5>1, <5>2
      <4>3. QED
        BY <2>2, <3>2, <4>2
    <3>8. QED
      BY <3>2, <3>3, <3>4, <3>5, <3>6, <3>7 DEF Accepts
  <2>10. QED
    BY <2>5, <2>6, <2>9, Parsed
<1>9. ASSUME TraceParent(t) = "Ok"
      PROVE  {3, j} \subseteq Hyphens(t) /\ IsTraceIdOf(t, 3, j)
  <2>1. Accepts(t)
    BY <1>9, Parsed
  <2>2. /\ Len(t) >= BaseLen /\ \A i \in {3, j, k} : t[i] = "-"
        /\ IsLowerHex(Version(t)) /\ Version(t) # <<"f", "f">>
        /\ IsLowerHex(TraceId(t)) /\ ~ IsZero(TraceId(t))
        /\ IsLowerHex(ParentId(t)) /\ ~ IsZero(ParentId(t)) /\ IsLowerHex(TraceFlags(t))
        /\ Version(t) = <<"0", "0">> => Len(t) = BaseLen
        /\ Version(t) # <<"0", "0">> /\ Len(t) > BaseLen => t[BaseLen + 1] = "-"
    BY <1>7, <2>1 DEF Accepts
  <2>3. /\ 3 \in 1 .. Len(t) /\ j \in 1 .. Len(t) /\ k \in 1 .. Len(t)
        /\ k + 3 \in 1 .. Len(t) + 1 /\ BaseLen + 1 = k + 3
    <3>1. PICK n \in Nat : n = Len(t)
      BY <1>1
    <3>2. n >= k + 2 /\ k > j /\ j > 3
      BY <1>3, <1>4, <2>2, <3>1
    <3>3. QED
      BY <1>3, <1>4, <3>1, <3>2
  <2>4. {3, j, k} \subseteq Hyphens(t)
    BY <1>1, <2>2, <2>3 DEF Hyphens
  <2>5. /\ 0 \in Nat /\ 3 \in Nat /\ k + 3 \in Nat
        /\ 3 <= Len(t) + 1 /\ j <= Len(t) + 1 /\ k <= Len(t) + 1 /\ k + 3 <= Len(t) + 1
    BY <1>1, <2>3
  <2>6. /\ Between(t, 0, 3) \in Seq(STRING) /\ Len(Between(t, 0, 3)) = 2
        /\ Between(t, 3, j) \in Seq(STRING) /\ Len(Between(t, 3, j)) = TraceIdLen
        /\ Between(t, j, k) \in Seq(STRING) /\ Len(Between(t, j, k)) = ParentIdLen
        /\ Between(t, k, k + 3) \in Seq(STRING) /\ Len(Between(t, k, k + 3)) = 2
    <3>1. /\ Between(t, 0, 3) \in Seq(STRING) /\ Between(t, 3, j) \in Seq(STRING)
          /\ Between(t, j, k) \in Seq(STRING) /\ Between(t, k, k + 3) \in Seq(STRING)
      BY <2>5, Fields
    <3>2. PICK n \in Nat, z \in Nat : n = 2 /\ z = 0
      OBVIOUS
    <3>3. /\ n > 0 /\ 3 = z + n + 1 /\ k + 3 = k + n + 1
          /\ j = 3 + TraceIdLen + 1 /\ k = j + ParentIdLen + 1
      BY <1>3, <1>4, <3>2
    <3>4. Len(Between(t, z, 3)) = n
      BY <2>5, <3>3, FieldLength
    <3>5. Len(Between(t, 3, j)) = TraceIdLen
      BY <1>4, <2>5, <3>3, FieldLength
    <3>6. Len(Between(t, j, k)) = ParentIdLen
      BY <1>4, <2>5, <3>3, FieldLength
    <3>7. Len(Between(t, k, k + 3)) = n
      BY <2>5, <3>3, FieldLength
    <3>8. QED
      BY <3>1, <3>2, <3>4, <3>5, <3>6, <3>7
  <2>7. SomeHexField(Between(t, 3, j), TraceIdLen) /\ SomeHexField(Between(t, j, k), ParentIdLen)
    <3>1. \E i \in 1 .. Len(Between(t, 3, j)) : Between(t, 3, j)[i] # "0"
      BY <1>6, <2>2, <2>6, Nonzero
    <3>2. \E i \in 1 .. Len(Between(t, j, k)) : Between(t, j, k)[i] # "0"
      BY <1>6, <2>2, <2>6, Nonzero
    <3>3. QED
      BY <1>6, <2>2, <2>6, <3>1, <3>2 DEF SomeHexField, HexField, IsLowerHex
  <2>8. HexField(Between(t, 0, 3), 2) /\ HexField(Between(t, k, k + 3), 2)
    BY <1>6, <2>2, <2>6 DEF HexField, IsLowerHex
  <2>9. k + 3 \in Hyphens(t) \cup {Len(t) + 1}
    <3>1. CASE Len(t) = BaseLen
      BY <2>3, <3>1
    <3>2. CASE Len(t) # BaseLen
      <4>1. Len(t) > BaseLen
        <5>1. PICK n \in Nat, m \in Nat : n = Len(t) /\ m = BaseLen
          BY <1>1, Widths
        <5>2. n >= m /\ n # m
          BY <2>2, <3>2, <5>1
        <5>3. QED
          BY <5>1, <5>2
      <4>2. t[k + 3] = "-"
        BY <2>2, <2>3, <3>2, <4>1
      <4>3. k + 3 \in 1 .. Len(t)
        BY <1>1, <2>3, <4>1, Widths
      <4>4. QED
        BY <1>1, <4>2, <4>3 DEF Hyphens
    <3>3. QED
      BY <3>1, <3>2
  <2>10. Between(t, 0, 3) = <<"0", "0">> => k + 3 = Len(t) + 1
    BY <1>6, <2>2, <2>3
  <2>11. Between(t, 0, 3) # <<"f", "f">>
    BY <1>6, <2>2
  <2>12. QED
    BY <2>4, <2>7, <2>8, <2>9, <2>10, <2>11 DEF IsTraceIdOf
<1>10. QED
  BY <1>3, <1>8, <1>9

\* A nonempty set of naturals with a bound has a greatest element.
LEMMA Greatest ==
    ASSUME NEW n \in Nat, NEW T, T \subseteq 0 .. n, T # {}
    PROVE  Max(T) \in T /\ \A y \in T : y <= Max(T)
<1> DEFINE R == {n - x : x \in T}
<1>1. R \subseteq Nat /\ R # {}
  <2>1. \A x \in T : x \in Nat /\ x <= n
    OBVIOUS
  <2>2. \A x \in T : n - x \in Nat
    BY <2>1
  <2>3. QED
    BY <2>2
<1>2. Min(R) \in R /\ \A y \in R : Min(R) <= y
  BY <1>1, Least
<1>3. PICK x \in T : Min(R) = n - x
  BY <1>2
<1>4. \A y \in T : n - x <= n - y
  BY <1>2, <1>3
<1>5. x \in T /\ \A y \in T : x >= y
  BY <1>4
<1>6. PICK m : m = Max(T)
  OBVIOUS
<1>7. m \in T /\ \A y \in T : m >= y
  BY <1>5, <1>6 DEF Max
<1>8. \A y \in T : y <= m
  BY <1>7
<1>9. QED
  BY <1>6, <1>7, <1>8

\* Trimming cuts nothing but blanks and leaves none at either end.
LEMMA Trimming ==
    ASSUME NEW value \in Seq(STRING)
    PROVE  /\ Trim(value) \in Seq(STRING)
           /\ \/ Trim(value) = <<>> /\ \A k \in 1 .. Len(value) : value[k] \in Blanks
              \/ \E i, j \in 1 .. Len(value) :
                   /\ Trim(value) = SubSeq(value, i, j) /\ i <= j
                   /\ value[i] \notin Blanks /\ value[j] \notin Blanks
                   /\ \A k \in 1 .. Len(value) : k < i \/ k > j => value[k] \in Blanks
<1> DEFINE ink == {i \in DOMAIN value : value[i] \notin Blanks}
<1>1. Len(value) \in Nat /\ DOMAIN value = 1 .. Len(value)
  OBVIOUS
<1>2. ink \subseteq 1 .. Len(value) /\ \A i \in ink : value[i] \notin Blanks
  BY <1>1
<1>3. Trim(value) = IF ink = {} THEN <<>> ELSE SubSeq(value, Min(ink), Max(ink))
  BY DEF Trim
<1>4. \A k \in 1 .. Len(value) : k \notin ink => value[k] \in Blanks
  BY <1>1
<1> HIDE DEF ink
<1>5. CASE ink = {}
  BY <1>3, <1>4, <1>5
<1>6. CASE ink # {}
  <2>1. ink \subseteq Nat /\ ink \subseteq 0 .. Len(value)
    BY <1>1, <1>2
  <2>2. PICK i \in ink : i = Min(ink) /\ \A y \in ink : i <= y
    BY <1>6, <2>1, Least
  <2>3. PICK j \in ink : j = Max(ink) /\ \A y \in ink : y <= j
    BY <1>1, <1>6, <2>1, Greatest
  <2>4. i \in 1 .. Len(value) /\ j \in 1 .. Len(value) /\ i <= j
    BY <1>2, <2>2
  <2>5. Trim(value) = SubSeq(value, i, j)
    BY <1>3, <1>6, <2>2, <2>3
  <2>6. \A k \in 1 .. Len(value) : k < i \/ k > j => value[k] \in Blanks
    BY <1>4, <2>2, <2>3, <2>4
  <2>7. SubSeq(value, i, j) \in Seq(STRING)
    <3>1. i \in Int /\ j \in Int /\ \A k \in i .. j : k \in 1 .. Len(value)
      BY <1>1, <2>4
    <3>2. \A k \in i .. j : value[k] \in STRING
      BY <3>1
    <3>3. QED
      BY <3>1, <3>2, SubSeqProperties
  <2>8. value[i] \notin Blanks /\ value[j] \notin Blanks
    BY <1>2
  <2>9. QED
    BY <2>4, <2>5, <2>6, <2>7, <2>8
<1>7. QED
  BY <1>5, <1>6

\* The id read from a header is the one it states, and none is read from a header
\* that states none.
LEMMA ReadIsStated ==
    ASSUME NEW ids, NEW name \in DOMAIN ids, ids[name] \in Seq(STRING)
    PROVE  IdsStated(name, ids[name]) = IF IdIn(ids, name) = NoId THEN {} ELSE {IdIn(ids, name)}
<1> DEFINE value == ids[name]
           text  == Trim(value)
<1>1. text \in Seq(STRING)
  BY Trimming
<1>2. CASE ~ IsString(value)
  BY <1>2 DEF IdsStated, IdIn
<1>3. CASE IsString(value) /\ name = "traceparent"
  <2> DEFINE pairs == {q \in Hyphens(text) \X Hyphens(text) : IsTraceIdOf(text, q[1], q[2])}
  <2>1. IdsStated(name, value) = {Between(text, p[1], p[2]) : p \in pairs}
    BY <1>3 DEF IdsStated
  <2>2. IdIn(ids, name) = IF TraceParent(text) = "Ok" THEN TraceId(text) ELSE NoId
    BY <1>3 DEF IdIn
  <2> HIDE DEF text
  <2>3. TraceId(text) = Between(text, 3, TraceIdLen + 4)
    BY FieldsRead
  <2>4. CASE TraceParent(text) # "Ok"
    <3>1. pairs = {}
      BY <1>1, <2>4, Grammar
    <3>2. QED
      BY <2>1, <2>2, <2>4, <3>1
  <2>5. CASE TraceParent(text) = "Ok"
    <3>1. {3, TraceIdLen + 4} \subseteq Hyphens(text) /\ IsTraceIdOf(text, 3, TraceIdLen + 4)
      BY <1>1, <2>5, Grammar
    <3>2. \A a, b \in Hyphens(text) : IsTraceIdOf(text, a, b) => a = 3 /\ b = TraceIdLen + 4
      BY <1>1, Grammar
    <3>3. pairs = {<<3, TraceIdLen + 4>>}
      BY <3>1, <3>2
    <3>4. IdsStated(name, value) = {TraceId(text)}
      <4>1. PICK q : q = <<3, TraceIdLen + 4>>
        OBVIOUS
      <4>2. q[1] = 3 /\ q[2] = TraceIdLen + 4 /\ pairs = {q}
        BY <3>3, <4>1
      <4> HIDE DEF pairs
      <4>3. {Between(text, p[1], p[2]) : p \in pairs} = {Between(text, q[1], q[2])}
        BY <4>2
      <4>4. QED
        BY <2>1, <2>3, <4>2, <4>3
    <3>5. SomeHexField(Between(text, 3, TraceIdLen + 4), TraceIdLen)
      BY <3>1 DEF IsTraceIdOf
    <3>6. Len(TraceId(text)) # 0
      BY <2>3, <3>5, Widths DEF SomeHexField, HexField
    <3>7. TraceId(text) # NoId
      BY <3>6 DEF NoId
    <3>8. QED
      BY <2>2, <2>5, <3>4, <3>7
  <2>6. QED
    BY <2>4, <2>5
<1>4. CASE IsString(value) /\ name # "traceparent"
  <2>1. IdsStated(name, value) = {x \in {text} : IsValidCorrelationId(x)}
    BY <1>4 DEF IdsStated
  <2>2. IdIn(ids, name) = IF IsValidCorrelationId(text) THEN text ELSE NoId
    BY <1>4 DEF IdIn
  <2>3. ~ IsValidCorrelationId(NoId)
    BY DEF IsValidCorrelationId, NoId
  <2>4. QED
    BY <2>1, <2>2, <2>3
<1>5. QED
  BY <1>2, <1>3, <1>4

\* extract_from_headers stops at the first header it reads an id from.
LEMMA FirstOfChain ==
    ASSUME NEW ids
    PROVE  \/ /\ ExtractFromHeaders(ids) = NoId
              /\ \A i \in DOMAIN HeaderChain : IdIn(ids, HeaderChain[i]) = NoId
           \/ \E i \in DOMAIN HeaderChain :
                /\ ExtractFromHeaders(ids) = IdIn(ids, HeaderChain[i])
                /\ IdIn(ids, HeaderChain[i]) # NoId
                /\ \A j \in 1 .. i - 1 : IdIn(ids, HeaderChain[j]) = NoId
<1> DEFINE reads == {i \in 1 .. Len(HeaderChain) : IdIn(ids, HeaderChain[i]) # NoId}
<1>1. Len(HeaderChain) \in Nat /\ DOMAIN HeaderChain = 1 .. Len(HeaderChain)
  BY CorrelationAssumption
<1>2. PICK k : k = IF reads # {} THEN Min(reads) ELSE 0
  OBVIOUS
<1>3. ExtractFromHeaders(ids) = IF k = 0 THEN NoId ELSE IdIn(ids, HeaderChain[k])
  BY <1>2 DEF ExtractFromHeaders, SelectInSeq
<1>4. CASE reads = {}
  BY <1>1, <1>2, <1>3, <1>4
<1>5. CASE reads # {}
  <2>1. reads \subseteq Nat /\ 0 \notin reads
    BY <1>1
  <2>2. Min(reads) \in reads /\ \A y \in reads : Min(reads) <= y
    BY <1>5, <2>1, Least
  <2>3. k \in reads /\ \A y \in reads : k <= y
    BY <1>2, <1>5, <2>2
  <2>4. k \in 1 .. Len(HeaderChain) /\ IdIn(ids, HeaderChain[k]) # NoId
    BY <2>3
  <2>5. \A j \in 1 .. k - 1 : IdIn(ids, HeaderChain[j]) = NoId
    <3>1. \A j \in 1 .. k - 1 : j \in 1 .. Len(HeaderChain) /\ ~ (k <= j)
      BY <1>1, <2>4
    <3>2. QED
      BY <2>3, <3>1
  <2>6. k # 0
    BY <2>4
  <2>7. QED
    BY <1>1, <1>3, <2>4, <2>5, <2>6
<1>6. QED
  BY <1>4, <1>5

\* So the id of a request is the one its first well-formed header states.
Texts(ids) == \A h \in DOMAIN ids : ids[h] \in Seq(STRING)

Stated(ids, i) ==
    IF HeaderChain[i] \in DOMAIN ids THEN IdsStated(HeaderChain[i], ids[HeaderChain[i]]) ELSE {}

LEMMA FirstStated ==
    ASSUME NEW ids, Texts(ids)
    PROVE  \/ ExtractFromHeaders(ids) = NoId /\ \A i \in DOMAIN HeaderChain : Stated(ids, i) = {}
           \/ \E i \in DOMAIN HeaderChain :
                /\ Stated(ids, i) = {ExtractFromHeaders(ids)}
                /\ \A j \in 1 .. i - 1 : Stated(ids, j) = {}
<1>1. ASSUME NEW i \in DOMAIN HeaderChain
      PROVE  Stated(ids, i) =
               IF IdIn(ids, HeaderChain[i]) = NoId THEN {} ELSE {IdIn(ids, HeaderChain[i])}
  <2> DEFINE name == HeaderChain[i]
  <2>1. CASE name \in DOMAIN ids
    BY <2>1, ReadIsStated DEF Texts, Stated
  <2>2. CASE name \notin DOMAIN ids
    BY <2>2 DEF Stated, IdIn
  <2>3. QED
    BY <2>1, <2>2
<1>2. \A i \in DOMAIN HeaderChain : \A j \in 1 .. i - 1 : j \in DOMAIN HeaderChain
  <2>1. Len(HeaderChain) \in Nat /\ DOMAIN HeaderChain = 1 .. Len(HeaderChain)
    BY CorrelationAssumption
  <2>2. QED
    BY <2>1
<1>3. QED
  BY <1>1, <1>2, FirstOfChain

-----------------------------------------------------------------------------
(* The inductive invariant. *)

\* A message its sender could build.
Built(s) ==
    \E key \in Keys :
        \/ \E c \in Requests : NewServiceRequest(c) = Fine /\ s = ServiceMessage(key, c)
        \/ \E t \in OAuthTries : OAuthBuilt(key, t) /\ s = OAuthMessage(key, t)
        \/ \E body \in Callbacks : s = CallbackMessage(key, body)

\* a is s after one fault that changed it, or after none.
Arrived(a, s) ==
    /\ a = [wire |-> Altered(s.wire, a.fault), origin |-> s, fault |-> a.fault]
    /\ a.fault = NoFault \/ (a.wire # s.wire /\ a.fault \in Faults)

\* v is what the handler of its kind makes of m.
Judged(v, m) ==
    /\ v = [adapter |-> v.adapter, readable |-> v.readable, error |-> v.error]
    /\ v.adapter \in Adapters /\ v.readable \in BOOLEAN
    /\ m.kind # "oauth" => v.readable
    /\ m.kind # "service" => v.adapter = "axum"
    /\ v.error = CASE m.kind = "service" -> VerifyRequest(Secret, v.adapter, m)
                   [] m.kind = "oauth"   -> VerifyOAuth(Secret, v.readable, m)
                   [] OTHER              -> VerifyBody(Secret, m)

\* The answer is the proxy's page or what the responder made of a response the
\* server can mean, whatever its payload said when it was asked again.
Answered(r, type, answer) ==
    \E json \in {r.payload} \cup {p.again : p \in Payloads} :
        /\ Given(r, type, json)
        /\ answer = Page \/ answer = Respond(r, json)

SentInv   == /\ IsFiniteSet(sent) /\ Cardinality(sent) <= MaxSent
             /\ \A s \in sent : Built(s)
FlightInv == IF phase \in {"arrived", "judged"}
             THEN \E s \in sent : Arrived(arriving, s)
             ELSE arriving = NoArrival
SpanInv   == span = IF phase \in {"arrived", "judged"} THEN ExtractFromHeaders(arriving.wire.ids)
                    ELSE NoId
JudgedInv == IF phase = "judged" THEN Judged(verdict, arriving.wire) ELSE verdict = NoVerdict
AnswerInv == IF phase \in {"answered", "read"}
             THEN Answered(meant.response, meant.type, reply)
             ELSE meant = NoResponse /\ reply = Page
ReadInv   == got = IF phase = "read" THEN Deserialize(meant.type, reply.body) ELSE Undecoded

IInv ==
    /\ phase \in {"idle", "arrived", "judged", "answered", "read"}
    /\ SentInv /\ FlightInv /\ SpanInv /\ JudgedInv /\ AnswerInv /\ ReadInv

LEMMA Initially == Init => IInv
<1>1. IsFiniteSet({}) /\ Cardinality({}) = 0
  BY FS_EmptySet
<1>2. QED
  BY <1>1, SnapExchangeAssumption
     DEF Init, IInv, SentInv, FlightInv, SpanInv, JudgedInv, AnswerInv, ReadInv

LEMMA SendKeeps ==
    ASSUME IInv, NEW message, Built(message), Send(message)
    PROVE  IInv'
<1> USE DEF IInv, Send
<1>1. SentInv'
  <2>1. IsFiniteSet(sent) /\ Cardinality(sent) \in Nat
    BY FS_CardinalityType DEF SentInv
  <2>2. /\ IsFiniteSet(sent \cup {message})
        /\ Cardinality(sent \cup {message}) \in {Cardinality(sent), Cardinality(sent) + 1}
    BY <2>1, FS_AddElement
  <2>3. Cardinality(sent \cup {message}) <= MaxSent
    BY <2>1, <2>2, SnapExchangeAssumption DEF SentInv
  <2>4. \A s \in sent \cup {message} : Built(s)
    BY DEF SentInv
  <2>5. QED
    BY <2>2, <2>3, <2>4 DEF SentInv, Built
<1>2. FlightInv' /\ SpanInv' /\ JudgedInv' /\ AnswerInv' /\ ReadInv'
  BY DEF FlightInv, SpanInv, JudgedInv, AnswerInv, ReadInv
<1>3. QED
  BY <1>1, <1>2

LEMMA DeliverKeeps ==
    ASSUME IInv, NEW s \in sent, NEW f \in Faults \cup {NoFault}, Deliver(s, f)
    PROVE  IInv'
<1> USE DEF IInv, Deliver
<1>1. SentInv'
  BY DEF SentInv
<1>2. FlightInv'
  <2>1. Arrived(arriving', s)
    BY DEF Arrived
  <2>2. QED
    BY <2>1 DEF FlightInv, Arrived
<1>3. SpanInv' /\ JudgedInv' /\ AnswerInv' /\ ReadInv'
  BY DEF SpanInv, JudgedInv, AnswerInv, ReadInv
<1>4. QED
  BY <1>1, <1>2, <1>3

LEMMA VerifyKeeps ==
    ASSUME IInv, NEW adapter \in Adapters, NEW readable \in BOOLEAN, Verify(adapter, readable)
    PROVE  IInv'
<1> USE DEF IInv
<1>1. SentInv' /\ FlightInv' /\ SpanInv'
  BY DEF Verify, SentInv, FlightInv, SpanInv
<1>2. Judged(verdict', arriving.wire)
  BY DEF Verify, Judged
<1>3. JudgedInv'
  BY <1>2 DEF Verify, JudgedInv
<1>4. AnswerInv' /\ ReadInv'
  BY DEF Verify, AnswerInv, ReadInv
<1>5. QED
  BY <1>1, <1>3, <1>4 DEF Verify

LEMMA AnswerKeeps ==
    ASSUME IInv, NEW r, NEW type, NEW json, Answer(r, type, json),
           json \in {r.payload} \cup {p.again : p \in Payloads}, Given(r, type, json)
    PROVE  IInv'
<1> USE DEF IInv, Answer
<1>1. SentInv'
  BY DEF SentInv
<1>2. FlightInv' /\ SpanInv' /\ JudgedInv' /\ ReadInv'
  BY DEF FlightInv, SpanInv, JudgedInv, ReadInv
<1>3. AnswerInv'
  <2>1. meant'.response = r /\ meant'.type = type /\ reply' = Respond(r, json)
    OBVIOUS
  <2>2. Answered(r, type, reply')
    BY <2>1 DEF Answered
  <2>3. Answered(meant'.response, meant'.type, reply')
    BY <2>1, <2>2
  <2>4. QED
    BY <2>3 DEF AnswerInv, Answered
<1>4. QED
  BY <1>1, <1>2, <1>3

\* Which response the server means is one of those it can build or pass on.
LEMMA AnswersGiven ==
    ASSUME IInv, NEW service \in Services,
           \/ Refuse(service)
           \/ \E p \in Payloads, case \in {0, 5} : Succeed(p, service, case)
           \/ \E class \in ErrorClasses : Fail(class, service)
    PROVE  IInv'
<1>1. ASSUME Refuse(service) PROVE IInv'
  <2> DEFINE class == CryptoErrorClass(verdict.error)
             r     == Failure(class, service)
  <2>1. class \in ErrorClasses
    BY ClassParts DEF CryptoErrorClass
  <2>2. Given(r, "struct", r.payload)
    BY <2>1 DEF Given
  <2>3. Answer(r, "struct", r.payload)
    BY <1>1 DEF Refuse
  <2>4. QED
    BY <2>2, <2>3, AnswerKeeps
<1>2. ASSUME NEW p \in Payloads, NEW case \in {0, 5}, Succeed(p, service, case) PROVE IInv'
  <2> DEFINE r == IF PayloadError(p.json) = "Ok" THEN SuccessWithCase(p.json, service, case)
                  ELSE Failure(InternalServerError, service)
  <2>1. Given(r, p.type, p.again)
    <3>1. CASE PayloadError(p.json) = "Ok"
      BY <3>1 DEF Given
    <3>2. CASE PayloadError(p.json) # "Ok"
      BY <3>2, ClassParts DEF Given
    <3>3. QED
      BY <3>1, <3>2
  <2>2. Answer(r, p.type, p.again)
    BY <1>2 DEF Succeed
  <2>3. p.again \in {q.again : q \in Payloads}
    OBVIOUS
  <2>4. QED
    BY <2>1, <2>2, <2>3, AnswerKeeps
<1>3. ASSUME NEW class \in ErrorClasses, Fail(class, service) PROVE IInv'
  <2> DEFINE r == Failure(class, service)
  <2>1. Given(r, "struct", r.payload)
    BY DEF Given
  <2>2. Answer(r, "struct", r.payload)
    BY <1>3 DEF Fail
  <2>3. QED
    BY <2>1, <2>2, AnswerKeeps
<1>4. QED
  BY <1>1, <1>2, <1>3

LEMMA RelayKeeps ==
    ASSUME IInv, NEW type, NEW body \in Upstreams, Relay(type, body)
    PROVE  IInv'
<1> DEFINE r == Deserialize(type, body)
<1>1. r # Undecoded /\ Answer(r, type, r.payload)
  BY DEF Relay
<1>2. Given(r, type, r.payload)
  BY <1>1 DEF Given
<1>3. QED
  BY <1>1, <1>2, AnswerKeeps

LEMMA Inductive == IInv /\ [Next]_vars => IInv'
<1> SUFFICES ASSUME IInv, [Next]_vars PROVE IInv'
  OBVIOUS
<1>1. ASSUME NEW key \in Keys, NEW c \in Requests, SignServiceRequest(key, c) PROVE IInv'
  <2>1. Built(ServiceMessage(key, c))
    BY <1>1 DEF Built, SignServiceRequest
  <2>2. QED
    BY <1>1, <2>1, SendKeeps DEF SignServiceRequest
<1>2. ASSUME NEW key \in Keys, NEW t \in OAuthTries, SignOAuth(key, t) PROVE IInv'
  <2>1. Built(OAuthMessage(key, t))
    BY <1>2 DEF Built, SignOAuth, OAuthBuilt
  <2>2. QED
    BY <1>2, <2>1, SendKeeps DEF SignOAuth
<1>3. ASSUME NEW key \in Keys, NEW body \in Callbacks, CallBack(key, body) PROVE IInv'
  <2>1. Built(CallbackMessage(key, body))
    BY DEF Built
  <2>2. QED
    BY <1>3, <2>1, SendKeeps DEF CallBack
<1>4. ASSUME NEW s \in sent, NEW f \in Faults \cup {NoFault}, Deliver(s, f) PROVE IInv'
  BY <1>4, DeliverKeeps
<1>5. ASSUME NEW adapter \in Adapters, NEW readable \in BOOLEAN, Verify(adapter, readable)
      PROVE  IInv'
  BY <1>5, VerifyKeeps
<1>6. ASSUME NEW service \in Services,
             \/ Refuse(service)
             \/ \E p \in Payloads, case \in {0, 5} : Succeed(p, service, case)
             \/ \E class \in ErrorClasses : Fail(class, service)
      PROVE  IInv'
  BY <1>6, AnswersGiven
<1>7. ASSUME NEW type, NEW body \in Upstreams, Relay(type, body) PROVE IInv'
  BY <1>7, RelayKeeps
<1>8. CASE LoseAnswer
  <2>1. SentInv' /\ FlightInv' /\ SpanInv' /\ JudgedInv' /\ ReadInv'
    BY <1>8 DEF IInv, LoseAnswer, SentInv, FlightInv, SpanInv, JudgedInv, ReadInv
  <2>2. AnswerInv'
    BY <1>8 DEF IInv, LoseAnswer, AnswerInv, Answered
  <2>3. QED
    BY <1>8, <2>1, <2>2 DEF IInv, LoseAnswer
<1>9. CASE Read
  BY <1>9 DEF IInv, Read, SentInv, FlightInv, SpanInv, JudgedInv, AnswerInv, ReadInv
<1>10. CASE Close
  BY <1>10 DEF IInv, Close, SentInv, FlightInv, SpanInv, JudgedInv, AnswerInv, ReadInv
<1>11. CASE UNCHANGED vars
  BY <1>11 DEF IInv, vars, SentInv, FlightInv, SpanInv, JudgedInv, AnswerInv, ReadInv
<1>12. QED
  BY <1>1, <1>2, <1>3, <1>4, <1>5, <1>6, <1>7, <1>8, <1>9, <1>10, <1>11 DEF Next

\* Every message was built by its sender, what arrives is one of them after one
\* fault, a verdict is the verifier's on it, and an answer the responder's.
THEOREM Invariance == Spec => []IInv
<1>1. QED
  BY Initially, Inductive, PTL DEF Spec

-----------------------------------------------------------------------------
(* What the invariant says of the answers. *)

LEMMA AnswersFaithful ==
    ASSUME NEW r, NEW type, NEW answer, Answered(r, type, answer)
    PROVE  /\ answer = Page \/ Faithful(r, type, answer)
           /\ r.class \in ErrorClasses \cup {NoClass}
<1>1. PICK json : Given(r, type, json) /\ (answer = Page \/ answer = Respond(r, json))
  BY DEF Answered
<1>2. Faithful(r, type, Respond(r, json)) /\ r.class \in ErrorClasses \cup {NoClass}
  BY <1>1, GivenFaithful
<1>3. QED
  BY <1>1, <1>2

LEMMA Honest == IInv => HonestStatus
<1> SUFFICES ASSUME IInv, phase = "answered", reply # Page
             PROVE  LET code == reply.body.code
                    IN  /\ reply.status = IF IsValidResponseCode(code) THEN Http(code) ELSE 500
                        /\ reply.status \in 200 .. 299 =>
                             Deserialize(meant.type, reply.body).state = "Success"
  BY DEF HonestStatus
<1>1. Answered(meant.response, meant.type, reply)
  BY DEF IInv, AnswerInv
<1>2. Faithful(meant.response, meant.type, reply)
  BY <1>1, AnswersFaithful
<1>3. QED
  BY <1>2 DEF Faithful

LEMMA Written == IInv => ReadAsWritten
<1> SUFFICES ASSUME IInv, phase = "read", reply # Page
             PROVE  \/ got = meant.response
                    \/ /\ meant.response.state = "Success"
                       /\ got = Failure(InternalServerError, Service(meant.response.code))
                    \/ Emptied(meant.response, meant.type, got)
  BY DEF ReadAsWritten, Emptied
<1>1. Answered(meant.response, meant.type, reply)
  BY DEF IInv, AnswerInv
<1>2. Faithful(meant.response, meant.type, reply)
  BY <1>1, AnswersFaithful
<1>3. got = Deserialize(meant.type, reply.body)
  BY DEF IInv, ReadInv
<1>4. QED
  BY <1>2, <1>3 DEF Faithful

-----------------------------------------------------------------------------
(* What it says of the verdicts. *)

LEMMA ErrorsMade ==
    \A l \in Layers, k \in Kinds, n \in Names : Err(l, k, n) \in Errors
<1> SUFFICES ASSUME NEW l \in Layers, NEW k \in Kinds, NEW n \in Names PROVE Err(l, k, n) \in Errors
  OBVIOUS
<1>1. Err(l, k, n) \in {Err(x, y, z) : x \in Layers, y \in Kinds, z \in Names}
  OBVIOUS
<1>2. QED
  BY <1>1 DEF Errors

LEMMA ErrorsClosed ==
    ASSUME NEW a \in Errors, NEW b \in Errors
    PROVE  Then(a, b) \in Errors
BY DEF Then

LEMMA ErrorsOf ==
    /\ \A fails, e : e \in Errors => Reject(fails, e) \in Errors
    /\ \A kind \in {"UnsupportedScheme", "InvalidSeparator", "MissingCredential", "InvalidCredential"} :
          Authorization(kind) \in Errors
    /\ \A kind \in {"InvalidTimestamp", "QueryOrFragment", "InvalidPath", "EmptyHeaderValue",
                    "InvalidHeaderValue"} :
          Input(kind, "") \in Errors /\ Input(kind, "X-CLIENT-KEY") \in Errors
    /\ \A kind \in {"InvalidSignatureEncoding", "InvalidSignatureLength", "SignatureMismatch"} :
          Verification(kind, "") \in Errors
    /\ \A kind \in {"InvalidPublicKey", "SignatureDecode", "InvalidRawSignature",
                    "AsymmetricVerifyFailed", "SymmetricVerifyFailed"} :
          Crypto(kind, "") \in Errors
    /\ \A m : \A name \in {"Authorization", "X-SIGNATURE", "X-TIMESTAMP", "X-CLIENT-KEY", "X-Signature"},
                 layer \in {"verification", "crypto"} :
          HeaderStr(m, name, layer) \in Errors
<1>1. \A fails, e : e \in Errors => Reject(fails, e) \in Errors
  <2>1. Fine \in Errors
    BY DEF Errors
  <2>2. QED
    BY <2>1 DEF Reject
<1>2. \A kind \in {"UnsupportedScheme", "InvalidSeparator", "MissingCredential", "InvalidCredential"} :
         Authorization(kind) \in Errors
  BY ErrorsMade DEF Authorization, Layers, Kinds, Names
<1>3. \A kind \in {"InvalidTimestamp", "QueryOrFragment", "InvalidPath", "EmptyHeaderValue",
                   "InvalidHeaderValue"} :
         Input(kind, "") \in Errors /\ Input(kind, "X-CLIENT-KEY") \in Errors
  BY ErrorsMade DEF Input, Layers, Kinds, Names
<1>4. \A kind \in {"InvalidSignatureEncoding", "InvalidSignatureLength", "SignatureMismatch"} :
         Verification(kind, "") \in Errors
  BY ErrorsMade DEF Verification, Layers, Kinds, Names
<1>5. \A kind \in {"InvalidPublicKey", "SignatureDecode", "InvalidRawSignature",
                   "AsymmetricVerifyFailed", "SymmetricVerifyFailed"} :
         Crypto(kind, "") \in Errors
  BY ErrorsMade DEF Crypto, Layers, Kinds, Names
<1>6. ASSUME NEW m, NEW layer \in {"verification", "crypto"},
             NEW name \in {"Authorization", "X-SIGNATURE", "X-TIMESTAMP", "X-CLIENT-KEY", "X-Signature"}
      PROVE  HeaderStr(m, name, layer) \in Errors
  <2>1. Err(layer, "MissingHeader", name) \in Errors /\ Err(layer, "InvalidHeader", name) \in Errors
    BY ErrorsMade DEF Layers, Kinds, Names
  <2>2. QED
    BY <2>1, <1>1, ErrorsClosed DEF HeaderStr
<1>7. QED
  BY <1>1, <1>2, <1>3, <1>4, <1>5, <1>6

\* A verifier fails with an error the adapters can answer for.
LEMMA ErrorsOfVerifiers ==
    ASSUME NEW m, NEW adapter, NEW readable
    PROVE  /\ VerifyRequest(Secret, adapter, m) \in Errors
           /\ VerifyOAuth(Secret, readable, m) \in Errors
           /\ VerifyBody(Secret, m) \in Errors
<1>1. \A credential : FromCredential(credential) \in Errors
  BY ErrorsOf, ErrorsClosed DEF FromCredential
<1>2. \A text : AccessToken(text) \in Errors
  <2> SUFFICES ASSUME NEW text PROVE AccessToken(text) \in Errors
    OBVIOUS
  <2>1. PICK a, b, c, d, e :
          /\ a = Reject(FirstSpace(text) = 0, Authorization("InvalidSeparator"))
          /\ b = Reject(Scheme(text) \notin {<<"Bearer">>, <<"bearer">>}, Authorization("UnsupportedScheme"))
          /\ c = Reject(Credential(text) = <<>>, Authorization("MissingCredential"))
          /\ d = Reject(ToSet(Credential(text)) \cap Whitespace # {}, Authorization("InvalidSeparator"))
          /\ e = FromCredential(Credential(text))
    OBVIOUS
  <2>2. a \in Errors /\ b \in Errors /\ c \in Errors /\ d \in Errors /\ e \in Errors
    BY <2>1, <1>1, ErrorsOf
  <2>3. Then(a, Then(b, Then(c, Then(d, e)))) \in Errors
    BY <2>2, ErrorsClosed
  <2>4. AccessToken(text) = Then(a, Then(b, Then(c, Then(d, e))))
    BY <2>1 DEF AccessToken
  <2>5. QED
    BY <2>3, <2>4
<1>3. \A path : CanonicalPath(path) \in Errors
  BY ErrorsOf, ErrorsClosed DEF CanonicalPath
<1>4. \A t : SnapTimestamp(t) \in Errors
  BY ErrorsOf DEF SnapTimestamp
<1>5. \A text : ValidateHeader("X-CLIENT-KEY", text) \in Errors
  BY ErrorsOf, ErrorsClosed DEF ValidateHeader
<1>6. VerifyRequest(Secret, adapter, m) \in Errors
  <2> DEFINE path == PathSeen(adapter, m)
             wire == HeaderText(m, "X-SIGNATURE")
  <2>1. PICK a, b, c, d, e :
          /\ a = CanonicalPath(path)
          /\ b = AccessToken(HeaderText(m, "Authorization"))
          /\ c = SnapTimestamp(HeaderText(m, "X-TIMESTAMP"))
          /\ d = Reject(~ IsBase64(wire), Verification("InvalidSignatureEncoding", ""))
          /\ e = Reject(SignatureSize(FromBase64(wire)) # HmacSize,
                        Verification("InvalidSignatureLength", ""))
    OBVIOUS
  <2>2. a \in Errors /\ b \in Errors /\ c \in Errors /\ d \in Errors /\ e \in Errors
    BY <2>1, <1>2, <1>3, <1>4, ErrorsOf
  <2>3. Then(a, Then(b, Then(c, Then(d, e)))) \in Errors
    BY <2>2, ErrorsClosed
  <2>4. ServiceRequestParts(m, path) = Then(a, Then(b, Then(c, Then(d, e))))
    BY <2>1 DEF ServiceRequestParts
  <2>5. PICK v, w, x, y, z :
          /\ v = HeaderStr(m, "X-SIGNATURE", "verification")
          /\ w = HeaderStr(m, "X-TIMESTAMP", "verification")
          /\ x = HeaderStr(m, "Authorization", "verification")
          /\ y = ServiceRequestParts(m, path)
          /\ z = VerifyServiceRequest(Secret, m, path)
    OBVIOUS
  <2>6. v \in Errors /\ w \in Errors /\ x \in Errors /\ y \in Errors /\ z \in Errors
    BY <2>3, <2>4, <2>5, ErrorsOf DEF VerifyServiceRequest
  <2>7. Then(v, Then(w, Then(x, Then(y, z)))) \in Errors
    BY <2>6, ErrorsClosed
  <2>8. VerifyRequest(Secret, adapter, m) = Then(v, Then(w, Then(x, Then(y, z))))
    BY <2>5 DEF VerifyRequest
  <2>9. QED
    BY <2>7, <2>8
<1>7. VerifyOAuth(Secret, readable, m) \in Errors
  <2> DEFINE wire   == HeaderText(m, "X-SIGNATURE")
             client == HeaderText(m, "X-CLIENT-KEY")
             at     == HeaderText(m, "X-TIMESTAMP")
  <2>1. PICK s, t, u, v, w, x, y, z :
          /\ s = Reject(~ readable, Crypto("InvalidPublicKey", ""))
          /\ t = HeaderStr(m, "X-CLIENT-KEY", "crypto")
          /\ u = HeaderStr(m, "X-TIMESTAMP", "crypto")
          /\ v = HeaderStr(m, "X-SIGNATURE", "crypto")
          /\ w = NewOAuthString(client, at)
          /\ x = SignatureFromBase64(wire)
          /\ y = Reject(SignatureSize(FromBase64(wire)) # RsaSize, Crypto("InvalidRawSignature", ""))
          /\ z = Reject(FromBase64(wire) # Rsa(Secret, OAuthString(client, at)),
                        Crypto("AsymmetricVerifyFailed", ""))
    OBVIOUS
  <2>2. /\ s \in Errors /\ t \in Errors /\ u \in Errors /\ v \in Errors
        /\ x \in Errors /\ y \in Errors /\ z \in Errors
    BY <2>1, ErrorsOf DEF SignatureFromBase64
  <2>3. w \in Errors
    BY <2>1, <1>4, <1>5, ErrorsClosed DEF NewOAuthString
  <2>4. Then(v, Then(w, Then(x, Then(y, z)))) \in Errors
    BY <2>2, <2>3, ErrorsClosed
  <2>5. Then(s, Then(t, Then(u, Then(v, Then(w, Then(x, Then(y, z))))))) \in Errors
    BY <2>2, <2>4, ErrorsClosed
  <2>6. VerifyOAuth(Secret, readable, m)
           = Then(s, Then(t, Then(u, Then(v, Then(w, Then(x, Then(y, z)))))))
    BY <2>1 DEF VerifyOAuth
  <2>7. QED
    BY <2>5, <2>6
<1>8. VerifyBody(Secret, m) \in Errors
  BY ErrorsOf, ErrorsClosed DEF VerifyBody, SignatureFromBase64
<1>9. QED
  BY <1>6, <1>7, <1>8

\* What a verdict on a message of each kind says of its sender and of its fault.
Right(s, a, v) ==
    /\ v.error = Fine => s.key = Secret /\ s.signed = ArrivedParts(a.wire)
    /\ s.key = Secret /\ v.readable /\ s.signed = ArrivedParts(s.wire)
       /\ Harmless(a.fault, v.adapter) => v.error = Fine
    /\ v.error # Fine =>
          CryptoErrorClass(v.error)
             = IF ~ v.readable THEN InternalServerError
               ELSE IF \/ a.fault.kind \in {"drop", "garble"}
                          /\ a.fault.name \in {"X-TIMESTAMP", "X-CLIENT-KEY"}
                       \/ a.fault.kind = "time"
                       \/ a.fault.kind = "query" /\ v.adapter = "actix_path"
               THEN BadRequest ELSE Unauthorized

LEMMA RightService ==
    ASSUME NEW key \in Keys, NEW c \in Requests, NewServiceRequest(c) = Fine,
           NEW s, s = ServiceMessage(key, c), NEW a, Arrived(a, s), NEW v, Judged(v, a.wire)
    PROVE  Right(s, a, v)
<1>1. PICK f, m, adapter : f = a.fault /\ m = a.wire /\ adapter = v.adapter
  OBVIOUS
<1>2. a.wire = Altered(s.wire, a.fault)
  BY DEF Arrived
<1>3. ServiceArrival(key, c, f, m)
  BY <1>1, <1>2 DEF Arrived, ServiceArrival
<1>4. m.kind = "service" /\ (f.kind \in {"drop", "garble"} => f.name # "X-CLIENT-KEY")
  BY <1>3, ServiceLands DEF ServiceLanded
<1>5. v.error = VerifyRequest(Secret, adapter, m) /\ v.readable
  BY <1>1, <1>4 DEF Judged
<1>6. s.key = key /\ s.signed = ServiceParts(c)
  BY DEF ServiceMessage
<1>7. v.error = Fine => key = Secret /\ ServiceParts(c) = ArrivedParts(m)
  BY <1>3, <1>5, ServiceSound
<1>8. LET bad == \/ f.kind \in {"drop", "garble"} /\ f.name = "X-TIMESTAMP"
                 \/ f.kind = "time"
                 \/ f.kind = "query" /\ adapter = "actix_path"
      IN  /\ Blames(v.error, IF bad THEN BadRequest ELSE Unauthorized)
          /\ key = Secret /\ Harmless(f, adapter) => v.error = Fine
  BY <1>3, <1>5, ServiceJudged
<1>9. QED
  BY <1>1, <1>4, <1>5, <1>6, <1>7, <1>8 DEF Right, Blames

LEMMA RightOAuth ==
    ASSUME NEW key \in Keys, NEW t \in OAuthTries, OAuthBuilt(key, t),
           NEW s, s = OAuthMessage(key, t), NEW a, Arrived(a, s), NEW v, Judged(v, a.wire)
    PROVE  Right(s, a, v)
<1>1. PICK f, m, readable : f = a.fault /\ m = a.wire /\ readable = v.readable
  OBVIOUS
<1>2. a.wire = Altered(s.wire, a.fault)
  BY DEF Arrived
<1>3. OAuthArrival(key, t, f, m)
  BY <1>1, <1>2 DEF Arrived, OAuthArrival
<1>4. m.kind = "oauth"
  BY <1>3, OAuthLands DEF OAuthLanded
<1>5. /\ v.error = VerifyOAuth(Secret, readable, m) /\ v.adapter = "axum" /\ readable \in BOOLEAN
  BY <1>1, <1>4 DEF Judged
<1>6. s.key = key /\ s.signed = <<t.client, t.signed>>
  BY DEF OAuthMessage
<1>7. ArrivedParts(m) = <<HeaderText(m, "X-CLIENT-KEY"), HeaderText(m, "X-TIMESTAMP")>>
  BY <1>4 DEF ArrivedParts
<1>8. s.signed = ArrivedParts(s.wire) => t.signed = t.header
  <2>1. /\ HeaderText(s.wire, "X-CLIENT-KEY") = t.client /\ HeaderText(s.wire, "X-TIMESTAMP") = t.header
        /\ s.wire.kind = "oauth"
    BY DEF OAuthMessage, HeaderText, OAuthHeaders
  <2>2. ArrivedParts(s.wire) = <<t.client, t.header>>
    BY <2>1 DEF ArrivedParts
  <2>3. QED
    BY <1>6, <2>2
<1>9. LET bad == \/ f.kind \in {"drop", "garble"} /\ f.name \in {"X-TIMESTAMP", "X-CLIENT-KEY"}
                 \/ f.kind = "time"
      IN  /\ v.error = Fine => /\ key = Secret /\ t.client = HeaderText(m, "X-CLIENT-KEY")
                               /\ t.signed = HeaderText(m, "X-TIMESTAMP")
          /\ ~ readable => Denies(v.error, InternalServerError)
          /\ readable => Blames(v.error, IF bad THEN BadRequest ELSE Unauthorized)
          /\ key = Secret /\ readable /\ t.signed = t.header /\ Harmless(f, "axum")
             => v.error = Fine
  BY <1>3, <1>5, OAuthJudged
<1>10. v.error = Fine => s.key = Secret /\ s.signed = ArrivedParts(m)
  BY <1>6, <1>7, <1>9
<1>11. QED
  BY <1>1, <1>5, <1>6, <1>8, <1>9, <1>10 DEF Right, Blames, Denies

LEMMA RightCallback ==
    ASSUME NEW key \in Keys, NEW body \in Callbacks,
           NEW s, s = CallbackMessage(key, body), NEW a, Arrived(a, s), NEW v, Judged(v, a.wire)
    PROVE  Right(s, a, v)
<1>1. PICK f, m : f = a.fault /\ m = a.wire
  OBVIOUS
<1>2. a.wire = Altered(s.wire, a.fault)
  BY DEF Arrived
<1>3. CallbackArrival(key, body, f, m)
  BY <1>1, <1>2 DEF Arrived, CallbackArrival
<1>4. /\ m.kind = "callback" /\ f.kind # "time"
      /\ (f.kind \in {"drop", "garble"} => f.name = "X-Signature")
  <2>1. CallbackLanded(key, body, f, m)
    BY <1>3, CallbackLands
  <2>2. QED
    BY <2>1 DEF CallbackLanded
<1>5. v.error = VerifyBody(Secret, m) /\ v.adapter = "axum" /\ v.readable
  BY <1>1, <1>4 DEF Judged
<1>6. s.key = key /\ s.signed = <<<<body>>>>
  BY DEF CallbackMessage
<1>7. ArrivedParts(m) = <<<<m.body>>>>
  BY <1>4 DEF ArrivedParts
<1>8. /\ v.error = Fine => key = Secret /\ m.body = body
      /\ Blames(v.error, Unauthorized)
      /\ key = Secret /\ Harmless(f, "axum") => v.error = Fine
  BY <1>3, <1>5, CallbackJudged
<1>9. v.error = Fine => s.key = Secret /\ s.signed = ArrivedParts(m)
  BY <1>6, <1>7, <1>8
<1>10. QED
  BY <1>1, <1>4, <1>5, <1>6, <1>8, <1>9 DEF Right, Blames

LEMMA VerdictsRight ==
    ASSUME IInv, phase = "judged"
    PROVE  Right(arriving.origin, arriving, verdict)
<1>1. PICK s \in sent : Arrived(arriving, s)
  BY DEF IInv, FlightInv
<1>2. arriving.origin = s
  BY <1>1 DEF Arrived
<1>3. Judged(verdict, arriving.wire)
  BY DEF IInv, JudgedInv
<1>4. Built(s)
  BY DEF IInv, SentInv
<1>5. Right(s, arriving, verdict)
  BY <1>1, <1>3, <1>4, RightService, RightOAuth, RightCallback DEF Built
<1>6. QED
  BY <1>2, <1>5

-----------------------------------------------------------------------------
(* One signature, one reading. *)

\* One signature of one key covers what two messages of the kind were signed over.
LEMMA OneText ==
    ASSUME NEW key \in Letters, NEW s \in Strings, NEW t \in Strings
    PROVE  /\ Encode("base64", Hmac(key, s)) = Encode("base64", Hmac(key, t)) => s = t
           /\ Encode("base64", Rsa(key, s)) = Encode("base64", Rsa(key, t)) => s = t
<1>1. PICK hs, ht, rs, rt \in Strings : hs = Hmac(key, s) /\ ht = Hmac(key, t)
                                       /\ rs = Rsa(key, s) /\ rt = Rsa(key, t)
  <2>1. /\ Hmac(key, s) \in Strings /\ Hmac(key, t) \in Strings
        /\ Rsa(key, s) \in Strings /\ Rsa(key, t) \in Strings
    BY Signed
  <2>2. QED
    BY <2>1
<1>2. \A b \in Strings : FromBase64(Encode("base64", b)) = b
  BY Encoded
<1>3. (hs = ht => s = t) /\ (rs = rt => s = t)
  BY <1>1, Signed
<1>4. /\ Encode("base64", hs) = Encode("base64", ht) => hs = ht
      /\ Encode("base64", rs) = Encode("base64", rt) => rs = rt
  BY <1>2
<1>5. QED
  BY <1>1, <1>3, <1>4

LEMMA Once == IInv => OneReading
<1> SUFFICES ASSUME IInv, NEW a \in sent, NEW b \in sent,
                    a.wire.kind = b.wire.kind, a.key = b.key,
                    HeaderText(a.wire, Signature(a.wire)) = HeaderText(b.wire, Signature(b.wire))
             PROVE  a.signed = b.signed
  BY DEF OneReading
<1> DEFINE text(s) == HeaderText(s.wire, Signature(s.wire))
<1>1. Built(a) /\ Built(b)
  BY DEF IInv, SentInv
<1>2. \A k, c : LET s == ServiceMessage(k, c)
                IN  /\ s.wire.kind = "service" /\ s.key = k /\ s.signed = ServiceParts(c)
                    /\ text(s) = Encode("base64", Hmac(k, ServiceText(c)))
  BY DEF ServiceMessage, ServiceHeaders, HeaderText, Signature, ServiceText
<1>3. \A k, t : LET s == OAuthMessage(k, t)
                IN  /\ s.wire.kind = "oauth" /\ s.key = k /\ s.signed = <<t.client, t.signed>>
                    /\ text(s) = Encode("base64", OAuthBytes(k, t))
  <2> SUFFICES ASSUME NEW k, NEW t, NEW s, s = OAuthMessage(k, t)
               PROVE  /\ s.wire.kind = "oauth" /\ s.key = k /\ s.signed = <<t.client, t.signed>>
                      /\ text(s) = Encode("base64", OAuthBytes(k, t))
    OBVIOUS
  <2>1. /\ s.wire.kind = "oauth" /\ s.key = k /\ s.signed = <<t.client, t.signed>>
        /\ s.wire.headers = OAuthHeaders(t.client, t.header, OAuthSignature(k, t))
    BY DEF OAuthMessage
  <2>2. /\ "X-SIGNATURE" \in DOMAIN s.wire.headers
        /\ s.wire.headers["X-SIGNATURE"] = OAuthSignature(k, t)
    BY <2>1 DEF OAuthHeaders
  <2>3. text(s) = OAuthSignature(k, t)
    BY <2>1, <2>2 DEF HeaderText, Signature
  <2>4. QED
    BY <2>1, <2>3 DEF OAuthSignature, OAuthBytes
<1>4. \A k, body : LET s == CallbackMessage(k, body)
                   IN  /\ s.wire.kind = "callback" /\ s.key = k /\ s.signed = <<<<body>>>>
                       /\ text(s) = Encode("base64", Hmac(k, <<body>>))
  BY DEF CallbackMessage, HeaderText, Signature
<1>5. PICK key \in Keys :
        \/ \E c \in Requests : NewServiceRequest(c) = Fine /\ a = ServiceMessage(key, c)
        \/ \E t \in OAuthTries : OAuthBuilt(key, t) /\ a = OAuthMessage(key, t)
        \/ \E body \in Callbacks : a = CallbackMessage(key, body)
  BY <1>1 DEF Built
<1>6. PICK k2 \in Keys :
        \/ \E c \in Requests : NewServiceRequest(c) = Fine /\ b = ServiceMessage(k2, c)
        \/ \E t \in OAuthTries : OAuthBuilt(k2, t) /\ b = OAuthMessage(k2, t)
        \/ \E body \in Callbacks : b = CallbackMessage(k2, body)
  BY <1>1 DEF Built
<1>7. key = k2
  BY <1>2, <1>3, <1>4, <1>5, <1>6
<1>8. ASSUME NEW c \in Requests, NewServiceRequest(c) = Fine, a = ServiceMessage(key, c)
      PROVE  a.signed = b.signed
  <2>1. PICK d \in Requests : NewServiceRequest(d) = Fine /\ b = ServiceMessage(key, d)
    BY <1>2, <1>3, <1>4, <1>6, <1>7, <1>8
  <2>2. Encode("base64", Hmac(key, ServiceText(c))) = Encode("base64", Hmac(key, ServiceText(d)))
    BY <1>2, <1>8, <2>1
  <2>3. key \in Letters /\ ServiceText(c) \in Strings /\ ServiceText(d) \in Strings
    BY <1>8, <2>1, ServiceSent DEF Clean
  <2>4. ServiceText(c) = ServiceText(d)
    BY <2>2, <2>3, OneText
  <2>5. ASSUME NEW r \in Requests, NewServiceRequest(r) = Fine
        PROVE  Readable(r.method, r.path, r.credential, r.body, r.timestamp)
    <3>1. /\ r.method \in Letters /\ r.body \in DOMAIN BodyHash /\ r.path \in Strings
          /\ r.credential \in Strings /\ r.timestamp \in Strings /\ r.timestamp \in Instants
          /\ FromCredential(r.credential) = Fine
      BY <2>5, ServiceSent
    <3>2. ":" \notin ToSet(r.credential)
      BY <3>1, CredentialHolds
    <3>3. QED
      BY <3>1, <3>2 DEF Readable
  <2>6. /\ Readable(c.method, c.path, c.credential, c.body, c.timestamp)
        /\ Readable(d.method, d.path, d.credential, d.body, d.timestamp)
    BY <1>8, <2>1, <2>5
  <2>7. ServiceString(c.method, c.path, c.credential, c.body, c.timestamp)
           = ServiceString(d.method, d.path, d.credential, d.body, d.timestamp)
    BY <2>4 DEF ServiceText
  <2>8. /\ c.method = d.method /\ c.path = d.path /\ c.credential = d.credential
        /\ c.body = d.body /\ c.timestamp = d.timestamp
    BY <2>6, <2>7, ServiceStringReads
  <2>9. a.signed = ServiceParts(c) /\ b.signed = ServiceParts(d)
    BY <1>2, <1>8, <2>1
  <2>10. QED
    BY <2>8, <2>9 DEF ServiceParts
<1>9. ASSUME NEW t \in OAuthTries, OAuthBuilt(key, t), a = OAuthMessage(key, t)
      PROVE  a.signed = b.signed
  <2>1. PICK u \in OAuthTries : OAuthBuilt(key, u) /\ b = OAuthMessage(key, u)
    BY <1>2, <1>3, <1>4, <1>6, <1>7, <1>9
  <2>2. Encode("base64", OAuthBytes(key, t)) = Encode("base64", OAuthBytes(key, u))
    BY <1>3, <1>9, <2>1
  <2>3. /\ key \in Letters /\ t.signed \in Instants /\ u.signed \in Instants
        /\ t.client \in Strings /\ t.signed \in Strings /\ u.client \in Strings /\ u.signed \in Strings
        /\ OAuthString(t.client, t.signed) \in Strings /\ OAuthString(u.client, u.signed) \in Strings
    BY <1>9, <2>1, OAuthSent DEF Clean
  <2>4. OAuthString(t.client, t.signed) = OAuthString(u.client, u.signed)
    BY <2>2, <2>3, OneText DEF OAuthBytes
  <2>5. t.client = u.client /\ t.signed = u.signed
    BY <2>3, <2>4, OAuthStringReads
  <2>6. a.signed = <<t.client, t.signed>> /\ b.signed = <<u.client, u.signed>>
    BY <1>3, <1>9, <2>1
  <2>7. QED
    BY <2>5, <2>6
<1>10. ASSUME NEW body \in Callbacks, a = CallbackMessage(key, body)
       PROVE  a.signed = b.signed
  <2>1. PICK other \in Callbacks : b = CallbackMessage(key, other)
    BY <1>2, <1>3, <1>4, <1>6, <1>7, <1>10
  <2>2. Encode("base64", Hmac(key, <<body>>)) = Encode("base64", Hmac(key, <<other>>))
    BY <1>4, <1>10, <2>1
  <2>3. key \in Letters /\ <<body>> \in Strings /\ <<other>> \in Strings
    BY CallbackSent
  <2>4. <<body>> = <<other>>
    BY <2>2, <2>3, OneText
  <2>5. a.signed = <<<<body>>>> /\ b.signed = <<<<other>>>>
    BY <1>4, <1>10, <2>1
  <2>6. QED
    BY <2>4, <2>5
<1>11. QED
  BY <1>5, <1>8, <1>9, <1>10

-----------------------------------------------------------------------------
(* The theorems. *)

LEMMA Typed == IInv => TypeOK
<1> SUFFICES ASSUME IInv PROVE TypeOK
  OBVIOUS
<1>1. Cardinality(sent) <= MaxSent /\ phase \in {"idle", "arrived", "judged", "answered", "read"}
  BY DEF IInv, SentInv
<1>2. /\ phase \in {"arrived", "judged"} <=> arriving # NoArrival
      /\ arriving.origin \in sent \cup {NoMessage}
  <2>1. CASE phase \in {"arrived", "judged"}
    <3>1. PICK s \in sent : Arrived(arriving, s)
      BY <2>1 DEF IInv, FlightInv
    <3>2. arriving.origin = s /\ Built(s)
      BY <3>1 DEF Arrived, IInv, SentInv
    <3>3. s.wire.kind \in {"service", "oauth", "callback"}
      <4>1. /\ \A key, c : ServiceMessage(key, c).wire.kind = "service"
            /\ \A key, t : OAuthMessage(key, t).wire.kind = "oauth"
            /\ \A key, body : CallbackMessage(key, body).wire.kind = "callback"
        BY DEF ServiceMessage, OAuthMessage, CallbackMessage
      <4>2. QED
        BY <3>2, <4>1 DEF Built
    <3>4. NoArrival.origin.wire.kind = "none"
      BY DEF NoArrival, NoMessage, Blank
    <3>5. QED
      BY <2>1, <3>2, <3>3, <3>4
  <2>2. CASE phase \notin {"arrived", "judged"}
    <3>1. arriving = NoArrival
      BY <2>2 DEF IInv, FlightInv
    <3>2. NoArrival.origin = NoMessage
      BY DEF NoArrival
    <3>3. QED
      BY <2>2, <3>1, <3>2
  <2>3. QED
    BY <2>1, <2>2
<1>3. (phase = "judged" <=> verdict # NoVerdict) /\ verdict.error \in Errors
  <2>1. CASE phase = "judged"
    <3>1. Judged(verdict, arriving.wire)
      BY <2>1 DEF IInv, JudgedInv
    <3>2. verdict.adapter \in Adapters /\ verdict.error \in Errors
      BY <3>1, ErrorsOfVerifiers DEF Judged
    <3>3. NoVerdict.adapter \notin Adapters
      BY DEF NoVerdict, Adapters
    <3>4. QED
      BY <2>1, <3>2, <3>3
  <2>2. CASE phase # "judged"
    <3>1. verdict = NoVerdict
      BY <2>2 DEF IInv, JudgedInv
    <3>2. NoVerdict.error \in Errors
      BY DEF NoVerdict, Errors
    <3>3. QED
      BY <2>2, <3>1, <3>2
  <2>3. QED
    BY <2>1, <2>2
<1>4. meant.response.class \in ErrorClasses \cup {NoClass} /\ reply.status \in 100 .. 999
  <2>1. CASE phase \in {"answered", "read"}
    <3>1. Answered(meant.response, meant.type, reply)
      BY <2>1 DEF IInv, AnswerInv
    <3>2. /\ reply = Page \/ Faithful(meant.response, meant.type, reply)
          /\ meant.response.class \in ErrorClasses \cup {NoClass}
      BY <3>1, AnswersFaithful
    <3>3. Page.status \in 100 .. 999
      BY DEF Page
    <3>4. QED
      BY <3>2, <3>3 DEF Faithful
  <2>2. CASE phase \notin {"answered", "read"}
    <3>1. meant = NoResponse /\ reply = Page
      BY <2>2 DEF IInv, AnswerInv
    <3>2. NoResponse.response.class = NoClass /\ Page.status = 502
      BY DEF NoResponse, Undecoded, Response, Page
    <3>3. QED
      BY <3>1, <3>2
  <2>3. QED
    BY <2>1, <2>2
<1>5. got.state \in {"Undecoded", "Success", "Failure", "Malformed"}
  <2>1. Undecoded.state = "Undecoded"
    BY DEF Undecoded, Response
  <2>2. \A type, body : Deserialize(type, body).state
                           \in {"Undecoded", "Success", "Failure", "Malformed"}
    <3> SUFFICES ASSUME NEW type, NEW body
                 PROVE  Deserialize(type, body).state
                           \in {"Undecoded", "Success", "Failure", "Malformed"}
      OBVIOUS
    <3>1. \A state, code, message, payload, class :
             Response(state, code, message, payload, class).state = state
      BY DEF Response
    <3>2. PICK r : r = Deserialize(type, body)
      OBVIOUS
    <3>3. \/ r = Undecoded
          \/ \E state \in {"Success", "Failure", "Malformed"} : \E payload, class :
                r = Response(state, body.code, body.message, payload, class)
      BY <3>2, Readings
    <3>4. QED
      BY <2>1, <3>1, <3>2, <3>3
  <2>3. QED
    BY <2>1, <2>2 DEF IInv, ReadInv
<1>6. QED
  BY <1>1, <1>2, <1>3, <1>4, <1>5 DEF TypeOK

LEMMA Blameless == IInv => BlameIsRight
<1> SUFFICES ASSUME IInv, phase = "judged", verdict.error # Fine
             PROVE  CryptoErrorClass(verdict.error) = Blamed
  BY DEF BlameIsRight
<1>1. Right(arriving.origin, arriving, verdict)
  BY VerdictsRight
<1>2. QED
  BY <1>1 DEF Right, Blamed

LEMMA Judgement == IInv => VerifiedAsSent
<1> SUFFICES ASSUME IInv, phase = "judged"
             PROVE  LET o == arriving.origin
                    IN  /\ verdict.error = Fine =>
                             o.key = Secret /\ o.signed = ArrivedParts(arriving.wire)
                        /\ /\ o.key = Secret /\ verdict.readable
                           /\ o.signed = ArrivedParts(o.wire)
                           /\ Harmless(arriving.fault, verdict.adapter)
                           => verdict.error = Fine
  BY DEF VerifiedAsSent
<1>1. Right(arriving.origin, arriving, verdict)
  BY VerdictsRight
<1>2. QED
  BY <1>1 DEF Right

\* The headers of a message are texts, its sender's or a proxy's.
LEMMA IdsAreTexts ==
    ASSUME NEW s, Built(s), NEW f \in Faults \cup {NoFault}
    PROVE  Texts(Altered(s.wire, f).ids)
<1>1. \E k, t, p, q, b, h : s.wire = Wire(k, t, p, q, b, h, CallerIds)
  <2>1. \A k, t, p, q, b, h :
          Wire(k, t, p, q, b, h, CallerIds)
            = [kind |-> k, method |-> t, path |-> p, query |-> q, body |-> b, headers |-> h,
               ids |-> CallerIds]
    BY DEF Wire
  <2>2. ASSUME NEW key \in Keys, NEW c \in Requests
        PROVE  \E k, t, p, q, b, h :
                 ServiceMessage(key, c).wire = Wire(k, t, p, q, b, h, CallerIds)
    <3>1. PICK h : h = ServiceHeaders(key, c)
      OBVIOUS
    <3>2. ServiceMessage(key, c).wire
            = Wire("service", c.method, c.path, <<>>, c.body, h, CallerIds)
      BY <2>1, <3>1 DEF ServiceMessage
    <3>3. QED
      BY <3>2
  <2>3. ASSUME NEW key \in Keys, NEW t \in OAuthTries
        PROVE  \E k, tt, p, q, b, h :
                 OAuthMessage(key, t).wire = Wire(k, tt, p, q, b, h, CallerIds)
    <3>1. PICK h : h = OAuthHeaders(t.client, t.header, OAuthSignature(key, t))
      OBVIOUS
    <3>2. PICK path, none : path = <<"/", "token">> /\ none = <<>>
      OBVIOUS
    <3>3. OAuthMessage(key, t).wire
            = [kind |-> "oauth", method |-> "POST", path |-> path, query |-> none, body |-> "",
               ids |-> CallerIds, headers |-> h]
      BY <3>1, <3>2 DEF OAuthMessage
    <3>4. Wire("oauth", "POST", path, none, "", h, CallerIds)
            = [kind |-> "oauth", method |-> "POST", path |-> path, query |-> none, body |-> "",
               ids |-> CallerIds, headers |-> h]
      BY DEF Wire
    <3>5. QED
      BY <3>3, <3>4
  <2>4. ASSUME NEW key \in Keys, NEW body \in Callbacks
        PROVE  \E k, t, p, q, b, h :
                 CallbackMessage(key, body).wire = Wire(k, t, p, q, b, h, CallerIds)
    <3>1. PICK h : h = [n \in {"X-Signature"} |-> Encode("base64", Hmac(key, <<body>>))]
      OBVIOUS
    <3>2. CallbackMessage(key, body).wire
            = Wire("callback", "POST", <<"/", "hook">>, <<>>, body, h, CallerIds)
      BY <2>1, <3>1 DEF CallbackMessage
    <3>3. QED
      BY <3>2
  <2>5. QED
    BY <2>2, <2>3, <2>4 DEF Built
<1>2. PICK k, t, p, q, b, h : s.wire = Wire(k, t, p, q, b, h, CallerIds)
  BY <1>1
<1>3. PICK w, m : w = s.wire /\ m = Altered(w, f)
  OBVIOUS
<1>4. Landed(k, t, p, q, b, h, f, w, m)
  BY <1>2, <1>3, Landing
<1>5. w.ids = CallerIds
  BY <1>2, <1>3 DEF Wire
<1>6. m.ids = f.ids \/ m.ids = CallerIds
  BY <1>4, <1>5 DEF Landed
<1>7. Texts(CallerIds) /\ Texts(f.ids)
  <2>1. Texts(CallerIds)
    BY SnapExchangeAssumption DEF Texts
  <2>2. Texts(NoFault.ids)
    <3>1. NoFault.ids = <<>>
      BY DEF NoFault
    <3>2. PICK e \in Seq(STRING) : e = <<>>
      BY EmptySeq
    <3>3. Len(e) = 0 /\ DOMAIN e = 1 .. Len(e)
      BY <3>2
    <3>4. \A i \in DOMAIN e : FALSE
      BY <3>3
    <3>5. QED
      BY <3>1, <3>2, <3>4 DEF Texts
  <2>3. \A g \in Faults : Texts(g.ids)
    BY SnapExchangeAssumption DEF Texts
  <2>4. QED
    BY <2>1, <2>2, <2>3
<1>8. QED
  BY <1>3, <1>6, <1>7

LEMMA Named == IInv => SpanNamesTheCall
<1> SUFFICES ASSUME IInv, phase = "arrived" PROVE SpanNamesTheCall
  BY DEF SpanNamesTheCall
<1> DEFINE ids == arriving.wire.ids
<1>1. PICK s \in sent : Arrived(arriving, s) /\ Built(s)
  BY DEF IInv, FlightInv, SentInv
<1>2. PICK f \in Faults \cup {NoFault} : arriving.wire = Altered(s.wire, f)
  BY <1>1 DEF Arrived
<1>3. Texts(ids)
  BY <1>1, <1>2, IdsAreTexts
<1>4. span = ExtractFromHeaders(ids)
  BY DEF IInv, SpanInv
<1> HIDE DEF ids
<1>5. \/ span = NoId /\ \A i \in DOMAIN HeaderChain : Stated(ids, i) = {}
      \/ \E i \in DOMAIN HeaderChain :
           Stated(ids, i) = {span} /\ \A j \in 1 .. i - 1 : Stated(ids, j) = {}
  BY <1>3, <1>4, FirstStated
<1>6. QED
  BY <1>5 DEF SpanNamesTheCall, Stated, ids

\* The state of an exchange has its types: what the server has in hand is a
\* message somebody sent, and every error is one the adapters know.
THEOREM TypeCorrect == Spec => []TypeOK
<1>1. QED
  BY Invariance, Typed, PTL

\* Two messages of one kind under one key and one signature were signed over the
\* same parts, whatever colons their paths and timestamps hold.
THEOREM OneReadingHolds == Spec => []OneReading
<1>1. QED
  BY Invariance, Once, PTL

\* A verified message is, in every signed part, one the holder of the server's
\* secret signed, and every such message that met no harmful fault is verified.
THEOREM VerifiedMeansSent == Spec => []VerifiedAsSent
<1>1. QED
  BY Invariance, Judgement, PTL

\* A refusal has the class of what befell the message.
THEOREM RefusalsBlameTheFault == Spec => []BlameIsRight
<1>1. QED
  BY Invariance, Blameless, PTL

\* Status and body of an answer agree, and only a success is answered with 2xx.
THEOREM StatusesAreHonest == Spec => []HonestStatus
<1>1. QED
  BY Invariance, Honest, PTL

\* What the server meant is what the client reads.
THEOREM AnswersRoundTrip == Spec => []ReadAsWritten
<1>1. QED
  BY Invariance, Written, PTL

\* The root span carries the id that the first well-formed header of the chain
\* states, and none only when no header of it is well formed: for every header
\* value and both lengths, the parser's positions are the grammar's hyphens.
THEOREM SpansNameTheirCalls == Spec => []SpanNamesTheCall
<1>1. QED
  BY Invariance, Named, PTL
=============================================================================

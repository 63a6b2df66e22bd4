---------------------------- MODULE UnitAggProofs ----------------------------
(***************************************************************************)
(* For every table, every plan and every width: an undamaged parallel sum  *)
(* is exact.  The partials tile the scanned rows, so each accumulator is a *)
(* total over rows of its own, the last one the total over all of them.    *)
(***************************************************************************)
EXTENDS UnitAgg, FiniteSetTheorems, WellFoundedInduction, TLAPS

IsMoney(S) == \A r \in S : InDomain(table[r])

\* Only money was scanned into a partial.
MoneyInv ==
    /\ \A w \in Workers : IsMoney(rows[w])
    /\ \A m \in wire : IsMoney(m.rows)

\* No row is counted twice.
Disjoint ==
    /\ \A v, w \in working : v # w => rows[v] \cap rows[w] = {}
    /\ \A w \in working : rows[w] \cap unread = {}
    /\ \A m \in wire : m.rows \cap unread = {}
    /\ \A m \in wire, w \in working : m.rows \cap rows[w] = {}
    /\ \A m, n \in wire : m # n => m.rows \cap n.rows = {}

\* No row is lost while the query runs.
Cover ==
    answer = {} => \A r \in Rows :
      \/ r \in unread
      \/ \E w \in working : r \in rows[w]
      \/ \E m \in wire : r \in m.rows

\* What an undamaged query may answer: a term that is no money, or the one finish
\* makes of the exact total.
AnswerInv ==
    ~damaged => \A a \in answer :
      \/ \E r \in Rows : ~InDomain(table[r]) /\ a = OutOfDomain(table[r])
      \/ (\A r \in Rows : InDomain(table[r])) /\ a = FinishSum(Total[table][Rows])

IInv == TypeOK /\ MoneyInv /\ Disjoint /\ Cover /\ PartialsExact /\ AnswerInv

-----------------------------------------------------------------------------

\* The bytes of a partial spell it: from_le_bytes undoes to_le_bytes.
LEMMA Encoding ==
    ASSUME NEW a \in Wide
    PROVE  ToBytes(a) \in Bytes /\ FromBytes(ToBytes(a)) = a
  BY DomainAssumption DEF ToBytes, FromBytes, Bytes, Wide

\* Any 32 bytes are an accumulator (sum.rs:121-126).
LEMMA AnyBytes ==
    ASSUME NEW b \in Bytes
    PROVE  FromBytes(b) \in Wide
  BY DomainAssumption DEF FromBytes, Bytes, Wide

\* checked_add answers a sum inside I256 or no number at all.
LEMMA Adding ==
    ASSUME NEW a \in Wide, NEW b \in Wide
    PROVE  /\ CheckedAdd(a, b) \in Results
           /\ CheckedAdd(a, b).tag = "Ok" =>
                CheckedAdd(a, b).value \in Wide /\ CheckedAdd(a, b).value = a + b
           /\ CheckedAdd(a, b).tag # "Ok" => a + b \notin Wide
  BY DomainAssumption DEF CheckedAdd, Ok, ArithmeticOverflow, Results, Wide

\* A term enters only if it is money.
LEMMA AddingTerm ==
    ASSUME NEW a \in Wide, NEW u \in Narrow
    PROVE  /\ AddUnits(a, u) \in Results
           /\ AddUnits(a, u).tag = "Ok" =>
                /\ AddUnits(a, u).value \in Wide /\ AddUnits(a, u).value = a + u
                /\ InDomain(u)
           /\ AddUnits(a, u).tag # "Ok" =>
                \/ AddUnits(a, u) = OutOfDomain(u) /\ ~InDomain(u)
                \/ a + u \notin Wide /\ InDomain(u)
<1>1. u \in Wide
  BY DomainAssumption DEF Narrow, Wide
<1>2. CASE InDomain(u)
  BY <1>1, <1>2, Adding DEF AddUnits
<1>3. CASE ~InDomain(u)
  BY <1>3 DEF AddUnits, OutOfDomain, Results, Narrow
<1> QED BY <1>2, <1>3

\* finish loses nothing of the accumulator it is given.
LEMMA Finishing ==
    ASSUME NEW a \in Wide
    PROVE  /\ FinishSum(a) \in Results
           /\ \/ FinishSum(a) = Ok(a) /\ InDomain(a)
              \/ FinishSum(a) = OutOfDomain(a) /\ ~InDomain(a) /\ a \in Narrow
              \/ FinishSum(a) = WideOutOfDomain(ToBytes(a)) /\ a \notin Narrow
<1>1. a \in Int /\ ToBytes(a) \in Int
  BY Encoding, DomainAssumption DEF Wide, Bytes
<1>2. CASE a \notin Narrow
  <2>1. ~InDomain(a)
    BY <1>1, <1>2, DomainAssumption DEF InDomain, Narrow
  <2> QED BY <1>1, <1>2, <2>1 DEF FinishSum, WideOutOfDomain, Results
<1>3. CASE a \in Narrow /\ InDomain(a)
  BY <1>1, <1>3 DEF FinishSum, Ok, Results
<1>4. CASE a \in Narrow /\ ~InDomain(a)
  BY <1>1, <1>4 DEF FinishSum, OutOfDomain, Results
<1> QED BY <1>2, <1>3, <1>4

\* Totals over disjoint rows add up, and stay inside I256 if the rows are money.
LEMMA Totals ==
    ASSUME TypeOK, NEW S \in SUBSET Rows, NEW T \in SUBSET Rows, S \cap T = {}
    PROVE  /\ Total[table][S \cup T] = Total[table][S] + Total[table][T]
           /\ IsMoney(S) /\ IsMoney(T) => Total[table][S] + Total[table][T] \in Wide
<1>1. table \in Tables
  BY DEF TypeOK
<1>2. Total[table][S \cup T] = Total[table][S] + Total[table][T]
  BY SMTT(20), <1>1, UnitAggAssumption
<1>3. ASSUME IsMoney(S), IsMoney(T) PROVE Total[table][S \cup T] \in Wide
  <2>1. S \cup T \in SUBSET Rows /\ \A r \in S \cup T : InDomain(table[r])
    BY <1>3 DEF IsMoney
  <2> QED BY <1>1, <2>1, UnitAggAssumption
<1> QED BY <1>2, <1>3

-----------------------------------------------------------------------------

LEMMA InitInv == Init => IInv
<1> SUFFICES ASSUME Init PROVE IInv
  OBVIOUS
<1>1. TypeOK
  BY UnitAggAssumption, DomainAssumption DEF Init, TypeOK, Wide
<1>2. MoneyInv /\ Disjoint /\ Cover
  BY DEF Init, MoneyInv, IsMoney, Disjoint, Cover
<1>3. PartialsExact /\ AnswerInv
  BY UnitAggAssumption DEF Init, PartialsExact, AnswerInv
<1> QED BY <1>1, <1>2, <1>3 DEF IInv

LEMMA AccumulateInv ==
    ASSUME IInv, NEW w \in Workers, NEW r \in Rows, Accumulate(w, r)
    PROVE  IInv'
<1> USE DEF IInv
<1> DEFINE sum == AddUnits(acc[w], table[r])
<1>1. acc[w] \in Wide /\ table[r] \in Narrow /\ table \in Tables /\ table' = table
  BY UnitAggAssumption DEF TypeOK, Accumulate
<1>2. sum \in Results
  BY <1>1, AddingTerm
<1>3. {r} \cap rows[w] = {} /\ rows[w] \in SUBSET Rows /\ w \in working /\ r \in unread
  BY DEF Disjoint, TypeOK, Accumulate
<1>4. CASE sum.tag = "Ok"
  <2>1. /\ acc' = [acc EXCEPT ![w] = sum.value]
        /\ rows' = [rows EXCEPT ![w] = rows[w] \cup {r}]
        /\ answer' = answer /\ answer = {} /\ unread' = unread \ {r}
        /\ UNCHANGED <<table, working, wire, damaged>>
    BY <1>4 DEF Accumulate, Take
  <2>2. sum.value \in Wide /\ sum.value = acc[w] + table[r] /\ InDomain(table[r])
    BY <1>1, <1>4, AddingTerm
  <2>3. TypeOK'
    BY <2>1, <2>2, <1>1 DEF TypeOK
  <2>4. MoneyInv'
    BY <2>1, <2>2 DEF MoneyInv, IsMoney, TypeOK
  <2>5. Disjoint'
    BY <2>1, <1>3 DEF Disjoint, TypeOK
  <2>6. Cover'
    BY <2>1, <1>3 DEF Cover, TypeOK
  <2>7. PartialsExact'
    <3>1. Total[table][rows[w] \cup {r}] = Total[table][rows[w]] + table[r]
      <4>1. {r} \in SUBSET Rows /\ rows[w] \cap {r} = {}
        BY <1>3
      <4>2. Total[table][{r}] = table[r]
        BY <1>1, UnitAggAssumption
      <4>3. Total[table][rows[w] \cup {r}] = Total[table][rows[w]] + Total[table][{r}]
        BY ZenonT(30), <1>3, <4>1, Totals
      <4> QED BY <4>2, <4>3
    <3> QED BY <3>1, <2>1, <2>2 DEF PartialsExact, TypeOK
  <2>8. AnswerInv'
    BY <2>1 DEF AnswerInv
  <2> QED BY <2>3, <2>4, <2>5, <2>6, <2>7, <2>8
<1>5. CASE sum.tag # "Ok"
  <2>1. /\ answer' = {sum} /\ unread' = unread \ {r}
        /\ UNCHANGED <<table, acc, rows, working, wire, damaged>>
    BY <1>5 DEF Accumulate, Take
  <2>2. TypeOK' /\ MoneyInv' /\ Disjoint' /\ PartialsExact'
    BY <2>1, <1>2 DEF TypeOK, MoneyInv, IsMoney, Disjoint, PartialsExact
  <2>3. Cover'
    BY <2>1 DEF Cover
  <2>4. AnswerInv'
    <3> SUFFICES ASSUME ~damaged
                 PROVE  sum = OutOfDomain(table[r]) /\ ~InDomain(table[r])
      BY <2>1 DEF AnswerInv
    <3>1. acc[w] = Total[table][rows[w]] /\ table[r] = Total[table][{r}]
      BY <1>1, <1>3, UnitAggAssumption DEF PartialsExact
    <3>2. ASSUME InDomain(table[r]) PROVE acc[w] + table[r] \in Wide
      <4>1. {r} \in SUBSET Rows /\ rows[w] \cap {r} = {}
        BY <1>3
      <4>2. IsMoney(rows[w]) /\ IsMoney({r})
        BY <3>2 DEF MoneyInv, IsMoney
      <4> QED BY <1>3, <3>1, <4>1, <4>2, Totals
    <3> QED BY <3>2, <1>1, <1>5, AddingTerm
  <2> QED BY <2>2, <2>3, <2>4
<1> QED BY <1>4, <1>5

LEMMA SendInv ==
    ASSUME IInv, NEW w \in Workers, Send(w)
    PROVE  IInv'
<1> USE DEF IInv
<1> DEFINE m == [from |-> w, bytes |-> ToBytes(acc[w]), rows |-> rows[w]]
<1>1. /\ w \in working /\ w # Leader /\ working' = working \ {w}
      /\ wire' = wire \cup {m}
      /\ UNCHANGED <<table, unread, acc, damaged, answer, rows>>
  BY DEF Send
<1>2. acc[w] \in Wide /\ rows[w] \in SUBSET Rows
  BY DEF TypeOK
<1>3. m \in Partial /\ FromBytes(m.bytes) = acc[w] /\ m.rows = rows[w]
  BY <1>2, Encoding DEF Partial
<1>4. TypeOK'
  BY <1>1, <1>3 DEF TypeOK
<1>5. MoneyInv'
  BY <1>1, <1>3 DEF MoneyInv, IsMoney
<1>6. Disjoint'
  BY <1>1, <1>3 DEF Disjoint
<1>7. Cover'
  BY <1>1, <1>3 DEF Cover
<1>8. PartialsExact'
  BY <1>1, <1>3 DEF PartialsExact
<1>9. AnswerInv'
  BY <1>1 DEF AnswerInv
<1> QED BY <1>4, <1>5, <1>6, <1>7, <1>8, <1>9

LEMMA ReceiveInv ==
    ASSUME IInv, NEW w \in Workers, NEW m \in wire, Receive(w, m)
    PROVE  IInv'
<1> USE DEF IInv
<1> DEFINE sum == MergeSums(acc[w], FromBytes(m.bytes))
<1>1. /\ answer = {} /\ w \in working /\ wire' = wire \ {m}
      /\ UNCHANGED <<table, unread, working, damaged>>
  BY DEF Receive
<1>2. /\ acc[w] \in Wide /\ rows[w] \in SUBSET Rows /\ m.rows \in SUBSET Rows
      /\ FromBytes(m.bytes) \in Wide /\ table \in Tables
  BY AnyBytes DEF TypeOK, Partial
<1>3. rows[w] \cap m.rows = {}
  BY <1>1 DEF Disjoint
<1>4. /\ sum \in Results
      /\ sum.tag = "Ok" => sum.value \in Wide /\ sum.value = acc[w] + FromBytes(m.bytes)
      /\ sum.tag # "Ok" => acc[w] + FromBytes(m.bytes) \notin Wide
  BY <1>2, Adding DEF MergeSums
<1>5. ASSUME ~damaged
      PROVE  /\ acc[w] = Total[table][rows[w]]
             /\ FromBytes(m.bytes) = Total[table][m.rows]
             /\ Total[table][rows[w] \cup m.rows] = acc[w] + FromBytes(m.bytes)
             /\ acc[w] + FromBytes(m.bytes) \in Wide
  <2>1. /\ acc[w] = Total[table][rows[w]]
        /\ FromBytes(m.bytes) = Total[table][m.rows]
    BY <1>1, <1>5 DEF PartialsExact
  <2>2. IsMoney(rows[w]) /\ IsMoney(m.rows)
    BY DEF MoneyInv
  <2> QED BY <1>2, <1>3, <2>1, <2>2, Totals
<1>6. CASE sum.tag = "Ok"
  <2>1. /\ acc' = [acc EXCEPT ![w] = sum.value]
        /\ rows' = [rows EXCEPT ![w] = rows[w] \cup m.rows]
        /\ answer' = answer
    BY <1>6 DEF Receive, Take
  <2>2. TypeOK'
    BY <1>1, <1>2, <1>4, <1>6, <2>1 DEF TypeOK
  <2>3. MoneyInv'
    BY <1>1, <2>1 DEF MoneyInv, IsMoney, TypeOK
  <2>4. Disjoint'
    BY <1>1, <1>3, <2>1 DEF Disjoint, TypeOK
  <2>5. Cover'
    BY <1>1, <2>1 DEF Cover, TypeOK
  <2>6. PartialsExact'
    BY <1>1, <1>4, <1>5, <1>6, <2>1 DEF PartialsExact, TypeOK
  <2>7. AnswerInv'
    BY <1>1, <2>1 DEF AnswerInv
  <2> QED BY <2>2, <2>3, <2>4, <2>5, <2>6, <2>7
<1>7. CASE sum.tag # "Ok"
  <2>1. answer' = {sum} /\ UNCHANGED <<acc, rows>>
    BY <1>7 DEF Receive, Take
  <2>2. TypeOK' /\ MoneyInv' /\ Disjoint' /\ PartialsExact'
    BY <1>1, <1>4, <2>1 DEF TypeOK, MoneyInv, IsMoney, Disjoint, PartialsExact
  <2>3. Cover'
    BY <2>1 DEF Cover
  <2>4. AnswerInv'
    BY <1>1, <1>4, <1>5, <1>7 DEF AnswerInv
  <2> QED BY <2>2, <2>3, <2>4
<1> QED BY <1>6, <1>7

LEMMA DamageInv ==
    ASSUME IInv, NEW m \in wire, Damage(m)
    PROVE  IInv'
<1> USE DEF IInv
<1>1. PICK b \in Bytes : wire' = (wire \ {m}) \cup {[m EXCEPT !.bytes = b]}
  BY DEF Damage
<1> DEFINE n == [m EXCEPT !.bytes = b]
<1>2. /\ damaged' = TRUE
      /\ UNCHANGED <<table, unread, acc, working, answer, rows>>
  BY DEF Damage
<1>3. n \in Partial /\ n.rows = m.rows
  BY DEF TypeOK, Partial
<1>4. TypeOK'
  BY <1>1, <1>2, <1>3 DEF TypeOK
<1>5. MoneyInv'
  BY <1>1, <1>2, <1>3 DEF MoneyInv, IsMoney
<1>6. Disjoint'
  BY <1>1, <1>2, <1>3 DEF Disjoint
<1>7. Cover'
  BY <1>1, <1>2, <1>3 DEF Cover
<1>8. PartialsExact' /\ AnswerInv'
  BY <1>2 DEF PartialsExact, AnswerInv
<1> QED BY <1>4, <1>5, <1>6, <1>7, <1>8

LEMMA FinishInv ==
    ASSUME IInv, Finish
    PROVE  IInv'
<1> USE DEF IInv
<1>1. /\ answer = {} /\ unread = {} /\ working = {Leader} /\ wire = {}
      /\ answer' = {FinishSum(acc[Leader])}
      /\ UNCHANGED <<table, unread, acc, working, wire, damaged, rows>>
  BY DEF Finish
<1>2. acc[Leader] \in Wide /\ rows[Leader] \in SUBSET Rows
  BY UnitAggAssumption DEF TypeOK
<1>3. FinishSum(acc[Leader]) \in Results
  BY <1>2, Finishing
<1>4. rows[Leader] = Rows
  BY <1>1, <1>2 DEF Cover
<1>5. TypeOK' /\ MoneyInv' /\ Disjoint' /\ PartialsExact'
  BY <1>1, <1>3 DEF TypeOK, MoneyInv, IsMoney, Disjoint, PartialsExact
<1>6. Cover'
  BY <1>1 DEF Cover
<1>7. AnswerInv'
  <2> SUFFICES ASSUME ~damaged PROVE AnswerInv'
    BY <1>1 DEF AnswerInv
  <2>1. acc[Leader] = Total[table][Rows] /\ \A r \in Rows : InDomain(table[r])
    BY <1>1, <1>4, UnitAggAssumption DEF PartialsExact, MoneyInv, IsMoney
  <2> QED BY <1>1, <2>1 DEF AnswerInv
<1> QED BY <1>5, <1>6, <1>7

LEMMA StutterInv == IInv /\ UNCHANGED vars => IInv'
  BY DEF IInv, vars, TypeOK, MoneyInv, IsMoney, Disjoint, Cover, PartialsExact, AnswerInv

LEMMA NextInv == IInv /\ [Next]_vars => IInv'
  BY AccumulateInv, SendInv, ReceiveInv, DamageInv, FinishInv, StutterInv DEF Next, Answered

-----------------------------------------------------------------------------

\* The strengthening is an invariant of every plan.
THEOREM Invariance == Spec => []IInv
  BY InitInv, NextInv, PTL DEF Spec

\* The accumulators stay inside I256 even when a partial was damaged: every
\* addition that would leave it is an ArithmeticOverflow (sum.rs:61-66).
THEOREM TypeCorrect == Spec => []TypeOK
  BY Invariance, PTL DEF IInv

\* Every undamaged partial is the exact sum of rows of its own (sum.rs:13-15).
THEOREM PartialsCorrect == Spec => []PartialsExact
  BY Invariance, PTL DEF IInv

\* What finish makes of the total spells it whole.
LEMMA ExactFromInv == IInv => AnswerExact
<1> SUFFICES ASSUME IInv, ~damaged, NEW a \in answer
             PROVE  LET total == Total[table][Rows] IN
                    \/ a.tag = "OutOfDomain" /\ \E r \in Rows : a.value = table[r] /\ ~InDomain(table[r])
                    \/ /\ \A r \in Rows : InDomain(table[r])
                       /\ \/ a.tag = "Ok" /\ a.value = total /\ InDomain(total)
                          \/ a.tag = "OutOfDomain" /\ a.value = total
                             /\ ~InDomain(total) /\ total \in Narrow
                          \/ a.tag = "WideOutOfDomain" /\ FromBytes(a.value) = total
                             /\ total \notin Narrow
  BY DEF AnswerExact
<1> DEFINE total == Total[table][Rows]
<1>1. CASE \E r \in Rows : ~InDomain(table[r]) /\ a = OutOfDomain(table[r])
  BY <1>1 DEF OutOfDomain
<1>2. CASE (\A r \in Rows : InDomain(table[r])) /\ a = FinishSum(total)
  <2>1. total \in Wide
    BY <1>2, UnitAggAssumption DEF IInv, TypeOK
  <2>2. FromBytes(ToBytes(total)) = total
    BY <2>1, Encoding
  <2>3. CASE a = Ok(total) /\ InDomain(total)
    BY <1>2, <2>3 DEF Ok
  <2>4. CASE a = OutOfDomain(total) /\ ~InDomain(total) /\ total \in Narrow
    BY <1>2, <2>4 DEF OutOfDomain
  <2>5. CASE a = WideOutOfDomain(ToBytes(total)) /\ total \notin Narrow
    BY <1>2, <2>2, <2>5 DEF WideOutOfDomain
  <2> QED BY <1>2, <2>1, <2>3, <2>4, <2>5, Finishing
<1> QED BY <1>1, <1>2 DEF IInv, AnswerInv

\* The answer of an undamaged plan is exact, whatever the merge tree
\* (sum.rs:76-80), and a refused total is reported whole (sum.rs:93-103).
THEOREM AnswerCorrect == Spec => []AnswerExact
  BY Invariance, ExactFromInv, PTL

-----------------------------------------------------------------------------
(* One sequential scan. *)

\* A set of naturals that holds 0 and the successor of each of its members holds
\* them all: the least one missing would have no predecessor.
LEMMA Counting ==
    ASSUME NEW H, 0 \in H, \A n \in Nat : n \in H => n + 1 \in H
    PROVE  \A n \in Nat : n \in H
<1> DEFINE R == {ss \in Nat \X Nat : ss[1] < ss[2]}
<1>1. SUFFICES ASSUME Nat \ H # {} PROVE FALSE
  OBVIOUS
<1>2. IsWellFoundedOn(R, Nat)
  BY NatLessThanWellFounded DEF OpToRel
<1>3. \A x, y \in Nat : y < x => <<y, x>> \in R
  OBVIOUS
<1> HIDE DEF R
<1>4. PICK x \in Nat \ H : \A y \in Nat \ H : ~ (<<y, x>> \in R)
  BY <1>1, <1>2, WFMin
<1>5. x # 0 /\ x - 1 \in Nat /\ x - 1 < x
  OBVIOUS
<1>6. x - 1 \in H
  BY <1>3, <1>4, <1>5
<1>7. QED
  BY <1>4, <1>5, <1>6

\* Sums is what its equation says.
LEMMA SumsDef ==
    ASSUME NEW terms \in Seq(Int)
    PROVE  /\ Sums(terms)[0] = Ok(0)
           /\ \A n \in 1 .. Len(terms) :
                Sums(terms)[n] = IF Sums(terms)[n - 1].tag = "Ok"
                                 THEN AddUnits(Sums(terms)[n - 1].value, terms[n])
                                 ELSE Sums(terms)[n - 1]
<1> DEFINE More(sum, u) == IF sum.tag = "Ok" THEN AddUnits(sum.value, u) ELSE sum
           Solves(g, k) == g = [n \in 0 .. k |-> IF n = 0 THEN Ok(0) ELSE More(g[n - 1], terms[n])]
           H == {k \in Nat : k <= Len(terms) => \E g : Solves(g, k)}
<1> Len(terms) \in Nat
  OBVIOUS
<1> HIDE DEF More
<1>1. 0 \in H
  <2>1. Solves([n \in 0 .. 0 |-> Ok(0)], 0)
    OBVIOUS
  <2>2. QED BY <2>1
<1>2. ASSUME NEW k \in Nat, k \in H PROVE k + 1 \in H
  <2> SUFFICES ASSUME k + 1 <= Len(terms) PROVE \E g : Solves(g, k + 1)
    OBVIOUS
  <2>1. PICK g : Solves(g, k)
    BY <1>2
  <2> DEFINE h == [n \in 0 .. (k + 1) |-> IF n = k + 1 THEN More(g[k], terms[k + 1]) ELSE g[n]]
  <2>2. \A n \in 0 .. k : h[n] = g[n]
    OBVIOUS
  <2>3. \A n \in 0 .. k : g[n] = IF n = 0 THEN Ok(0) ELSE More(g[n - 1], terms[n])
    BY <2>1
  <2>4. ASSUME NEW n \in 0 .. (k + 1)
        PROVE  h[n] = IF n = 0 THEN Ok(0) ELSE More(h[n - 1], terms[n])
    <3>1. CASE n = 0
      BY <2>2, <2>3, <3>1
    <3>2. CASE n # 0
      <4>1. h[n - 1] = g[n - 1]
        BY <2>2, <3>2
      <4>2. CASE n = k + 1
        BY <3>2, <4>1, <4>2
      <4>3. CASE n # k + 1
        BY <2>2, <2>3, <3>2, <4>1, <4>3
      <4>4. QED BY <4>2, <4>3
    <3>3. QED BY <3>1, <3>2
  <2>5. Solves(h, k + 1)
    BY <2>4
  <2>6. QED BY <2>5
<1>3. Len(terms) \in H
  <2> HIDE DEF H
  <2>1. QED BY <1>1, <1>2, Counting
<1>4. \E g : Solves(g, Len(terms))
  BY <1>3
<1>5. Solves(Sums(terms), Len(terms))
  BY <1>4 DEF Sums, More
<1>6. ASSUME NEW n \in 0 .. Len(terms)
      PROVE  Sums(terms)[n] = IF n = 0 THEN Ok(0) ELSE More(Sums(terms)[n - 1], terms[n])
  BY <1>5
<1>7. Sums(terms)[0] = Ok(0)
  BY <1>6
<1>8. ASSUME NEW n \in 1 .. Len(terms)
      PROVE  Sums(terms)[n] = More(Sums(terms)[n - 1], terms[n])
  <2>1. n \in 0 .. Len(terms) /\ n # 0
    OBVIOUS
  <2>2. QED BY <1>6, <2>1
<1>9. QED
  BY <1>7, <1>8 DEF More

\* The rows a scan has met after n of them.
Met(s, n) == {s[i] : i \in 1 .. n}

Terms(s) == [i \in DOMAIN s |-> table[s[i]]]

LEMMA ScanTyped ==
    ASSUME IInv, NEW s \in Scans
    PROVE  /\ s \in [1 .. Cardinality(Rows) -> Rows] /\ Cardinality(Rows) \in Nat
           /\ Terms(s) \in Seq(Int) /\ Len(Terms(s)) = Cardinality(Rows)
           /\ \A i \in 1 .. Cardinality(Rows) : Terms(s)[i] = table[s[i]] /\ table[s[i]] \in Narrow
           /\ \A i, j \in 1 .. Cardinality(Rows) : s[i] = s[j] => i = j
<1>1. Cardinality(Rows) \in Nat
  BY UnitAggAssumption, FS_CardinalityType
<1>2. s \in [1 .. Cardinality(Rows) -> Rows] /\ DOMAIN s = 1 .. Cardinality(Rows)
  BY DEF Scans
<1>3. \A i, j \in 1 .. Cardinality(Rows) : s[i] = s[j] => i = j
  BY <1>2 DEF Scans, IsInjective
<1>4. table \in [Rows -> Narrow]
  BY UnitAggAssumption DEF IInv, TypeOK
<1>5. \A i \in 1 .. Cardinality(Rows) : table[s[i]] \in Narrow /\ table[s[i]] \in Int
  BY <1>2, <1>4, DomainAssumption DEF Narrow
<1>6. Terms(s) \in [1 .. Cardinality(Rows) -> Int]
  BY <1>2, <1>5 DEF Terms
<1>7. Terms(s) \in Seq(Int) /\ Len(Terms(s)) = Cardinality(Rows)
  BY <1>1, <1>6
<1>8. QED
  BY <1>1, <1>2, <1>3, <1>5, <1>7 DEF Terms

\* A scan meets every row.
LEMMA ScanMeetsAll ==
    ASSUME IInv, NEW s \in Scans
    PROVE  Met(s, Cardinality(Rows)) = Rows
<1> DEFINE N == Cardinality(Rows)
<1>1. N \in Nat /\ s \in [1 .. N -> Rows]
  BY ScanTyped
<1>2. s \in Injection(1 .. N, Rows)
  BY <1>1 DEF Scans, Injection
<1>3. Cardinality(1 .. N) = N
  <2> HIDE DEF N
  <2>1. QED BY <1>1, FS_Interval
<1>4. s \in Surjection(1 .. N, Rows)
  BY <1>2, <1>3, FS_Injection, UnitAggAssumption
<1>5. QED
  BY <1>1, <1>4 DEF Surjection, Met

\* Where every row is money a scan adds up exactly what it has met.
LEMMA ScanExact ==
    ASSUME IInv, NEW s \in Scans, \A r \in Rows : InDomain(table[r])
    PROVE  SumUnits(Terms(s)) = FinishSum(Total[table][Rows])
<1> DEFINE N == Cardinality(Rows)
           T == Terms(s)
           H == {n \in Nat : n <= N => Sums(T)[n] = Ok(Total[table][Met(s, n)])}
<1>1. /\ N \in Nat /\ s \in [1 .. N -> Rows] /\ T \in Seq(Int) /\ Len(T) = N
      /\ \A i \in 1 .. N : T[i] = table[s[i]] /\ table[s[i]] \in Narrow
      /\ \A i, j \in 1 .. N : s[i] = s[j] => i = j
  BY ScanTyped
<1> HIDE DEF N, T
<1>2. 0 \in H
  <2>1. Met(s, 0) = {}
    BY DEF Met
  <2>2. Total[table][{}] = 0
    BY UnitAggAssumption DEF IInv, TypeOK
  <2>3. QED BY <1>1, <2>1, <2>2, SumsDef
<1>3. ASSUME NEW n \in Nat, n \in H PROVE n + 1 \in H
  <2> SUFFICES ASSUME n + 1 <= N PROVE Sums(T)[n + 1] = Ok(Total[table][Met(s, n + 1)])
    OBVIOUS
  <2>1. n + 1 \in 1 .. N /\ (n + 1) - 1 = n
    BY <1>1
  <2>2. Met(s, n) \in SUBSET Rows /\ Met(s, n + 1) \in SUBSET Rows /\ s[n + 1] \in Rows
    BY <1>1, <2>1 DEF Met
  <2>3. s[n + 1] \notin Met(s, n) /\ Met(s, n + 1) = Met(s, n) \cup {s[n + 1]}
    BY <1>1, <2>1 DEF Met
  <2>4. /\ Total[table][Met(s, n + 1)] = Total[table][Met(s, n)] + table[s[n + 1]]
        /\ Total[table][Met(s, n)] \in Wide /\ Total[table][Met(s, n + 1)] \in Wide
    <3>1. /\ Total[table][Met(s, n) \cup {s[n + 1]}]
               = Total[table][Met(s, n)] + Total[table][{s[n + 1]}]
          /\ Total[table][{s[n + 1]}] = table[s[n + 1]]
      <4>1. {s[n + 1]} \in SUBSET Rows /\ Met(s, n) \cap {s[n + 1]} = {} /\ table \in Tables
        BY <2>2, <2>3 DEF IInv, TypeOK
      <4>2. Total[table][{s[n + 1]}] = table[s[n + 1]]
        BY <2>2, <4>1, UnitAggAssumption
      <4>3. Total[table][Met(s, n) \cup {s[n + 1]}]
              = Total[table][Met(s, n)] + Total[table][{s[n + 1]}]
        BY ZenonT(30), <2>2, <4>1, Totals DEF IInv
      <4>4. QED BY <4>2, <4>3
    <3>2. \A S \in SUBSET Rows : Total[table][S] \in Wide
      BY UnitAggAssumption DEF IInv, TypeOK
    <3>3. QED BY <2>2, <2>3, <3>1, <3>2
  <2>5. Sums(T)[n] = Ok(Total[table][Met(s, n)])
    BY <1>3, <2>1, <1>1
  <2>6. Sums(T)[n + 1] = AddUnits(Total[table][Met(s, n)], table[s[n + 1]])
    BY <1>1, <2>1, <2>5, SumsDef DEF Ok
  <2>7. InDomain(table[s[n + 1]])
    BY <2>2
  <2>8. QED
    BY <2>4, <2>6, <2>7 DEF AddUnits, CheckedAdd
<1>4. N \in H
  <2> HIDE DEF H
  <2>1. QED BY <1>1, <1>2, <1>3, Counting
<1>5. Met(s, N) = Rows
  BY ScanMeetsAll DEF N
<1>6. Sums(T)[Len(T)] = Ok(Total[table][Rows])
  BY <1>1, <1>4, <1>5
<1>7. QED
  BY <1>6 DEF SumUnits, Ok, T

\* Some scan meets a given row first.
LEMMA ScanFrom ==
    ASSUME IInv, NEW r \in Rows
    PROVE  \E s \in Scans : s[1] = r
<1> DEFINE N == Cardinality(Rows)
<1>1. N \in Nat /\ ExistsBijection(1 .. N, Rows)
  BY UnitAggAssumption, FS_CardinalityType
<1>2. PICK f \in Bijection(1 .. N, Rows) : TRUE
  BY <1>1 DEF ExistsBijection
<1>3. /\ f \in [1 .. N -> Rows]
      /\ \A i, j \in 1 .. N : f[i] = f[j] => i = j
      /\ \A q \in Rows : \E i \in 1 .. N : f[i] = q
  BY <1>2 DEF Bijection, Injection, Surjection, IsInjective
<1>4. PICK k \in 1 .. N : f[k] = r
  BY <1>3
<1> DEFINE s == [i \in 1 .. N |-> IF i = 1 THEN f[k] ELSE IF i = k THEN f[1] ELSE f[i]]
<1> HIDE DEF N
<1>5. 1 \in 1 .. N
  BY <1>1, <1>4
<1>6. s \in [1 .. N -> Rows] /\ s[1] = r
  BY <1>3, <1>4, <1>5
<1>7. \A i, j \in 1 .. N : s[i] = s[j] => i = j
  BY <1>3, <1>4, <1>5
<1>8. s \in Scans
  BY <1>6, <1>7 DEF Scans, IsInjective, N
<1>9. QED
  BY <1>6, <1>8

\* There is a scan, also of no rows.
LEMMA ScanExists == ASSUME IInv PROVE Scans # {}
<1>1. PICK f \in Bijection(1 .. Cardinality(Rows), Rows) : TRUE
  BY UnitAggAssumption, FS_CardinalityType DEF ExistsBijection
<1>2. QED
  BY <1>1 DEF Bijection, Injection, Scans

\* A scan that meets a term that is no money first reports that term.
LEMMA ScanReports ==
    ASSUME IInv, NEW s \in Scans, Rows # {}, ~ InDomain(table[s[1]])
    PROVE  SumUnits(Terms(s)) = OutOfDomain(table[s[1]])
<1> DEFINE N == Cardinality(Rows)
           T == Terms(s)
           H == {n \in Nat : 1 <= n /\ n <= N => Sums(T)[n] = OutOfDomain(table[s[1]])}
<1>1. /\ N \in Nat /\ T \in Seq(Int) /\ Len(T) = N
      /\ \A i \in 1 .. N : T[i] = table[s[i]] /\ table[s[i]] \in Narrow
  BY ScanTyped
<1>2. N # 0
  BY UnitAggAssumption, FS_EmptySet
<1> HIDE DEF N, T
<1>3. 0 \in H
  OBVIOUS
<1>4. ASSUME NEW n \in Nat, n \in H PROVE n + 1 \in H
  <2> SUFFICES ASSUME n + 1 <= N PROVE Sums(T)[n + 1] = OutOfDomain(table[s[1]])
    OBVIOUS
  <2>1. n + 1 \in 1 .. Len(T) /\ (n + 1) - 1 = n
    BY <1>1
  <2>2. CASE n = 0
    BY <1>1, <2>1, <2>2, SumsDef DEF Ok, AddUnits
  <2>3. CASE n # 0
    <3>1. Sums(T)[n] = OutOfDomain(table[s[1]])
      BY <1>1, <1>4, <2>1, <2>3
    <3>2. QED
      BY <1>1, <2>1, <3>1, SumsDef DEF OutOfDomain
  <2>4. QED BY <2>2, <2>3
<1>5. N \in H
  <2> HIDE DEF H
  <2>1. QED BY <1>1, <1>3, <1>4, Counting
<1>6. Sums(T)[Len(T)] = OutOfDomain(table[s[1]])
  BY <1>1, <1>2, <1>5
<1>7. QED
  BY <1>6 DEF SumUnits, OutOfDomain, T

LEMMA Sequential == IInv => LikeSequential
<1> SUFFICES ASSUME IInv, ~damaged, NEW a \in answer
             PROVE  LET seen == {SumUnits([i \in DOMAIN s |-> table[s[i]]]) : s \in Scans} IN
                    /\ a \in seen
                    /\ (\A r \in Rows : InDomain(table[r])) => seen = {a}
  BY DEF LikeSequential
<1>1. SUFFICES /\ \E s \in Scans : a = SumUnits(Terms(s))
               /\ (\A r \in Rows : InDomain(table[r])) => \A s \in Scans : a = SumUnits(Terms(s))
  BY DEF Terms
<1>2. CASE \A r \in Rows : InDomain(table[r])
  <2>1. a = FinishSum(Total[table][Rows])
    BY <1>2 DEF IInv, AnswerInv
  <2>2. QED BY <1>2, <2>1, ScanExact, ScanExists
<1>3. CASE ~ \A r \in Rows : InDomain(table[r])
  <2>1. PICK r \in Rows : ~ InDomain(table[r]) /\ a = OutOfDomain(table[r])
    BY <1>3 DEF IInv, AnswerInv
  <2>2. PICK s \in Scans : s[1] = r
    BY ScanFrom
  <2>3. QED BY <1>3, <2>1, <2>2, ScanReports
<1>4. QED BY <1>2, <1>3

\* A parallel plan answers as a sequential scan does (sum.rs:76-80).
THEOREM ScansAgree == Spec => []LikeSequential
  BY Invariance, Sequential, PTL

=============================================================================

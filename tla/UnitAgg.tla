------------------------------- MODULE UnitAgg -------------------------------
(***************************************************************************)
(* A parallel sum() over UnitSum, the use sum.rs is written for: workers   *)
(* scan the rows of a table into partial sums of their own, pass them on   *)
(* as 32 bytes, and whoever receives one merges it into its own, in any    *)
(* order and along any tree, until the leader holds everything.            *)
(*                                                                         *)
(* The plan itself (who scans, sends and merges) is not in this repository: *)
(* it is the environment the kernel's documentation promises to bear.  The *)
(* bytes may be damaged on the way.                                        *)
(***************************************************************************)
EXTENDS UnitSum, FiniteSets

CONSTANTS
    Rows,      \* the rows of the table
    Workers,   \* the processes of the plan
    Leader,    \* the worker that finishes
    Tables,    \* the contents the table may have: functions from Rows to i128
    Total      \* Total[t][S]: the sum of t over the rows in S

\* Total is summation, by the two facts that define it on finite sets, and no
\* table is long enough to leave I256 with terms that are money (sum.rs:64-66).
ASSUME UnitAggAssumption ==
    /\ IsFiniteSet(Rows) /\ IsFiniteSet(Workers)
    /\ Leader \in Workers
    /\ Tables \subseteq [Rows -> Narrow] /\ Tables # {}
    /\ Total \in [Tables -> [SUBSET Rows -> Int]]
    /\ \A t \in Tables :
         /\ Total[t][{}] = 0
         /\ \A r \in Rows : Total[t][{r}] = t[r]
         /\ \A S, T \in SUBSET Rows :
              S \cap T = {} => Total[t][S \cup T] = Total[t][S] + Total[t][T]
         /\ \A S \in SUBSET Rows :
              (\A r \in S : InDomain(t[r])) => Total[t][S] \in Wide

VARIABLES
    table,    \* the terms being summed
    unread,   \* the rows no worker has scanned
    acc,      \* the UnitSum of each worker
    working,  \* the workers that have not passed their partial on
    wire,     \* the encoded partials on their way
    damaged,  \* some partial was damaged on its way
    answer,   \* what the query returned, as a set of at most one result
    rows      \* history: the rows each worker's partial stands for

vars == <<table, unread, acc, working, wire, damaged, answer, rows>>

Partial == [from : Workers, bytes : Bytes, rows : SUBSET Rows]

Results == [tag : {"Ok", "OutOfDomain", "WideOutOfDomain", "ArithmeticOverflow"},
            value : Int]

TypeOK ==
    /\ table \in Tables
    /\ unread \subseteq Rows
    /\ acc \in [Workers -> Wide]
    /\ working \subseteq Workers /\ Leader \in working
    /\ wire \subseteq Partial
    /\ damaged \in BOOLEAN
    /\ answer \subseteq Results
    /\ rows \in [Workers -> SUBSET Rows]

Init ==
    /\ table \in Tables
    /\ unread = Rows
    /\ acc = [w \in Workers |-> 0]
    /\ working = Workers
    /\ wire = {}
    /\ damaged = FALSE
    /\ answer = {}
    /\ rows = [w \in Workers |-> {}]

\* An error anywhere aborts the query; a sum goes on.
Take(w, sum, taken) ==
    IF sum.tag = "Ok"
    THEN /\ acc' = [acc EXCEPT ![w] = sum.value]
         /\ rows' = [rows EXCEPT ![w] = @ \cup taken]
         /\ UNCHANGED answer
    ELSE /\ answer' = {sum}
         /\ UNCHANGED <<acc, rows>>

Accumulate(w, r) ==
    /\ answer = {} /\ w \in working /\ r \in unread
    /\ unread' = unread \ {r}
    /\ Take(w, AddUnits(acc[w], table[r]), {r})
    /\ UNCHANGED <<table, working, wire, damaged>>

Send(w) ==
    /\ answer = {} /\ w \in working /\ w # Leader
    /\ working' = working \ {w}
    /\ wire' = wire \cup {[from |-> w, bytes |-> ToBytes(acc[w]), rows |-> rows[w]]}
    /\ UNCHANGED <<table, unread, acc, damaged, answer, rows>>

Receive(w, m) ==
    /\ answer = {} /\ w \in working /\ m \in wire
    /\ wire' = wire \ {m}
    /\ Take(w, MergeSums(acc[w], FromBytes(m.bytes)), m.rows)
    /\ UNCHANGED <<table, unread, working, damaged>>

\* from_le_bytes accepts any 32 bytes.
Damage(m) ==
    /\ answer = {} /\ m \in wire /\ ~damaged
    /\ damaged' = TRUE
    /\ \E b \in Bytes : wire' = (wire \ {m}) \cup {[m EXCEPT !.bytes = b]}
    /\ UNCHANGED <<table, unread, acc, working, answer, rows>>

Finish ==
    /\ answer = {} /\ unread = {} /\ working = {Leader} /\ wire = {}
    /\ answer' = {FinishSum(acc[Leader])}
    /\ UNCHANGED <<table, unread, acc, working, wire, damaged, rows>>

Answered == answer # {} /\ UNCHANGED vars

Next ==
    \/ \E w \in Workers, r \in Rows : Accumulate(w, r)
    \/ \E w \in Workers : Send(w)
    \/ \E w \in Workers, m \in wire : Receive(w, m)
    \/ \E m \in wire : Damage(m)
    \/ Finish
    \/ Answered

Spec == Init /\ [][Next]_vars

-----------------------------------------------------------------------------
(* Properties *)

\* While nothing was damaged, every partial is the exact sum of rows that no
\* other partial counts, also one that left the money domain or i128 on its way
\* (sum.rs:13-15).
PartialsExact ==
    ~damaged =>
      /\ \A w \in working : acc[w] = Total[table][rows[w]]
      /\ \A m \in wire : FromBytes(m.bytes) = Total[table][m.rows]

\* The orders in which one sequential scan could meet the rows.
Scans == {s \in [1 .. Cardinality(Rows) -> Rows] : IsInjective(s)}

\* An undamaged parallel plan answers as try_sum does: a term that was never
\* money is an error that some sequential order reports too, and otherwise the
\* answer is the one every sequential order gives (sum.rs:76-80).
LikeSequential ==
    ~damaged => \A a \in answer :
      LET seen == {SumUnits([i \in DOMAIN s |-> table[s[i]]]) : s \in Scans} IN
      /\ a \in seen
      /\ (\A r \in Rows : InDomain(table[r])) => seen = {a}

\* The total survives a refusal: an undamaged answer is an error naming a term
\* that is no money, or it holds the exact total, as money exactly if the total
\* is in the domain, as bytes exactly if it is wider than i128 (sum.rs:93-103).
AnswerExact ==
    ~damaged => \A a \in answer :
      LET total == Total[table][Rows] IN
      \/ a.tag = "OutOfDomain" /\ \E r \in Rows : a.value = table[r] /\ ~InDomain(table[r])
      \/ /\ \A r \in Rows : InDomain(table[r])
         /\ \/ a.tag = "Ok" /\ a.value = total /\ InDomain(total)
            \/ a.tag = "OutOfDomain" /\ a.value = total
               /\ ~InDomain(total) /\ total \in Narrow
            \/ a.tag = "WideOutOfDomain" /\ FromBytes(a.value) = total
               /\ total \notin Narrow

=============================================================================

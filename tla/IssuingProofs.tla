--------------------------- MODULE IssuingProofs ---------------------------
(***************************************************************************)
(* Proofs about Issuing, for every finite set of documents, every set of   *)
(* series and any number of failures: numbers are unique, every gap is a   *)
(* create that died, and the counters implement SeriesLedger.              *)
(***************************************************************************)
EXTENDS Issuing, FiniteSetTheorems, TLAPS

\* How far a create has come says what exists of its document.
StageInv ==
  \A d \in Docs :
    /\ pc[d] = "idle" <=> series[d] = None
    /\ pc[d] \in {"idle", "insert"} => d \notin saved
    /\ pc[d] \in {"enqueue", "render", "done"} => d \in saved

\* The numbers handed out in a series are 1, 2, ... up to its counter.
SeqInv ==
  \A s \in Series :
    /\ \A d \in In(s) : number[d] \in 1..seq[s]
    /\ \A n \in 1..seq[s] : \E d \in In(s) : number[d] = n

\* A document has no job before it is queued, and a waiting job has an
\* attempt left.
JobInv ==
  \A d \in Docs :
    /\ pc[d] \in {"idle", "insert", "enqueue"} => job[d] = "none"
    /\ job[d] = "none" => attempts[d] = 0
    /\ job[d] = "waiting" => attempts[d] < MaxAttempts

\* The creates that died with a number in hand.
Burnt == {d \in Docs : pc[d] = "dead" /\ d \notin saved}

BurntInv == Cardinality(Burnt) <= failures

IInv ==
  /\ TypeOK
  /\ StageInv
  /\ SeqInv
  /\ NoDuplicates
  /\ JobInv
  /\ BurntInv

LEMMA InitInv == Init => IInv
<1> SUFFICES ASSUME Init PROVE IInv
  OBVIOUS
<1> USE IssuingAssumption DEF Init, Series
<1>1. TypeOK
  BY DEF TypeOK, PC, JobState
<1>2. StageInv /\ JobInv
  BY DEF StageInv, JobInv
<1>3. SeqInv /\ NoDuplicates
  BY DEF SeqInv, In, NoDuplicates
<1>4. BurntInv
  <2>1. Burnt = {}
    BY DEF Burnt
  <2>2. QED
    BY <2>1, FS_EmptySet DEF BurntInv
<1>5. QED
  BY <1>1, <1>2, <1>3, <1>4 DEF IInv

LEMMA NextInv == IInv /\ [Next]_vars => IInv'
<1> SUFFICES ASSUME IInv, [Next]_vars PROVE IInv'
  OBVIOUS
<1> USE IssuingAssumption DEF TypeOK, PC, JobState, Series, vars, createVars, jobVars
<1>1. ASSUME NEW d \in Docs, NEW s \in Series, Allocate(d, s) PROVE IInv'
  <2>1. TypeOK' /\ StageInv' /\ JobInv'
    BY <1>1 DEF IInv, StageInv, JobInv, Allocate, NextSeq
  <2>2. SeqInv' /\ NoDuplicates'
    BY <1>1 DEF IInv, StageInv, SeqInv, NoDuplicates, In, Allocate, NextSeq
  <2>3. BurntInv'
    <3>1. Burnt' = Burnt
      BY <1>1 DEF IInv, Burnt, Allocate
    <3>2. QED
      BY <1>1, <3>1 DEF IInv, BurntInv, Allocate
  <2>4. QED
    BY <2>1, <2>2, <2>3 DEF IInv
<1>2. ASSUME NEW d \in Docs, Create(d) PROVE IInv'
  <2>1. TypeOK' /\ StageInv'
    BY <1>2 DEF IInv, StageInv, Create, Insert, Enqueue, Render
  <2>2. SeqInv' /\ NoDuplicates'
    BY <1>2 DEF IInv, SeqInv, NoDuplicates, In, Create, Insert, Enqueue, Render
  <2>3. JobInv'
    BY <1>2 DEF IInv, JobInv, Create, Insert, Enqueue, Render
  <2>4. BurntInv'
    <3>1. Burnt' = Burnt
      BY <1>2 DEF IInv, Burnt, Create, Insert, Enqueue, Render
    <3>2. QED
      BY <1>2, <3>1 DEF IInv, BurntInv, Create, Insert, Enqueue, Render
  <2>5. QED
    BY <2>1, <2>2, <2>3, <2>4 DEF IInv
<1>3. ASSUME NEW d \in Docs, Die(d) PROVE IInv'
  <2>1. TypeOK' /\ StageInv' /\ JobInv'
    BY <1>3 DEF IInv, StageInv, JobInv, Die
  <2>2. SeqInv' /\ NoDuplicates'
    BY <1>3 DEF IInv, SeqInv, NoDuplicates, In, Die
  <2>3. BurntInv'
    <3>1. IsFiniteSet(Burnt)
      BY FS_Subset DEF Burnt
    <3>2. Burnt' \subseteq Burnt \cup {d}
      BY <1>3 DEF IInv, Burnt, Die
    <3>3. Cardinality(Burnt) \in Nat
      BY <3>1, FS_CardinalityType
    <3>4. /\ IsFiniteSet(Burnt \cup {d})
          /\ \/ Cardinality(Burnt \cup {d}) = Cardinality(Burnt)
             \/ Cardinality(Burnt \cup {d}) = Cardinality(Burnt) + 1
      BY <3>1, FS_AddElement, Zenon
    <3>5. IsFiniteSet(Burnt') /\ Cardinality(Burnt') <= Cardinality(Burnt \cup {d})
      BY <3>2, <3>4, FS_Subset
    <3>6. Cardinality(Burnt') \in Nat
      BY <3>5, FS_CardinalityType
    <3>7. Cardinality(Burnt) <= failures /\ failures \in Nat /\ failures' = failures + 1
      BY <1>3 DEF IInv, BurntInv, Die
    <3>8. QED
      BY <3>3, <3>4, <3>5, <3>6, <3>7 DEF BurntInv
  <2>4. QED
    BY <2>1, <2>2, <2>3 DEF IInv
<1>4. ASSUME NEW d \in Docs, Work(d) PROVE IInv'
  <2>1. TypeOK' /\ JobInv'
    BY <1>4 DEF IInv, JobInv, Work, JobStart, JobSucceeds, JobThrows, AfterThrow
  <2>2. UNCHANGED createVars
    BY <1>4 DEF Work, JobStart, JobSucceeds, JobThrows
  <2>3. StageInv' /\ SeqInv' /\ NoDuplicates' /\ BurntInv'
    BY <2>2 DEF IInv, StageInv, SeqInv, NoDuplicates, In, BurntInv, Burnt
  <2>4. QED
    BY <2>1, <2>3 DEF IInv
<1>5. ASSUME NEW d \in Docs, RemoveClient(d) PROVE IInv'
  BY <1>5 DEF IInv, StageInv, SeqInv, NoDuplicates, In, JobInv, BurntInv, Burnt, RemoveClient
<1>6. CASE UNCHANGED vars
  BY <1>6 DEF IInv, StageInv, SeqInv, NoDuplicates, In, JobInv, BurntInv, Burnt
<1>7. QED
  BY <1>1, <1>2, <1>3, <1>4, <1>5, <1>6 DEF Next

\* The inductive invariant holds throughout.
THEOREM Invariance == Spec => []IInv
  BY InitInv, NextInv, PTL DEF Spec

\* Every variable keeps its type: no job is attempted more often than the
\* queue allows, and no more creates die than are counted.
THEOREM TypeCorrect == Spec => []TypeOK
<1>1. IInv => TypeOK
  BY DEF IInv
<1>2. QED
  BY <1>1, Invariance, PTL

\* No two documents of a series are ever given the same number.
THEOREM Unique == Spec => []NoDuplicates
<1>1. IInv => NoDuplicates
  BY DEF IInv
<1>2. QED
  BY <1>1, Invariance, PTL

\* Every gap in a series is a create that died with the number in hand.
THEOREM Gaps == Spec => []GapsAreDeaths
<1>1. IInv => GapsAreDeaths
  <2> SUFFICES ASSUME IInv, NEW s \in Series
               PROVE  /\ {number[d] : d \in In(s)} = 1..seq[s]
                      /\ \A d \in In(s) : d \in saved \/ pc[d] = "insert" \/ pc[d] = "dead"
                      /\ Cardinality(In(s) \ saved)
                           <= failures + Cardinality({d \in In(s) : pc[d] = "insert"})
    BY DEF GapsAreDeaths
  <2> DEFINE Running == {d \in In(s) : pc[d] = "insert"}
  <2>1. {number[d] : d \in In(s)} = 1..seq[s]
    BY DEF IInv, SeqInv
  <2>2. \A d \in In(s) : d \in saved \/ pc[d] = "insert" \/ pc[d] = "dead"
    BY IssuingAssumption DEF IInv, TypeOK, PC, StageInv, In, Series
  <2>3. In(s) \ saved \subseteq Burnt \cup Running
    BY <2>2 DEF Burnt, In
  <2>4. IsFiniteSet(Burnt) /\ IsFiniteSet(Running)
    BY IssuingAssumption, FS_Subset DEF Burnt, In
  <2>5. /\ IsFiniteSet(Burnt \cup Running)
        /\ Cardinality(Burnt \cup Running) =
             Cardinality(Burnt) + Cardinality(Running) - Cardinality(Burnt \cap Running)
    BY <2>4, FS_Union, Zenon
  <2>6. IsFiniteSet(In(s) \ saved) /\ Cardinality(In(s) \ saved) <= Cardinality(Burnt \cup Running)
    BY <2>3, <2>5, FS_Subset
  <2>7. IsFiniteSet(Burnt \cap Running)
    BY <2>4, FS_Intersection
  <2>8. /\ Cardinality(Burnt) \in Nat
        /\ Cardinality(Running) \in Nat
        /\ Cardinality(Burnt \cap Running) \in Nat
        /\ Cardinality(In(s) \ saved) \in Nat
    BY <2>4, <2>6, <2>7, FS_CardinalityType
  <2>9. Cardinality(Burnt) <= failures /\ failures \in Nat
    BY IssuingAssumption DEF IInv, BurntInv, TypeOK
  <2>10. Cardinality(In(s) \ saved) <= failures + Cardinality(Running)
    BY <2>5, <2>6, <2>8, <2>9
  <2>11. QED
    BY <2>1, <2>2, <2>10
<1>2. QED
  BY <1>1, Invariance, PTL

\* The counter keys implement the abstract ledger: a number is reserved once,
\* in order, and its document is issued or the number void for ever.
THEOREM Refinement == Spec => LedgerSpec
<1> USE IssuingAssumption DEF Series
<1>1. Init => Ledger!LInit
  BY DEF Init, Ledger!LInit
<1>2. IInv /\ [Next]_vars => [Ledger!LNext]_(Ledger!ledger)
  <2> SUFFICES ASSUME IInv, [Next]_vars
               PROVE  Ledger!LNext \/ UNCHANGED Ledger!ledger
    OBVIOUS
  <2> USE DEF TypeOK, PC, vars, createVars, jobVars
  <2>1. ASSUME NEW d \in Docs, NEW s \in Series, Allocate(d, s)
        PROVE  Ledger!LNext
    <3>1. Ledger!Taken(s) = 1..seq[s]
      BY DEF IInv, SeqInv, In, Ledger!Taken
    <3>2. seq[s] + 1 \in {1} \cup {m + 1 : m \in Ledger!Taken(s)}
      <4>1. seq[s] \in Nat
        BY DEF IInv
      <4>2. seq[s] = 0 \/ seq[s] \in 1..seq[s]
        BY <4>1
      <4>3. QED
        BY <3>1, <4>1, <4>2
    <3>3. Ledger!Reserve(d, s, seq[s] + 1)
      BY <2>1, <3>1 DEF IInv, StageInv, Allocate, NextSeq, Ledger!Reserve
    <3>4. QED
      BY <3>2, <3>3 DEF Ledger!LNext
  <2>2. ASSUME NEW d \in Docs, Insert(d) PROVE Ledger!LNext
    <3>1. Ledger!Issue(d)
      BY <2>2 DEF IInv, StageInv, Insert, Ledger!Issue, Ledger!Pending
    <3>2. QED
      BY <3>1 DEF Ledger!LNext
  <2>3. ASSUME NEW d \in Docs, Enqueue(d) \/ Render(d) \/ Work(d) \/ RemoveClient(d)
        PROVE  UNCHANGED Ledger!ledger
    BY <2>3 DEF IInv, StageInv, Enqueue, Render, Work, JobStart, JobSucceeds,
       JobThrows, RemoveClient, Ledger!ledger
  <2>4. ASSUME NEW d \in Docs, Die(d) PROVE Ledger!LNext \/ UNCHANGED Ledger!ledger
    <3>1. CASE d \in saved
      BY <2>4, <3>1 DEF IInv, Die, Ledger!ledger
    <3>2. CASE d \notin saved
      <4>1. Ledger!Void(d)
        BY <2>4, <3>2 DEF IInv, StageInv, Die, Ledger!Void, Ledger!Pending
      <4>2. QED
        BY <4>1 DEF Ledger!LNext
    <3>3. QED
      BY <3>1, <3>2
  <2>5. CASE UNCHANGED vars
    BY <2>5 DEF Ledger!ledger
  <2>6. QED
    BY <2>1, <2>2, <2>3, <2>4, <2>5 DEF Next, Create
<1>3. QED
  BY <1>1, <1>2, Invariance, PTL DEF Spec, LedgerSpec, Ledger!LSpec
===========================================================================

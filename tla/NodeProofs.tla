----------------------------- MODULE NodeProofs ------------------------------
(***************************************************************************)
(* What is kept of and by one node: its health record, for all thresholds  *)
(* and windows; its execution trace, for every engine; and its balances    *)
(* and products, for all accounts, products and transactions of the engine *)
(* with all handlers (AllRegistered).                                      *)
(***************************************************************************)
EXTENDS NodeHealthLifecycle, NodeWorld,
        SequenceTheorems, FiniteSetTheorems, WellFoundedInduction, TLAPS

-----------------------------------------------------------------------------
(* The lifecycle of a health record that P2PNetwork implements.            *)
(* RecordConsistent is inductive together with the type; the edges of the  *)
(* lifecycle follow from them.                                             *)

Inv == TypeOK /\ RecordConsistent

\* The new record is consistent after a success.
LEMMA SuccessKeepsInv ==
    ASSUME Inv, RecordSuccess
    PROVE  Inv' /\ LifecycleStep
<1> USE Thresholds DEF Inv, TypeOK, Health, NodeState, RecordConsistent, Consistent
<1>1. TypeOK'
  BY DEF RecordSuccess, record_success, WindowServed
<1>2. RecordConsistent'
  BY DEF RecordSuccess, record_success, WindowServed
<1>3. LifecycleStep
  BY DEF RecordSuccess, record_success, WindowServed, LifecycleStep
<1> QED
  BY <1>1, <1>2, <1>3

\* The new record is consistent after a failure.
LEMMA FailureKeepsInv ==
    ASSUME Inv, RecordFailure
    PROVE  Inv' /\ LifecycleStep
<1> USE Thresholds DEF Inv, TypeOK, Health, NodeState, RecordConsistent, Consistent
<1>1. TypeOK'
  BY DEF RecordFailure, record_failure
<1>2. RecordConsistent'
  BY DEF RecordFailure, record_failure
<1>3. LifecycleStep
  BY DEF RecordFailure, record_failure, LifecycleStep
<1> QED
  BY <1>1, <1>2, <1>3

\* The passing of time keeps the record consistent.
LEMMA ElapseKeepsInv ==
    ASSUME Inv, Elapse
    PROVE  Inv' /\ LifecycleStep
<1> USE Thresholds DEF Inv, TypeOK, Health, NodeState, RecordConsistent, Consistent
<1>1. TypeOK'
  BY DEF Elapse, Aged
<1>2. RecordConsistent'
  BY DEF Elapse, Aged
<1>3. LifecycleStep
  BY DEF Elapse, Aged, LifecycleStep
<1> QED
  BY <1>1, <1>2, <1>3

\* Every step keeps the invariant and follows an edge of the lifecycle.
LEMMA StepKeepsInv ==
    ASSUME Inv, Next
    PROVE  Inv' /\ LifecycleStep
BY SuccessKeepsInv, FailureKeepsInv, ElapseKeepsInv DEF Next

\* A fresh record is consistent.
LEMMA InitInv == Init => Inv
BY Thresholds DEF Init, Fresh, Inv, TypeOK, Health, NodeState, RecordConsistent, Consistent

\* The types and the consistency of a health record hold in every reachable
\* state, for all thresholds.
THEOREM SpecRecordConsistent == Spec => []RecordConsistent
<1>1. Inv /\ [Next]_health => Inv'
  BY StepKeepsInv DEF Inv, TypeOK, RecordConsistent
<1> QED
  BY <1>1, InitInv, PTL DEF Spec, Inv

\* The health record always has its type.
THEOREM SpecTypeOK == Spec => []TypeOK
<1>1. Inv /\ [Next]_health => Inv'
  BY StepKeepsInv DEF Inv, TypeOK, RecordConsistent
<1> QED
  BY <1>1, InitInv, PTL DEF Spec, Inv

\* No call takes a record off the lifecycle, for all thresholds.
THEOREM SpecLifecycleEdges == Spec => LifecycleEdges
<1>1. Inv /\ [Next]_health => Inv'
  BY StepKeepsInv DEF Inv, TypeOK, RecordConsistent
<1>2. Inv /\ [Next]_health => [LifecycleStep]_health
  BY StepKeepsInv
<1> QED
  BY <1>1, <1>2, InitInv, PTL DEF Spec, LifecycleEdges

-----------------------------------------------------------------------------
(* The execution trace.                                                    *)

\* A transaction that is applied is the last entry of the trace, and the
\* entries before it stay what they are.
LEMMA TraceGrows ==
    ASSUME NEW S, trace \in Seq(S), NEW tx, ApplyTransaction(tx)
    PROVE  /\ \E T : trace' \in Seq(T)
           /\ Len(trace) \in Nat
           /\ DOMAIN trace = 1 .. Len(trace)
           /\ DOMAIN trace' = 1 .. Len(trace) + 1
           /\ \A i \in 1 .. Len(trace) : trace'[i] = trace[i]
           /\ trace'[Len(trace) + 1] = [tx |-> tx, old_hash |-> state, new_hash |-> state']
<1> DEFINE e == [tx |-> tx, old_hash |-> state, new_hash |-> state']
<1>1. trace' = Append(trace, e)
  BY DEF ApplyTransaction
<1>2. trace \in Seq(S \cup {e}) /\ e \in S \cup {e}
  BY SeqMonotonic
<1> HIDE DEF e
<1>3. /\ Len(trace) \in Nat /\ DOMAIN trace = 1 .. Len(trace)
  BY <1>2, LenProperties
<1>4. /\ trace' \in Seq(S \cup {e}) /\ Len(trace') = Len(trace) + 1
      /\ \A i \in 1 .. Len(trace) : trace'[i] = trace[i]
      /\ trace'[Len(trace) + 1] = e
  BY <1>1, <1>2, AppendProperties
<1>5. DOMAIN trace' = 1 .. Len(trace')
  BY <1>4, LenProperties
<1> QED
  BY <1>3, <1>4, <1>5 DEF e

TraceInv ==
    /\ \E S : trace \in Seq(S)
    /\ TraceReplays

\* A transaction the engine accepts adds an entry that starts where the one
\* before it ended, and apply_transaction moves to where it ends.
LEMMA ApplyKeepsTrace ==
    ASSUME TraceInv, NEW tx, ApplyTransaction(tx)
    PROVE  TraceInv'
<1>1. PICK S : trace \in Seq(S)
  BY DEF TraceInv
<1> DEFINE e == [tx |-> tx, old_hash |-> state, new_hash |-> state']
           n == Len(trace)
<1>2. state' = Execute(state, tx) /\ base' = base
  BY DEF ApplyTransaction
<1>3. PICK T : trace' \in Seq(T)
  BY <1>1, TraceGrows
<1>4. n \in Nat
  BY <1>1, TraceGrows
<1>5. /\ trace' \in Seq(T) /\ Len(trace') = n + 1
      /\ \A i \in 1 .. n : trace'[i] = trace[i]
      /\ trace'[n + 1] = e
  <2>1. /\ \A i \in 1 .. n : trace'[i] = trace[i]
        /\ trace'[n + 1] = e /\ DOMAIN trace' = 1 .. n + 1
    BY <1>1, TraceGrows
  <2>2. 1 .. Len(trace') = 1 .. n + 1 /\ Len(trace') \in Nat
    BY <2>1, <1>3, LenProperties
  <2>3. Len(trace') = n + 1
    <3> HIDE DEF n
    <3> QED
      BY <2>2, <1>4
  <2> QED
    BY <2>1, <2>3, <1>3
<1> HIDE DEF e
<1>6. state = IF trace = <<>> THEN base ELSE trace[n].new_hash
  BY DEF TraceInv, TraceReplays
<1>7. e.tx = tx /\ e.old_hash = state /\ e.new_hash = state'
  BY DEF e
<1>8. (trace = <<>> <=> n = 0) /\ trace' # <<>>
  BY <1>1, <1>4, <1>5, EmptySeq
<1> HIDE DEF n
<1>9. state' = trace'[Len(trace')].new_hash
  BY <1>5, <1>7
<1>10. ASSUME NEW i \in 1 .. n + 1
       PROVE  /\ trace'[i].old_hash = IF i = 1 THEN base ELSE trace'[i - 1].new_hash
              /\ trace'[i].new_hash = Execute(trace'[i].old_hash, trace'[i].tx)
  <2>1. CASE i \in 1 .. n
    <3>1. /\ trace[i].old_hash = IF i = 1 THEN base ELSE trace[i - 1].new_hash
          /\ trace[i].new_hash = Execute(trace[i].old_hash, trace[i].tx)
      BY <2>1 DEF TraceInv, TraceReplays, n
    <3>2. i # 1 => i - 1 \in 1 .. n
      BY <2>1, <1>4
    <3>3. trace'[i] = trace[i] /\ (i # 1 => trace'[i - 1] = trace[i - 1])
      BY <2>1, <3>2, <1>5
    <3> QED
      BY ONLY <3>1, <3>3
  <2>2. CASE i = n + 1
    <3>1. trace'[i] = e
      BY <2>2, <1>5
    <3>2. state = IF i = 1 THEN base ELSE trace'[i - 1].new_hash
      <4>1. CASE n = 0
        <5>1. i = 1 /\ trace = <<>>
          BY <4>1, <2>2, <1>8
        <5> QED
          BY <5>1, <1>6
      <4>2. CASE n # 0
        <5>1. i # 1 /\ i - 1 = n /\ n \in 1 .. n /\ trace # <<>>
          BY <4>2, <2>2, <1>4, <1>8
        <5> QED
          BY <5>1, <1>5, <1>6
      <4> QED
        BY <4>1, <4>2
    <3> QED
      BY <3>1, <3>2, <1>2, <1>7
  <2> QED
    BY <2>1, <2>2, <1>4
<1>11. TraceReplays'
  BY <1>2, <1>5, <1>8, <1>9, <1>10 DEF TraceReplays
<1> QED
  BY <1>5, <1>11 DEF TraceInv

\* The trace of a node replays: re-executing it from the last reset leads
\* through its hashes to the current state, for every engine and after any
\* sequence of apply_transaction, rejections and resets.
THEOREM SpecTraceReplays == ManagerSpec => []TraceReplays
<1>0. <<>> \in Seq({}) /\ Len(<<>>) = 0 /\ 1 .. 0 = {}
  BY EmptySeq
<1>1. ManagerInit => TraceInv
  BY <1>0 DEF ManagerInit, TraceInv, TraceReplays
<1>2. TraceInv /\ [ManagerNext]_(manager_vars) => TraceInv'
  <2> SUFFICES ASSUME TraceInv, [ManagerNext]_(manager_vars) PROVE TraceInv'
    OBVIOUS
  <2>1. ASSUME NEW tx \in Tx, ApplyTransaction(tx) PROVE TraceInv'
    BY <2>1, ApplyKeepsTrace
  <2>2. ASSUME NEW s, Reset(s) PROVE TraceInv'
    BY <2>2, <1>0 DEF Reset, TraceInv, TraceReplays
  <2>3. ASSUME UNCHANGED manager_vars PROVE TraceInv'
    BY <2>3 DEF manager_vars, TraceInv, TraceReplays
  <2> QED
    BY <2>1, <2>2, <2>3 DEF ManagerNext, RejectTransaction
<1>3. TraceInv => TraceReplays
  BY DEF TraceInv
<1> QED
  BY <1>1, <1>2, <1>3, PTL DEF ManagerSpec
-----------------------------------------------------------------------------
(* Sums.  SumFunctionOnSet takes the elements of a finite set in the order *)
(* of a CHOOSE; what it returns does not depend on it.                     *)

Chosen(s) == CHOOSE x \in s : TRUE

\* g[s] is the sum of f over s, for each s \subseteq D.
IsSum(g, f, D) ==
    g = [s \in SUBSET D |-> IF s = {} THEN 0 ELSE f[Chosen(s)] + g[s \ {Chosen(s)}]]

\* A family of subsets of a finite set has a minimal member.
LEMMA MinimalSubset ==
    ASSUME NEW D, IsFiniteSet(D), NEW P, P \subseteq SUBSET D, P # {}
    PROVE  \E s \in P : \A t \in P : t \subseteq s => t = s
<1>1. P \subseteq FiniteSubsetsOf(D)
  BY FS_Subset DEF FiniteSubsetsOf
<1>2. IsWellFoundedOn(StrictSubsetOrdering(D), FiniteSubsetsOf(D))
  BY FS_StrictSubsetOrderingWellFounded
<1>3. PICK s \in P : \A t \in P : ~ (<<t, s>> \in StrictSubsetOrdering(D))
  <2>1. \E s \in P : \A t \in P : ~ (<<t, s>> \in StrictSubsetOrdering(D))
    BY <1>1, <1>2, WFMin
  <2> QED
    BY <2>1
<1> QED
  BY <1>3 DEF StrictSubsetOrdering

\* What IsSum says of one set.
LEMMA SumStep ==
    ASSUME NEW f, NEW D, NEW g, IsSum(g, f, D)
    PROVE  /\ g[{}] = 0
           /\ \A s \in SUBSET D :
                s # {} => /\ Chosen(s) \in s
                          /\ s \ {Chosen(s)} \subseteq D
                          /\ s \ {Chosen(s)} # s
                          /\ g[s] = f[Chosen(s)] + g[s \ {Chosen(s)}]
<1> SUFFICES ASSUME NEW s \in SUBSET D
             PROVE  /\ s = {} => g[s] = 0
                    /\ s # {} => /\ Chosen(s) \in s
                                 /\ s \ {Chosen(s)} \subseteq D
                                 /\ s \ {Chosen(s)} # s
                                 /\ g[s] = f[Chosen(s)] + g[s \ {Chosen(s)}]
  OBVIOUS
<1>1. s # {} => Chosen(s) \in s
  BY DEF Chosen
<1>2. s \in SUBSET D
  OBVIOUS
<1> QED
  BY <1>1, <1>2 DEF IsSum

\* The sum over a set depends only on the values there.
LEMMA SumsAgree ==
    ASSUME NEW f, NEW h, NEW D, NEW E, NEW g, NEW k,
           IsSum(g, f, D), IsSum(k, h, E),
           NEW s, IsFiniteSet(s), s \subseteq D, s \subseteq E,
           \A x \in s : f[x] = h[x]
    PROVE  g[s] = k[s]
<1> DEFINE Bad == {t \in SUBSET s : g[t] # k[t]}
<1> SUFFICES ASSUME Bad # {} PROVE FALSE
  OBVIOUS
<1>1. Bad \subseteq SUBSET s
  OBVIOUS
<1>2. PICK t \in Bad : \A u \in Bad : u \subseteq t => u = t
  <2> HIDE DEF Bad
  <2>1. \E t \in Bad : \A u \in Bad : u \subseteq t => u = t
    BY <1>1, MinimalSubset
  <2> QED
    BY <2>1
<1>3. t \subseteq s /\ t \in SUBSET D /\ t \in SUBSET E /\ g[t] # k[t]
  OBVIOUS
<1>4. t # {}
  <2>1. g[{}] = 0 /\ k[{}] = 0
    BY SumStep
  <2> QED
    BY <2>1, <1>3
<1> DEFINE x == Chosen(t)
           r == t \ {x}
<1>5. x \in t /\ r # t /\ g[t] = f[x] + g[r]
  <2> HIDE DEF Bad
  <2> QED
    BY <1>3, <1>4, SumStep
<1>6. k[t] = h[x] + k[r]
  <2> HIDE DEF Bad
  <2> QED
    BY <1>3, <1>4, SumStep
<1>7. r \subseteq t /\ r \in SUBSET s
  BY <1>3
<1> HIDE DEF x, r
<1>8. r \notin Bad
  BY <1>2, <1>5, <1>7
<1>9. g[r] = k[r]
  BY <1>7, <1>8
<1>10. f[x] = h[x]
  BY <1>3, <1>5
<1> QED
  BY <1>3, <1>5, <1>6, <1>9, <1>10

\* The recursive definition of the sums has a solution.
LEMMA SumExists ==
    ASSUME NEW f, NEW D, IsFiniteSet(D)
    PROVE  \E g : IsSum(g, f, D)
<1> DEFINE Bad == {s \in SUBSET D : ~ \E g : IsSum(g, f, s)}
<1> SUFFICES ASSUME Bad # {} PROVE FALSE
  OBVIOUS
<1>1. Bad \subseteq SUBSET D
  OBVIOUS
<1>2. PICK s \in Bad : \A u \in Bad : u \subseteq s => u = s
  <2> HIDE DEF Bad
  <2>1. \E t \in Bad : \A u \in Bad : u \subseteq t => u = t
    BY <1>1, MinimalSubset
  <2> QED
    BY <2>1
<1> DEFINE G(t) == CHOOSE g : IsSum(g, f, t)
           rest(t) == t \ {Chosen(t)}
           k == [t \in SUBSET s |-> IF t = {} THEN 0 ELSE f[Chosen(t)] + G(rest(t))[rest(t)]]
<1>3. ASSUME NEW t, t \subseteq s, t # s PROVE IsSum(G(t), f, t)
  <2>1. t \in SUBSET D /\ t \notin Bad
    BY <1>2, <1>3
  <2> QED
    BY <2>1
<1>4. ASSUME NEW t, t \subseteq s, t # {}
      PROVE  rest(t) \subseteq t /\ rest(t) # t /\ IsSum(G(rest(t)), f, rest(t))
  <2>1. Chosen(t) \in t
    BY <1>4 DEF Chosen
  <2>2. rest(t) \subseteq t /\ rest(t) # t /\ rest(t) # s
    BY <2>1, <1>4
  <2> QED
    BY <2>2, <1>3, <1>4
<1> HIDE DEF G
<1>5. ASSUME NEW t, t \subseteq s, t # {}
      PROVE  G(rest(t))[rest(t)] = k[rest(t)]
  <2> DEFINE r == rest(t)
             v == rest(r)
  <2>1. r \subseteq t /\ r \subseteq s /\ IsSum(G(r), f, r)
    BY <1>4, <1>5
  <2>2. CASE r = {}
    <3>1. G(r)[r] = 0
      <4> HIDE DEF r
      <4> QED
        BY <2>1, <2>2, SumStep
    <3>2. k[r] = 0
      BY <2>1, <2>2
    <3> QED
      BY <3>1, <3>2
  <2>3. CASE r # {}
    <3>1. v \subseteq r /\ IsSum(G(v), f, v)
      BY <1>4, <2>1, <2>3
    <3>2. G(r)[r] = f[Chosen(r)] + G(r)[v]
      <4> HIDE DEF r
      <4>1. G(r)[r] = f[Chosen(r)] + G(r)[r \ {Chosen(r)}]
        BY <2>1, <2>3, SumStep
      <4> QED
        BY <4>1
    <3>3. k[r] = f[Chosen(r)] + G(v)[v]
      BY <2>1, <2>3
    <3>4. IsFiniteSet(v)
      BY <2>1, <3>1, <1>1, FS_Subset
    <3>5. G(v)[v] = G(r)[v]
      <4> HIDE DEF v, r
      <4> QED
        BY <2>1, <3>1, <3>4, SumsAgree
    <3> QED
      BY <3>2, <3>3, <3>5
  <2> QED
    BY <2>2, <2>3
<1>6. ASSUME NEW t \in SUBSET s
      PROVE  k[t] = IF t = {} THEN 0 ELSE f[Chosen(t)] + k[t \ {Chosen(t)}]
  BY <1>5
<1>7. IsSum(k, f, s)
  <2>1. k = [t \in SUBSET s |-> k[t]]
    OBVIOUS
  <2> HIDE DEF k
  <2> QED
    BY <2>1, <1>6 DEF IsSum
<1> QED
  BY <1>2, <1>7

\* What SumFunctionOnSet returns.
LEMMA SumIs ==
    ASSUME NEW f, NEW D, IsFiniteSet(D)
    PROVE  \E g : IsSum(g, f, D) /\ SumFunctionOnSet(f, D) = g[D]
<1> DEFINE g == CHOOSE h : IsSum(h, f, D)
<1>1. SumFunctionOnSet(f, D) = g[D]
  BY DEF SumFunctionOnSet, FoldFunctionOnSet, MapThenFoldSet, IsSum, Chosen
<1>2. IsSum(g, f, D)
  BY SumExists
<1> QED
  BY <1>1, <1>2

\* Functions that agree on a finite set have the same sum over it.
LEMMA SumSame ==
    ASSUME NEW f, NEW h, NEW D, IsFiniteSet(D), \A x \in D : f[x] = h[x]
    PROVE  SumFunctionOnSet(f, D) = SumFunctionOnSet(h, D)
<1>1. PICK g : IsSum(g, f, D) /\ SumFunctionOnSet(f, D) = g[D]
  BY SumIs
<1>2. PICK k : IsSum(k, h, D) /\ SumFunctionOnSet(h, D) = k[D]
  BY SumIs
<1>3. g[D] = k[D]
  BY <1>1, <1>2, SumsAgree
<1> QED
  BY <1>1, <1>2, <1>3

\* The empty sum.
LEMMA SumEmpty ==
    ASSUME NEW f PROVE SumFunctionOnSet(f, {}) = 0
<1>1. PICK g : IsSum(g, f, {}) /\ SumFunctionOnSet(f, {}) = g[{}]
  BY SumIs, FS_EmptySet
<1>2. g[{}] = 0
  BY <1>1, SumStep
<1> QED
  BY <1>1, <1>2

\* g[s] = f[x] + g[s \ {x}] for all x.
LEMMA SumTakesAny ==
    ASSUME NEW f, NEW D, IsFiniteSet(D), \A x \in D : f[x] \in Int,
           NEW g, IsSum(g, f, D)
    PROVE  \A s \in SUBSET D :
              /\ g[s] \in Int
              /\ \A x \in s : g[s] = f[x] + g[s \ {x}]
<1> DEFINE Fine(s) == /\ g[s] \in Int
                      /\ \A x \in s : g[s] = f[x] + g[s \ {x}]
           Bad == {s \in SUBSET D : ~ Fine(s)}
<1> SUFFICES ASSUME Bad # {} PROVE FALSE
  OBVIOUS
<1>1. Bad \subseteq SUBSET D
  OBVIOUS
<1>2. PICK s \in Bad : \A u \in Bad : u \subseteq s => u = s
  <2> HIDE DEF Bad
  <2>1. \E t \in Bad : \A u \in Bad : u \subseteq t => u = t
    BY <1>1, MinimalSubset
  <2> QED
    BY <2>1
<1>3. ASSUME NEW t, t \subseteq s, t # s PROVE Fine(t)
  <2>1. t \in SUBSET D /\ t \notin Bad
    BY <1>2, <1>3
  <2> QED
    BY <2>1
<1>4. s \subseteq D
  OBVIOUS
<1>0. ~ Fine(s)
  OBVIOUS
<1>5. CASE s = {}
  <2>1. g[s] = 0
    BY ONLY <1>4, <1>5, IsSum(g, f, D), SumStep
  <2> QED
    BY <2>1, <1>0, <1>5
<1>6. CASE s # {}
  <2> DEFINE y == Chosen(s)
  <2>1. y \in s /\ g[s] = f[y] + g[s \ {y}]
    BY ONLY <1>4, <1>6, IsSum(g, f, D), SumStep
  <2> HIDE DEF y
  <2>2. Fine(s \ {y})
    BY <1>3, <2>1
  <2>3. g[s \ {y}] \in Int /\ f[y] \in Int
    BY <2>1, <2>2, <1>4
  <2>4. g[s] \in Int
    <3> HIDE DEF Fine
    <3> QED
      BY <2>1, <2>3
  <2>5. ASSUME NEW x \in s, x # y PROVE g[s] = f[x] + g[s \ {x}]
    <3>1. Fine(s \ {x})
      BY <1>3, <2>5
    <3> DEFINE v == (s \ {y}) \ {x}
    <3>2. v = (s \ {x}) \ {y} /\ v \subseteq s /\ v # s
      BY <2>5, <2>1
    <3>3. g[s \ {y}] = f[x] + g[v]
      BY <2>2, <2>5
    <3>4. g[s \ {x}] = f[y] + g[(s \ {x}) \ {y}]
      BY <3>1, <2>1, <2>5
    <3>5. g[s \ {x}] = f[y] + g[v]
      BY <3>2, <3>4
    <3>6. Fine(v)
      <4> HIDE DEF v, Fine
      <4> QED
        BY <3>2, <1>3
    <3>7. g[v] \in Int /\ f[x] \in Int
      BY <3>6, <1>4
    <3> QED
      <4> HIDE DEF v, Fine
      <4> QED
        BY <2>1, <2>3, <3>3, <3>5, <3>7
  <2> QED
    BY <2>1, <2>4, <2>5, <1>0
<1> QED
  BY <1>5, <1>6

\* A sum of integers is an integer.
LEMMA SumType ==
    ASSUME NEW f, NEW D, IsFiniteSet(D), \A x \in D : f[x] \in Int
    PROVE  SumFunctionOnSet(f, D) \in Int
<1>1. PICK g : IsSum(g, f, D) /\ SumFunctionOnSet(f, D) = g[D]
  BY SumIs
<1> QED
  BY <1>1, SumTakesAny

\* Any element can be taken out of a sum.
LEMMA SumRemove ==
    ASSUME NEW f, NEW D, IsFiniteSet(D), \A x \in D : f[x] \in Int, NEW x \in D
    PROVE  SumFunctionOnSet(f, D) = f[x] + SumFunctionOnSet(f, D \ {x})
<1>1. PICK g : IsSum(g, f, D) /\ SumFunctionOnSet(f, D) = g[D]
  BY SumIs
<1>2. IsFiniteSet(D \ {x})
  BY FS_RemoveElement
<1>3. PICK k : IsSum(k, f, D \ {x}) /\ SumFunctionOnSet(f, D \ {x}) = k[D \ {x}]
  BY <1>2, SumIs
<1>4. g[D \ {x}] = k[D \ {x}]
  BY <1>1, <1>2, <1>3, SumsAgree
<1>5. g[D] = f[x] + g[D \ {x}]
  BY <1>1, SumTakesAny
<1> QED
  BY <1>1, <1>3, <1>4, <1>5
-----------------------------------------------------------------------------
(* One transaction of the registered handlers.                             *)

IsWorld(w) ==
    /\ w = [has_balances |-> w.has_balances, balances |-> w.balances,
            products |-> w.products]
    /\ w.has_balances \in BOOLEAN
    /\ IsFiniteSet(DOMAIN w.balances)
    /\ DOMAIN w.balances \subseteq Account
    /\ w.balances \in [DOMAIN w.balances -> Nat]
    /\ w.products \in [DOMAIN w.products -> Engine!Chain!ProductRecord]
    /\ DOMAIN w.products \subseteq Product

\* What a handler of the supply chain makes of the record of its product.
HandledRecord(old, new, tx) ==
    /\ tx.type = "ship" =>
          /\ old.status \notin {"in_transit", "quarantined"}
          /\ new.status = "in_transit"
          /\ new.owner = tx.shipper
          /\ new.location = tx.destination
          /\ new.quarantine_reason = old.quarantine_reason
    /\ tx.type = "receive" =>
          /\ old.status = "in_transit"
          /\ new.status \in {"at_customs", "delivered"}
          /\ new.owner = tx.receiver
          /\ new.location = old.location
          /\ new.quarantine_reason = old.quarantine_reason
    /\ tx.type = "inspect" =>
          /\ new.status = old.status
          /\ new.owner = old.owner
          /\ new.location = old.location
          /\ new.quarantine_reason = old.quarantine_reason
    /\ tx.type = "quarantine" =>
          /\ new.status = "quarantined"
          /\ new.owner = old.owner
          /\ new.location = old.location
          /\ new.quarantine_reason = tx.reason
          /\ tx.reason # None
    /\ tx.type = "release" =>
          /\ new.status = "at_customs"
          /\ new.owner = old.owner
          /\ new.location = old.location
          /\ new.quarantine_reason = None

\* What an accepted transaction of the supply chain makes of the products.
HandledProducts(old, new, tx) ==
    /\ tx.product \in DOMAIN old
    /\ new \in [DOMAIN old -> Engine!Chain!ProductRecord]
    /\ \A p \in DOMAIN old \ {tx.product} : new[p] = old[p]
    /\ HandledRecord(old[tx.product], new[tx.product], tx)

\* Only the record of its product changes.
LEMMA ProductHandled ==
    ASSUME NEW products, products \in [DOMAIN products -> Engine!Chain!ProductRecord],
           NEW tx, tx.product \in DOMAIN products,
           NEW r \in Engine!Chain!ProductRecord,
           HandledRecord(products[tx.product], r, tx)
    PROVE  HandledProducts(products, [products EXCEPT ![tx.product] = r], tx)
<1> HIDE DEF HandledRecord
<1> QED
  BY DEF HandledProducts

\* The handlers of the supply chain do what HandledProducts says.
LEMMA HandleStep ==
    ASSUME NEW products, products \in [DOMAIN products -> Engine!Chain!ProductRecord],
           NEW tx \in Engine!Chain!ChainTx, Engine!Chain!handle(products, tx) # Error
    PROVE  HandledProducts(products, Engine!Chain!handle(products, tx), tx)
<1> DEFINE new == Engine!Chain!handle(products, tx)
           p == tx.product
           old == products[p]
<1>1. p \in DOMAIN products /\ old \in Engine!Chain!ProductRecord
  BY DEF Engine!Chain!handle
<1>2. CASE tx.type = "ship"
  <2> DEFINE r == [old EXCEPT !.status = "in_transit", !.location = tx.destination,
                                !.owner = tx.shipper]
  <2>0. tx.destination \in Place /\ tx.shipper \in Party
    BY <1>2 DEF Engine!Chain!ChainTx
  <2>1. new = Engine!Chain!_handle_ship(products, tx)
    BY <1>1, <1>2 DEF Engine!Chain!handle
  <2>2. new = [products EXCEPT ![p] = r]
    BY <1>1, <2>1 DEF Engine!Chain!_handle_ship, Engine!Chain!ProductRecord
  <2>3. r \in Engine!Chain!ProductRecord
    BY <1>1, <2>0 DEF Engine!Chain!ProductRecord, Engine!Chain!Status
  <2>4. HandledRecord(old, r, tx)
    BY <1>1, <1>2, <2>0, <2>1
    DEF HandledRecord, Engine!Chain!_handle_ship, Engine!Chain!ProductRecord
  <2> HIDE DEF r
  <2>5. HandledProducts(products, [products EXCEPT ![p] = r], tx)
    BY <1>1, <2>3, <2>4, ProductHandled
  <2> QED
    BY <2>2, <2>5
<1>3. CASE tx.type = "receive"
  <2> DEFINE r == [old EXCEPT !.status = IF tx.at_customs THEN "at_customs" ELSE "delivered",
                                !.owner = tx.receiver]
  <2>0. tx.receiver \in Party
    BY <1>3 DEF Engine!Chain!ChainTx
  <2>1. new = Engine!Chain!_handle_receive(products, tx)
    BY <1>1, <1>3 DEF Engine!Chain!handle
  <2>2. new = [products EXCEPT ![p] = r]
    BY <1>1, <2>1 DEF Engine!Chain!_handle_receive, Engine!Chain!ProductRecord
  <2>3. r \in Engine!Chain!ProductRecord
    BY <1>1, <2>0 DEF Engine!Chain!ProductRecord, Engine!Chain!Status
  <2>4. HandledRecord(old, r, tx)
    BY <1>1, <1>3, <2>0, <2>1
    DEF HandledRecord, Engine!Chain!_handle_receive, Engine!Chain!ProductRecord
  <2> HIDE DEF r
  <2>5. HandledProducts(products, [products EXCEPT ![p] = r], tx)
    BY <1>1, <2>3, <2>4, ProductHandled
  <2> QED
    BY <2>2, <2>5
<1>4. CASE tx.type = "inspect"
  <2> DEFINE r == [old EXCEPT !.checks = @ \cup {tx.check}]
  <2>0. tx.check \in Check
    BY <1>4 DEF Engine!Chain!ChainTx
  <2>1. new = Engine!Chain!_handle_inspect(products, tx)
    BY <1>1, <1>4 DEF Engine!Chain!handle
  <2>2. new = [products EXCEPT ![p] = r]
    BY <1>1, <2>1 DEF Engine!Chain!_handle_inspect, Engine!Chain!ProductRecord
  <2>3. r \in Engine!Chain!ProductRecord
    BY <1>1, <2>0 DEF Engine!Chain!ProductRecord, Engine!Chain!Status
  <2>4. HandledRecord(old, r, tx)
    BY <1>1, <1>4, <2>0, <2>1
    DEF HandledRecord, Engine!Chain!_handle_inspect, Engine!Chain!ProductRecord
  <2> HIDE DEF r
  <2>5. HandledProducts(products, [products EXCEPT ![p] = r], tx)
    BY <1>1, <2>3, <2>4, ProductHandled
  <2> QED
    BY <2>2, <2>5
<1>5. CASE tx.type = "quarantine"
  <2> DEFINE r == [old EXCEPT !.status = "quarantined", !.quarantine_reason = tx.reason]
  <2>0. tx.reason \in Reason
    BY <1>5 DEF Engine!Chain!ChainTx
  <2>1. new = Engine!Chain!_handle_quarantine(products, tx)
    BY <1>1, <1>5 DEF Engine!Chain!handle
  <2>2. new = [products EXCEPT ![p] = r]
    BY <1>1, <2>1 DEF Engine!Chain!_handle_quarantine, Engine!Chain!ProductRecord
  <2>3. r \in Engine!Chain!ProductRecord
    BY <1>1, <2>0 DEF Engine!Chain!ProductRecord, Engine!Chain!Status
  <2>4. HandledRecord(old, r, tx)
    BY <1>1, <1>5, <2>0, <2>1, NodeWorldConstants
    DEF HandledRecord, Engine!Chain!_handle_quarantine, Engine!Chain!ProductRecord
  <2> HIDE DEF r
  <2>5. HandledProducts(products, [products EXCEPT ![p] = r], tx)
    BY <1>1, <2>3, <2>4, ProductHandled
  <2> QED
    BY <2>2, <2>5
<1>6. CASE tx.type = "release"
  <2> DEFINE r == [old EXCEPT !.status = "at_customs", !.quarantine_reason = None]
  <2>0. old \in Engine!Chain!ProductRecord
    BY <1>1
  <2>1. new = Engine!Chain!_handle_release(products, tx)
    BY <1>1, <1>6 DEF Engine!Chain!handle
  <2>2. new = [products EXCEPT ![p] = r]
    BY <1>1, <2>1 DEF Engine!Chain!_handle_release, Engine!Chain!ProductRecord
  <2>3. r \in Engine!Chain!ProductRecord
    BY <1>1, <2>0 DEF Engine!Chain!ProductRecord, Engine!Chain!Status
  <2>4. HandledRecord(old, r, tx)
    BY <1>1, <1>6, <2>0, <2>1
    DEF HandledRecord, Engine!Chain!_handle_release, Engine!Chain!ProductRecord
  <2> HIDE DEF r
  <2>5. HandledProducts(products, [products EXCEPT ![p] = r], tx)
    BY <1>1, <2>3, <2>4, ProductHandled
  <2> QED
    BY <2>2, <2>5
<1> QED
  BY <1>2, <1>3, <1>4, <1>5, <1>6 DEF Engine!Chain!ChainTx

\* What an accepted transaction of the built-in types makes of the balances:
\* tokens enter by a mint and leave by a burn, and no account is overdrawn.
LedgerMoved(old, new, tx) ==
    /\ DOMAIN old \subseteq DOMAIN new
    /\ IsFiniteSet(DOMAIN new)
    /\ DOMAIN new \subseteq Account
    /\ new \in [DOMAIN new -> Nat]
    /\ \A a \in DOMAIN new \ DOMAIN old : new[a] # 0
    /\ tx.type \in {"mint", "burn"} => tx.amount \in Int
    /\ Total(new) = Total(old) + (IF tx.type = "mint" THEN tx.amount ELSE 0)
                               - (IF tx.type = "burn" THEN tx.amount ELSE 0)

\* Changing the balance of one account changes the total by the difference.
LEMMA TotalOfOne ==
    ASSUME NEW old, NEW new, NEW a, NEW D, a \in D, IsFiniteSet(D),
           DOMAIN old = D, DOMAIN new = D,
           \A x \in D : old[x] \in Int /\ new[x] \in Int,
           \A x \in D \ {a} : new[x] = old[x]
    PROVE  /\ Total(old) \in Int
           /\ Total(new) = Total(old) + (new[a] - old[a])
<1> DEFINE R == D \ {a}
<1>1. IsFiniteSet(R)
  BY FS_RemoveElement
<1>2. SumFunctionOnSet(old, D) = old[a] + SumFunctionOnSet(old, R)
  BY SumRemove
<1>3. SumFunctionOnSet(new, D) = new[a] + SumFunctionOnSet(new, R)
  BY SumRemove
<1>4. SumFunctionOnSet(new, R) = SumFunctionOnSet(old, R)
  BY <1>1, SumSame
<1>5. SumFunctionOnSet(old, R) \in Int
  BY <1>1, SumType
<1>6. Total(old) = SumFunctionOnSet(old, D) /\ Total(new) = SumFunctionOnSet(new, D)
  BY DEF Total, SumFunction
<1> HIDE DEF R
<1> QED
  BY <1>2, <1>3, <1>4, <1>5, <1>6

\* An account that is created adds its balance to the total.
LEMMA TotalOfNew ==
    ASSUME NEW old, NEW new, NEW a, a \notin DOMAIN old, IsFiniteSet(DOMAIN old),
           DOMAIN new = DOMAIN old \cup {a},
           \A x \in DOMAIN old : old[x] \in Int /\ new[x] = old[x],
           new[a] \in Int
    PROVE  Total(new) = Total(old) + new[a]
<1> DEFINE D == DOMAIN new
<1>1. IsFiniteSet(D) /\ D \ {a} = DOMAIN old /\ a \in D
  BY FS_AddElement
<1>2. \A x \in D : new[x] \in Int
  BY <1>1
<1>3. SumFunctionOnSet(new, D) = new[a] + SumFunctionOnSet(new, D \ {a})
  <2> HIDE DEF D
  <2> QED
    BY <1>1, <1>2, SumRemove
<1>4. SumFunctionOnSet(new, DOMAIN old) = SumFunctionOnSet(old, DOMAIN old)
  BY SumSame
<1>5. SumFunctionOnSet(old, DOMAIN old) \in Int
  BY SumType
<1> QED
  BY <1>1, <1>3, <1>4, <1>5 DEF Total, SumFunction

\* transfer, mint and burn do what LedgerMoved says.
LEMMA ExecuteStep ==
    ASSUME NEW old, old \in [DOMAIN old -> Nat], IsFiniteSet(DOMAIN old),
           DOMAIN old \subseteq Account,
           NEW tx \in Engine!LedgerTx(Int), Engine!execute(old, tx) # Error
    PROVE  LedgerMoved(old, Engine!execute(old, tx), tx)
<1> DEFINE new == Engine!execute(old, tx)
<1>1. /\ tx.amount \in Int /\ tx.to \in Account /\ tx.from \in Account
      /\ tx.type \in {"transfer", "mint", "burn", "unknown"}
  BY DEF Engine!LedgerTx
<1>2. \A x \in DOMAIN old : old[x] \in Int
  OBVIOUS
<1>3. CASE tx.type = "transfer"
  <2>1. new = Engine!_handle_transfer(old, tx)
    BY <1>3 DEF Engine!execute
  <2> DEFINE debited == [old EXCEPT ![tx.from] = old[tx.from] - tx.amount]
  <2>2. /\ tx.amount > 0 /\ tx.from \in DOMAIN old /\ tx.to \in DOMAIN old
        /\ old[tx.from] >= tx.amount
        /\ new = [debited EXCEPT ![tx.to] = debited[tx.to] + tx.amount]
    BY <2>1 DEF Engine!_handle_transfer
  <2>3. /\ DOMAIN debited = DOMAIN old
        /\ \A x \in DOMAIN old : debited[x] \in Nat
        /\ debited[tx.from] = old[tx.from] - tx.amount
        /\ \A x \in DOMAIN old \ {tx.from} : debited[x] = old[x]
    BY <1>1, <2>2
  <2>4. debited \in [DOMAIN old -> Nat]
    BY <1>1, <2>2
  <2> HIDE DEF debited, new
  <2>5. debited[tx.to] + tx.amount \in Nat
    BY <1>1, <2>2, <2>3
  <2>6. /\ DOMAIN new = DOMAIN old
        /\ \A x \in DOMAIN old : new[x] \in Nat
        /\ new[tx.to] = debited[tx.to] + tx.amount
        /\ \A x \in DOMAIN old \ {tx.to} : new[x] = debited[x]
        /\ new \in [DOMAIN old -> Nat]
    BY <2>2, <2>4, <2>5
  <2>7. \A x \in DOMAIN old : old[x] \in Int /\ debited[x] \in Int /\ new[x] \in Int
    BY <1>2, <2>3, <2>6
  <2>8. Total(old) \in Int /\ Total(debited) = Total(old) + (debited[tx.from] - old[tx.from])
    BY ONLY IsFiniteSet(DOMAIN old), <2>7, <2>2, <2>3, TotalOfOne
  <2>9. Total(debited) \in Int /\ Total(new) = Total(debited) + (new[tx.to] - debited[tx.to])
    <3>1. \A x \in DOMAIN old : debited[x] \in Int /\ new[x] \in Int
      BY <2>7
    <3>2. tx.to \in DOMAIN old /\ DOMAIN debited = DOMAIN old /\ DOMAIN new = DOMAIN old
      BY <2>2, <2>3, <2>6
    <3>3. \A x \in DOMAIN old \ {tx.to} : new[x] = debited[x]
      BY <2>6
    <3> QED
      BY ONLY IsFiniteSet(DOMAIN old), <3>1, <3>2, <3>3, TotalOfOne
  <2>10. Total(new) = Total(old)
    <3>1. debited[tx.from] - old[tx.from] = - tx.amount
      BY <1>1, <2>2, <2>3
    <3>2. new[tx.to] - debited[tx.to] = tx.amount
      BY <1>1, <2>2, <2>3, <2>6
    <3> QED
      BY <1>1, <2>8, <2>9, <3>1, <3>2
  <2> QED
    BY <1>3, <2>6, <2>8, <2>10 DEF LedgerMoved, new
<1>4. CASE tx.type = "mint"
  <2>1. new = Engine!_handle_mint(old, tx)
    BY <1>4 DEF Engine!execute
  <2>2. /\ tx.amount > 0
        /\ new = [a \in DOMAIN old \cup {tx.to} |->
                    (IF a \in DOMAIN old THEN old[a] ELSE 0)
                    + (IF a = tx.to THEN tx.amount ELSE 0)]
    BY <2>1 DEF Engine!_handle_mint
  <2> HIDE DEF new
  <2>3. /\ DOMAIN new = DOMAIN old \cup {tx.to}
        /\ \A x \in DOMAIN new : new[x] \in Nat
        /\ \A x \in DOMAIN old \ {tx.to} : new[x] = old[x]
        /\ new[tx.to] = (IF tx.to \in DOMAIN old THEN old[tx.to] ELSE 0) + tx.amount
        /\ new \in [DOMAIN new -> Nat]
    BY <1>1, <2>2
  <2>4. IsFiniteSet(DOMAIN new) /\ DOMAIN new \subseteq Account
    BY <1>1, <2>3, FS_AddElement
  <2>5. Total(old) \in Int /\ Total(new) = Total(old) + tx.amount
    <3>1. CASE tx.to \in DOMAIN old
      <4>1. DOMAIN new = DOMAIN old
        BY <3>1, <2>3
      <4>2. Total(old) \in Int /\ Total(new) = Total(old) + (new[tx.to] - old[tx.to])
        BY <3>1, <4>1, <1>2, <2>3, TotalOfOne
      <4>3. new[tx.to] - old[tx.to] = tx.amount
        BY <3>1, <1>1, <2>3
      <4> QED
        BY <4>2, <4>3
    <3>2. CASE tx.to \notin DOMAIN old
      <4>1. Total(old) \in Int
        BY <1>2, SumType DEF Total, SumFunction
      <4>2. new[tx.to] = tx.amount
        BY <3>2, <1>1, <2>3
      <4>3. \A x \in DOMAIN old : old[x] \in Int /\ new[x] = old[x]
        BY <3>2, <1>2, <2>3
      <4>4. Total(new) = Total(old) + new[tx.to]
        BY <3>2, <4>2, <4>3, <1>1, <2>3, TotalOfNew
      <4> QED
        BY <4>1, <4>2, <4>4
    <3> QED
      BY <3>1, <3>2
  <2>6. \A a \in DOMAIN new \ DOMAIN old : new[a] # 0
    BY <1>1, <2>2, <2>3
  <2>7. Total(new) = Total(old) + (IF tx.type = "mint" THEN tx.amount ELSE 0)
                                - (IF tx.type = "burn" THEN tx.amount ELSE 0)
    BY <1>1, <1>4, <2>5
  <2> QED
    BY <1>1, <2>3, <2>4, <2>6, <2>7 DEF LedgerMoved, new
<1>5. CASE tx.type = "burn"
  <2>1. new = Engine!_handle_burn(old, tx)
    BY <1>5 DEF Engine!execute
  <2>2. /\ tx.amount > 0 /\ tx.from \in DOMAIN old /\ old[tx.from] >= tx.amount
        /\ new = [old EXCEPT ![tx.from] = old[tx.from] - tx.amount]
    BY <2>1 DEF Engine!_handle_burn
  <2> HIDE DEF new
  <2>3. /\ DOMAIN new = DOMAIN old
        /\ \A x \in DOMAIN old : new[x] \in Nat
        /\ new[tx.from] = old[tx.from] - tx.amount
        /\ \A x \in DOMAIN old \ {tx.from} : new[x] = old[x]
        /\ new \in [DOMAIN old -> Nat]
    BY <1>1, <2>2
  <2>4. \A x \in DOMAIN old : old[x] \in Int /\ new[x] \in Int
    BY <1>2, <2>3
  <2>5. Total(old) \in Int /\ Total(new) = Total(old) + (new[tx.from] - old[tx.from])
    <3>1. /\ tx.from \in DOMAIN old /\ DOMAIN new = DOMAIN old
          /\ \A x \in DOMAIN old \ {tx.from} : new[x] = old[x]
      BY <2>2, <2>3
    <3> QED
      BY ONLY IsFiniteSet(DOMAIN old), <2>4, <3>1, TotalOfOne
  <2>6. new[tx.from] - old[tx.from] = - tx.amount
    BY <1>1, <2>2, <2>3
  <2>7. Total(new) = Total(old) + (IF tx.type = "mint" THEN tx.amount ELSE 0)
                                - (IF tx.type = "burn" THEN tx.amount ELSE 0)
    BY <1>1, <1>5, <2>5, <2>6
  <2> QED
    BY <1>1, <2>3, <2>7 DEF LedgerMoved, new
<1>6. CASE tx.type = "unknown"
  BY <1>6 DEF Engine!execute
<1> QED
  BY <1>1, <1>3, <1>4, <1>5, <1>6

\* The engine with all handlers computes apply_transaction: a transaction of
\* the supply chain changes the products, a built-in one the balances.
LEMMA WorldStep ==
    ASSUME AllRegistered, IsWorld(state), NEW tx \in Tx, ApplyTransaction(tx)
    PROVE  /\ IsWorld(state')
           /\ \/ /\ tx.type \in {"ship", "receive", "inspect", "quarantine", "release"}
                 /\ state'.balances = state.balances
                 /\ HandledProducts(state.products, state'.products, tx)
              \/ /\ tx.type \notin {"ship", "receive", "inspect", "quarantine", "release"}
                 /\ state'.products = state.products
                 /\ LedgerMoved(state.balances, state'.balances, tx)
<1>1. state \in Engine!WorldState
  BY DEF IsWorld, Engine!WorldState, Engine!LedgerState, Engine!Chain!ChainState
<1> DEFINE new == Engine!execute_registered(state, tx)
<1>2. new # Error /\ state' = new
  BY <1>1 DEF AllRegistered, ApplyTransaction
<1>3. tx \in Engine!LedgerTx(Int) \cup Engine!Chain!ChainTx
  BY NodeWorldConstants DEF Engine!WorldTx
<1>4. CASE tx.type \in Engine!Chain!Registered
  <2> DEFINE products == Engine!Chain!handle(state.products, tx)
  <2>1. products # Error /\ state' = [state EXCEPT !.products = products]
    BY <1>2, <1>4 DEF Engine!execute_registered
  <2>2. tx \in Engine!Chain!ChainTx
    BY <1>3, <1>4 DEF Engine!LedgerTx, Engine!Chain!Registered
  <2>3. HandledProducts(state.products, products, tx)
    BY <2>1, <2>2, HandleStep DEF IsWorld
  <2> HIDE DEF products
  <2>4. /\ state'.products = products /\ state'.balances = state.balances
        /\ state' = [has_balances |-> state.has_balances, balances |-> state.balances,
                     products |-> products]
    BY <2>1 DEF IsWorld
  <2>5. IsWorld(state')
    BY <2>3, <2>4 DEF IsWorld, HandledProducts
  <2> QED
    BY <1>4, <2>3, <2>4, <2>5 DEF Engine!Chain!Registered
<1>5. CASE tx.type \notin Engine!Chain!Registered
  <2> DEFINE balances == Engine!execute(state.balances, tx)
  <2>1. balances # Error /\ state' = [state EXCEPT !.balances = balances]
    BY <1>2, <1>5 DEF Engine!execute_registered
  <2>2. tx \in Engine!LedgerTx(Int)
    BY <1>3, <1>5 DEF Engine!Chain!ChainTx, Engine!Chain!Registered
  <2>3. LedgerMoved(state.balances, balances, tx)
    BY <2>1, <2>2, ExecuteStep DEF IsWorld
  <2> HIDE DEF balances
  <2>4. /\ state'.balances = balances /\ state'.products = state.products
        /\ state' = [has_balances |-> state.has_balances, balances |-> balances,
                     products |-> state.products]
    BY <2>1 DEF IsWorld
  <2>5. IsWorld(state')
    BY <2>3, <2>4 DEF IsWorld, LedgerMoved
  <2> QED
    BY <1>5, <2>3, <2>4, <2>5 DEF Engine!Chain!Registered
<1> QED
  BY <1>4, <1>5

\* The states a manager is created with or reset to are worlds; their
\* products are freshly manufactured.
LEMMA ResetWorlds ==
    ASSUME NEW s \in ResetStates
    PROVE  /\ IsWorld(s)
           /\ \A p \in DOMAIN s.products :
                 /\ s.products[p].status = "manufactured"
                 /\ s.products[p].quarantine_reason = None
<1>1. s.products = Engine!Chain!make_initial_state(DOMAIN s.products)
  BY NodeWorldConstants
<1>2. /\ s.products \in [DOMAIN s.products -> Engine!Chain!ProductRecord]
      /\ \A p \in DOMAIN s.products :
            /\ s.products[p].status = "manufactured"
            /\ s.products[p].quarantine_reason = None
  BY <1>1 DEF Engine!Chain!make_initial_state, Engine!Chain!ProductRecord,
              Engine!Chain!Status
<1> QED
  BY <1>2, NodeWorldConstants DEF IsWorld

-----------------------------------------------------------------------------
(* The entries of the trace that are about one product.                    *)

\* The last of a set of entries, and what a new entry does to it.
LEMMA LastEntry ==
    ASSUME NEW n \in Nat, NEW S, S \subseteq 1 .. n
    PROVE  /\ S # {} => Max(S) \in S
           /\ Max(S \cup {n + 1}) = n + 1
           /\ (S \cup {n + 1}) \ {n + 1} = S
           /\ IsFiniteSet(S)
<1>1. Max(S \cup {n + 1}) = n + 1
  <2> DEFINE T == S \cup {n + 1}
  <2>1. n + 1 \in T /\ \A y \in T : n + 1 >= y
    OBVIOUS
  <2>2. \A x \in T : (\A y \in T : x >= y) => x = n + 1
    OBVIOUS
  <2> QED
    BY <2>1, <2>2 DEF Max
<1>2. ASSUME S # {} PROVE Max(S) \in S
  <2> DEFINE T == {n - x : x \in S}
             less == OpToRel(<, Nat)
  <2>1. T \subseteq Nat /\ T # {}
    BY <1>2
  <2>2. \E m \in T : \A k \in T : ~ (<<k, m>> \in less)
    <3> HIDE DEF T, less
    <3> QED
      BY <2>1, NatLessThanWellFounded, WFMin DEF less
  <2>3. PICK x \in S : \A y \in S : ~ (<<n - y, n - x>> \in less)
    BY <2>2
  <2>4. \A y \in S : x >= y
    <3> TAKE y \in S
    <3>1. n - y \in Nat /\ n - x \in Nat
      OBVIOUS
    <3>2. ~ (n - y < n - x)
      BY <2>3, <3>1 DEF OpToRel
    <3> QED
      BY <3>2
  <2> QED
    BY <2>4 DEF Max
<1>3. IsFiniteSet(S)
  <2>1. IsFiniteSet(1 .. n)
    BY FS_Interval
  <2> QED
    BY <2>1, FS_Subset
<1>4. (S \cup {n + 1}) \ {n + 1} = S
  OBVIOUS
<1> QED
  BY <1>1, <1>2, <1>3, <1>4

\* An applied transaction joins the entries it belongs to.
LEMMA EntriesGrow ==
    ASSUME NEW S, trace \in Seq(S), NEW tx, ApplyTransaction(tx), NEW p, NEW types
    PROVE  /\ Entries(p, types) \subseteq 1 .. Len(trace)
           /\ Entries(p, types)' = IF tx.type \in types /\ tx.product = p
                                   THEN Entries(p, types) \cup {Len(trace) + 1}
                                   ELSE Entries(p, types)
<1> DEFINE n == Len(trace)
<1>1. /\ n \in Nat /\ DOMAIN trace = 1 .. n /\ DOMAIN trace' = 1 .. n + 1
      /\ \A i \in 1 .. n : trace'[i] = trace[i]
      /\ trace'[n + 1].tx = tx
  <2>1. trace'[n + 1] = [tx |-> tx, old_hash |-> state, new_hash |-> state']
    BY TraceGrows
  <2>2. trace'[n + 1].tx = tx
    BY <2>1
  <2>3. /\ n \in Nat /\ DOMAIN trace = 1 .. n /\ DOMAIN trace' = 1 .. n + 1
        /\ \A i \in 1 .. n : trace'[i] = trace[i]
    <3> HIDE DEF ApplyTransaction
    <3> QED
      BY ONLY trace \in Seq(S), ApplyTransaction(tx), TraceGrows
  <2> QED
    BY <2>2, <2>3
<1> HIDE DEF n
<1>2. 1 .. n + 1 = (1 .. n) \cup {n + 1}
  BY <1>1
<1> QED
  BY <1>1, <1>2 DEF Entries, n

-----------------------------------------------------------------------------
(* Quarantine.  QuarantineHolds is inductive together with the types.      *)

\* The types of the world state and of the trace.
Typed == IsWorld(state) /\ \E S : trace \in Seq(S)

\* They hold with the engine that has all handlers.
LEMMA TypedStep ==
    ASSUME AllRegistered, Typed, [ManagerNext]_manager_vars
    PROVE  Typed'
<1>1. ASSUME NEW tx \in Tx, ApplyTransaction(tx) PROVE Typed'
  BY <1>1, WorldStep, TraceGrows DEF Typed
<1>2. ASSUME NEW s \in ResetStates, Reset(s) PROVE Typed'
  <2>1. trace' = <<>> /\ state' = s
    BY <1>2 DEF Reset
  <2>2. <<>> \in Seq({})
    BY EmptySeq
  <2> QED
    BY <2>1, <2>2, ResetWorlds DEF Typed
<1>3. CASE UNCHANGED manager_vars
  BY <1>3 DEF manager_vars, Typed
<1> QED
  BY <1>1, <1>2, <1>3 DEF ManagerNext, RejectTransaction

\* What becomes of one product when a transaction is applied.
LEMMA ProductStep ==
    ASSUME AllRegistered, Typed, NEW tx \in Tx, ApplyTransaction(tx)
    PROVE  /\ DOMAIN state'.products = DOMAIN state.products
           /\ \A p \in DOMAIN state.products :
                 \/ /\ tx.type \in {"ship", "receive", "inspect", "quarantine", "release"}
                    /\ tx.product = p
                    /\ HandledRecord(state.products[p], state'.products[p], tx)
                 \/ /\ ~ (/\ tx.type \in {"ship", "receive", "inspect", "quarantine", "release"}
                          /\ tx.product = p)
                    /\ state'.products[p] = state.products[p]
<1>1. IsWorld(state)
  BY DEF Typed
<1>2. CASE HandledProducts(state.products, state'.products, tx)
           /\ tx.type \in {"ship", "receive", "inspect", "quarantine", "release"}
  <2> HIDE DEF HandledRecord
  <2> QED
    BY <1>2 DEF HandledProducts
<1>3. CASE state'.products = state.products
           /\ tx.type \notin {"ship", "receive", "inspect", "quarantine", "release"}
  BY <1>3
<1> QED
  BY <1>1, <1>2, <1>3, WorldStep

\* An applied transaction is the last entry about its product, or it leaves
\* the last entry about it alone.
LEMMA LastEntryStep ==
    ASSUME NEW S, trace \in Seq(S), NEW tx, ApplyTransaction(tx), NEW p, NEW types
    PROVE  /\ tx.type \in types /\ tx.product = p =>
                /\ Entries(p, types)' # {}
                /\ trace'[Max(Entries(p, types)')].tx = tx
                /\ Entries(p, types)' \ {Max(Entries(p, types)')} = Entries(p, types)
                /\ Cardinality(Entries(p, types)') = Cardinality(Entries(p, types)) + 1
           /\ ~ (tx.type \in types /\ tx.product = p) => Entries(p, types)' = Entries(p, types)
           /\ Entries(p, types) # {} =>
                trace'[Max(Entries(p, types))].tx = trace[Max(Entries(p, types))].tx
           /\ IsFiniteSet(Entries(p, types))
<1> DEFINE n == Len(trace)
           K == Entries(p, types)
<1>1. /\ n \in Nat /\ \A i \in 1 .. n : trace'[i] = trace[i]
      /\ trace'[n + 1] = [tx |-> tx, old_hash |-> state, new_hash |-> state']
  BY TraceGrows
<1>2. /\ K \subseteq 1 .. n
      /\ Entries(p, types)' = IF tx.type \in types /\ tx.product = p THEN K \cup {n + 1} ELSE K
  BY EntriesGrow
<1> HIDE DEF n, K
<1>3. /\ K # {} => Max(K) \in K
      /\ Max(K \cup {n + 1}) = n + 1
      /\ (K \cup {n + 1}) \ {n + 1} = K
      /\ IsFiniteSet(K)
  BY <1>1, <1>2, LastEntry
<1>4. Cardinality(K \cup {n + 1}) = Cardinality(K) + 1
  <2>1. n + 1 \notin K
    BY <1>1, <1>2
  <2> QED
    BY <1>3, <2>1, FS_AddElement
<1>5. trace'[n + 1].tx = tx
  BY <1>1
<1>6. K # {} => trace'[Max(K)] = trace[Max(K)]
  BY <1>1, <1>2, <1>3
<1> QED
  BY <1>2, <1>3, <1>4, <1>5, <1>6 DEF K

\* What QuarantineHolds says of one product.
QuarantineOf(p) ==
    LET q == Entries(p, {"quarantine", "release"})
        held == q # {} /\ trace[Max(q)].tx.type = "quarantine"
    IN  /\ held <=> state.products[p].status = "quarantined"
        /\ held <=> state.products[p].quarantine_reason # None

\* apply_transaction keeps quarantined what the trace says is quarantined.
LEMMA QuarantineStep ==
    ASSUME AllRegistered, Typed, QuarantineHolds, NEW tx \in Tx, ApplyTransaction(tx)
    PROVE  QuarantineHolds'
<1>0. PICK S : trace \in Seq(S)
  BY DEF Typed
<1>1. DOMAIN state'.products = DOMAIN state.products
  BY ProductStep
<1>2. ASSUME NEW p \in DOMAIN state.products PROVE QuarantineOf(p)'
  <2> DEFINE types == {"quarantine", "release"}
             q == Entries(p, types)
             old == state.products[p]
             new == state'.products[p]
  <2>1. /\ tx.type \in types /\ tx.product = p =>
                /\ q' # {}
                /\ trace'[Max(q')].tx = tx
        /\ ~ (tx.type \in types /\ tx.product = p) => q' = q
        /\ q # {} => trace'[Max(q)].tx = trace[Max(q)].tx
    BY <1>0, LastEntryStep
  <2>2. /\ (q # {} /\ trace[Max(q)].tx.type = "quarantine") <=> old.status = "quarantined"
        /\ (q # {} /\ trace[Max(q)].tx.type = "quarantine") <=> old.quarantine_reason # None
    BY <1>2 DEF QuarantineHolds
  <2>3. \/ /\ tx.type \in {"ship", "receive", "inspect", "quarantine", "release"}
           /\ tx.product = p
           /\ HandledRecord(old, new, tx)
        \/ /\ ~ (/\ tx.type \in {"ship", "receive", "inspect", "quarantine", "release"}
                 /\ tx.product = p)
           /\ new = old
    BY <1>2, ProductStep
  <2> SUFFICES
        /\ (q' # {} /\ trace'[Max(q')].tx.type = "quarantine") <=> new.status = "quarantined"
        /\ (q' # {} /\ trace'[Max(q')].tx.type = "quarantine") <=> new.quarantine_reason # None
    BY DEF QuarantineOf
  <2> HIDE DEF q, old, new
  <2>4. CASE tx.type \in types /\ tx.product = p
    BY <2>1, <2>3, <2>4 DEF HandledRecord
  <2>5. CASE ~ (tx.type \in types /\ tx.product = p)
    <3>1. q' = q /\ (q # {} => trace'[Max(q)].tx = trace[Max(q)].tx)
      BY <2>1, <2>5
    <3>2. /\ (new.status = "quarantined") <=> (old.status = "quarantined")
          /\ new.quarantine_reason = old.quarantine_reason
      BY <2>3, <2>5 DEF HandledRecord
    <3> QED
      BY <2>2, <3>1, <3>2
  <2> QED
    BY <2>4, <2>5
<1> QED
  BY <1>1, <1>2 DEF QuarantineHolds, QuarantineOf

\* A product is quarantined exactly when the trace says so: whatever ran
\* before, _handle_ship and _handle_receive let no quarantined product pass
\* and only _handle_release clears the reason.
THEOREM SpecQuarantineHolds ==
    ASSUME AllRegistered PROVE ManagerSpec => []QuarantineHolds
<1> DEFINE I == Typed /\ QuarantineHolds
<1>0. <<>> \in Seq({}) /\ DOMAIN <<>> = {}
  BY EmptySeq
<1>1. ASSUME NEW s \in ResetStates, state = s, trace = <<>> PROVE I
  <2>1. Typed
    BY <1>0, <1>1, ResetWorlds DEF Typed
  <2>2. QuarantineHolds
    BY <1>0, <1>1, ResetWorlds DEF QuarantineHolds, Entries
  <2> QED
    BY <2>1, <2>2
<1>2. ManagerInit => I
  BY <1>1 DEF ManagerInit
<1>3. I /\ [ManagerNext]_manager_vars => I'
  <2> SUFFICES ASSUME I, [ManagerNext]_manager_vars PROVE QuarantineHolds'
    BY TypedStep
  <2>1. ASSUME NEW tx \in Tx, ApplyTransaction(tx) PROVE QuarantineHolds'
    BY <2>1, QuarantineStep
  <2>2. ASSUME NEW s \in ResetStates, Reset(s) PROVE QuarantineHolds'
    BY <1>0, <2>2, ResetWorlds DEF QuarantineHolds, Entries, Reset
  <2>3. CASE UNCHANGED manager_vars
    BY <2>3 DEF manager_vars, QuarantineHolds, Entries
  <2> QED
    BY <2>1, <2>2, <2>3 DEF ManagerNext, RejectTransaction
<1>4. I => QuarantineHolds
  OBVIOUS
<1> QED
  BY <1>2, <1>3, <1>4, PTL DEF ManagerSpec

-----------------------------------------------------------------------------
(* Custody.  A receive is only proved to come right after a ship because a *)
(* product in transit was last moved by one, and no reset has a product    *)
(* that is in transit.                                                     *)

TransitFollowsTrace ==
    /\ DOMAIN base.products = DOMAIN state.products
    /\ \A p \in DOMAIN state.products :
          LET moves == Entries(p, {"ship", "receive"})
          IN  state.products[p].status = "in_transit" =>
                 moves # {} /\ trace[Max(moves)].tx.type = "ship"

\* What the two invariants say of one product.
CustodyOf(p) ==
    LET product == state.products[p]
        moves   == Entries(p, {"ship", "receive"})
        ships   == Entries(p, {"ship"})
    IN  /\ product.owner =
              IF moves = {} THEN base.products[p].owner
              ELSE LET tx == trace[Max(moves)].tx
                   IN  IF tx.type = "ship" THEN tx.shipper ELSE tx.receiver
        /\ product.location =
              IF ships = {} THEN base.products[p].location
              ELSE trace[Max(ships)].tx.destination
        /\ product.status = "delivered" =>
              /\ Cardinality(moves) >= 2
              /\ trace[Max(moves)].tx.type = "receive"
              /\ trace[Max(moves \ {Max(moves)})].tx.type = "ship"
        /\ product.status = "in_transit" =>
              moves # {} /\ trace[Max(moves)].tx.type = "ship"

\* apply_transaction keeps the custody of every product provable.
LEMMA CustodyStep ==
    ASSUME AllRegistered, Typed, CustodyFollowsTrace, TransitFollowsTrace,
           NEW tx \in Tx, ApplyTransaction(tx)
    PROVE  CustodyFollowsTrace' /\ TransitFollowsTrace'
<1>0. PICK S : trace \in Seq(S)
  BY DEF Typed
<1>1. DOMAIN state'.products = DOMAIN state.products /\ base' = base
  BY ProductStep DEF ApplyTransaction
<1>2. ASSUME NEW p \in DOMAIN state.products PROVE CustodyOf(p)'
  <2> DEFINE moves == Entries(p, {"ship", "receive"})
             ships == Entries(p, {"ship"})
             old == state.products[p]
             new == state'.products[p]
             start == base.products[p]
  <2>1. /\ tx.type \in {"ship", "receive"} /\ tx.product = p =>
                /\ moves' # {}
                /\ trace'[Max(moves')].tx = tx
                /\ moves' \ {Max(moves')} = moves
                /\ Cardinality(moves') = Cardinality(moves) + 1
        /\ ~ (tx.type \in {"ship", "receive"} /\ tx.product = p) => moves' = moves
        /\ moves # {} => trace'[Max(moves)].tx = trace[Max(moves)].tx
        /\ IsFiniteSet(moves)
    BY <1>0, LastEntryStep
  <2>2. /\ tx.type \in {"ship"} /\ tx.product = p =>
                /\ ships' # {}
                /\ trace'[Max(ships')].tx = tx
        /\ ~ (tx.type \in {"ship"} /\ tx.product = p) => ships' = ships
        /\ ships # {} => trace'[Max(ships)].tx = trace[Max(ships)].tx
    BY <1>0, LastEntryStep
  <2>3. /\ old.owner = IF moves = {} THEN start.owner
                       ELSE IF trace[Max(moves)].tx.type = "ship"
                            THEN trace[Max(moves)].tx.shipper
                            ELSE trace[Max(moves)].tx.receiver
        /\ old.location = IF ships = {} THEN start.location
                          ELSE trace[Max(ships)].tx.destination
        /\ old.status = "delivered" =>
              /\ Cardinality(moves) >= 2
              /\ trace[Max(moves)].tx.type = "receive"
              /\ trace[Max(moves \ {Max(moves)})].tx.type = "ship"
        /\ old.status = "in_transit" =>
              moves # {} /\ trace[Max(moves)].tx.type = "ship"
    BY <1>2 DEF CustodyFollowsTrace, TransitFollowsTrace
  <2>4. \/ /\ tx.type \in {"ship", "receive", "inspect", "quarantine", "release"}
           /\ tx.product = p
           /\ HandledRecord(old, new, tx)
        \/ /\ ~ (/\ tx.type \in {"ship", "receive", "inspect", "quarantine", "release"}
                 /\ tx.product = p)
           /\ new = old
    BY <1>2, ProductStep
  <2>5. /\ moves # {} => Cardinality(moves) >= 1
        /\ Cardinality(moves) \in Nat
    BY <2>1, FS_CardinalityType, FS_EmptySet
  <2>6. moves \ {Max(moves)} # {} =>
           trace'[Max(moves \ {Max(moves)})].tx = trace[Max(moves \ {Max(moves)})].tx
    <3> DEFINE n == Len(trace)
               rest == moves \ {Max(moves)}
    <3>1. n \in Nat /\ (\A i \in 1 .. n : trace'[i] = trace[i]) /\ rest \subseteq 1 .. n
      BY <1>0, TraceGrows, EntriesGrow
    <3> HIDE DEF n, rest
    <3>2. rest # {} => Max(rest) \in rest
      BY <3>1, LastEntry
    <3>3. rest # {} => trace'[Max(rest)] = trace[Max(rest)]
      BY <3>1, <3>2
    <3> QED
      BY <3>3 DEF rest
  <2>7. Cardinality(moves) >= 2 => moves \ {Max(moves)} # {}
    <3> SUFFICES ASSUME moves \ {Max(moves)} = {}
                 PROVE  Cardinality(moves) \in {0, 1}
      OBVIOUS
    <3> HIDE DEF moves
    <3>1. moves = {} \/ moves = {Max(moves)}
      OBVIOUS
    <3>2. Cardinality({}) = 0 /\ Cardinality({Max(moves)}) = 1
      BY FS_EmptySet, FS_Singleton
    <3> QED
      BY <3>1, <3>2
  <2>8. /\ new.owner = IF moves' = {} THEN start.owner
                       ELSE IF trace'[Max(moves')].tx.type = "ship"
                            THEN trace'[Max(moves')].tx.shipper
                            ELSE trace'[Max(moves')].tx.receiver
        /\ new.location = IF ships' = {} THEN start.location
                          ELSE trace'[Max(ships')].tx.destination
        /\ new.status = "delivered" =>
              /\ Cardinality(moves') >= 2
              /\ trace'[Max(moves')].tx.type = "receive"
              /\ trace'[Max(moves' \ {Max(moves')})].tx.type = "ship"
        /\ new.status = "in_transit" =>
              moves' # {} /\ trace'[Max(moves')].tx.type = "ship"
    <3> HIDE DEF moves, ships, old, new, start
    <3>1. CASE tx.type = "ship" /\ tx.product = p
      BY <3>1, <2>1, <2>2, <2>4 DEF HandledRecord
    <3>2. CASE tx.type = "receive" /\ tx.product = p
      <4>1. /\ new.owner = tx.receiver /\ new.location = old.location
            /\ old.status = "in_transit" /\ new.status \in {"at_customs", "delivered"}
        BY <3>2, <2>4 DEF HandledRecord
      <4>2. /\ moves' # {} /\ trace'[Max(moves')].tx = tx /\ ships' = ships
            /\ moves' \ {Max(moves')} = moves
            /\ Cardinality(moves') = Cardinality(moves) + 1
        BY <3>2, <2>1, <2>2
      <4>3. moves # {} /\ trace[Max(moves)].tx.type = "ship"
        BY <4>1, <2>3
      <4>4. Cardinality(moves') >= 2
        BY <4>2, <4>3, <2>5
      <4>5. trace'[Max(moves)].tx.type = "ship"
        BY <4>3, <2>1
      <4>6. old.location = IF ships' = {} THEN start.location
                           ELSE trace'[Max(ships')].tx.destination
        BY <4>2, <2>2, <2>3
      <4> QED
        BY <3>2, <4>1, <4>2, <4>4, <4>5, <4>6
    <3>3. CASE ~ (tx.type \in {"ship", "receive"} /\ tx.product = p)
      <4>1. moves' = moves /\ ships' = ships
        BY <3>3, <2>1, <2>2
      <4>2. /\ new.owner = old.owner /\ new.location = old.location
            /\ new.status = "delivered" => old.status = "delivered"
            /\ new.status = "in_transit" => old.status = "in_transit"
        BY <3>3, <2>4 DEF HandledRecord
      <4> QED
        BY <4>1, <4>2, <2>1, <2>2, <2>3, <2>6, <2>7, FS_EmptySet
    <3> QED
      BY <3>1, <3>2, <3>3
  <2> QED
    BY <2>8, <1>1 DEF CustodyOf
<1>3. DOMAIN base'.products = DOMAIN state'.products
  BY <1>1 DEF TransitFollowsTrace
<1> QED
  BY <1>1, <1>2, <1>3 DEF CustodyFollowsTrace, TransitFollowsTrace, CustodyOf

\* Owner, location and delivery of every product are provable from the trace
\* of the node that executed _handle_ship and _handle_receive.
THEOREM SpecCustodyFollowsTrace ==
    ASSUME AllRegistered PROVE ManagerSpec => []CustodyFollowsTrace
<1> DEFINE I == Typed /\ CustodyFollowsTrace /\ TransitFollowsTrace
<1>0. <<>> \in Seq({}) /\ DOMAIN <<>> = {}
  BY EmptySeq
<1>1. ASSUME NEW s \in ResetStates, state = s, base = s, trace = <<>> PROVE I
  <2>1. Typed
    BY <1>0, <1>1, ResetWorlds DEF Typed
  <2>2. CustodyFollowsTrace /\ TransitFollowsTrace
    BY <1>0, <1>1, ResetWorlds DEF CustodyFollowsTrace, TransitFollowsTrace, Entries
  <2> QED
    BY <2>1, <2>2
<1>2. ManagerInit => I
  BY <1>1 DEF ManagerInit
<1>3. I /\ [ManagerNext]_manager_vars => I'
  <2> SUFFICES ASSUME I, [ManagerNext]_manager_vars
               PROVE  CustodyFollowsTrace' /\ TransitFollowsTrace'
    BY TypedStep
  <2>1. ASSUME NEW tx \in Tx, ApplyTransaction(tx)
        PROVE  CustodyFollowsTrace' /\ TransitFollowsTrace'
    BY <2>1, CustodyStep
  <2>2. ASSUME NEW s \in ResetStates, Reset(s)
        PROVE  CustodyFollowsTrace' /\ TransitFollowsTrace'
    BY <1>0, <2>2, ResetWorlds DEF CustodyFollowsTrace, TransitFollowsTrace, Entries, Reset
  <2>3. CASE UNCHANGED manager_vars
    <3>0. state' = state /\ base' = base /\ trace' = trace
      BY <2>3 DEF manager_vars
    <3>1. CustodyFollowsTrace'
      <4> SUFFICES ASSUME NEW p \in DOMAIN state.products PROVE CustodyOf(p)'
        BY <3>0 DEF CustodyFollowsTrace, CustodyOf
      <4>1. /\ Entries(p, {"ship", "receive"})' = Entries(p, {"ship", "receive"})
            /\ Entries(p, {"ship"})' = Entries(p, {"ship"})
        BY <3>0 DEF Entries
      <4>2. CustodyOf(p)
        BY DEF CustodyFollowsTrace, TransitFollowsTrace, CustodyOf
      <4> QED
        BY <3>0, <4>1, <4>2 DEF CustodyOf
    <3>2. TransitFollowsTrace'
      BY <2>3 DEF manager_vars, TransitFollowsTrace, Entries
    <3> QED
      BY <3>1, <3>2
  <2> QED
    BY <2>1, <2>2, <2>3 DEF ManagerNext, RejectTransaction
<1>4. I => CustodyFollowsTrace
  OBVIOUS
<1> QED
  BY <1>2, <1>3, <1>4, PTL DEF ManagerSpec

-----------------------------------------------------------------------------
(* Supply.  The sum of the balances is followed one transaction at a time, *)
(* which needs that the amounts in the trace are the integers the handlers *)
(* cast them to.                                                           *)

AmountsAreIntegers ==
    \A i \in DOMAIN trace : trace[i].tx.type \in {"mint", "burn"} => trace[i].tx.amount \in Int

SupplyInv ==
    /\ Typed
    /\ IsWorld(base)
    /\ AmountsAreIntegers
    /\ SupplyConserved

\* The indices that Moved sums over, and the amounts there.
MovedAt(type) == {k \in DOMAIN trace : trace[k].tx.type = type}
MovedAmounts(type) == [i \in MovedAt(type) |-> trace[i].tx.amount]

\* What was minted, or burnt, is an integer.
LEMMA MovedType ==
    ASSUME NEW S, trace \in Seq(S), AmountsAreIntegers, NEW type \in {"mint", "burn"}
    PROVE  /\ IsFiniteSet(MovedAt(type))
           /\ \A i \in MovedAt(type) : trace[i].tx.amount \in Int
           /\ Moved(type) = SumFunctionOnSet(MovedAmounts(type), MovedAt(type))
           /\ Moved(type) \in Int
<1>1. Len(trace) \in Nat /\ DOMAIN trace = 1 .. Len(trace)
  BY LenProperties
<1>2. IsFiniteSet(MovedAt(type))
  <2>1. MovedAt(type) \subseteq 1 .. Len(trace)
    BY <1>1 DEF MovedAt
  <2> QED
    BY <1>1, <2>1, LastEntry
<1>3. \A i \in MovedAt(type) : trace[i].tx.amount \in Int
  BY DEF MovedAt, AmountsAreIntegers
<1>4. Moved(type) = SumFunctionOnSet(MovedAmounts(type), MovedAt(type))
  BY DEF Moved, SumFunction, MovedAt, MovedAmounts
<1>5. \A i \in MovedAt(type) : MovedAmounts(type)[i] \in Int
  BY <1>3 DEF MovedAmounts
<1> QED
  BY <1>2, <1>3, <1>4, <1>5, SumType

\* An applied mint, or burn, adds its amount.
LEMMA MovedStep ==
    ASSUME NEW S, trace \in Seq(S), AmountsAreIntegers, NEW tx, ApplyTransaction(tx),
           tx.type \in {"mint", "burn"} => tx.amount \in Int,
           NEW type \in {"mint", "burn"}
    PROVE  Moved(type)' = Moved(type) + (IF tx.type = type THEN tx.amount ELSE 0)
<1> DEFINE n == Len(trace)
           K == MovedAt(type)
           f == MovedAmounts(type)
<1>1. /\ n \in Nat /\ DOMAIN trace = 1 .. n /\ DOMAIN trace' = 1 .. n + 1
      /\ \A i \in 1 .. n : trace'[i] = trace[i]
      /\ trace'[n + 1] = [tx |-> tx, old_hash |-> state, new_hash |-> state']
  BY TraceGrows
<1>2. trace'[n + 1].tx = tx
  BY <1>1
<1>3. /\ IsFiniteSet(K) /\ Moved(type) = SumFunctionOnSet(f, K) /\ Moved(type) \in Int
      /\ \A i \in K : trace[i].tx.amount \in Int
  BY MovedType
<1>4. Moved(type)' = SumFunctionOnSet(f', K')
  BY DEF Moved, SumFunction, MovedAt, MovedAmounts
<1>5. /\ K \subseteq 1 .. n /\ n + 1 \notin K
      /\ K' = IF tx.type = type THEN K \cup {n + 1} ELSE K
  <2> HIDE DEF n
  <2>1. 1 .. n + 1 = (1 .. n) \cup {n + 1} /\ n + 1 \notin 1 .. n
    BY <1>1
  <2> QED
    BY <1>1, <1>2, <2>1 DEF MovedAt
<1>6. /\ \A i \in K : f[i] = trace[i].tx.amount /\ f'[i] = f[i] /\ f'[i] \in Int
      /\ tx.type = type => f'[n + 1] = tx.amount
  <2>1. /\ \A i \in K : f[i] = trace[i].tx.amount
        /\ \A i \in K' : f'[i] = trace'[i].tx.amount
    BY DEF MovedAmounts
  <2> HIDE DEF K, f, n
  <2> QED
    BY <2>1, <1>1, <1>2, <1>3, <1>5
<1> HIDE DEF n, K, f
<1>7. SumFunctionOnSet(f', K) = SumFunctionOnSet(f, K)
  BY <1>3, <1>6, SumSame
<1>8. CASE tx.type = type
  <2>1. K' = K \cup {n + 1} /\ K' \ {n + 1} = K /\ n + 1 \in K'
    BY <1>5, <1>8
  <2>2. IsFiniteSet(K')
    BY <1>3, <2>1, FS_AddElement
  <2>3. \A i \in K' : f'[i] \in Int
    BY <1>6, <1>8, <2>1
  <2>4. SumFunctionOnSet(f', K') = f'[n + 1] + SumFunctionOnSet(f', K' \ {n + 1})
    BY <2>1, <2>2, <2>3, SumRemove
  <2>5. Moved(type)' = tx.amount + Moved(type)
    BY <1>3, <1>4, <1>6, <1>7, <1>8, <2>1, <2>4
  <2>6. tx.amount \in Int /\ Moved(type) \in Int
    BY <1>3, <1>8
  <2> QED
    BY <1>8, <2>5, <2>6
<1>9. CASE tx.type # type
  BY <1>3, <1>4, <1>5, <1>7, <1>9
<1> QED
  BY <1>8, <1>9

\* A diff explains any change that neither removes an account nor creates an
\* empty one.
LEMMA DiffSuffices ==
    ASSUME NEW entry, NEW old, NEW new,
           entry.old_hash.balances = old, entry.new_hash.balances = new,
           DOMAIN old \subseteq DOMAIN new,
           new \in [DOMAIN new -> Nat],
           \A a \in DOMAIN new \ DOMAIN old : new[a] # 0
    PROVE  DiffExplains(entry)
<1> DEFINE diff == Engine!_compute_diff(old, new)
<1>1. /\ DOMAIN diff = {b \in DOMAIN new : Engine!Balance(old, b) # Engine!Balance(new, b)}
      /\ \A a \in DOMAIN diff : diff[a][2] = Engine!Balance(new, a)
  BY DEF Engine!_compute_diff
<1> HIDE DEF diff
<1>2. DOMAIN new = DOMAIN old \cup DOMAIN diff
  BY <1>1 DEF Engine!Balance
<1>3. \A a \in DOMAIN new : new[a] = IF a \in DOMAIN diff THEN diff[a][2] ELSE old[a]
  BY <1>1, <1>2 DEF Engine!Balance
<1>4. new = [a \in DOMAIN old \cup DOMAIN diff |->
               IF a \in DOMAIN diff THEN diff[a][2] ELSE old[a]]
  BY <1>2, <1>3
<1> QED
  BY <1>4 DEF DiffExplains, diff

\* An accepted transaction keeps the supply accounted for.
LEMMA SupplyStep ==
    ASSUME AllRegistered, SupplyInv, NEW tx \in Tx, ApplyTransaction(tx)
    PROVE  SupplyInv'
<1>0. PICK S : trace \in Seq(S)
  BY DEF SupplyInv, Typed
<1>1. Typed' /\ IsWorld(state) /\ IsWorld(state') /\ base' = base
  BY TypedStep DEF SupplyInv, Typed, ApplyTransaction, ManagerNext
<1> DEFINE n == Len(trace)
           old == state.balances
           new == state'.balances
<1>2. /\ n \in Nat /\ DOMAIN trace = 1 .. n /\ DOMAIN trace' = 1 .. n + 1
      /\ \A i \in 1 .. n : trace'[i] = trace[i]
      /\ trace'[n + 1] = [tx |-> tx, old_hash |-> state, new_hash |-> state']
  BY <1>0, TraceGrows
<1>3. /\ tx.type \in {"mint", "burn"} => tx.amount \in Int
      /\ Total(new) = Total(old) + (IF tx.type = "mint" THEN tx.amount ELSE 0)
                                 - (IF tx.type = "burn" THEN tx.amount ELSE 0)
      /\ DOMAIN old \subseteq DOMAIN new
      /\ \A a \in DOMAIN new \ DOMAIN old : new[a] # 0
  <2>1. Total(old) \in Int
    BY <1>1, SumType DEF IsWorld, Total, SumFunction
  <2>2. CASE tx.type \in {"ship", "receive", "inspect", "quarantine", "release"} /\ new = old
    BY <2>1, <2>2
  <2>3. CASE LedgerMoved(old, new, tx)
    BY <2>3 DEF LedgerMoved
  <2> QED
    BY <1>1, <2>2, <2>3, WorldStep
<1>4. new \in [DOMAIN new -> Nat]
  BY <1>1 DEF IsWorld
<1>5. /\ Total(old) \in Int /\ Total(base.balances) \in Int
      /\ Moved("mint") \in Int /\ Moved("burn") \in Int
  BY <1>0, <1>1, SumType, MovedType DEF SupplyInv, IsWorld, Total, SumFunction
<1>6. /\ Moved("mint")' = Moved("mint") + (IF tx.type = "mint" THEN tx.amount ELSE 0)
      /\ Moved("burn")' = Moved("burn") + (IF tx.type = "burn" THEN tx.amount ELSE 0)
  BY <1>0, <1>3, MovedStep DEF SupplyInv
<1>7. Total(old) = Total(base.balances) + Moved("mint") - Moved("burn")
  BY DEF SupplyInv, SupplyConserved
<1>8. Total(new) = Total(base.balances) + Moved("mint")' - Moved("burn")'
  <2>1. ASSUME NEW m \in Int, NEW b \in Int, NEW m1, NEW b1, NEW t \in Int, NEW s \in Int,
               NEW t1, tx.type \in {"mint", "burn"} => tx.amount \in Int,
               m1 = m + (IF tx.type = "mint" THEN tx.amount ELSE 0),
               b1 = b + (IF tx.type = "burn" THEN tx.amount ELSE 0),
               t = s + m - b,
               t1 = t + (IF tx.type = "mint" THEN tx.amount ELSE 0)
                      - (IF tx.type = "burn" THEN tx.amount ELSE 0)
        PROVE  t1 = s + m1 - b1
    BY ONLY <2>1
  <2> QED
    BY <1>3, <1>5, <1>6, <1>7, <2>1
<1>9. \A i \in DOMAIN trace' : DiffExplains(trace'[i])
  <2>1. DiffExplains(trace'[n + 1])
    <3>1. trace'[n + 1].old_hash = state /\ trace'[n + 1].new_hash = state'
      BY <1>2
    <3> HIDE DEF n
    <3> QED
      BY <3>1, <1>3, <1>4, DiffSuffices
  <2>2. \A i \in 1 .. n : DiffExplains(trace'[i])
    <3>1. \A i \in 1 .. n : DiffExplains(trace[i])
      BY <1>2 DEF SupplyInv, SupplyConserved
    <3> HIDE DEF n
    <3>2. ASSUME NEW i \in 1 .. n PROVE DiffExplains(trace'[i])
      <4>1. DiffExplains(trace[i]) /\ trace'[i] = trace[i]
        BY <3>1, <1>2
      <4> QED
        BY <4>1 DEF DiffExplains
    <3> QED
      BY <3>2
  <2> QED
    <3> HIDE DEF n
    <3>1. \A i \in 1 .. n + 1 : i = n + 1 \/ i \in 1 .. n
      BY <1>2
    <3> QED
      BY <1>2, <2>1, <2>2, <3>1
<1>10. AmountsAreIntegers'
  <2>1. trace'[n + 1].tx = tx
    BY <1>2
  <2>2. \A i \in 1 .. n : trace[i].tx.type \in {"mint", "burn"} => trace[i].tx.amount \in Int
    BY <1>2 DEF SupplyInv, AmountsAreIntegers
  <2> HIDE DEF n
  <2>3. \A i \in 1 .. n + 1 : i = n + 1 \/ i \in 1 .. n
    BY <1>2
  <2> QED
    BY <1>2, <1>3, <2>1, <2>2, <2>3 DEF AmountsAreIntegers
<1>11. \A a \in DOMAIN new : new[a] >= 0
  BY <1>4
<1> QED
  BY <1>1, <1>8, <1>9, <1>10, <1>11 DEF SupplyInv, SupplyConserved

\* Tokens are neither lost nor created by _handle_transfer, _handle_mint and
\* _handle_burn, no account is overdrawn, and the diffs of the trace explain
\* every balance: for any accounts, amounts and transactions.
THEOREM SpecSupplyConserved ==
    ASSUME AllRegistered PROVE ManagerSpec => []SupplyConserved
<1>0. <<>> \in Seq({}) /\ DOMAIN <<>> = {}
  BY EmptySeq
<1>1. ASSUME NEW s \in ResetStates, state = s, base = s, trace = <<>>
      PROVE  SupplyInv
  <2>1. Typed /\ IsWorld(base)
    BY <1>0, <1>1, ResetWorlds DEF Typed
  <2>2. AmountsAreIntegers
    BY <1>0, <1>1 DEF AmountsAreIntegers
  <2>3. Total(state.balances) \in Int
    BY <2>1, SumType DEF Typed, IsWorld, Total, SumFunction
  <2>4. \A type \in {"mint", "burn"} : Moved(type) = 0
    <3> TAKE type \in {"mint", "burn"}
    <3>1. MovedAt(type) = {}
      BY <1>0, <1>1 DEF MovedAt
    <3>2. Moved(type) = SumFunctionOnSet(MovedAmounts(type), MovedAt(type))
      BY DEF Moved, SumFunction, MovedAt, MovedAmounts
    <3> QED
      BY <3>1, <3>2, SumEmpty
  <2>5. SupplyConserved
    <3>1. Total(state.balances) = Total(base.balances) + Moved("mint") - Moved("burn")
      BY <1>1, <2>3, <2>4
    <3>2. \A a \in DOMAIN state.balances : state.balances[a] >= 0
      BY <2>1 DEF Typed, IsWorld
    <3> QED
      BY <1>0, <1>1, <3>1, <3>2 DEF SupplyConserved
  <2> QED
    BY <2>1, <2>2, <2>5 DEF SupplyInv
<1>2. ManagerInit => SupplyInv
  BY <1>1 DEF ManagerInit
<1>3. SupplyInv /\ [ManagerNext]_manager_vars => SupplyInv'
  <2> SUFFICES ASSUME SupplyInv, [ManagerNext]_manager_vars PROVE SupplyInv'
    OBVIOUS
  <2>1. ASSUME NEW tx \in Tx, ApplyTransaction(tx) PROVE SupplyInv'
    BY <2>1, SupplyStep
  <2>2. ASSUME NEW s \in ResetStates, Reset(s) PROVE SupplyInv'
    <3>1. state' = s /\ base' = s /\ trace' = <<>>
      BY <2>2 DEF Reset
    <3>2. Typed' /\ IsWorld(base)'
      BY <1>0, <3>1, ResetWorlds DEF Typed
    <3>3. AmountsAreIntegers'
      BY <1>0, <3>1 DEF AmountsAreIntegers
    <3>4. SupplyConserved'
      <4>1. Total(s.balances) \in Int /\ s.balances \in [DOMAIN s.balances -> Nat]
        BY ResetWorlds, SumType DEF IsWorld, Total, SumFunction
      <4>2. \A type \in {"mint", "burn"} : Moved(type)' = 0
        <5> TAKE type \in {"mint", "burn"}
        <5>1. MovedAt(type)' = {}
          BY <1>0, <3>1 DEF MovedAt
        <5>2. Moved(type)' = SumFunctionOnSet(MovedAmounts(type)', MovedAt(type)')
          BY DEF Moved, SumFunction, MovedAt, MovedAmounts
        <5> QED
          BY <5>1, <5>2, SumEmpty
      <4>3. Total(s.balances) = Total(s.balances) + Moved("mint")' - Moved("burn")'
        BY <4>1, <4>2
      <4> QED
        BY <1>0, <3>1, <4>1, <4>3 DEF SupplyConserved
    <3> QED
      BY <3>2, <3>3, <3>4 DEF SupplyInv
  <2>3. CASE UNCHANGED manager_vars
    <3>1. state' = state /\ base' = base /\ trace' = trace
      BY <2>3 DEF manager_vars
    <3> QED
      BY <3>1 DEF SupplyInv, Typed, AmountsAreIntegers, SupplyConserved, Moved
  <2> QED
    BY <2>1, <2>2, <2>3 DEF ManagerNext, RejectTransaction
<1>4. SupplyInv => SupplyConserved
  BY DEF SupplyInv
<1> QED
  BY <1>2, <1>3, <1>4, PTL DEF ManagerSpec
=============================================================================

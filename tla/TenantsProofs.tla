---------------------------- MODULE TenantsProofs ----------------------------
(***************************************************************************)
(* Who answers for a tenant, and its four accounts, for all sets of        *)
(* handlers and tenants, sizes of networks and all bounds.                 *)
(***************************************************************************)
EXTENDS Tenants, FiniteSetTheorems, SequenceTheorems, WellFoundedInduction, TLAPS

-----------------------------------------------------------------------------
(* Induction, and lists built one element at a time.                       *)

NatLess == {p \in Nat \X Nat : p[1] < p[2]}

\* Induction over the numbers: a set that has 0 and with each number the next
\* has all of them.  It is what the loops over the ledger need.
LEMMA SetInduction ==
    ASSUME NEW S, 0 \in S, \A n \in Nat : n \in S => n + 1 \in S
    PROVE  Nat \subseteq S
<1> DEFINE U == Nat \ S
<1> SUFFICES ASSUME U # {} PROVE FALSE
  OBVIOUS
<1>1. U \subseteq Nat
  OBVIOUS
<1> HIDE DEF U
<1>2. IsWellFoundedOn(NatLess, Nat)
  <2>1. OpToRel(<, Nat) = NatLess
    BY DEF OpToRel, NatLess
  <2> QED
    BY <2>1, NatLessThanWellFounded
<1>3. PICK n \in U : \A m \in U : ~ (<<m, n>> \in NatLess)
  <2>1. \E n \in U : \A m \in U : ~ (<<m, n>> \in NatLess)
    BY <1>1, <1>2, WFMin
  <2> QED
    BY <2>1
<1>4. n # 0 /\ n \in Nat
  BY DEF U
<1>5. n - 1 \in Nat /\ n - 1 < n /\ (n - 1) + 1 = n /\ <<n - 1, n>> \in NatLess
  BY <1>4 DEF NatLess
<1>6. n - 1 \notin U
  BY <1>3, <1>5
<1>7. n - 1 \in S
  BY <1>5, <1>6 DEF U
<1>8. n \in S
  BY <1>5, <1>7
<1> QED
  BY <1>8 DEF U

\* A loop over 1 .. n: f[i] is the accumulator after i turns, c before the
\* first, and d says what turn i makes of it.
IsLoop(f, n, S, c, d) ==
    /\ f \in [0 .. n -> S]
    /\ f[0] = c
    /\ \A i \in 1 .. n : f[i] = d[<<i, f[i - 1]>>]

\* Every loop, as those over the ledger, defines such a function.
LEMMA LoopExists ==
    ASSUME NEW n \in Nat, NEW S, NEW c \in S, NEW d \in [Nat \X S -> S]
    PROVE  \E f : IsLoop(f, n, S, c, d)
<1> DEFINE Loop(m, f) == IsLoop(f, m, S, c, d)
           Done == {m \in Nat : \E f : Loop(m, f)}
<1> USE DEF IsLoop
<1>1. 0 \in Done
  <2>1. Loop(0, [i \in 0 .. 0 |-> c])
    OBVIOUS
  <2> QED
    BY <2>1
<1>2. ASSUME NEW m \in Nat, m \in Done PROVE m + 1 \in Done
  <2>1. PICK f : Loop(m, f)
    BY <1>2
  <2> DEFINE g == [i \in 0 .. m + 1 |-> IF i = m + 1 THEN d[<<m + 1, f[m]>>] ELSE f[i]]
  <2>2. f[m] \in S /\ d[<<m + 1, f[m]>>] \in S
    BY <2>1
  <2>3. g \in [0 .. m + 1 -> S] /\ g[0] = c
    BY <2>1, <2>2
  <2>4. ASSUME NEW i \in 1 .. m + 1 PROVE g[i] = d[<<i, g[i - 1]>>]
    <3>1. CASE i = m + 1
      <4>1. i - 1 = m /\ m # m + 1 /\ m \in 0 .. m + 1 /\ i \in 0 .. m + 1
        BY <3>1
      <4>2. g[i] = d[<<m + 1, f[m]>>] /\ g[i - 1] = f[m]
        BY <4>1, <3>1
      <4> QED
        BY <4>2, <3>1
    <3>2. CASE i \in 1 .. m
      <4>1. i - 1 \in 0 .. m + 1 /\ i - 1 # m + 1 /\ i # m + 1
        BY <3>2
      <4>2. g[i] = f[i] /\ g[i - 1] = f[i - 1]
        BY <4>1
      <4>3. f[i] = d[<<i, f[i - 1]>>]
        BY <2>1, <3>2
      <4> QED
        BY <4>2, <4>3
    <3> QED
      BY <3>1, <3>2
  <2>5. Loop(m + 1, g)
    BY <2>3, <2>4
  <2> HIDE DEF Loop, g
  <2> QED
    BY <2>5
<1> HIDE DEF Loop
<1>3. Nat \subseteq Done
  <2> HIDE DEF Done
  <2> QED
    BY <1>1, <1>2, SetInduction
<1> QED
  BY <1>3 DEF Loop

\* The lists of load_entries after i turns of its loop.
OwnAmong(es, t) ==
    LET own[i \in 0 .. Len(es)] ==
            IF i = 0 THEN <<>>
            ELSE IF es[i].tenant_id = t THEN Append(own[i - 1], es[i])
            ELSE own[i - 1]
    IN  own

\* The loop of load_entries does what it says.
LEMMA OwnLoop ==
    ASSUME NEW es \in Seq(Entry), NEW t
    PROVE  /\ OwnAmong(es, t) \in [0 .. Len(es) -> Seq(Entry)]
           /\ OwnAmong(es, t)[0] = <<>>
           /\ \A i \in 1 .. Len(es) : OwnAmong(es, t)[i] =
                IF es[i].tenant_id = t THEN Append(OwnAmong(es, t)[i - 1], es[i])
                ELSE OwnAmong(es, t)[i - 1]
<1> DEFINE S == Seq(Entry)
           d == [p \in Nat \X S |->
                    IF p[1] \in 1 .. Len(es) /\ es[p[1]].tenant_id = t
                    THEN Append(p[2], es[p[1]]) ELSE p[2]]
           Defines(f) == f = [i \in 0 .. Len(es) |->
                    IF i = 0 THEN <<>>
                    ELSE IF es[i].tenant_id = t THEN Append(f[i - 1], es[i])
                    ELSE f[i - 1]]
<1>1. Len(es) \in Nat /\ \A i \in 1 .. Len(es) : es[i] \in Entry
  BY ElementOfSeq, LenProperties
<1>2. d \in [Nat \X S -> S]
  <2>1. \A p \in Nat \X S : p[1] \in 1 .. Len(es) => Append(p[2], es[p[1]]) \in S
    BY <1>1, AppendProperties
  <2> QED
    BY <2>1
<1>3. <<>> \in S
  BY EmptySeq
<1>4. PICK f \in [0 .. Len(es) -> S] :
            f[0] = <<>> /\ \A i \in 1 .. Len(es) : f[i] = d[<<i, f[i - 1]>>]
  <2> DEFINE n == Len(es)
             c == <<>>
  <2>1. n \in Nat
    BY <1>1
  <2> HIDE DEF d, S, n, c
  <2>2. c \in S
    BY <1>3 DEF c
  <2>3. PICK f : IsLoop(f, n, S, c, d)
    BY <1>2, <2>1, <2>2, LoopExists
  <2> QED
    BY <2>3 DEF n, c, IsLoop
<1>5. ASSUME NEW i \in 1 .. Len(es)
      PROVE  f[i] = IF es[i].tenant_id = t THEN Append(f[i - 1], es[i]) ELSE f[i - 1]
  <2>1. i - 1 \in 0 .. Len(es) /\ i \in Nat
    BY <1>1
  <2>2. f[i - 1] \in S
    BY <2>1, <1>4
  <2> QED
    BY <2>1, <2>2, <1>4
<1>6. Defines(f)
  <2> HIDE DEF S, d
  <2>1. \A i \in 0 .. Len(es) : f[i] =
                    IF i = 0 THEN <<>>
                    ELSE IF es[i].tenant_id = t THEN Append(f[i - 1], es[i])
                    ELSE f[i - 1]
    <3> TAKE i \in 0 .. Len(es)
    <3>1. CASE i = 0
      BY <3>1, <1>4
    <3>2. CASE i # 0
      <4>1. i \in 1 .. Len(es)
        BY <3>2, <1>1
      <4> QED
        BY <4>1, <3>2, <1>5
    <3> QED
      BY <3>1, <3>2
  <2> QED
    BY <2>1, <1>4
<1>7. OwnAmong(es, t) = CHOOSE g : Defines(g)
  BY DEF OwnAmong
<1> DEFINE F == OwnAmong(es, t)
<1>8. Defines(F)
  <2> HIDE DEF Defines
  <2> QED
    BY <1>6, <1>7
<1>9. F[0] = <<>> /\ \A i \in 1 .. Len(es) : F[i] =
                IF es[i].tenant_id = t THEN Append(F[i - 1], es[i]) ELSE F[i - 1]
  <2> HIDE DEF F
  <2>1. \A i \in 0 .. Len(es) : F[i] =
                    IF i = 0 THEN <<>>
                    ELSE IF es[i].tenant_id = t THEN Append(F[i - 1], es[i])
                    ELSE F[i - 1]
    BY <1>8
  <2>2. 0 \in 0 .. Len(es) /\ \A i \in 1 .. Len(es) : i \in 0 .. Len(es) /\ i # 0
    BY <1>1
  <2>3. F[0] = <<>>
    BY <2>1, <2>2
  <2>4. \A i \in 1 .. Len(es) : F[i] =
                IF es[i].tenant_id = t THEN Append(F[i - 1], es[i]) ELSE F[i - 1]
    BY <2>1, <2>2, Zenon
  <2> QED
    BY <2>3, <2>4
<1>10. F = [i \in 0 .. Len(es) |-> F[i]]
  <2> HIDE DEF F
  <2> QED
    BY <1>8
<1>11. \A n \in Nat : n <= Len(es) => F[n] = f[n]
  <2> DEFINE Same == {n \in Nat : n <= Len(es) => F[n] = f[n]}
  <2>1. 0 \in Same
    BY <1>4, <1>9
  <2>2. ASSUME NEW n \in Nat, n \in Same PROVE n + 1 \in Same
    <3> HIDE DEF F, d, S
    <3>1. CASE n + 1 <= Len(es)
      <4>1. n + 1 \in 1 .. Len(es) /\ (n + 1) - 1 = n /\ F[n] = f[n]
        BY <3>1, <2>2, <1>1
      <4> QED
        BY <4>1, <1>5, <1>9
    <3> QED
      BY <3>1, <1>1
  <2> HIDE DEF Same
  <2>3. Nat \subseteq Same
    BY <2>1, <2>2, SetInduction
  <2> QED
    BY <2>3 DEF Same
<1>12. \A i \in 0 .. Len(es) : F[i] \in S
  <2> HIDE DEF F, S
  <2> QED
    BY <1>4, <1>11, <1>1
<1>13. F \in [0 .. Len(es) -> S]
  <2> HIDE DEF F, S
  <2> QED
    BY <1>10, <1>12
<1> QED
  BY <1>9, <1>13

\* The ledger of a tenant grows by its own entries only.
LEMMA OwnAppend ==
    ASSUME NEW es \in Seq(Entry), NEW e \in Entry, NEW t
    PROVE  /\ load_entries(es, t) \in Seq(Entry)
           /\ load_entries(<<>>, t) = <<>>
           /\ load_entries(Append(es, e), t) =
                IF e.tenant_id = t THEN Append(load_entries(es, t), e) ELSE load_entries(es, t)
<1>1. \A s \in Seq(Entry) : load_entries(s, t) = OwnAmong(s, t)[Len(s)] /\ Len(s) \in Nat
  BY LenProperties DEF load_entries, OwnAmong
<1>2. <<>> \in Seq(Entry) /\ Len(<<>>) = 0
  BY EmptySeq
<1> DEFINE n == Len(es)
           more == Append(es, e)
           F == OwnAmong(es, t)
           G == OwnAmong(more, t)
<1>3. n \in Nat
  BY <1>1
<1>4. /\ more \in Seq(Entry) /\ Len(more) = n + 1
      /\ more[n + 1] = e /\ \A i \in 1 .. n : more[i] = es[i]
  BY AppendProperties
<1>5. F[0] = <<>> /\ (\A i \in 0 .. n : F[i] \in Seq(Entry))
      /\ \A i \in 1 .. n : F[i] = IF es[i].tenant_id = t THEN Append(F[i - 1], es[i]) ELSE F[i - 1]
  BY OwnLoop
<1>6. G[0] = <<>> /\ \A i \in 1 .. n + 1 :
            G[i] = IF more[i].tenant_id = t THEN Append(G[i - 1], more[i]) ELSE G[i - 1]
  <2> HIDE DEF more
  <2> QED
    BY <1>4, OwnLoop
<1> HIDE DEF n, more, F, G
<1>7. G[n] = F[n]
  <2> DEFINE Same == {i \in Nat : i <= n => G[i] = F[i]}
  <2>1. 0 \in Same
    BY <1>5, <1>6
  <2>2. ASSUME NEW i \in Nat, i \in Same PROVE i + 1 \in Same
    <3>1. CASE i + 1 <= n
      <4>1. i + 1 \in 1 .. n /\ i + 1 \in 1 .. n + 1 /\ (i + 1) - 1 = i /\ G[i] = F[i]
        BY <3>1, <2>2, <1>3
      <4> QED
        BY <4>1, <1>4, <1>5, <1>6
    <3> QED
      BY <3>1, <1>3
  <2> HIDE DEF Same
  <2>3. Nat \subseteq Same
    BY <2>1, <2>2, SetInduction
  <2> QED
    BY <2>3, <1>3 DEF Same
<1>8. G[n + 1] = IF e.tenant_id = t THEN Append(F[n], e) ELSE F[n]
  <2>1. n + 1 \in 1 .. n + 1 /\ (n + 1) - 1 = n
    BY <1>3
  <2> QED
    BY <2>1, <1>4, <1>6, <1>7
<1>9. load_entries(<<>>, t) = <<>>
  BY <1>1, <1>2, OwnLoop
<1>10. load_entries(es, t) = F[n] /\ F[n] \in Seq(Entry)
  <2>1. n \in 0 .. n
    BY <1>3
  <2> QED
    BY <2>1, <1>1, <1>5 DEF F, n
<1>11. load_entries(more, t) = G[n + 1]
  BY <1>1, <1>4 DEF G
<1> QED
  BY <1>8, <1>9, <1>10, <1>11 DEF more

\* Equal entries add up to their number times what each is billed.
LEMMA SumOfEqual ==
    ASSUME NEW own \in Seq(Entry), NEW c \in Nat,
           \A i \in DOMAIN own : own[i].billed_amount = c
    PROVE  sum_billed(own) = Len(own) * c
<1> DEFINE n == Len(own)
           d == [p \in Nat \X Nat |-> p[2] + c]
           Defines(f) == f = [i \in 0 .. n |->
                    IF i = 0 THEN 0 ELSE f[i - 1] + own[i].billed_amount]
           F == CHOOSE f : Defines(f)
<1>1. n \in Nat /\ \A i \in 1 .. n : own[i].billed_amount = c
  BY LenProperties
<1>2. d \in [Nat \X Nat -> Nat]
  OBVIOUS
<1>3. PICK f : IsLoop(f, n, Nat, 0, d)
  <2> HIDE DEF n, d
  <2> QED
    BY <1>1, <1>2, LoopExists
<1>4. f \in [0 .. n -> Nat] /\ f[0] = 0 /\ \A i \in 1 .. n : f[i] = f[i - 1] + c
  <2>1. \A i \in 1 .. n : i \in Nat /\ i - 1 \in 0 .. n
    BY <1>1
  <2> QED
    BY <2>1, <1>3 DEF IsLoop
<1> HIDE DEF n
<1>5. Defines(f)
  <2>1. \A i \in 0 .. n : f[i] = IF i = 0 THEN 0 ELSE f[i - 1] + own[i].billed_amount
    <3> TAKE i \in 0 .. n
    <3>1. CASE i = 0
      BY <3>1, <1>4
    <3>2. CASE i \in 1 .. n
      BY <3>2, <1>1, <1>4
    <3> QED
      BY <3>1, <3>2, <1>1
  <2> QED
    BY <2>1, <1>4
<1>6. Defines(F)
  <2> HIDE DEF Defines
  <2> QED
    BY <1>5
<1>7. \A i \in 0 .. n : F[i] = IF i = 0 THEN 0 ELSE F[i - 1] + own[i].billed_amount
  <2> HIDE DEF F
  <2> QED
    BY <1>6
<1> HIDE DEF F
<1>8. F[n] = n * c
  <2> DEFINE Good == {i \in Nat : i <= n => F[i] = i * c}
  <2>1. 0 \in Good
    BY <1>1, <1>7
  <2>2. ASSUME NEW i \in Nat, i \in Good PROVE i + 1 \in Good
    <3>1. CASE i + 1 <= n
      <4>1. i + 1 \in 0 .. n /\ i + 1 # 0 /\ i + 1 \in 1 .. n /\ (i + 1) - 1 = i /\ F[i] = i * c
        BY <3>1, <2>2, <1>1
      <4>2. F[i + 1] = F[i] + c
        BY <4>1, <1>1, <1>7
      <4>3. i * c + c = (i + 1) * c
        OBVIOUS
      <4> QED
        BY <4>1, <4>2, <4>3
    <3> QED
      BY <3>1, <1>1
  <2> HIDE DEF Good
  <2>3. Nat \subseteq Good
    BY <2>1, <2>2, SetInduction
  <2> QED
    BY <2>3, <1>1 DEF Good
<1>9. sum_billed(own) = F[n]
  BY DEF sum_billed, F, n
<1> QED
  BY <1>8, <1>9 DEF n

\* Counting the places of a list that has grown by one.
LEMMA OneMore ==
    ASSUME NEW n \in Nat, NEW A \in SUBSET (1 .. n)
    PROVE  /\ Cardinality(A) \in Nat
           /\ Cardinality(A \cup {n + 1}) = Cardinality(A) + 1
<1>1. IsFiniteSet(A)
  <2>1. IsFiniteSet(1 .. n)
    BY FS_Interval
  <2> QED
    BY <2>1, FS_Subset
<1>2. n + 1 \notin A
  OBVIOUS
<1> QED
  BY <1>1, <1>2, FS_CardinalityType, FS_AddElement

-----------------------------------------------------------------------------
(* The invariants.                                                         *)

Writing(h) == pc[h] \in {"usage", "ledger"}

\* A handler works for a tenant whose id was drawn; before its answer it has
\* the round it writes down.  Only one writes at a time.
HandlersBusy ==
    /\ \A h \in Handler :
        /\ pc[h] # "idle" => tenant[h] \in Tenant /\ nodes[tenant[h]] > 0
        /\ Writing(h) => local[h] \in Round /\ local[h].period <= now
    /\ \A g, h \in Handler : Writing(g) /\ Writing(h) => g = h

WorksOn(h, t) == pc[h] \in {"start", "stop"} /\ tenant[h] = t

\* Somebody answers for each tenant that was created, and only one does.
\* What the servers are like depends on who it is.
OneOwner ==
    /\ \A g, h \in Handler, t \in Tenant : WorksOn(g, t) /\ WorksOn(h, t) => g = h
    /\ \A h \in Handler :
        /\ pc[h] = "start" => stopped[tenant[h]] = 0
        /\ pc[h] = "stop" => stopped[tenant[h]] <= started[tenant[h]]
    /\ \A t \in Tenant :
        /\ nodes[t] = 0 =>
            /\ started[t] = 0 /\ stopped[t] = 0 /\ fate[t] = None
            /\ t \notin _tenants
        /\ nodes[t] > 0 => t \in _tenants \/ fate[t] # None \/ \E h \in Handler : WorksOn(h, t)
        /\ t \in _tenants => fate[t] = None /\ started[t] = nodes[t] /\ stopped[t] = 0
        /\ t \in _tenants \/ fate[t] # None => \A h \in Handler : ~WorksOn(h, t)
        /\ fate[t] \in {"deleted", "lost"} => started[t] = stopped[t]

Own(t) == load_entries(_entries, t)
Faults(own) == {i \in DOMAIN own : ~own[i].consensus_reached}
In(own, p) == {i \in DOMAIN own : own[i].period = p}
Failed(log) == {i \in DOMAIN log : ~log[i]}

One(b) == IF b THEN 1 ELSE 0
RoundOpen(t) == \E h \in Handler : Writing(h) /\ tenant[h] = t
FaultOpen(t) == \E h \in Handler : Writing(h) /\ tenant[h] = t /\ ~local[h].consensus_reached
ChargeOpen(t, p) == \E h \in Handler : pc[h] = "ledger" /\ tenant[h] = t /\ local[h].period = p

\* The accounts of a tenant nobody has removed, with the round of a handler
\* that is just writing: audit log, usage counter and ledger in this order.
\* What the first is ahead of the next is this round and failed writes.
Account(t) ==
    /\ nodes[t] = 0 =>
        /\ Own(t) = <<>> /\ audit_log[t] = <<>>
        /\ \A p \in Period : get_count(_counts, t, p) = 0
    /\ \A p \in Period : get_count(_counts, t, p) > 0 => p <= now
    /\ fate[t] = None =>
        /\ _sla[t].total = Len(Own(t))
        /\ _sla[t].fault_rounds = Cardinality(Faults(Own(t)))
        /\ \A i \in DOMAIN Own(t) : Own(t)[i].billed_amount = compute_billed_amount(nodes[t])
        /\ Len(audit_log[t]) - Len(Own(t)) - One(RoundOpen(t)) \in 0 .. failures
        /\ Cardinality(Failed(audit_log[t])) - Cardinality(Faults(Own(t))) - One(FaultOpen(t)) \in 0 .. failures
        /\ \A p \in Period :
            get_count(_counts, t, p) - Cardinality(In(Own(t), p)) - One(ChargeOpen(t, p)) \in 0 .. failures

Accounts == \A t \in Tenant : Account(t)

TenantsInv == TypeOK /\ HandlersBusy /\ OneOwner /\ Accounts

-----------------------------------------------------------------------------
(* Types.                                                                  *)

\* What a round is billed is a number.
LEMMA AmountType ==
    ASSUME NEW n \in Nat
    PROVE  compute_billed_amount(n) \in Nat
<1>1. get_pricing_tier \in tiers
  BY DEF get_pricing_tier, tiers
<1>2. price_per_rmae[get_pricing_tier] \in Nat
  BY <1>1 DEF price_per_rmae, tiers
<1> HIDE DEF get_pricing_tier, price_per_rmae
<1> QED
  BY <1>2 DEF compute_billed_amount

\* What ChargeLedger appends.
NewEntry(h) ==
    [ledger_id         |-> Len(_entries) + 1,
     tenant_id         |-> tenant[h],
     period            |-> local[h].period,
     node_round_count  |-> nodes[tenant[h]],
     billed_amount     |-> compute_billed_amount(nodes[tenant[h]]),
     consensus_reached |-> local[h].consensus_reached]

\* ChargeLedger appends an entry of the ledger.
LEMMA EntryType ==
    ASSUME TypeOK, NEW h \in Handler, tenant[h] \in Tenant, local[h] \in Round
    PROVE  NewEntry(h) \in Entry
<1>1. Len(_entries) + 1 \in Nat
  BY LenProperties DEF TypeOK
<1>2. local[h].period \in Period /\ local[h].consensus_reached \in BOOLEAN
  BY DEF Round
<1>3. nodes[tenant[h]] \in Nat
  BY TenantsConstants DEF TypeOK
<1>4. compute_billed_amount(nodes[tenant[h]]) \in Nat
  BY <1>3, AmountType
<1> HIDE DEF TypeOK
<1> QED
  BY <1>1, <1>2, <1>3, <1>4 DEF NewEntry, Entry

PcType ==
    /\ pc \in [Handler -> Step]
    /\ tenant \in [Handler -> Tenant \cup {None}]

\* A handler goes on to a step of the code, for a tenant or nobody.
LEMMA GotoTypes ==
    ASSUME PcType, NEW h \in Handler
    PROVE  /\ \A step \in {"start", "stop", "broadcast", "usage", "ledger"}, t \in Tenant :
                Goto(h, step, t) => PcType'
           /\ Answer(h) => PcType'
BY DEF PcType, Goto, Answer, Step

\* A step of any handler, or of the world, keeps the types.
LEMMA StepTypes ==
    ASSUME TypeOK, HandlersBusy, [Next]_vars
    PROVE  TypeOK'
<1> USE TenantsConstants DEF TypeOK
<1> USE DEF network, billing, counters
<1>0. PcType
  BY DEF PcType
<1>1. ASSUME NEW h \in Handler, NEW t \in Tenant, NEW node_count \in 0 .. MaxNodes + 1,
             CreateTenant(h, t, node_count)
      PROVE  TypeOK'
  <2>1. nodes' \in [Tenant -> 0 .. MaxNodes]
    BY <1>1 DEF CreateTenant
  <2>2. PcType'
    <3> HIDE DEF TypeOK
    <3> QED
      BY <1>0, <1>1, GotoTypes DEF CreateTenant
  <2>10. UNCHANGED <<_tenants, started, stopped, audit_log, local, now, durable, _counts, _entries, _sla, fate, rounds, failures, restarts>>
    <3> HIDE DEF TypeOK
    <3> QED
      BY <1>1 DEF CreateTenant
  <2> QED
    BY <2>10, <2>1, <2>2 DEF PcType
<1>2. ASSUME NEW h \in Handler, StartServer(h) PROVE TypeOK'
  <2>1. tenant[h] \in Tenant /\ started[tenant[h]] + 1 \in 0 .. MaxNodes
    BY <1>2 DEF StartServer, HandlersBusy
  <2>2. started' \in [Tenant -> 0 .. MaxNodes]
    BY <1>2, <2>1 DEF StartServer
  <2> QED
    BY <1>2, <2>2 DEF StartServer
<1>3. ASSUME NEW h \in Handler, StartFails(h) PROVE TypeOK'
  <2>1. fate' \in [Tenant -> {None, "deleted", "failed", "lost"}]
    BY <1>3 DEF StartFails
  <2>9. PcType'
    <3> HIDE DEF TypeOK
    <3> QED
      BY <1>0, <1>3, GotoTypes DEF StartFails
  <2>10. {rounds', failures', restarts'} \subseteq Nat
    BY <1>3 DEF StartFails
  <2>11. UNCHANGED <<_tenants, nodes, started, stopped, audit_log, local, now, durable, _counts,
                     _entries, _sla>>
    BY <1>3 DEF StartFails
  <2> QED
    BY <2>1, <2>9, <2>10, <2>11 DEF PcType
<1>4. ASSUME NEW h \in Handler, Register(h) PROVE TypeOK'
  <2>1. _tenants' \subseteq Tenant
    BY <1>4 DEF Register, HandlersBusy
  <2>9. PcType'
    <3> HIDE DEF TypeOK
    <3> QED
      BY <1>0, <1>4, GotoTypes DEF Register
  <2> QED
    BY <1>4, <2>1, <2>9 DEF Register, PcType
<1>5. ASSUME NEW h \in Handler, NEW t \in Tenant, DeleteTenant(h, t) PROVE TypeOK'
  <2>9. PcType'
    <3> HIDE DEF TypeOK
    <3> QED
      BY <1>0, <1>5, GotoTypes DEF DeleteTenant
  <2> QED
    BY <1>5, <2>9 DEF DeleteTenant, PcType
<1>6. ASSUME NEW h \in Handler, StopServer(h) PROVE TypeOK'
  <2>1. tenant[h] \in Tenant /\ stopped[tenant[h]] + 1 \in 0 .. MaxNodes
    BY <1>6 DEF StopServer, HandlersBusy, Running
  <2>2. stopped' \in [Tenant -> 0 .. MaxNodes]
    BY <1>6, <2>1 DEF StopServer
  <2> QED
    BY <1>6, <2>2 DEF StopServer
<1>7. ASSUME NEW h \in Handler, Deleted(h) PROVE TypeOK'
  <2>1. fate' \in [Tenant -> {None, "deleted", "failed", "lost"}]
    BY <1>7 DEF Deleted
  <2>9. PcType'
    <3> HIDE DEF TypeOK
    <3> QED
      BY <1>0, <1>7, GotoTypes DEF Deleted
  <2> QED
    BY <1>7, <2>1, <2>9 DEF Deleted, PcType
<1>8. ASSUME NEW h \in Handler, NEW t \in Tenant, SubmitTransaction(h, t) PROVE TypeOK'
  <2>9. PcType'
    <3> HIDE DEF TypeOK
    <3> QED
      BY <1>0, <1>8, GotoTypes DEF SubmitTransaction
  <2>10. UNCHANGED <<_tenants, nodes, started, stopped, audit_log, local, now, durable, _counts, _entries, _sla, fate, failures, restarts>> /\ rounds' = rounds + 1
    <3> HIDE DEF TypeOK
    <3> QED
      BY <1>8 DEF SubmitTransaction
  <2>11. {rounds', failures', restarts'} \subseteq Nat
    BY ONLY TypeOK, <2>10 DEF TypeOK
  <2> QED
    BY <2>10, <2>9, <2>11 DEF PcType
<1>9. ASSUME NEW h \in Handler, BroadcastRaises(h) PROVE TypeOK'
  <2>9. PcType'
    <3> HIDE DEF TypeOK
    <3> QED
      BY <1>0, <1>9, GotoTypes DEF BroadcastRaises
  <2> QED
    BY <1>9, <2>9 DEF BroadcastRaises, PcType
<1>10. ASSUME NEW h \in Handler, NEW c \in BOOLEAN, BroadcastReturns(h, c) PROVE TypeOK'
  <2>1. tenant[h] \in Tenant
    BY <1>10 DEF BroadcastReturns, HandlersBusy
  <2>2. audit_log' \in [Tenant -> Seq(BOOLEAN)]
    BY <1>10, <2>1, AppendProperties DEF BroadcastReturns
  <2>3. local' \in [Handler -> Round \cup {None}]
    BY <1>10 DEF BroadcastReturns, Round
  <2>9. PcType'
    <3> HIDE DEF TypeOK
    <3> QED
      BY <1>0, <1>10, <2>1, GotoTypes DEF BroadcastReturns
  <2> QED
    BY <1>10, <2>1, <2>2, <2>3, <2>9 DEF BroadcastReturns, PcType
<1>11. ASSUME NEW h \in Handler, CountUsage(h) PROVE TypeOK'
  <2>1. <<tenant[h], local[h].period>> \in Tenant \X Period
    BY <1>11 DEF CountUsage, HandlersBusy, Writing, Round
  <2>2. _counts' \in [Tenant \X Period -> Nat]
    <3> DEFINE key == <<tenant[h], local[h].period>>
    <3>1. _counts' = [_counts EXCEPT ![key] = @ + 1] /\ key \in Tenant \X Period
      BY <1>11, <2>1 DEF CountUsage, increment
    <3> HIDE DEF key
    <3> QED
      BY <3>1
  <2>9. PcType'
    <3> HIDE DEF TypeOK
    <3>1. Goto(h, "ledger", tenant[h]) /\ tenant[h] \in Tenant
      BY <1>11, <2>1 DEF CountUsage
    <3> QED
      BY ONLY h \in Handler, <1>0, <3>1, GotoTypes
  <2> QED
    BY <1>11, <2>1, <2>2, <2>9 DEF CountUsage, PcType
<1>12. ASSUME NEW h \in Handler, ChargeLedger(h) PROVE TypeOK'
  <2>1. tenant[h] \in Tenant /\ local[h] \in Round
    BY <1>12 DEF ChargeLedger, HandlersBusy, Writing
  <2>2. _entries' = Append(_entries, NewEntry(h)) /\ NewEntry(h) \in Entry
    BY <1>12, <2>1, EntryType DEF ChargeLedger, NewEntry, append_entry
  <2>3. _entries' \in Seq(Entry)
    <3> HIDE DEF NewEntry
    <3> QED
      BY <2>2, AppendProperties
  <2>4. _sla' \in [Tenant -> Stats]
    <3> DEFINE stats == [total |-> _sla[tenant[h]].total + 1,
                         fault_rounds |-> _sla[tenant[h]].fault_rounds
                                            + IF local[h].consensus_reached THEN 0 ELSE 1]
    <3>1. _sla' = [_sla EXCEPT ![tenant[h]] = stats]
      BY <1>12 DEF ChargeLedger, record
    <3>2. _sla[tenant[h]] \in Stats
      BY <2>1
    <3>3. stats \in Stats
      <4> HIDE DEF TypeOK
      <4>1. _sla[tenant[h]].total \in Nat /\ _sla[tenant[h]].fault_rounds \in Nat
        BY <3>2 DEF Stats
      <4> QED
        BY <4>1 DEF Stats
    <3> HIDE DEF stats
    <3> QED
      BY <3>1, <3>3
  <2>5. local' \in [Handler -> Round \cup {None}]
    BY <1>12 DEF ChargeLedger
  <2>9. PcType'
    <3> HIDE DEF TypeOK
    <3> QED
      BY <1>0, <1>12, GotoTypes DEF ChargeLedger
  <2> QED
    BY <1>12, <2>3, <2>4, <2>5, <2>9 DEF ChargeLedger, PcType
<1>13. ASSUME NEW h \in Handler, RecordFails(h) PROVE TypeOK'
  <2>1. local' \in [Handler -> Round \cup {None}]
    BY <1>13 DEF RecordFails
  <2>9. PcType'
    <3> HIDE DEF TypeOK
    <3>1. Answer(h)
      BY <1>13 DEF RecordFails
    <3> QED
      BY ONLY h \in Handler, <1>0, <3>1, GotoTypes
  <2>10. /\ UNCHANGED <<_tenants, nodes, started, stopped, fate, audit_log, now, durable, _counts,
                         _entries, _sla, rounds, restarts>>
         /\ failures' = failures + 1
    <3> HIDE DEF TypeOK
    <3> QED
      BY <1>13 DEF RecordFails
  <2>11. {rounds', failures', restarts'} \subseteq Nat
    BY ONLY TypeOK, <2>10 DEF TypeOK
  <2> QED
    BY ONLY TypeOK, <2>1, <2>9, <2>10, <2>11 DEF TypeOK, PcType
<1>14. ASSUME NextPeriod PROVE TypeOK'
  <2>1. /\ UNCHANGED <<_tenants, nodes, started, stopped, fate, audit_log, pc, tenant, local, durable,
                        _counts, _entries, _sla, rounds, failures, restarts>>
        /\ now < MaxPeriod /\ now' = now + 1
    <3> HIDE DEF TypeOK
    <3> QED
      BY <1>14 DEF NextPeriod
  <2>2. now' \in Period
    BY ONLY TenantsConstants, TypeOK, <2>1 DEF TenantsConstants, TypeOK, Period
  <2> QED
    BY ONLY TypeOK, <2>1, <2>2 DEF TypeOK
<1>15. ASSUME Restart PROVE TypeOK'
  <2>1. _counts' \in [Tenant \X Period -> Nat]
    BY <1>15 DEF Restart, NoCounts
  <2>2. fate' \in [Tenant -> {None, "deleted", "failed", "lost"}]
    BY <1>15 DEF Restart
  <2>3. _sla' \in [Tenant -> Stats]
    BY <1>15 DEF Restart, NoSla, Stats
  <2>4. _entries' = _entries \/ _entries' = <<>>
    BY <1>15 DEF Restart
  <2>5. audit_log' \in [Tenant -> Seq(BOOLEAN)]
    BY <1>15 DEF Restart
  <2>6. /\ pc' \in [Handler -> Step]
        /\ tenant' \in [Handler -> Tenant \cup {None}]
        /\ local' \in [Handler -> Round \cup {None}]
    BY <1>15 DEF Restart, Step
  <2>10. UNCHANGED <<nodes, started, now, durable, rounds, failures>>
         /\ restarts' = restarts + 1 /\ _tenants' = {} /\ stopped' = started
    BY <1>15 DEF Restart
  <2>11. _entries' \in Seq(Entry)
    <3>1. _entries \in Seq(Entry)
      OBVIOUS
    <3> HIDE DEF TypeOK
    <3> QED
      BY <2>4, <3>1, EmptySeq
  <2>12. /\ {rounds', failures', restarts'} \subseteq Nat
         /\ now' \in Period /\ durable' \in BOOLEAN
         /\ nodes' \in [Tenant -> 0 .. MaxNodes] /\ started' \in [Tenant -> 0 .. MaxNodes]
         /\ stopped' \in [Tenant -> 0 .. MaxNodes] /\ _tenants' \subseteq Tenant
    BY ONLY TypeOK, <2>10 DEF TypeOK
  <2> QED
    BY ONLY <2>1, <2>2, <2>3, <2>5, <2>6, <2>11, <2>12 DEF TypeOK
<1>16. ASSUME UNCHANGED vars PROVE TypeOK'
  BY <1>16 DEF vars
<1> HIDE DEF TypeOK, network, billing, counters
<1> QED
  BY <1>1, <1>2, <1>3, <1>4, <1>5, <1>6, <1>7, <1>8, <1>9, <1>10, <1>11, <1>12, <1>13,
     <1>14, <1>15, <1>16 DEF Next, Handle

-----------------------------------------------------------------------------
(* What the handlers do.                                                   *)

\* Only the handler that steps moves.
LEMMA GotoMoves ==
    ASSUME TypeOK, NEW h \in Handler
    PROVE  /\ \A step, t : Goto(h, step, t) =>
                    /\ pc'[h] = step /\ tenant'[h] = t
                    /\ \A g \in Handler \ {h} : pc'[g] = pc[g] /\ tenant'[g] = tenant[g]
           /\ Answer(h) =>
                    /\ pc'[h] = "idle" /\ tenant'[h] = None
                    /\ \A g \in Handler \ {h} : pc'[g] = pc[g] /\ tenant'[g] = tenant[g]
BY DEF TypeOK, Goto, Answer

\* The handlers stay with tenants whose ids were drawn, and take turns with
\* their writes.
LEMMA StepBusy ==
    ASSUME TypeOK, HandlersBusy, OneOwner, [Next]_vars
    PROVE  HandlersBusy'
<1> USE DEF HandlersBusy, Writing, network, billing, counters
<1>a. /\ nodes \in [Tenant -> 0 .. MaxNodes] /\ local \in [Handler -> Round \cup {None}]
      /\ now \in Period /\ MaxNodes \in Nat /\ MaxNodes # 0 /\ Period \subseteq Nat
  BY TenantsConstants DEF TypeOK, Period
<1>b. LoopIsFree => \A g \in Handler : pc[g] # "usage" /\ pc[g] # "ledger"
  BY DEF LoopIsFree
<1>c. \A t \in _tenants : nodes[t] > 0
  <2>1. \A t \in _tenants : t \in Tenant /\ nodes[t] # 0
    BY DEF OneOwner, TypeOK
  <2> QED
    BY <2>1, <1>a
<1>1. ASSUME NEW h \in Handler, NEW t \in Tenant, NEW node_count \in 0 .. MaxNodes + 1,
             CreateTenant(h, t, node_count)
      PROVE  HandlersBusy'
  <2>1. nodes'[t] > 0 /\ \A u \in Tenant : u # t => nodes'[u] = nodes[u]
    BY <1>1, <1>a DEF CreateTenant
  <2>2. nodes'[t] > 0 /\ \A u \in Tenant : nodes[u] > 0 => nodes'[u] > 0
    BY <2>1
  <2> QED
    BY <1>1, <1>b, <2>2, GotoMoves DEF CreateTenant
<1>2. ASSUME NEW h \in Handler, StartServer(h) PROVE HandlersBusy'
  BY <1>2 DEF StartServer
<1>3. ASSUME NEW h \in Handler, StartFails(h) PROVE HandlersBusy'
  BY <1>3, GotoMoves DEF StartFails
<1>4. ASSUME NEW h \in Handler, Register(h) PROVE HandlersBusy'
  BY <1>4, GotoMoves DEF Register
<1>5. ASSUME NEW h \in Handler, NEW t \in Tenant, DeleteTenant(h, t) PROVE HandlersBusy'
  BY <1>5, <1>c, GotoMoves DEF DeleteTenant
<1>6. ASSUME NEW h \in Handler, StopServer(h) PROVE HandlersBusy'
  BY <1>6 DEF StopServer
<1>7. ASSUME NEW h \in Handler, Deleted(h) PROVE HandlersBusy'
  BY <1>7, GotoMoves DEF Deleted
<1>8. ASSUME NEW h \in Handler, NEW t \in Tenant, SubmitTransaction(h, t) PROVE HandlersBusy'
  BY <1>8, <1>c, GotoMoves DEF SubmitTransaction
<1>9. ASSUME NEW h \in Handler, BroadcastRaises(h) PROVE HandlersBusy'
  BY <1>9, GotoMoves DEF BroadcastRaises
<1>10. ASSUME NEW h \in Handler, NEW c \in BOOLEAN, BroadcastReturns(h, c) PROVE HandlersBusy'
  <2>1. /\ local'[h] = [consensus_reached |-> c, period |-> now]
        /\ \A g \in Handler \ {h} : local'[g] = local[g]
    BY <1>10, <1>a DEF BroadcastReturns
  <2>2. local'[h] \in Round /\ local'[h].period <= now
    BY <2>1, <1>a DEF Round
  <2> QED
    BY <1>10, <1>b, <2>1, <2>2, GotoMoves DEF BroadcastReturns
<1>11. ASSUME NEW h \in Handler, CountUsage(h) PROVE HandlersBusy'
  BY <1>11, GotoMoves DEF CountUsage
<1>12. ASSUME NEW h \in Handler, ChargeLedger(h) PROVE HandlersBusy'
  <2>1. \A g \in Handler \ {h} : local'[g] = local[g]
    BY <1>12 DEF ChargeLedger
  <2> QED
    BY <1>12, <2>1, GotoMoves DEF ChargeLedger
<1>13. ASSUME NEW h \in Handler, RecordFails(h) PROVE HandlersBusy'
  <2>1. \A g \in Handler \ {h} : local'[g] = local[g]
    BY <1>13 DEF RecordFails
  <2> QED
    BY <1>13, <2>1, GotoMoves DEF RecordFails
<1>14. ASSUME NextPeriod PROVE HandlersBusy'
  BY <1>14, <1>a DEF NextPeriod, Round
<1>15. ASSUME Restart PROVE HandlersBusy'
  BY <1>15 DEF Restart
<1>16. ASSUME UNCHANGED vars PROVE HandlersBusy'
  BY <1>16 DEF vars
<1> HIDE DEF HandlersBusy, network, billing, counters
<1> QED
  BY <1>1, <1>2, <1>3, <1>4, <1>5, <1>6, <1>7, <1>8, <1>9, <1>10, <1>11, <1>12, <1>13,
     <1>14, <1>15, <1>16 DEF Next, Handle

-----------------------------------------------------------------------------
(* Who answers for a tenant.                                               *)

\* Tenants are handed from one that answers for them to the next.
LEMMA StepOwner ==
    ASSUME TypeOK, HandlersBusy, OneOwner, [Next]_vars
    PROVE  OneOwner'
<1> USE TenantsConstants DEF OneOwner, WorksOn, network, billing, counters
<1>a. /\ nodes \in [Tenant -> 0 .. MaxNodes] /\ started \in [Tenant -> 0 .. MaxNodes]
      /\ stopped \in [Tenant -> 0 .. MaxNodes] /\ _tenants \subseteq Tenant
      /\ fate \in [Tenant -> {None, "deleted", "failed", "lost"}]
  BY DEF TypeOK
<1>b. \A h \in Handler : pc[h] # "idle" => tenant[h] \in Tenant /\ nodes[tenant[h]] > 0
  BY DEF HandlersBusy
<1>c. \A t \in Tenant : nodes[t] \in Nat /\ started[t] \in Nat /\ stopped[t] \in Nat
  BY <1>a
<1>1. ASSUME NEW h \in Handler, NEW t \in Tenant, NEW node_count \in 0 .. MaxNodes + 1,
             CreateTenant(h, t, node_count)
      PROVE  OneOwner'
  <2>1. nodes'[t] > 0 /\ nodes[t] = 0 /\ \A u \in Tenant : u # t => nodes'[u] = nodes[u]
    BY <1>1, <1>a DEF CreateTenant
  <2>2. \A g \in Handler : ~ WorksOn(g, t)
    BY <1>b, <2>1
  <2>3. /\ pc[h] = "idle" /\ pc'[h] = "start" /\ tenant'[h] = t
        /\ \A g \in Handler \ {h} : pc'[g] = pc[g] /\ tenant'[g] = tenant[g]
        /\ UNCHANGED <<_tenants, started, stopped, fate>>
    BY <1>1, GotoMoves DEF CreateTenant
  <2> QED
    BY <2>1, <2>2, <2>3
<1>2. ASSUME NEW h \in Handler, StartServer(h) PROVE OneOwner'
  <2>1. /\ tenant[h] \in Tenant /\ pc[h] = "start"
        /\ started[tenant[h]] < nodes[tenant[h]]
        /\ started' = [started EXCEPT ![tenant[h]] = @ + 1]
        /\ UNCHANGED <<_tenants, nodes, stopped, fate, pc, tenant>>
    BY <1>2, <1>b DEF StartServer
  <2>2. /\ started'[tenant[h]] = started[tenant[h]] + 1
        /\ \A u \in Tenant : u # tenant[h] => started'[u] = started[u]
    BY <2>1, <1>a
  <2>3. tenant[h] \notin _tenants /\ fate[tenant[h]] = None /\ nodes[tenant[h]] # 0
    BY <2>1, <1>b
  <2> HIDE DEF OneOwner
  <2>4. \A g, k \in Handler, t \in Tenant : WorksOn(g, t)' /\ WorksOn(k, t)' => g = k
    BY <2>1 DEF OneOwner
  <2>5. \A g \in Handler :
            /\ pc'[g] = "start" => stopped'[tenant'[g]] = 0
            /\ pc'[g] = "stop" => stopped'[tenant'[g]] <= started'[tenant'[g]]
    BY <2>1, <2>2, <1>b, <1>c DEF OneOwner
  <2> QED
    BY <2>1, <2>2, <2>3, <2>4, <2>5 DEF OneOwner
<1>3. ASSUME NEW h \in Handler, StartFails(h) PROVE OneOwner'
  <2>1. /\ tenant[h] \in Tenant /\ pc[h] = "start" /\ nodes[tenant[h]] > 0
        /\ fate' = [fate EXCEPT ![tenant[h]] = "failed"]
        /\ pc'[h] = "idle"
        /\ \A g \in Handler \ {h} : pc'[g] = pc[g] /\ tenant'[g] = tenant[g]
        /\ UNCHANGED <<_tenants, nodes, started, stopped>>
    BY <1>3, <1>b, GotoMoves DEF StartFails
  <2>2. fate'[tenant[h]] = "failed" /\ \A u \in Tenant : u # tenant[h] => fate'[u] = fate[u]
    BY <2>1, <1>a
  <2> QED
    BY <2>1, <2>2
<1>4. ASSUME NEW h \in Handler, Register(h) PROVE OneOwner'
  <2>1. /\ tenant[h] \in Tenant /\ pc[h] = "start" /\ nodes[tenant[h]] > 0
        /\ started[tenant[h]] = nodes[tenant[h]]
        /\ _tenants' = _tenants \cup {tenant[h]}
        /\ pc'[h] = "idle"
        /\ \A g \in Handler \ {h} : pc'[g] = pc[g] /\ tenant'[g] = tenant[g]
        /\ UNCHANGED <<nodes, started, stopped, fate>>
    BY <1>4, <1>b, GotoMoves DEF Register
  <2> QED
    BY <2>1
<1>5. ASSUME NEW h \in Handler, NEW t \in Tenant, DeleteTenant(h, t) PROVE OneOwner'
  <2>1. /\ pc[h] = "idle" /\ t \in _tenants /\ _tenants' = _tenants \ {t}
        /\ pc'[h] = "stop" /\ tenant'[h] = t
        /\ \A g \in Handler \ {h} : pc'[g] = pc[g] /\ tenant'[g] = tenant[g]
        /\ UNCHANGED <<nodes, started, stopped, fate>>
    BY <1>5, GotoMoves DEF DeleteTenant
  <2> QED
    BY <2>1, <1>c
<1>6. ASSUME NEW h \in Handler, StopServer(h) PROVE OneOwner'
  <2>1. /\ tenant[h] \in Tenant /\ pc[h] = "stop" /\ nodes[tenant[h]] > 0
        /\ started[tenant[h]] - stopped[tenant[h]] > 0
        /\ stopped' = [stopped EXCEPT ![tenant[h]] = @ + 1]
        /\ UNCHANGED <<_tenants, nodes, started, fate, pc, tenant>>
    BY <1>6, <1>b DEF StopServer, Running
  <2>2. /\ stopped'[tenant[h]] = stopped[tenant[h]] + 1
        /\ \A u \in Tenant : u # tenant[h] => stopped'[u] = stopped[u]
    BY <2>1, <1>a
  <2>3. tenant[h] \notin _tenants /\ fate[tenant[h]] = None
        /\ \A g \in Handler : g # h => ~ WorksOn(g, tenant[h])
    BY <2>1
  <2> HIDE DEF OneOwner
  <2>4. \A g, k \in Handler, t \in Tenant : WorksOn(g, t)' /\ WorksOn(k, t)' => g = k
    BY <2>1 DEF OneOwner
  <2>5. \A g \in Handler :
            /\ pc'[g] = "start" => stopped'[tenant'[g]] = 0
            /\ pc'[g] = "stop" => stopped'[tenant'[g]] <= started'[tenant'[g]]
    BY <2>1, <2>2, <2>3, <1>b, <1>c DEF OneOwner
  <2> QED
    BY <2>1, <2>2, <2>3, <2>4, <2>5 DEF OneOwner
<1>7. ASSUME NEW h \in Handler, Deleted(h) PROVE OneOwner'
  <2>1. /\ tenant[h] \in Tenant /\ pc[h] = "stop" /\ nodes[tenant[h]] > 0
        /\ started[tenant[h]] - stopped[tenant[h]] = 0
        /\ fate' = [fate EXCEPT ![tenant[h]] = "deleted"]
        /\ pc'[h] = "idle"
        /\ \A g \in Handler \ {h} : pc'[g] = pc[g] /\ tenant'[g] = tenant[g]
        /\ UNCHANGED <<_tenants, nodes, started, stopped>>
    BY <1>7, <1>b, GotoMoves DEF Deleted, Running
  <2>2. fate'[tenant[h]] = "deleted" /\ \A u \in Tenant : u # tenant[h] => fate'[u] = fate[u]
    BY <2>1, <1>a
  <2>3. started[tenant[h]] = stopped[tenant[h]]
    BY <2>1, <1>c
  <2> QED
    BY <2>1, <2>2, <2>3
<1>8. ASSUME NEW h \in Handler, NEW t \in Tenant, SubmitTransaction(h, t) PROVE OneOwner'
  BY <1>8, GotoMoves DEF SubmitTransaction
<1>9. ASSUME NEW h \in Handler, BroadcastRaises(h) PROVE OneOwner'
  BY <1>9, GotoMoves DEF BroadcastRaises
<1>10. ASSUME NEW h \in Handler, NEW c \in BOOLEAN, BroadcastReturns(h, c) PROVE OneOwner'
  BY <1>10, GotoMoves DEF BroadcastReturns
<1>11. ASSUME NEW h \in Handler, CountUsage(h) PROVE OneOwner'
  BY <1>11, GotoMoves DEF CountUsage
<1>12. ASSUME NEW h \in Handler, ChargeLedger(h) PROVE OneOwner'
  BY <1>12, GotoMoves DEF ChargeLedger
<1>13. ASSUME NEW h \in Handler, RecordFails(h) PROVE OneOwner'
  BY <1>13, GotoMoves DEF RecordFails
<1>14. ASSUME NextPeriod PROVE OneOwner'
  BY <1>14 DEF NextPeriod
<1>15. ASSUME Restart PROVE OneOwner'
  <2>1. /\ \A h \in Handler : pc'[h] = "idle"
        /\ \A t \in Tenant : fate'[t] = IF nodes[t] > 0 /\ fate[t] = None THEN "lost" ELSE fate[t]
        /\ _tenants' = {} /\ stopped' = started /\ UNCHANGED <<nodes, started>>
    BY <1>15 DEF Restart
  <2> QED
    BY <2>1, <1>c
<1>16. ASSUME UNCHANGED vars PROVE OneOwner'
  BY <1>16 DEF vars
<1> HIDE DEF OneOwner, WorksOn, network, billing, counters
<1> QED
  BY <1>1, <1>2, <1>3, <1>4, <1>5, <1>6, <1>7, <1>8, <1>9, <1>10, <1>11, <1>12, <1>13,
     <1>14, <1>15, <1>16 DEF Next, Handle

-----------------------------------------------------------------------------
(* The accounts of a tenant.                                               *)

\* One entry more in the ledger of a tenant.
LEMMA CountsOfOwn ==
    ASSUME NEW own \in Seq(Entry), NEW e \in Entry
    PROVE  /\ Cardinality(Faults(own)) \in Nat
           /\ Cardinality(Faults(Append(own, e))) = Cardinality(Faults(own)) + One(~e.consensus_reached)
           /\ \A p : /\ Cardinality(In(own, p)) \in Nat
                     /\ Cardinality(In(Append(own, e), p)) = Cardinality(In(own, p)) + One(e.period = p)
<1> DEFINE n == Len(own)
           more == Append(own, e)
<1>1. n \in Nat /\ DOMAIN own = 1 .. n
  BY LenProperties
<1>2. /\ DOMAIN more = 1 .. n + 1 /\ more[n + 1] = e
      /\ \A i \in 1 .. n : more[i] = own[i]
  BY AppendProperties, LenProperties
<1> HIDE DEF n, more
<1>3. Faults(own) \in SUBSET (1 .. n) /\ \A p : In(own, p) \in SUBSET (1 .. n)
  BY <1>1 DEF Faults, In
<1>4. /\ Faults(more) = IF e.consensus_reached THEN Faults(own) ELSE Faults(own) \cup {n + 1}
      /\ \A p : In(more, p) = IF e.period = p THEN In(own, p) \cup {n + 1} ELSE In(own, p)
  <2>1. \A i : i \in 1 .. n + 1 <=> i \in 1 .. n \/ i = n + 1
    BY <1>1
  <2> QED
    BY <2>1, <1>1, <1>2 DEF Faults, In
<1>5. \A A \in SUBSET (1 .. n) :
            Cardinality(A) \in Nat /\ Cardinality(A \cup {n + 1}) = Cardinality(A) + 1
  BY <1>1, OneMore
<1>6. /\ Cardinality(Faults(own)) \in Nat
      /\ \A p : Cardinality(In(own, p)) \in Nat
  BY <1>3, <1>5
<1>7. Cardinality(Faults(more)) = Cardinality(Faults(own)) + One(~e.consensus_reached)
  <2>1. CASE e.consensus_reached
    BY <2>1, <1>4, <1>6 DEF One
  <2>2. CASE ~e.consensus_reached
    BY <2>2, <1>3, <1>4, <1>5 DEF One
  <2> QED
    BY <2>1, <2>2
<1>8. ASSUME NEW p
      PROVE  Cardinality(In(more, p)) = Cardinality(In(own, p)) + One(e.period = p)
  <2>1. CASE e.period = p
    BY <2>1, <1>3, <1>4, <1>5 DEF One
  <2>2. CASE e.period # p
    BY <2>2, <1>4, <1>6 DEF One
  <2> QED
    BY <2>1, <2>2
<1> QED
  BY <1>6, <1>7, <1>8 DEF more

\* One round more in the audit log.
LEMMA CountsOfLog ==
    ASSUME NEW log \in Seq(BOOLEAN), NEW c \in BOOLEAN
    PROVE  /\ Len(log) \in Nat /\ Len(Append(log, c)) = Len(log) + 1
           /\ Cardinality(Failed(log)) \in Nat
           /\ Cardinality(Failed(Append(log, c))) = Cardinality(Failed(log)) + One(~c)
<1> DEFINE n == Len(log)
           more == Append(log, c)
<1>1. n \in Nat /\ DOMAIN log = 1 .. n
  BY LenProperties
<1>2. /\ DOMAIN more = 1 .. n + 1 /\ more[n + 1] = c /\ Len(more) = n + 1
      /\ \A i \in 1 .. n : more[i] = log[i]
  BY AppendProperties, LenProperties
<1> HIDE DEF n, more
<1>3. Failed(log) \in SUBSET (1 .. n)
  BY <1>1 DEF Failed
<1>4. Failed(more) = IF c THEN Failed(log) ELSE Failed(log) \cup {n + 1}
  <2>1. \A i : i \in 1 .. n + 1 <=> i \in 1 .. n \/ i = n + 1
    BY <1>1
  <2> QED
    BY <2>1, <1>1, <1>2 DEF Failed
<1>5. \A A \in SUBSET (1 .. n) :
            Cardinality(A) \in Nat /\ Cardinality(A \cup {n + 1}) = Cardinality(A) + 1
  BY <1>1, OneMore
<1>6. Cardinality(Failed(log)) \in Nat
  BY <1>3, <1>5
<1>7. Cardinality(Failed(more)) = Cardinality(Failed(log)) + One(~c)
  <2>1. CASE c
    BY <2>1, <1>4, <1>6 DEF One
  <2>2. CASE ~c
    BY <2>2, <1>3, <1>4, <1>5 DEF One
  <2> QED
    BY <2>1, <2>2
<1> QED
  BY <1>1, <1>2, <1>6, <1>7 DEF n, more

\* The account of a tenant that a step does not write to.
LEMMA AccountKept ==
    ASSUME TypeOK, TypeOK', NEW t \in Tenant, Account(t),
           Own(t)' = Own(t), audit_log'[t] = audit_log[t], _sla'[t] = _sla[t],
           \A p \in Period : get_count(_counts', t, p) = get_count(_counts, t, p),
           nodes'[t] = nodes[t] \/ (nodes[t] = 0 /\ nodes'[t] # 0),
           fate'[t] = None => fate[t] = None,
           RoundOpen(t)' <=> RoundOpen(t), FaultOpen(t)' <=> FaultOpen(t),
           \A p \in Period : ChargeOpen(t, p)' <=> ChargeOpen(t, p),
           failures <= failures', now <= now'
    PROVE  Account(t)'
<1>1. failures \in Nat /\ failures' \in Nat /\ now \in Nat /\ now' \in Nat /\ Period \subseteq Nat
  BY TenantsConstants DEF TypeOK, Period
<1>2. \A x : x \in 0 .. failures => x \in 0 .. failures'
  BY <1>1
<1>3. \A p \in Period : p <= now => p <= now'
  BY <1>1
<1>4. nodes[t] = 0 => DOMAIN Own(t) = {}
  BY DEF Account
<1> QED
  BY <1>2, <1>3, <1>4 DEF Account, One

\* A step that no account has to do with.
LEMMA AccountsKept ==
    ASSUME TypeOK, TypeOK', Accounts,
           UNCHANGED <<_counts, _entries, _sla, audit_log, local>>,
           \A h \in Handler : (pc[h] \in {"usage", "ledger"} \/ pc'[h] \in {"usage", "ledger"})
                => pc'[h] = pc[h] /\ tenant'[h] = tenant[h],
           \A t \in Tenant : nodes'[t] = nodes[t] \/ (nodes[t] = 0 /\ nodes'[t] # 0),
           \A t \in Tenant : fate'[t] = None => fate[t] = None,
           failures <= failures', now <= now'
    PROVE  Accounts'
<1> SUFFICES ASSUME NEW t \in Tenant PROVE Account(t)'
  BY DEF Accounts
<1>1. Account(t)
  BY DEF Accounts
<1>2. Own(t)' = Own(t)
  BY DEF Own
<1>a. /\ local' = local
      /\ \A h \in Handler : (pc[h] \in {"usage", "ledger"} \/ pc'[h] \in {"usage", "ledger"})
                => pc'[h] = pc[h] /\ tenant'[h] = tenant[h]
  OBVIOUS
<1>3. RoundOpen(t)' <=> RoundOpen(t)
  BY ONLY <1>a DEF RoundOpen, Writing
<1>4. FaultOpen(t)' <=> FaultOpen(t)
  BY ONLY <1>a DEF FaultOpen, Writing
<1>5. \A p \in Period : ChargeOpen(t, p)' <=> ChargeOpen(t, p)
  BY ONLY <1>a DEF ChargeOpen
<1> QED
  BY <1>1, <1>2, <1>3, <1>4, <1>5, AccountKept

\* The one handler that writes, and what the accounts of its tenant wait for.
LEMMA Writer ==
    ASSUME TypeOK, HandlersBusy, NEW h \in Handler, Writing(h)
    PROVE  /\ tenant[h] \in Tenant /\ local[h] \in Round /\ local[h].period <= now
           /\ local[h].period \in Period /\ local[h].consensus_reached \in BOOLEAN
           /\ nodes[tenant[h]] # 0
           /\ \A t : RoundOpen(t) <=> t = tenant[h]
           /\ \A t : FaultOpen(t) <=> t = tenant[h] /\ ~local[h].consensus_reached
           /\ \A t, p : ChargeOpen(t, p) <=> pc[h] = "ledger" /\ t = tenant[h] /\ p = local[h].period
<1>1. \A g \in Handler : Writing(g) <=> g = h
  BY DEF HandlersBusy
<1>2. \A g \in Handler : pc[g] = "ledger" => g = h
  BY <1>1 DEF Writing
<1>3. /\ tenant[h] \in Tenant /\ local[h] \in Round /\ local[h].period <= now
      /\ nodes[tenant[h]] \in Nat /\ nodes[tenant[h]] > 0
  BY TenantsConstants DEF HandlersBusy, Writing, TypeOK
<1> QED
  BY <1>1, <1>2, <1>3 DEF RoundOpen, FaultOpen, ChargeOpen, Round

\* When nobody writes, no account waits for anything.
LEMMA NoWriter ==
    ASSUME \A h \in Handler : ~Writing(h)
    PROVE  \A t, p : ~RoundOpen(t) /\ ~FaultOpen(t) /\ ~ChargeOpen(t, p)
BY DEF Writing, RoundOpen, FaultOpen, ChargeOpen

\* The numbers that the accounts of a tenant compare.
LEMMA AccountNumbers ==
    ASSUME TypeOK, NEW t \in Tenant
    PROVE  /\ Own(t) \in Seq(Entry) /\ Len(Own(t)) \in Nat
           /\ audit_log[t] \in Seq(BOOLEAN) /\ Len(audit_log[t]) \in Nat
           /\ Cardinality(Failed(audit_log[t])) \in Nat
           /\ Cardinality(Faults(Own(t))) \in Nat
           /\ \A p \in Period : /\ Cardinality(In(Own(t), p)) \in Nat
                                /\ get_count(_counts, t, p) \in Nat
           /\ failures \in Nat
<1>1. \E e : e \in Entry
  <2>1. [ledger_id |-> 0, tenant_id |-> t, period |-> 1, node_round_count |-> 0,
         billed_amount |-> 0, consensus_reached |-> TRUE] \in Entry
    BY TenantsConstants DEF Entry, Period
  <2> QED
    BY <2>1
<1>2. Own(t) \in Seq(Entry)
  BY <1>1, OwnAppend DEF Own, TypeOK
<1>3. audit_log[t] \in Seq(BOOLEAN)
  BY DEF TypeOK
<1>4. Len(Own(t)) \in Nat /\ Len(audit_log[t]) \in Nat
  BY <1>2, <1>3, LenProperties
<1>5. Cardinality(Failed(audit_log[t])) \in Nat
  BY <1>3, CountsOfLog
<1>6. Cardinality(Faults(Own(t))) \in Nat /\ \A p : Cardinality(In(Own(t), p)) \in Nat
  BY <1>1, <1>2, CountsOfOwn
<1>7. \A p \in Period : get_count(_counts, t, p) \in Nat
  BY DEF TypeOK, get_count
<1>8. failures \in Nat
  BY DEF TypeOK
<1> QED
  BY <1>2, <1>3, <1>4, <1>5, <1>6, <1>7, <1>8

\* The broadcast returned: one round more in the audit log.
LEMMA ReturnAccounts ==
    ASSUME TypeOK, TypeOK', HandlersBusy, Accounts,
           NEW h \in Handler, NEW c \in BOOLEAN, BroadcastReturns(h, c), HandlersBusy'
    PROVE  Accounts'
<1>0. PICK t \in Tenant : t = tenant[h]
  BY DEF BroadcastReturns, HandlersBusy
<1>1. /\ \A g \in Handler : ~Writing(g)
      /\ pc[h] = "broadcast" /\ pc'[h] = "usage" /\ tenant'[h] = t
      /\ audit_log' = [audit_log EXCEPT ![t] = Append(@, c)]
      /\ local' = [local EXCEPT ![h] = [consensus_reached |-> c, period |-> now]]
      /\ UNCHANGED <<nodes, fate, now, _counts, _entries, _sla, failures>>
  BY <1>0, GotoMoves DEF BroadcastReturns, LoopIsFree, Writing, network, billing, counters
<1>2. t = tenant[h] /\ pc[h] # "idle"
  BY <1>0, <1>1
<1>3. \A u, p : ~RoundOpen(u) /\ ~FaultOpen(u) /\ ~ChargeOpen(u, p)
  BY <1>1, NoWriter
<1>4. local'[h].consensus_reached = c
  BY <1>1 DEF TypeOK
<1>5. /\ \A u : RoundOpen(u)' <=> u = t
      /\ \A u : FaultOpen(u)' <=> u = t /\ ~c
      /\ \A u, p : ~ ChargeOpen(u, p)'
  <2>1. Writing(h)'
    BY <1>1 DEF Writing
  <2>2. \A g \in Handler : Writing(g)' => g = h
    BY <2>1 DEF HandlersBusy
  <2>3. \A g \in Handler : pc'[g] \in {"usage", "ledger"} <=> g = h
    BY <2>1, <2>2 DEF Writing
  <2>4. \A u : RoundOpen(u)' <=> u = t
    BY <2>3, <1>1 DEF RoundOpen, Writing
  <2>5. \A u : FaultOpen(u)' <=> u = t /\ ~c
    BY <2>3, <1>1, <1>4 DEF FaultOpen, Writing
  <2>6. \A u, p : ~ ChargeOpen(u, p)'
    BY <2>3, <1>1 DEF ChargeOpen
  <2> QED
    BY <2>4, <2>5, <2>6
<1>6. \A u \in Tenant : Account(u) /\ Own(u)' = Own(u)
  BY <1>1 DEF Accounts, Own
<1>7. ASSUME NEW u \in Tenant, u # t PROVE Account(u)'
  <2>0. Account(u)
    BY DEF Accounts
  <2>1. audit_log'[u] = audit_log[u] /\ _sla'[u] = _sla[u]
    BY <1>1, <1>7 DEF TypeOK
  <2>5. Own(u)' = Own(u)
    BY <1>1 DEF Own
  <2>6. nodes'[u] = nodes[u] \/ (nodes[u] = 0 /\ nodes'[u] # 0)
    BY <1>1
  <2>2. failures <= failures' /\ now <= now'
    BY <1>1, TenantsConstants DEF TypeOK, Period
  <2>3. \A p \in Period : get_count(_counts', u, p) = get_count(_counts, u, p)
    BY <1>1
  <2>4. /\ nodes'[u] = nodes[u] /\ fate'[u] = fate[u]
        /\ RoundOpen(u)' <=> RoundOpen(u)
        /\ FaultOpen(u)' <=> FaultOpen(u)
        /\ \A p \in Period : ChargeOpen(u, p)' <=> ChargeOpen(u, p)
    BY <1>1, <1>3, <1>5, <1>7
  <2> QED
    BY <2>0, <2>1, <2>2, <2>3, <2>4, <2>5, <2>6, AccountKept
<1>8. Account(t)'
  <2>1. audit_log'[t] = Append(audit_log[t], c)
    BY <1>1, <1>2 DEF TypeOK
  <2>2. /\ Len(audit_log'[t]) = Len(audit_log[t]) + 1
        /\ Cardinality(Failed(audit_log'[t])) = Cardinality(Failed(audit_log[t])) + One(~c)
    <3>1. audit_log[t] \in Seq(BOOLEAN)
      BY <1>2 DEF TypeOK
    <3> QED
      BY <2>1, <3>1, CountsOfLog
  <2>3. nodes[t] # 0
    <3>1. nodes[t] > 0 /\ nodes[t] \in Nat
      BY <1>1, <1>2, TenantsConstants DEF HandlersBusy, TypeOK
    <3> QED
      BY <3>1
  <2>4. /\ RoundOpen(t)' /\ ~RoundOpen(t)
        /\ (FaultOpen(t)' <=> ~c) /\ ~FaultOpen(t)
        /\ \A p : ~ChargeOpen(t, p)' /\ ~ChargeOpen(t, p)
    BY <1>3, <1>5
  <2>5. One(RoundOpen(t)') = 1 /\ One(RoundOpen(t)) = 0
        /\ One(FaultOpen(t)') = One(~c) /\ One(FaultOpen(t)) = 0
    BY <1>3, <2>4 DEF One
  <2>6. Account(t) /\ Own(t)' = Own(t) /\ fate'[t] = fate[t] /\ _sla'[t] = _sla[t]
        /\ nodes'[t] = nodes[t] /\ failures' = failures /\ now' = now
        /\ \A p \in Period : get_count(_counts', t, p) = get_count(_counts, t, p)
    BY <1>1, <1>6
  <2>7. ASSUME fate[t] = None
        PROVE  /\ Len(audit_log'[t]) - Len(Own(t)) - One(RoundOpen(t)') \in 0 .. failures
               /\ Cardinality(Failed(audit_log'[t])) - Cardinality(Faults(Own(t))) - One(FaultOpen(t)')
                    \in 0 .. failures
    <3>1. /\ Len(audit_log[t]) - Len(Own(t)) - 0 \in 0 .. failures
          /\ Cardinality(Failed(audit_log[t])) - Cardinality(Faults(Own(t))) - 0 \in 0 .. failures
      BY <2>5, <2>6, <2>7 DEF Account
    <3>2. /\ Len(Own(t)) \in Nat /\ Len(audit_log[t]) \in Nat
          /\ Cardinality(Failed(audit_log[t])) \in Nat /\ Cardinality(Faults(Own(t))) \in Nat
      BY AccountNumbers
    <3>3. One(~c) \in Nat
      BY DEF One
    <3> QED
      BY <2>2, <2>5, <3>1, <3>2, <3>3
  <2>8. \A p \in Period : One(ChargeOpen(t, p)') = One(ChargeOpen(t, p))
    BY <2>4 DEF One
  <2> QED
    BY <2>3, <2>6, <2>7, <2>8 DEF Account
<1> QED
  BY <1>7, <1>8 DEF Accounts

\* The usage counter of the period is one ahead of the ledger.
LEMMA UsageAccounts ==
    ASSUME TypeOK, TypeOK', HandlersBusy, HandlersBusy', Accounts,
           NEW h \in Handler, CountUsage(h)
    PROVE  Accounts'
<1>0. Writing(h) /\ Writing(h)'
  BY GotoMoves DEF CountUsage, Writing
<1>1. PICK t \in Tenant, period \in Period : t = tenant[h] /\ period = local[h].period
  BY <1>0, Writer
<1>2. /\ pc[h] = "usage" /\ pc'[h] = "ledger" /\ tenant'[h] = t /\ local' = local
      /\ _counts' = [_counts EXCEPT ![<<t, period>>] = @ + 1]
      /\ UNCHANGED <<nodes, fate, now, _entries, _sla, audit_log, failures>>
  BY <1>1, GotoMoves DEF CountUsage, increment, network, counters
<1>3. /\ \A u : RoundOpen(u) <=> u = t
      /\ \A u : FaultOpen(u) <=> u = t /\ ~local[h].consensus_reached
      /\ \A u, p : ~ChargeOpen(u, p)
      /\ period <= now /\ nodes[t] # 0
  BY <1>0, <1>1, <1>2, Writer
<1>4. /\ \A u : RoundOpen(u)' <=> u = t
      /\ \A u : FaultOpen(u)' <=> u = t /\ ~local[h].consensus_reached
      /\ \A u, p : ChargeOpen(u, p)' <=> u = t /\ p = period
  <2>1. \A g \in Handler : pc'[g] \in {"usage", "ledger"} <=> g = h
    BY <1>0 DEF HandlersBusy, Writing
  <2> QED
    BY <2>1, <1>1, <1>2 DEF RoundOpen, FaultOpen, ChargeOpen, Writing
<1>5. \A u \in Tenant : Account(u) /\ Own(u)' = Own(u)
  BY <1>2 DEF Accounts, Own
<1>6. \A u \in Tenant, p \in Period :
            get_count(_counts', u, p) = IF u = t /\ p = period THEN get_count(_counts, u, p) + 1
                                        ELSE get_count(_counts, u, p)
  BY <1>2 DEF TypeOK, get_count
<1>7. failures <= failures' /\ now <= now'
  <2>1. failures \in Nat /\ now \in Nat
    BY TenantsConstants DEF TypeOK, Period
  <2> QED
    BY <1>2, <2>1
<1>8. ASSUME NEW u \in Tenant, u # t PROVE Account(u)'
  <2>1. \A p \in Period : get_count(_counts', u, p) = get_count(_counts, u, p)
    BY <1>6, <1>8
  <2>2. /\ audit_log'[u] = audit_log[u] /\ _sla'[u] = _sla[u]
        /\ nodes'[u] = nodes[u] /\ fate'[u] = fate[u]
        /\ RoundOpen(u)' <=> RoundOpen(u)
        /\ FaultOpen(u)' <=> FaultOpen(u)
        /\ \A p \in Period : ChargeOpen(u, p)' <=> ChargeOpen(u, p)
    BY <1>2, <1>3, <1>4, <1>8
  <2> QED
    BY <1>5, <1>7, <2>1, <2>2, AccountKept
<1>9. Account(t)'
  <2>1. Account(t) /\ Own(t)' = Own(t) /\ fate'[t] = fate[t] /\ _sla'[t] = _sla[t]
        /\ nodes'[t] = nodes[t] /\ failures' = failures /\ now' = now /\ audit_log'[t] = audit_log[t]
    BY <1>2, <1>5
  <2>2. One(RoundOpen(t)') = One(RoundOpen(t)) /\ One(FaultOpen(t)') = One(FaultOpen(t))
    BY <1>3, <1>4 DEF One
  <2>3. ASSUME NEW p \in Period
        PROVE  /\ get_count(_counts', t, p) > 0 => p <= now
               /\ fate[t] = None =>
                    get_count(_counts', t, p) - Cardinality(In(Own(t), p)) - One(ChargeOpen(t, p)')
                        \in 0 .. failures
    <3>1. /\ get_count(_counts, t, p) \in Nat /\ Cardinality(In(Own(t), p)) \in Nat
      BY AccountNumbers
    <3>2. /\ get_count(_counts, t, p) > 0 => p <= now
          /\ fate[t] = None =>
               get_count(_counts, t, p) - Cardinality(In(Own(t), p)) - One(ChargeOpen(t, p)) \in 0 .. failures
      BY <2>1 DEF Account
    <3>3. One(ChargeOpen(t, p)) = 0 /\ One(ChargeOpen(t, p)') = IF p = period THEN 1 ELSE 0
      BY <1>3, <1>4 DEF One
    <3>4. get_count(_counts', t, p) = IF p = period THEN get_count(_counts, t, p) + 1
                                      ELSE get_count(_counts, t, p)
      BY <1>6
    <3>5. CASE p = period
      BY <3>1, <3>2, <3>3, <3>4, <3>5, <1>3
    <3>6. CASE p # period
      BY <3>2, <3>3, <3>4, <3>6
    <3> QED
      BY <3>5, <3>6
  <2> QED
    BY <1>3, <2>1, <2>2, <2>3 DEF Account
<1> QED
  BY <1>8, <1>9 DEF Accounts

\* A write raised: what the round has not reached yet it never will.
LEMMA FailedAccounts ==
    ASSUME TypeOK, TypeOK', HandlersBusy, HandlersBusy', Accounts,
           NEW h \in Handler, RecordFails(h)
    PROVE  Accounts'
<1>0. Writing(h)
  BY DEF RecordFails, Writing
<1>1. PICK t \in Tenant : t = tenant[h]
  BY <1>0, Writer
<1>2. /\ pc'[h] = "idle"
      /\ \A g \in Handler \ {h} : pc'[g] = pc[g]
      /\ failures' = failures + 1
      /\ UNCHANGED <<nodes, fate, now, _counts, _entries, _sla, audit_log>>
  BY GotoMoves DEF RecordFails, network, billing
<1>3. /\ \A u : RoundOpen(u) => u = t
      /\ \A u : FaultOpen(u) => u = t
      /\ \A u, p : ChargeOpen(u, p) => u = t
      /\ nodes[t] # 0
  BY <1>0, <1>1, Writer
<1>4. /\ \A u : ~RoundOpen(u)'
      /\ \A u : ~FaultOpen(u)'
      /\ \A u, p : ~ChargeOpen(u, p)'
  <2>1. \A g \in Handler : pc'[g] # "usage" /\ pc'[g] # "ledger"
    BY <1>0, <1>2 DEF HandlersBusy, Writing
  <2> QED
    BY <2>1 DEF RoundOpen, FaultOpen, ChargeOpen, Writing
<1>5. \A u \in Tenant : Account(u) /\ Own(u)' = Own(u)
  BY <1>2 DEF Accounts, Own
<1>6. \A u \in Tenant, p \in Period : get_count(_counts', u, p) = get_count(_counts, u, p)
  BY <1>2
<1>7. failures <= failures' /\ now <= now' /\ failures \in Nat
  BY <1>2, TenantsConstants DEF TypeOK, Period
<1>8. ASSUME NEW u \in Tenant, u # t PROVE Account(u)'
  <2>1. \A p \in Period : get_count(_counts', u, p) = get_count(_counts, u, p)
    BY <1>6
  <2>2. /\ audit_log'[u] = audit_log[u] /\ _sla'[u] = _sla[u]
        /\ nodes'[u] = nodes[u] /\ fate'[u] = fate[u]
        /\ RoundOpen(u)' <=> RoundOpen(u)
        /\ FaultOpen(u)' <=> FaultOpen(u)
        /\ \A p \in Period : ChargeOpen(u, p)' <=> ChargeOpen(u, p)
    BY <1>2, <1>3, <1>4, <1>8
  <2> QED
    BY <1>5, <1>7, <2>1, <2>2, AccountKept
<1>9. Account(t)'
  <2>1. Account(t) /\ Own(t)' = Own(t) /\ fate'[t] = fate[t] /\ _sla'[t] = _sla[t]
        /\ nodes'[t] = nodes[t] /\ failures' = failures + 1 /\ now' = now /\ audit_log'[t] = audit_log[t]
    BY <1>2, <1>5
  <2>2. One(RoundOpen(t)') = 0 /\ One(FaultOpen(t)') = 0 /\ \A p \in Period : One(ChargeOpen(t, p)') = 0
    BY <1>4 DEF One
  <2>3. \A b : One(b) = 0 \/ One(b) = 1
    BY DEF One
  <2>4. \A x \in Int : \A b : x - One(b) \in 0 .. failures => x - 0 \in 0 .. failures + 1
    BY <1>7, <2>3
  <2>5. /\ Len(audit_log[t]) - Len(Own(t)) \in Int
        /\ Cardinality(Failed(audit_log[t])) - Cardinality(Faults(Own(t))) \in Int
        /\ \A p \in Period : get_count(_counts, t, p) - Cardinality(In(Own(t), p)) \in Int
    BY AccountNumbers
  <2>6. fate[t] = None =>
            /\ Len(audit_log[t]) - Len(Own(t)) - 0 \in 0 .. failures + 1
            /\ Cardinality(Failed(audit_log[t])) - Cardinality(Faults(Own(t))) - 0 \in 0 .. failures + 1
    BY <2>1, <2>4, <2>5 DEF Account
  <2>7. fate[t] = None => \A p \in Period :
            get_count(_counts, t, p) - Cardinality(In(Own(t), p)) - 0 \in 0 .. failures + 1
    BY <2>1, <2>4, <2>5 DEF Account
  <2> QED
    BY <1>3, <1>6, <2>1, <2>2, <2>6, <2>7 DEF Account
<1> QED
  BY <1>8, <1>9 DEF Accounts

\* The ledger and the statistics have the round, too.
LEMMA LedgerAccounts ==
    ASSUME TypeOK, TypeOK', HandlersBusy, HandlersBusy', Accounts,
           NEW h \in Handler, ChargeLedger(h)
    PROVE  Accounts'
<1>0. Writing(h)
  BY DEF ChargeLedger, Writing
<1>1. PICK t \in Tenant, period \in Period, c \in BOOLEAN :
            t = tenant[h] /\ period = local[h].period /\ c = local[h].consensus_reached
  BY <1>0, Writer
<1>a. PICK e \in Entry :
            /\ e = NewEntry(h) /\ _entries' = Append(_entries, e)
            /\ e.tenant_id = t /\ e.period = period /\ e.consensus_reached = c
            /\ e.billed_amount = compute_billed_amount(nodes[t])
  <2>1. NewEntry(h) \in Entry
    BY <1>0, Writer, EntryType
  <2>2. _entries' = Append(_entries, NewEntry(h))
    BY DEF ChargeLedger, append_entry, NewEntry
  <2>3. /\ NewEntry(h).tenant_id = t /\ NewEntry(h).period = period
        /\ NewEntry(h).consensus_reached = c
        /\ NewEntry(h).billed_amount = compute_billed_amount(nodes[t])
    BY <1>1 DEF NewEntry
  <2> QED
    BY <2>1, <2>2, <2>3
<1>2. /\ pc[h] = "ledger" /\ pc'[h] = "idle"
      /\ \A g \in Handler \ {h} : pc'[g] = pc[g]
      /\ _sla' = record(_sla, t, c)
      /\ UNCHANGED <<nodes, fate, now, _counts, audit_log, failures>>
  BY <1>1, GotoMoves DEF ChargeLedger, network, counters
<1>3. /\ \A u : RoundOpen(u) <=> u = t
      /\ \A u : FaultOpen(u) <=> u = t /\ ~c
      /\ \A u, p : ChargeOpen(u, p) <=> u = t /\ p = period
      /\ nodes[t] # 0
  BY <1>0, <1>1, <1>2, Writer
<1>4. /\ \A u : ~RoundOpen(u)'
      /\ \A u : ~FaultOpen(u)'
      /\ \A u, p : ~ChargeOpen(u, p)'
  <2>1. \A g \in Handler : pc'[g] # "usage" /\ pc'[g] # "ledger"
    BY <1>0, <1>2 DEF HandlersBusy, Writing
  <2> QED
    BY <2>1 DEF RoundOpen, FaultOpen, ChargeOpen, Writing
<1>5. \A u \in Tenant : Account(u)
  BY DEF Accounts
<1>6. /\ \A u \in Tenant : u # t => Own(u)' = Own(u)
      /\ Own(t)' = Append(Own(t), e) /\ Own(t) \in Seq(Entry)
  <2>1. _entries \in Seq(Entry)
    BY DEF TypeOK
  <2>2. \A u : load_entries(_entries', u) =
            IF u = t THEN Append(load_entries(_entries, u), e) ELSE load_entries(_entries, u)
    BY <1>a, <2>1, OwnAppend
  <2>3. load_entries(_entries, t) \in Seq(Entry)
    BY <1>a, <2>1, OwnAppend
  <2> QED
    BY <2>2, <2>3 DEF Own
<1>7. failures <= failures' /\ now <= now'
  <2>1. failures \in Nat /\ now \in Nat
    BY TenantsConstants DEF TypeOK, Period
  <2> QED
    BY <1>2, <2>1
<1>b. /\ \A u \in Tenant : u # t => _sla'[u] = _sla[u]
      /\ _sla'[t].total = _sla[t].total + 1
      /\ _sla'[t].fault_rounds = _sla[t].fault_rounds + One(~c)
  BY <1>2 DEF record, TypeOK, One
<1>8. ASSUME NEW u \in Tenant, u # t PROVE Account(u)'
  <2>1. \A p \in Period : get_count(_counts', u, p) = get_count(_counts, u, p)
    BY <1>2
  <2>2. /\ audit_log'[u] = audit_log[u] /\ _sla'[u] = _sla[u] /\ Own(u)' = Own(u)
        /\ nodes'[u] = nodes[u] /\ fate'[u] = fate[u]
        /\ RoundOpen(u)' <=> RoundOpen(u)
        /\ FaultOpen(u)' <=> FaultOpen(u)
        /\ \A p \in Period : ChargeOpen(u, p)' <=> ChargeOpen(u, p)
    BY <1>2, <1>3, <1>4, <1>6, <1>8, <1>b
  <2> QED
    BY <1>5, <1>7, <2>1, <2>2, AccountKept
<1>9. Account(t)'
  <2>1. Account(t) /\ fate'[t] = fate[t]
        /\ nodes'[t] = nodes[t] /\ failures' = failures /\ now' = now /\ audit_log'[t] = audit_log[t]
        /\ \A p \in Period : get_count(_counts', t, p) = get_count(_counts, t, p)
    BY <1>2, <1>5
  <2>2. /\ One(RoundOpen(t)) = 1 /\ One(RoundOpen(t)') = 0
        /\ One(FaultOpen(t)) = One(~c) /\ One(FaultOpen(t)') = 0
        /\ \A p : One(ChargeOpen(t, p)) = One(p = period) /\ One(ChargeOpen(t, p)') = 0
    BY <1>3, <1>4 DEF One
  <2>3. /\ Len(Own(t)) \in Nat /\ Len(Own(t)') = Len(Own(t)) + 1
        /\ DOMAIN Own(t) = 1 .. Len(Own(t)) /\ DOMAIN Own(t)' = 1 .. Len(Own(t)) + 1
        /\ Own(t)'[Len(Own(t)) + 1] = e
        /\ \A i \in 1 .. Len(Own(t)) : Own(t)'[i] = Own(t)[i]
    BY <1>6, AppendProperties, LenProperties
  <2>4. /\ Cardinality(Faults(Own(t)')) = Cardinality(Faults(Own(t))) + One(~c)
        /\ \A p : Cardinality(In(Own(t)', p)) = Cardinality(In(Own(t), p)) + One(p = period)
    BY <1>6, <1>a, CountsOfOwn
  <2>5. One(~c) \in Nat /\ \A p : One(p = period) \in Nat
    BY DEF One
  <2>6. fate[t] = None =>
            /\ _sla'[t].total = Len(Own(t)')
            /\ _sla'[t].fault_rounds = Cardinality(Faults(Own(t)'))
    BY <1>b, <2>1, <2>3, <2>4 DEF Account
  <2>7. fate[t] = None =>
            \A i \in DOMAIN Own(t)' : Own(t)'[i].billed_amount = compute_billed_amount(nodes'[t])
    BY <1>a, <2>1, <2>3 DEF Account
  <2>8. fate[t] = None =>
            /\ Len(audit_log[t]) - Len(Own(t)) - 1 \in 0 .. failures
            /\ Cardinality(Failed(audit_log[t])) - Cardinality(Faults(Own(t))) - One(~c) \in 0 .. failures
            /\ \A p \in Period :
                get_count(_counts, t, p) - Cardinality(In(Own(t), p)) - One(p = period) \in 0 .. failures
    BY <2>1, <2>2 DEF Account
  <2>9. /\ Len(audit_log[t]) \in Nat /\ Cardinality(Failed(audit_log[t])) \in Nat
        /\ Cardinality(Faults(Own(t))) \in Nat
        /\ \A p \in Period : get_count(_counts, t, p) \in Nat /\ Cardinality(In(Own(t), p)) \in Nat
    BY AccountNumbers
  <2>10. fate[t] = None =>
            /\ Len(audit_log[t]) - Len(Own(t)') - 0 \in 0 .. failures
            /\ Cardinality(Failed(audit_log[t])) - Cardinality(Faults(Own(t)')) - 0 \in 0 .. failures
    <3>1. fate[t] = None => Len(audit_log[t]) - Len(Own(t)') - 0 \in 0 .. failures
      BY <2>3, <2>4, <2>5, <2>8, <2>9
    <3>2. fate[t] = None =>
              Cardinality(Failed(audit_log[t])) - Cardinality(Faults(Own(t)')) - 0 \in 0 .. failures
      BY <2>3, <2>4, <2>5, <2>8, <2>9
    <3> QED
      BY ONLY <3>1, <3>2
  <2>11. ASSUME NEW p \in Period, fate[t] = None
         PROVE  get_count(_counts, t, p) - Cardinality(In(Own(t)', p)) - 0 \in 0 .. failures
    <3>1. /\ get_count(_counts, t, p) \in Nat /\ Cardinality(In(Own(t), p)) \in Nat /\ One(p = period) \in Nat
          /\ get_count(_counts, t, p) - Cardinality(In(Own(t), p)) - One(p = period) \in 0 .. failures
          /\ Cardinality(In(Own(t)', p)) = Cardinality(In(Own(t), p)) + One(p = period)
      BY <2>4, <2>5, <2>8, <2>9, <2>11
    <3> QED
      BY <3>1
  <2> QED
    BY <1>3, <2>1, <2>2, <2>6, <2>7, <2>10, <2>11 DEF Account
<1> QED
  BY <1>8, <1>9 DEF Accounts

\* A restart forgets the tenants: what is left of their accounts is nobody's,
\* and an id that was never drawn has none, in the database neither.
LEMMA RestartAccounts ==
    ASSUME TypeOK, TypeOK', OneOwner, Accounts, Restart
    PROVE  Accounts'
<1> SUFFICES ASSUME NEW t \in Tenant PROVE Account(t)'
  BY DEF Accounts
<1>1. Account(t)
  BY DEF Accounts
<1>2. /\ \A h \in Handler : pc'[h] = "idle"
      /\ audit_log'[t] = <<>> /\ _sla'[t] = [total |-> 0, fault_rounds |-> 0]
      /\ fate'[t] = IF nodes[t] > 0 /\ fate[t] = None THEN "lost" ELSE fate[t]
      /\ _entries' = _entries \/ _entries' = <<>>
      /\ _counts' = _counts \/ _counts' = NoCounts
      /\ UNCHANGED <<nodes, now, failures>>
  BY DEF Restart, NoSla
<1>3. fate'[t] = None => nodes[t] = 0
  <2>1. nodes[t] \in Nat
    BY TenantsConstants DEF TypeOK
  <2>2. nodes[t] > 0 => fate'[t] # None
    BY <1>2, TenantsConstants
  <2> QED
    BY <2>1, <2>2
<1>4. ~RoundOpen(t)' /\ ~FaultOpen(t)' /\ \A p \in Period : ~ChargeOpen(t, p)'
  BY <1>2 DEF RoundOpen, FaultOpen, ChargeOpen, Writing
<1>5. Own(t)' = Own(t) \/ Own(t)' = <<>>
  <2>1. load_entries(<<>>, t) = <<>>
    <3>1. \E e : e \in Entry
      <4>1. [ledger_id |-> 0, tenant_id |-> t, period |-> 1, node_round_count |-> 0,
             billed_amount |-> 0, consensus_reached |-> TRUE] \in Entry
        BY TenantsConstants DEF Entry, Period
      <4> QED
        BY <4>1
    <3> QED
      BY <3>1, OwnAppend DEF TypeOK
  <2> QED
    BY <1>2, <2>1 DEF Own
<1>6. \A p \in Period : get_count(_counts', t, p) = get_count(_counts, t, p) \/ get_count(_counts', t, p) = 0
  BY <1>2 DEF get_count, NoCounts
<1>7. /\ nodes'[t] = 0 =>
            /\ Own(t)' = <<>> /\ audit_log'[t] = <<>>
            /\ \A p \in Period : get_count(_counts', t, p) = 0
      /\ \A p \in Period : get_count(_counts', t, p) > 0 => p <= now'
  BY <1>1, <1>2, <1>5, <1>6 DEF Account
<1>8. /\ Len(<<>>) = 0 /\ Cardinality(Failed(<<>>)) = 0 /\ Cardinality(Faults(<<>>)) = 0
      /\ \A p : Cardinality(In(<<>>, p)) = 0
      /\ DOMAIN <<>> = {}
  BY FS_EmptySet DEF Failed, Faults, In
<1>9. /\ One(RoundOpen(t)') = 0 /\ One(FaultOpen(t)') = 0
      /\ \A p \in Period : One(ChargeOpen(t, p)') = 0
  BY <1>4 DEF One
<1>10. failures' \in Nat
  BY DEF TypeOK
<1>11. ASSUME fate'[t] = None
       PROVE  /\ nodes'[t] = 0 /\ Own(t)' = <<>> /\ audit_log'[t] = <<>>
              /\ _sla'[t].total = 0 /\ _sla'[t].fault_rounds = 0
              /\ \A p \in Period : get_count(_counts', t, p) = 0
  BY <1>2, <1>3, <1>7, <1>11
<1> QED
  BY <1>7, <1>8, <1>9, <1>10, <1>11 DEF Account

\* No step of a handler, and no restart, breaks an account.
LEMMA StepAccounts ==
    ASSUME TypeOK, TypeOK', HandlersBusy, HandlersBusy', OneOwner, Accounts, [Next]_vars
    PROVE  Accounts'
<1>a. /\ failures \in Nat /\ now \in Nat
      /\ \A g \in Handler : LoopIsFree => pc[g] # "usage" /\ pc[g] # "ledger"
  BY TenantsConstants DEF TypeOK, Period, LoopIsFree
<1>b. failures <= failures /\ now <= now /\ failures <= failures + 1 /\ now <= now + 1
  BY <1>a
<1> USE DEF network, billing, counters
<1>1. ASSUME NEW h \in Handler, NEW t \in Tenant, NEW node_count \in 0 .. MaxNodes + 1,
             CreateTenant(h, t, node_count)
      PROVE  Accounts'
  <2>1. \A u \in Tenant : nodes'[u] = nodes[u] \/ (nodes[u] = 0 /\ nodes'[u] # 0)
    BY <1>1, TenantsConstants DEF CreateTenant, TypeOK
  <2>2. pc[h] = "idle" /\ pc'[h] = "start" /\ \A g \in Handler \ {h} : pc'[g] = pc[g] /\ tenant'[g] = tenant[g]
    BY <1>1, GotoMoves DEF CreateTenant
  <2>3. UNCHANGED <<_counts, _entries, _sla, audit_log, local, fate, failures, now>>
    BY <1>1 DEF CreateTenant
  <2> QED
    BY <1>b, <2>1, <2>2, <2>3, AccountsKept
<1>2. ASSUME NEW h \in Handler, StartServer(h) PROVE Accounts'
  <2>1. UNCHANGED <<_counts, _entries, _sla, audit_log, local, fate, failures, now, nodes, pc, tenant>>
    BY <1>2 DEF StartServer
  <2> QED
    BY <1>b, <2>1, AccountsKept
<1>3. ASSUME NEW h \in Handler, StartFails(h) PROVE Accounts'
  <2>1. pc[h] = "start" /\ pc'[h] = "idle" /\ \A g \in Handler \ {h} : pc'[g] = pc[g] /\ tenant'[g] = tenant[g]
    BY <1>3, GotoMoves DEF StartFails
  <2>2. UNCHANGED <<_counts, _entries, _sla, audit_log, local, now, nodes>> /\ failures' = failures + 1
    BY <1>3 DEF StartFails
  <2>3. \A u \in Tenant : fate'[u] = None => fate[u] = None
    BY <1>3, TenantsConstants DEF StartFails, TypeOK
  <2> QED
    BY <1>b, <2>1, <2>2, <2>3, AccountsKept
<1>4. ASSUME NEW h \in Handler, Register(h) PROVE Accounts'
  <2>1. pc[h] = "start" /\ pc'[h] = "idle" /\ \A g \in Handler \ {h} : pc'[g] = pc[g] /\ tenant'[g] = tenant[g]
    BY <1>4, GotoMoves DEF Register
  <2>2. UNCHANGED <<_counts, _entries, _sla, audit_log, local, now, nodes, fate, failures>>
    BY <1>4 DEF Register
  <2> QED
    BY <1>b, <2>1, <2>2, AccountsKept
<1>5. ASSUME NEW h \in Handler, NEW t \in Tenant, DeleteTenant(h, t) PROVE Accounts'
  <2>1. pc[h] = "idle" /\ pc'[h] = "stop" /\ \A g \in Handler \ {h} : pc'[g] = pc[g] /\ tenant'[g] = tenant[g]
    BY <1>5, GotoMoves DEF DeleteTenant
  <2>2. UNCHANGED <<_counts, _entries, _sla, audit_log, local, now, nodes, fate, failures>>
    BY <1>5 DEF DeleteTenant
  <2> QED
    BY <1>b, <2>1, <2>2, AccountsKept
<1>6. ASSUME NEW h \in Handler, StopServer(h) PROVE Accounts'
  <2>1. UNCHANGED <<_counts, _entries, _sla, audit_log, local, fate, failures, now, nodes, pc, tenant>>
    BY <1>6 DEF StopServer
  <2> QED
    BY <1>b, <2>1, AccountsKept
<1>7. ASSUME NEW h \in Handler, Deleted(h) PROVE Accounts'
  <2>1. pc[h] = "stop" /\ pc'[h] = "idle" /\ \A g \in Handler \ {h} : pc'[g] = pc[g] /\ tenant'[g] = tenant[g]
    BY <1>7, GotoMoves DEF Deleted
  <2>2. UNCHANGED <<_counts, _entries, _sla, audit_log, local, now, nodes, failures>>
    BY <1>7 DEF Deleted
  <2>3. \A u \in Tenant : fate'[u] = None => fate[u] = None
    BY <1>7, TenantsConstants DEF Deleted, TypeOK
  <2> QED
    BY <1>b, <2>1, <2>2, <2>3, AccountsKept
<1>8. ASSUME NEW h \in Handler, NEW t \in Tenant, SubmitTransaction(h, t) PROVE Accounts'
  <2>1. pc[h] = "idle" /\ pc'[h] = "broadcast" /\ \A g \in Handler \ {h} : pc'[g] = pc[g] /\ tenant'[g] = tenant[g]
    BY <1>8, GotoMoves DEF SubmitTransaction
  <2>2. UNCHANGED <<_counts, _entries, _sla, audit_log, local, now, nodes, fate, failures>>
    BY <1>8 DEF SubmitTransaction
  <2> QED
    BY <1>b, <2>1, <2>2, AccountsKept
<1>9. ASSUME NEW h \in Handler, BroadcastRaises(h) PROVE Accounts'
  <2>1. pc[h] = "broadcast" /\ pc'[h] = "idle" /\ \A g \in Handler \ {h} : pc'[g] = pc[g] /\ tenant'[g] = tenant[g]
    BY <1>9, GotoMoves DEF BroadcastRaises
  <2>2. UNCHANGED <<_counts, _entries, _sla, audit_log, local, now, nodes, fate, failures>>
    BY <1>9 DEF BroadcastRaises
  <2> QED
    BY <1>b, <2>1, <2>2, AccountsKept
<1>10. ASSUME NEW h \in Handler, NEW c \in BOOLEAN, BroadcastReturns(h, c) PROVE Accounts'
  BY <1>10, ReturnAccounts
<1>11. ASSUME NEW h \in Handler, CountUsage(h) PROVE Accounts'
  BY <1>11, UsageAccounts
<1>12. ASSUME NEW h \in Handler, ChargeLedger(h) PROVE Accounts'
  BY <1>12, LedgerAccounts
<1>13. ASSUME NEW h \in Handler, RecordFails(h) PROVE Accounts'
  BY <1>13, FailedAccounts
<1>14. CASE NextPeriod
  <2>1. UNCHANGED <<_counts, _entries, _sla, audit_log, local, nodes, fate, failures, pc, tenant>> /\ now' = now + 1
    BY <1>14 DEF NextPeriod
  <2> QED
    BY <1>b, <2>1, AccountsKept
<1>15. CASE Restart
  BY <1>15, RestartAccounts
<1>16. CASE UNCHANGED vars
  <2>1. UNCHANGED <<_counts, _entries, _sla, audit_log, local, nodes, fate, failures, pc, tenant, now>>
    BY <1>16 DEF vars
  <2> QED
    BY <1>b, <2>1, AccountsKept
<1> HIDE DEF network, billing, counters
<1> QED
  BY <1>1, <1>2, <1>3, <1>4, <1>5, <1>6, <1>7, <1>8, <1>9, <1>10, <1>11, <1>12, <1>13,
     <1>14, <1>15, <1>16 DEF Next, Handle

-----------------------------------------------------------------------------
(* The theorems.                                                           *)

\* A service that has just started for the first time has no tenant.
LEMMA InitInv == Init => TenantsInv
<1> SUFFICES ASSUME Init PROVE TenantsInv
  OBVIOUS
<1> USE TenantsConstants
<1>1. TypeOK
  <2>1. NoSla \in [Tenant -> Stats] /\ NoCounts \in [Tenant \X Period -> Nat]
    BY DEF NoSla, NoCounts, Stats
  <2>2. \A S : <<>> \in Seq(S)
    BY EmptySeq
  <2>3. now \in Period /\ 0 \in 0 .. MaxNodes
    BY DEF Init, Period
  <2> QED
    BY <2>1, <2>2, <2>3 DEF Init, TypeOK, Step
<1>2. HandlersBusy
  BY DEF Init, HandlersBusy, Writing
<1>3. OneOwner
  BY DEF Init, OneOwner, WorksOn
<1>4. Accounts
  <2> SUFFICES ASSUME NEW t \in Tenant PROVE Account(t)
    BY DEF Accounts
  <2>1. /\ audit_log[t] = <<>> /\ _sla[t] = [total |-> 0, fault_rounds |-> 0]
        /\ _entries = <<>> /\ failures = 0 /\ nodes[t] = 0
        /\ \A h \in Handler : pc[h] = "idle"
        /\ \A p \in Period : get_count(_counts, t, p) = 0
    BY DEF Init, NoSla, NoCounts, get_count
  <2>2. Own(t) = <<>>
    <3>1. \E e : e \in Entry
      <4>1. [ledger_id |-> 0, tenant_id |-> t, period |-> 1, node_round_count |-> 0,
             billed_amount |-> 0, consensus_reached |-> TRUE] \in Entry
        BY DEF Entry, Period
      <4> QED
        BY <4>1
    <3>2. _entries \in Seq(Entry)
      BY <1>1 DEF TypeOK
    <3> QED
      BY <2>1, <3>1, <3>2, OwnAppend DEF Own
  <2>3. ~RoundOpen(t) /\ ~FaultOpen(t) /\ \A p \in Period : ~ChargeOpen(t, p)
    BY <2>1 DEF RoundOpen, FaultOpen, ChargeOpen, Writing
  <2>4. One(RoundOpen(t)) = 0 /\ One(FaultOpen(t)) = 0 /\ \A p \in Period : One(ChargeOpen(t, p)) = 0
    BY <2>3 DEF One
  <2>5. /\ Len(<<>>) = 0 /\ Cardinality(Failed(<<>>)) = 0 /\ Cardinality(Faults(<<>>)) = 0
        /\ \A p : Cardinality(In(<<>>, p)) = 0
        /\ DOMAIN <<>> = {}
    BY FS_EmptySet DEF Failed, Faults, In
  <2> QED
    BY <2>1, <2>2, <2>4, <2>5 DEF Account
<1> QED
  BY <1>1, <1>2, <1>3, <1>4 DEF TenantsInv

\* The invariant holds in every state of the service.
LEMMA SpecInv == Spec => []TenantsInv
<1>1. TenantsInv /\ [Next]_vars => TenantsInv'
  BY StepTypes, StepBusy, StepOwner, StepAccounts DEF TenantsInv
<1> QED
  BY InitInv, <1>1, PTL DEF Spec

\* The variables of the registry, the servers, the routes and the
\* BillingTracker have their types, whatever handlers do together.
THEOREM SpecTypeOK == Spec => []TypeOK
<1>1. TenantsInv => TypeOK
  BY DEF TenantsInv
<1> QED
  BY SpecInv, <1>1, PTL

\* What an invariant with one owner at a time says of the numbers of owners.
LEMMA OwnersCounted ==
    ASSUME TypeOK, HandlersBusy, OneOwner
    PROVE  ServersAreOwned
<1> SUFFICES ASSUME NEW t \in Tenant
             PROVE  /\ Cardinality(Working(t)) + Cardinality({t} \cap _tenants) + Cardinality({fate[t]} \ {None})
                           = IF nodes[t] = 0 THEN 0 ELSE 1
                    /\ \A info \in list_tenants : info.tenant_id = t => Running(t) = info.node_count
                    /\ t \in _tenants \/ Running(t) = 0 \/ Working(t) # {} \/ fate[t] = "failed"
  BY DEF ServersAreOwned
<1>a. /\ nodes[t] \in Nat /\ started[t] \in Nat /\ stopped[t] \in Nat /\ _tenants \subseteq Tenant
      /\ fate[t] \in {None, "deleted", "failed", "lost"}
  BY TenantsConstants DEF TypeOK
<1>b. Cardinality({}) = 0 /\ \A x : Cardinality({x}) = 1
  BY FS_EmptySet, FS_Singleton
<1>1. /\ \A h \in Handler : h \in Working(t) <=> WorksOn(h, t)
      /\ Working(t) \subseteq Handler
  BY DEF Working, WorksOn
<1>2. Cardinality(Working(t)) = IF Working(t) = {} THEN 0 ELSE 1
  <2>1. ASSUME NEW h \in Working(t) PROVE Working(t) = {h}
    BY <1>1 DEF OneOwner
  <2> QED
    BY <2>1, <1>b
<1>3. Cardinality({t} \cap _tenants) = IF t \in _tenants THEN 1 ELSE 0
  <2>1. {t} \cap _tenants = IF t \in _tenants THEN {t} ELSE {}
    OBVIOUS
  <2> QED
    BY <2>1, <1>b
<1>4. Cardinality({fate[t]} \ {None}) = IF fate[t] = None THEN 0 ELSE 1
  <2>1. {fate[t]} \ {None} = IF fate[t] = None THEN {} ELSE {fate[t]}
    OBVIOUS
  <2> QED
    BY <2>1, <1>b
<1>5. /\ nodes[t] = 0 => started[t] = 0 /\ stopped[t] = 0 /\ fate[t] = None /\ t \notin _tenants
      /\ nodes[t] # 0 => t \in _tenants \/ fate[t] # None \/ Working(t) # {}
      /\ t \in _tenants => fate[t] = None /\ started[t] = nodes[t] /\ stopped[t] = 0
      /\ t \in _tenants \/ fate[t] # None => Working(t) = {}
      /\ fate[t] \in {"deleted", "lost"} => started[t] = stopped[t]
  <2>1. nodes[t] # 0 => nodes[t] > 0
    BY <1>a
  <2> QED
    BY <2>1, <1>1 DEF OneOwner
<1>6. nodes[t] = 0 => Working(t) = {}
  <2>1. ASSUME NEW h \in Handler, WorksOn(h, t), nodes[t] = 0 PROVE FALSE
    <3>1. pc[h] # "idle" /\ tenant[h] = t
      BY <2>1 DEF WorksOn
    <3>2. nodes[t] > 0
      BY <3>1 DEF HandlersBusy
    <3> QED
      BY <3>2, <2>1
  <2> QED
    BY <2>1, <1>1
<1>7. Cardinality(Working(t)) + Cardinality({t} \cap _tenants) + Cardinality({fate[t]} \ {None})
            = IF nodes[t] = 0 THEN 0 ELSE 1
  BY <1>2, <1>3, <1>4, <1>5, <1>6
<1>8. \A info \in list_tenants : info.tenant_id = t => Running(t) = info.node_count
  BY <1>5, <1>a DEF list_tenants, Running
<1>9. t \in _tenants \/ Running(t) = 0 \/ Working(t) # {} \/ fate[t] = "failed"
  BY <1>5, <1>a DEF Running
<1> QED
  BY <1>7, <1>8, <1>9

\* create_tenant, delete_tenant and the starting and stopping of servers, one
\* await each, with a restart between any two: one answers for each tenant,
\* and a listed one has all its servers running.
THEOREM SpecServersAreOwned == Spec => []ServersAreOwned
<1>1. TenantsInv => ServersAreOwned
  BY OwnersCounted DEF TenantsInv
<1> QED
  BY SpecInv, <1>1, PTL

\* The round being written down counts once, and covers what is open of it.
LEMMA OpenCounted ==
    ASSUME HandlersBusy, NEW t \in Tenant
    PROVE  LET w == Cardinality({h \in Handler : tenant[h] = t /\ pc[h] \in {"usage", "ledger"}})
           IN  /\ w \in {0, 1} /\ One(RoundOpen(t)) \in {0, w} /\ One(FaultOpen(t)) \in {0, w}
               /\ \A p : One(ChargeOpen(t, p)) \in {0, w}
<1> DEFINE W == {h \in Handler : tenant[h] = t /\ pc[h] \in {"usage", "ledger"}}
<1>1. CASE W = {}
  <2>1. Cardinality(W) = 0
    BY <1>1, FS_EmptySet
  <2>2. ~RoundOpen(t) /\ ~FaultOpen(t) /\ \A p : ~ChargeOpen(t, p)
    BY <1>1 DEF RoundOpen, FaultOpen, ChargeOpen, Writing
  <2>3. One(RoundOpen(t)) = 0 /\ One(FaultOpen(t)) = 0 /\ \A p : One(ChargeOpen(t, p)) = 0
    BY <2>2 DEF One
  <2> HIDE DEF W
  <2>4. Cardinality(W) \in {0, 1} /\ One(RoundOpen(t)) \in {0, Cardinality(W)}
        /\ One(FaultOpen(t)) \in {0, Cardinality(W)} /\ \A p : One(ChargeOpen(t, p)) \in {0, Cardinality(W)}
    BY <2>1, <2>3
  <2> QED
    BY <2>4 DEF W
<1>2. ASSUME NEW h \in W PROVE Cardinality(W) = 1
  <2>1. W = {h}
    BY <1>2 DEF HandlersBusy, Writing
  <2> QED
    BY <2>1, FS_Singleton
<1>3. CASE W # {}
  <2>1. Cardinality(W) = 1
    BY <1>2, <1>3
  <2>2. \A b : One(b) \in {0, 1}
    BY DEF One
  <2> HIDE DEF W
  <2>4. Cardinality(W) \in {0, 1} /\ One(RoundOpen(t)) \in {0, Cardinality(W)}
        /\ One(FaultOpen(t)) \in {0, Cardinality(W)} /\ \A p : One(ChargeOpen(t, p)) \in {0, Cardinality(W)}
    BY <2>1, <2>2
  <2> QED
    BY <2>4 DEF W
<1> QED
  BY <1>1, <1>3

\* What the endpoints report of a registered tenant is its account.
LEMMA ReportsAgree ==
    ASSUME TenantsInv
    PROVE  AccountsAgree
<1> SUFFICES ASSUME NEW info \in list_tenants
             PROVE
        LET t         == info.tenant_id
            audit     == tenant_audit_summary(t)
            usage     == tenant_usage(t)
            ledger    == tenant_billing_ledger(t)
            sla       == tenant_sla(t)
            entries   == ledger.entries
            InPeriod(p) == {i \in DOMAIN entries : entries[i].period = p}
            Unwritten == failures + Cardinality({h \in Handler : tenant[h] = t /\ pc[h] \in {"usage", "ledger"}})
        IN  /\ sla.total_rounds = ledger.total_entries
            /\ sla.fault_rounds = Cardinality({i \in DOMAIN entries : ~entries[i].consensus_reached})
            /\ ledger.total_billed = ledger.total_entries * compute_billed_amount(info.node_count)
            /\ audit.total_rounds - ledger.total_entries \in 0 .. Unwritten
            /\ audit.consensus_failure_rounds - sla.fault_rounds \in 0 .. Unwritten
            /\ \A p \in Period : get_count(_counts, t, p) - Cardinality(InPeriod(p)) \in 0 .. Unwritten
            /\ usage.round_count - Cardinality(InPeriod(now)) \in 0 .. Unwritten
            /\ {u.period : u \in usage.all_periods} \subseteq 1 .. now
  BY DEF AccountsAgree
<1> USE DEF TenantsInv
<1>1. PICK t \in _tenants : info = [tenant_id |-> t, node_count |-> nodes[t]]
  BY DEF list_tenants
<1>2. t \in Tenant /\ fate[t] = None /\ nodes[t] \in Nat
  BY TenantsConstants DEF TypeOK, OneOwner
<1> DEFINE own == Own(t)
           w == Cardinality({h \in Handler : tenant[h] = t /\ pc[h] \in {"usage", "ledger"}})
           b == compute_billed_amount(nodes[t])
<1>3. Account(t)
  BY <1>2 DEF Accounts
<1>4. /\ own \in Seq(Entry) /\ Len(own) \in Nat /\ Len(audit_log[t]) \in Nat
      /\ Cardinality(Failed(audit_log[t])) \in Nat /\ Cardinality(Faults(own)) \in Nat
      /\ \A p \in Period : Cardinality(In(own, p)) \in Nat /\ get_count(_counts, t, p) \in Nat
      /\ failures \in Nat
  BY <1>2, AccountNumbers
<1>5. /\ tenant_sla(t).total_rounds = _sla[t].total /\ tenant_sla(t).fault_rounds = _sla[t].fault_rounds
      /\ tenant_billing_ledger(t) = [entries |-> own, total_entries |-> Len(own), total_billed |-> sum_billed(own)]
      /\ tenant_audit_summary(t).total_rounds = Len(audit_log[t])
      /\ tenant_audit_summary(t).consensus_failure_rounds = Cardinality(Failed(audit_log[t]))
      /\ tenant_usage(t).round_count = get_count(_counts, t, now)
      /\ tenant_usage(t).all_periods = get_all_periods(_counts, t)
  BY DEF tenant_sla, get_sla, tenant_billing_ledger, get_billing_ledger, tenant_audit_summary, Failed,
         tenant_usage, get_usage, Own
<1>6. w \in {0, 1} /\ One(RoundOpen(t)) \in {0, w} /\ One(FaultOpen(t)) \in {0, w}
      /\ \A p \in Period : One(ChargeOpen(t, p)) \in {0, w}
  BY <1>2, OpenCounted
<1>7. sum_billed(own) = Len(own) * b
  <2>1. \A i \in DOMAIN own : own[i].billed_amount = b
    BY <1>2, <1>3 DEF Account
  <2>2. b \in Nat
    BY <1>2, AmountType
  <2> HIDE DEF own, b
  <2> QED
    BY <1>4, <2>1, <2>2, SumOfEqual
<1>8. /\ _sla[t].total = Len(own)
      /\ _sla[t].fault_rounds = Cardinality(Faults(own))
      /\ Len(audit_log[t]) - Len(own) - One(RoundOpen(t)) \in 0 .. failures
      /\ Cardinality(Failed(audit_log[t])) - Cardinality(Faults(own)) - One(FaultOpen(t)) \in 0 .. failures
      /\ \A p \in Period :
            get_count(_counts, t, p) - Cardinality(In(own, p)) - One(ChargeOpen(t, p)) \in 0 .. failures
  BY <1>2, <1>3 DEF Account
<1> HIDE DEF w
<1>9. \A x \in Int, y \in {0, w} : x - y \in 0 .. failures => x \in 0 .. failures + w
  BY <1>4, <1>6
<1> HIDE DEF own, b
<1>10. /\ Len(audit_log[t]) - Len(own) \in 0 .. failures + w
       /\ Cardinality(Failed(audit_log[t])) - Cardinality(Faults(own)) \in 0 .. failures + w
  <2>1. /\ Len(audit_log[t]) - Len(own) \in Int
        /\ Cardinality(Failed(audit_log[t])) - Cardinality(Faults(own)) \in Int
    BY <1>4
  <2>2. Len(audit_log[t]) - Len(own) - One(RoundOpen(t)) \in 0 .. failures /\ One(RoundOpen(t)) \in {0, w}
    BY <1>6, <1>8
  <2>3. /\ Cardinality(Failed(audit_log[t])) - Cardinality(Faults(own)) - One(FaultOpen(t)) \in 0 .. failures
        /\ One(FaultOpen(t)) \in {0, w}
    BY <1>6, <1>8
  <2>4. Len(audit_log[t]) - Len(own) \in 0 .. failures + w
    BY ONLY <1>9, <2>1, <2>2
  <2>5. Cardinality(Failed(audit_log[t])) - Cardinality(Faults(own)) \in 0 .. failures + w
    BY ONLY <1>9, <2>1, <2>3
  <2> QED
    BY <2>4, <2>5
<1>11. ASSUME NEW p \in Period
       PROVE  get_count(_counts, t, p) - Cardinality(In(own, p)) \in 0 .. failures + w
  <2>1. /\ get_count(_counts, t, p) - Cardinality(In(own, p)) \in Int
        /\ One(ChargeOpen(t, p)) \in {0, w}
        /\ get_count(_counts, t, p) - Cardinality(In(own, p)) - One(ChargeOpen(t, p)) \in 0 .. failures
    BY <1>4, <1>6, <1>8
  <2> QED
    BY <2>1, <1>9
<1>12. now \in Period
  BY DEF TypeOK
<1>13. {u.period : u \in get_all_periods(_counts, t)} \subseteq 1 .. now
  <2> SUFFICES ASSUME NEW u \in get_all_periods(_counts, t) PROVE u.period \in 1 .. now
    OBVIOUS
  <2>1. PICK key \in DOMAIN _counts : key[1] = t /\ _counts[key] > 0 /\ u = [period |-> key[2], round_count |-> _counts[key]]
    BY DEF get_all_periods
  <2>2. key \in Tenant \X Period /\ u.period = key[2]
    BY <2>1 DEF TypeOK
  <2>3. key = <<t, key[2]>> /\ key[2] \in Period
    BY <2>1, <2>2
  <2>4. get_count(_counts, t, key[2]) > 0
    BY <2>1, <2>3 DEF get_count
  <2>5. key[2] <= now
    BY <1>3, <2>3, <2>4 DEF Account
  <2> QED
    BY <2>2, <2>3, <2>5, <1>12, TenantsConstants DEF Period
<1>14. info.tenant_id = t /\ info.node_count = nodes[t]
  BY <1>1
<1>15. /\ tenant_billing_ledger(t).entries = own
       /\ tenant_billing_ledger(t).total_entries = Len(own)
       /\ tenant_billing_ledger(t).total_billed = sum_billed(own)
  BY <1>5
<1>16. /\ {i \in DOMAIN own : ~own[i].consensus_reached} = Faults(own)
       /\ \A p : {i \in DOMAIN own : own[i].period = p} = In(own, p)
       /\ failures + Cardinality({h \in Handler : tenant[h] = t /\ pc[h] \in {"usage", "ledger"}})
            = failures + w
  BY DEF Faults, In, w
<1> HIDE DEF TenantsInv
<1>17. /\ tenant_sla(t).total_rounds = tenant_billing_ledger(t).total_entries
       /\ tenant_sla(t).fault_rounds = Cardinality(Faults(own))
       /\ tenant_billing_ledger(t).total_billed
            = tenant_billing_ledger(t).total_entries * compute_billed_amount(info.node_count)
       /\ tenant_audit_summary(t).total_rounds - tenant_billing_ledger(t).total_entries \in 0 .. failures + w
       /\ tenant_audit_summary(t).consensus_failure_rounds - tenant_sla(t).fault_rounds \in 0 .. failures + w
  BY <1>5, <1>7, <1>8, <1>10, <1>14, <1>15 DEF b
<1>18. tenant_usage(t).round_count - Cardinality(In(own, now)) \in 0 .. failures + w
  BY <1>5, <1>11, <1>12
<1>19. {u.period : u \in tenant_usage(t).all_periods} \subseteq 1 .. now
  BY <1>5, <1>13
<1> DEFINE u == info.tenant_id
           es == tenant_billing_ledger(u).entries
<1>20. u = t /\ es = own
  BY <1>14, <1>15
<1> HIDE DEF u, es
<1>21. /\ {i \in DOMAIN es : ~es[i].consensus_reached} = Faults(own)
       /\ \A p : {i \in DOMAIN es : es[i].period = p} = In(own, p)
       /\ failures + Cardinality({h \in Handler : tenant[h] = u /\ pc[h] \in {"usage", "ledger"}})
            = failures + w
  BY <1>16, <1>20
<1>22. /\ tenant_sla(u).total_rounds = tenant_billing_ledger(u).total_entries
       /\ tenant_sla(u).fault_rounds = Cardinality({i \in DOMAIN es : ~es[i].consensus_reached})
       /\ tenant_billing_ledger(u).total_billed
            = tenant_billing_ledger(u).total_entries * compute_billed_amount(info.node_count)
       /\ tenant_audit_summary(u).total_rounds - tenant_billing_ledger(u).total_entries \in 0 .. failures + w
       /\ tenant_audit_summary(u).consensus_failure_rounds - tenant_sla(u).fault_rounds \in 0 .. failures + w
  BY <1>17, <1>20, <1>21
<1>23. /\ \A p \in Period :
            get_count(_counts, u, p) - Cardinality({i \in DOMAIN es : es[i].period = p}) \in 0 .. failures + w
       /\ tenant_usage(u).round_count - Cardinality({i \in DOMAIN es : es[i].period = now}) \in 0 .. failures + w
       /\ {v.period : v \in tenant_usage(u).all_periods} \subseteq 1 .. now
  BY <1>11, <1>18, <1>19, <1>20, <1>21
<1> QED
  BY <1>21, <1>22, <1>23 DEF u, es

\* record_round in two commits that may each raise, with a restart in between
\* and the tenant deleted meanwhile: what the endpoints report of a tenant's
\* four accounts agrees, up to the round just written and the failed writes.
THEOREM SpecAccountsAgree == Spec => []AccountsAgree
<1>1. TenantsInv => AccountsAgree
  BY ReportsAgree
<1> QED
  BY SpecInv, <1>1, PTL
=============================================================================

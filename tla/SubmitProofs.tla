---------------------------- MODULE SubmitProofs -----------------------------
(***************************************************************************)
(* The life of a transaction for every number of requests, nodes, failing  *)
(* writes and crashes.  The invariant says, for each step of a handler,    *)
(* what is in the database, history by then; a request that failed or was lost has  *)
(* no step left, so only what holds of the database, history itself remains of it.  *)
(***************************************************************************)
EXTENDS Submit, ConsensusLemmas, SequenceTheorems, TLAPS

-----------------------------------------------------------------------------
(* The invariant                                                           *)

\* The state that the handler of a request has saved last.
LastSaved(step) ==
    CASE step = "EXECUTING"         -> "INITIATED"
      [] step = "PROPOSED"          -> "EXECUTING"
      [] step = "CONSENSUS_PENDING" -> "PROPOSED"
      [] step = "broadcast"         -> "CONSENSUS_PENDING"
      [] step = "audit"             -> "CONSENSUS_PENDING"
      [] step = "FINALIZED"         -> "CONSENSUS_PENDING"
      [] step = "usage"             -> "FINALIZED"
      [] step = "ledger"            -> "FINALIZED"
      [] step = "BILLED"            -> "FINALIZED"
      [] step = "REPLICATED"        -> "BILLED"

Underway == (Work \ {"INITIATED"}) \cup {"broadcast"}
PastFinalized == {"usage", "ledger", "BILLED", "REPLICATED"}
PastAudit == PastFinalized \cup {"FINALIZED"}
Over == {"answered", "lost"}

\* Only the handler that holds the event loop has a write to do, and only
\* an answered request has a response.
LoopIsHeld ==
    \A r \in Request :
        /\ pc[r] \in Work => running = r
        /\ response[r] # None => pc[r] = "answered"

\* Between two writes of a handler its record in memory is the one in the
\* store, in the state it saved last.
RecordSaved ==
    \A r \in Request :
        /\ pc[r] \in {"new", "INITIATED"} => transactions[r] = None
        /\ pc[r] \in Underway =>
              /\ _tx_store[r] = transactions[r]
              /\ transactions[r] # None
              /\ transactions[r].state = LastSaved(pc[r])

\* A handler knows its own round: while it persists the event, that is the
\* last one of the log, and from then on it is in the audit table; the
\* FINALIZED record has its verdict and its number of nodes.
KnowsRound(r) ==
    /\ pc[r] \in PastAudit \cup {"audit"} =>
          /\ local[r] # None
          /\ round[r] # None
          /\ local[r].consensus_reached = round[r].consensus_reached
          /\ local[r].results = round[r].votes
          /\ local[r].faulty = round[r].faulty
    /\ pc[r] = "audit" =>
          /\ Len(_events) > 0
          /\ _events[Len(_events)] = round[r]
    /\ pc[r] \in PastAudit =>
          /\ local[r].event = round[r]
          /\ \E k \in DOMAIN audit_events : audit_events[k] = round[r]
    /\ pc[r] \in PastFinalized =>
          /\ transactions[r].consensus_reached = local[r].consensus_reached
          /\ transactions[r].node_count = local[r].results + local[r].faulty
RoundKnown == \A r \in Request : KnowsRound(r)

\* An entry of the ledger agrees with the record in the store, which is at
\* least FINALIZED, and with the event of the round, in the audit table.
EntryAgrees(entry) ==
    LET rec == transactions[entry.tx_id]
    IN  /\ rec # None
        /\ rec.state \in {"FINALIZED", "BILLED", "REPLICATED"}
        /\ rec.node_count = entry.node_round_count
        /\ rec.consensus_reached = entry.consensus_reached
        /\ pc[entry.tx_id] \in {"BILLED", "REPLICATED"} \cup Over
        /\ round[entry.tx_id].votes + round[entry.tx_id].faulty = entry.node_round_count
        /\ round[entry.tx_id].consensus_reached = entry.consensus_reached
        /\ \E k \in DOMAIN audit_events : audit_events[k] = round[entry.tx_id]
LedgerAgrees == \A i \in DOMAIN billing_ledger : EntryAgrees(billing_ledger[i])

\* No transaction has two entries.
LedgerIsUnique ==
    \A i, j \in DOMAIN billing_ledger :
        billing_ledger[i].tx_id = billing_ledger[j].tx_id => i = j

\* Past the ledger there is an entry; a record beyond FINALIZED has its
\* number of nodes for its amount.
Charged(r) == \E i \in DOMAIN billing_ledger : billing_ledger[i].tx_id = r
BilledIsCharged ==
    \A r \in Request :
        /\ pc[r] \in {"BILLED", "REPLICATED"} => Charged(r)
        /\ transactions[r] # None /\ transactions[r].state \in {"BILLED", "REPLICATED"} =>
              Charged(r) /\ transactions[r].billed_amount = transactions[r].node_count

SubmitInv ==
    /\ TypeOK
    /\ LoopIsHeld
    /\ RecordSaved
    /\ RoundKnown
    /\ LedgerAgrees
    /\ LedgerIsUnique
    /\ BilledIsCharged
    /\ AnsweredForItsOwnRound

-----------------------------------------------------------------------------
(* Lemmas                                                                  *)

\* One element more at the end of a sequence.
LEMMA AppendOne ==
    ASSUME NEW S, NEW s \in Seq(S), NEW e \in S
    PROVE  /\ Append(s, e) \in Seq(S)
           /\ Len(s) \in Nat
           /\ Len(Append(s, e)) = Len(s) + 1
           /\ Append(s, e)[Len(s) + 1] = e
           /\ Len(s) + 1 \in DOMAIN Append(s, e)
           /\ Len(s) + 1 \notin DOMAIN s
           /\ \A i \in DOMAIN s : i \in DOMAIN Append(s, e) /\ Append(s, e)[i] = s[i]
           /\ \A i \in DOMAIN Append(s, e) : i \in DOMAIN s \/ i = Len(s) + 1
BY AppendProperties

\* What the entries of the ledger are.
LEMMA LedgerTypes ==
    ASSUME TypeOK
    PROVE  \A i \in DOMAIN billing_ledger : billing_ledger[i].tx_id \in Request
<1> SUFFICES ASSUME NEW i \in DOMAIN billing_ledger PROVE billing_ledger[i].tx_id \in Request
  OBVIOUS
<1>1. billing_ledger[i] \in LedgerEntry
  BY ElementOfSeq DEF TypeOK
<1> QED
  BY <1>1 DEF LedgerEntry

\* Where the writes of a handler lead, and what has been saved by then.
LEMMA Steps ==
    /\ After("audit") = "FINALIZED" /\ After("usage") = "ledger" /\ After("ledger") = "BILLED"
    /\ \A step \in TxState \ {"REPLICATED"} :
          /\ After(step) \in Underway
          /\ LastSaved(After(step)) = step
          /\ After(step) \in Work <=> step # "CONSENSUS_PENDING"
          /\ After(step) \in PastFinalized <=> step \in {"FINALIZED", "BILLED"}
          /\ After(step) \in PastAudit <=> step \in {"FINALIZED", "BILLED"}
          /\ After(step) \in {"BILLED", "REPLICATED"} <=> step = "BILLED"
          /\ After(step) \notin {"new", "INITIATED", "audit"}
BY DEF After, LastSaved, TxState, Underway, Work, PastFinalized, PastAudit

\* The states at and beyond FINALIZED, BILLED and REPLICATED.
LEMMA Ranks ==
    ASSUME NEW s \in TxState
    PROVE  /\ Rank[s] >= Rank["FINALIZED"] <=> s \in {"FINALIZED", "BILLED", "REPLICATED"}
           /\ Rank[s] >= Rank["BILLED"] <=> s \in {"BILLED", "REPLICATED"}
           /\ Rank[s] >= Rank["REPLICATED"] <=> s = "REPLICATED"
BY DEF Rank, TxState

\* What transition, the outcome of a round and the amount change of a record.
LEMMA MovedRecord ==
    ASSUME NEW rec \in TransactionRecord, NEW s \in TxState,
           NEW new, new = [rec EXCEPT !.state = s]
    PROVE  /\ new \in TransactionRecord
           /\ new.state = s
           /\ new.node_count = rec.node_count
           /\ new.consensus_reached = rec.consensus_reached
           /\ new.billed_amount = rec.billed_amount
BY DEF TransactionRecord

LEMMA BilledRecord ==
    ASSUME NEW rec \in TransactionRecord,
           NEW new, new = [rec EXCEPT !.billed_amount = rec.node_count]
    PROVE  /\ new \in TransactionRecord
           /\ new.state = rec.state
           /\ new.node_count = rec.node_count
           /\ new.consensus_reached = rec.consensus_reached
           /\ new.billed_amount = rec.node_count
BY DEF TransactionRecord

\* The record a handler saves next.
LEMMA NextRecordFacts ==
    ASSUME TypeOK, RecordSaved, RoundKnown, NEW r \in Request, pc[r] \in TxState
    PROVE  /\ NextRecord(r) \in TransactionRecord
           /\ NextRecord(r) # None
           /\ NextRecord(r).state = pc[r]
           /\ pc[r] = "FINALIZED" =>
                 /\ NextRecord(r).consensus_reached = local[r].consensus_reached
                 /\ NextRecord(r).node_count = local[r].results + local[r].faulty
           /\ pc[r] = "BILLED" =>
                 NextRecord(r).billed_amount = NextRecord(r).node_count
           /\ pc[r] \in {"BILLED", "REPLICATED"} =>
                 /\ NextRecord(r).node_count = transactions[r].node_count
                 /\ NextRecord(r).consensus_reached = transactions[r].consensus_reached
           /\ pc[r] = "REPLICATED" =>
                 NextRecord(r).billed_amount = transactions[r].billed_amount
<1>1. pc[r] # "INITIATED" => _tx_store[r] = transactions[r] /\ _tx_store[r] \in TransactionRecord
  BY DEF TypeOK, RecordSaved, Underway, Work
<1>2. CASE pc[r] = "INITIATED"
  <2>1. NextRecord(r) = new_record
    BY <1>2 DEF NextRecord
  <2>2. Cardinality(Node) \in Nat
    BY NodeFinite, FS_CardinalityType
  <2>3. new_record \in TransactionRecord /\ new_record.state = "INITIATED"
    BY <2>2 DEF new_record, TransactionRecord, TxState
  <2> QED
    BY <2>1, <2>3, <1>2, NoneIsNoRecord
<1>3. CASE pc[r] = "FINALIZED"
  <2> DEFINE rec == [_tx_store[r] EXCEPT !.state = pc[r]]
             b   == local[r].consensus_reached
             n   == local[r].results + local[r].faulty
  <2>1. b \in BOOLEAN /\ n \in Nat
    BY <1>3 DEF TypeOK, RoundKnown, KnowsRound, PastAudit, RoundLocals
  <2>2. NextRecord(r) = [rec EXCEPT !.consensus_reached = b, !.node_count = n]
    BY <1>3 DEF NextRecord
  <2>3. rec \in TransactionRecord /\ rec.state = pc[r]
    BY <1>1, <1>3, MovedRecord
  <2> HIDE DEF rec, b, n
  <2>4. /\ NextRecord(r) \in TransactionRecord
        /\ NextRecord(r).state = pc[r]
        /\ NextRecord(r).consensus_reached = b
        /\ NextRecord(r).node_count = n
    BY <2>1, <2>2, <2>3 DEF TransactionRecord
  <2>5. /\ NextRecord(r).consensus_reached = local[r].consensus_reached
        /\ NextRecord(r).node_count = local[r].results + local[r].faulty
    BY <2>4 DEF b, n
  <2>6. pc[r] \notin {"BILLED", "REPLICATED"}
    BY <1>3
  <2> QED
    BY <2>4, <2>5, <2>6, NoneIsNoRecord
<1>4. CASE pc[r] = "BILLED"
  <2> DEFINE rec == [_tx_store[r] EXCEPT !.state = pc[r]]
  <2>1. NextRecord(r) = [rec EXCEPT !.billed_amount = rec.node_count]
    BY <1>4 DEF NextRecord
  <2>2. /\ rec \in TransactionRecord
        /\ rec.state = pc[r]
        /\ rec.node_count = transactions[r].node_count
        /\ rec.consensus_reached = transactions[r].consensus_reached
    BY <1>1, <1>4, MovedRecord
  <2> HIDE DEF rec
  <2>3. /\ NextRecord(r) \in TransactionRecord
        /\ NextRecord(r).state = pc[r]
        /\ NextRecord(r).node_count = rec.node_count
        /\ NextRecord(r).consensus_reached = rec.consensus_reached
        /\ NextRecord(r).billed_amount = rec.node_count
    BY <2>1, <2>2, BilledRecord
  <2> QED
    BY <1>4, <2>2, <2>3, NoneIsNoRecord
<1>5. CASE pc[r] \notin {"INITIATED", "FINALIZED", "BILLED"}
  <2>1. NextRecord(r) = [_tx_store[r] EXCEPT !.state = pc[r]]
    BY <1>5 DEF NextRecord
  <2>2. /\ NextRecord(r) \in TransactionRecord
        /\ NextRecord(r).state = pc[r]
        /\ NextRecord(r).node_count = transactions[r].node_count
        /\ NextRecord(r).consensus_reached = transactions[r].consensus_reached
        /\ NextRecord(r).billed_amount = transactions[r].billed_amount
    BY <1>1, <1>5, <2>1, MovedRecord
  <2> QED
    BY <1>5, <2>2, NoneIsNoRecord
<1> QED
  BY <1>2, <1>3, <1>4, <1>5

\* The invariant holds initially.
LEMMA InitInv == Init => SubmitInv
<1> SUFFICES ASSUME Init PROVE SubmitInv
  OBVIOUS
<1>1. TypeOK
  BY SubmitConstants DEF Init, TypeOK
<1>2. LoopIsHeld /\ RecordSaved /\ RoundKnown
  BY DEF Init, LoopIsHeld, RecordSaved, RoundKnown, KnowsRound, Work, TxState,
         Underway, PastAudit, PastFinalized
<1>3. LedgerAgrees /\ LedgerIsUnique /\ BilledIsCharged
  BY DEF Init, LedgerAgrees, LedgerIsUnique, BilledIsCharged
<1>4. AnsweredForItsOwnRound
  BY DEF Init, AnsweredForItsOwnRound
<1> QED
  BY <1>1, <1>2, <1>3, <1>4 DEF SubmitInv

-----------------------------------------------------------------------------
(* One lemma per action.                                                   *)

Recorded == {"BILLED", "REPLICATED"} \cup Over

\* What a step has to do to keep the entries of the ledger evidenced, when
\* it writes neither to the ledger nor to the records.
LEMMA LedgerKept ==
    ASSUME SubmitInv, UNCHANGED <<transactions, billing_ledger>>,
           \A q \in Request : pc[q] \in Recorded =>
               pc'[q] \in Recorded /\ round'[q] = round[q],
           \A k \in DOMAIN audit_events :
               k \in DOMAIN audit_events' /\ audit_events'[k] = audit_events[k]
    PROVE  LedgerAgrees' /\ LedgerIsUnique'
<1>1. \A i \in DOMAIN billing_ledger : billing_ledger[i].tx_id \in Request
  BY LedgerTypes DEF SubmitInv
<1>2. ASSUME NEW i \in DOMAIN billing_ledger PROVE EntryAgrees(billing_ledger[i])'
  <2> DEFINE entry == billing_ledger[i]
  <2>1. EntryAgrees(entry) /\ entry.tx_id \in Request /\ entry' = entry
    BY <1>1 DEF SubmitInv, LedgerAgrees
  <2> HIDE DEF entry
  <2>2. /\ pc'[entry.tx_id] \in Recorded
        /\ round'[entry.tx_id] = round[entry.tx_id]
    BY <2>1 DEF EntryAgrees, Recorded
  <2>3. PICK k \in DOMAIN audit_events : audit_events[k] = round[entry.tx_id]
    BY <2>1 DEF EntryAgrees
  <2>4. \E l \in DOMAIN audit_events' : audit_events'[l] = round'[entry.tx_id]
    BY <2>2, <2>3
  <2>5. EntryAgrees(entry)'
    BY <2>1, <2>2, <2>4 DEF EntryAgrees, Recorded
  <2> QED
    BY <2>5 DEF entry
<1>3. LedgerAgrees'
  BY <1>2 DEF LedgerAgrees
<1>4. LedgerIsUnique'
  BY DEF SubmitInv, LedgerIsUnique
<1> QED
  BY <1>3, <1>4

LEMMA SubmitKeeps ==
    ASSUME SubmitInv, NEW r \in Request, Submit(r)
    PROVE  SubmitInv'
<1>1. TypeOK'
  BY DEF SubmitInv, TypeOK, Submit, Work, TxState, database, history
<1>2. LoopIsHeld'
  BY SubmitConstants DEF SubmitInv, TypeOK, LoopIsHeld, Submit, database, history
<1>3. RecordSaved'
  BY DEF SubmitInv, TypeOK, RecordSaved, Submit, database, history, Underway, Work,
         TxState
<1>4. RoundKnown'
  BY DEF SubmitInv, TypeOK, RoundKnown, KnowsRound, Submit, database, history,
         PastAudit, PastFinalized
<1>5. LedgerAgrees' /\ LedgerIsUnique'
  BY LedgerKept DEF SubmitInv, TypeOK, Submit, database, history, Recorded, Over
<1>6. BilledIsCharged'
  BY DEF SubmitInv, TypeOK, BilledIsCharged, Charged, Submit, database, history
<1>7. AnsweredForItsOwnRound'
  BY DEF SubmitInv, AnsweredForItsOwnRound, Reached, Submit, database, history
<1> QED
  BY <1>1, <1>2, <1>3, <1>4, <1>5, <1>6, <1>7 DEF SubmitInv

LEMMA LoadRecordKeeps ==
    ASSUME SubmitInv, NEW r \in Request, LoadRecord(r)
    PROVE  SubmitInv'
<1>1. TypeOK'
  BY DEF SubmitInv, TypeOK, LoadRecord, database, history
<1>2. LoopIsHeld'
  BY DEF SubmitInv, LoopIsHeld, LoadRecord, database, history
<1>3. RecordSaved'
  BY DEF SubmitInv, TypeOK, RecordSaved, LoadRecord, database, history
<1>4. RoundKnown'
  BY DEF SubmitInv, RoundKnown, KnowsRound, LoadRecord, database, history
<1>5. LedgerAgrees' /\ LedgerIsUnique'
  BY DEF SubmitInv, LedgerAgrees, EntryAgrees, LedgerIsUnique, LoadRecord, database,
         history
<1>6. BilledIsCharged'
  BY DEF SubmitInv, BilledIsCharged, Charged, LoadRecord, database, history
<1>7. AnsweredForItsOwnRound'
  BY DEF SubmitInv, AnsweredForItsOwnRound, Reached, LoadRecord, database, history
<1> QED
  BY <1>1, <1>2, <1>3, <1>4, <1>5, <1>6, <1>7 DEF SubmitInv

LEMMA CrashKeeps ==
    ASSUME SubmitInv, Crash
    PROVE  SubmitInv'
<1>0. \A r \in Request : pc'[r] \in {"new", "answered", "lost"}
                         /\ (pc'[r] # "lost" => pc'[r] = pc[r])
                         /\ (pc[r] \in Over => pc'[r] \in Over)
  BY DEF Crash, Over
<1>1. TypeOK'
  <2>1. pc' \in [Request -> Work \cup {"new", "broadcast", "answered", "lost"}]
    BY DEF Crash
  <2>2. crashes' \in 0 .. MaxCrashes
    BY SubmitConstants DEF SubmitInv, TypeOK, Crash
  <2> QED
    BY <2>1, <2>2 DEF SubmitInv, TypeOK, Crash, database, history
<1>2. LoopIsHeld'
  <2>1. \A r \in Request : pc[r] = "answered" => pc'[r] = "answered"
    BY DEF Crash
  <2> QED
    BY <1>0, <2>1 DEF SubmitInv, LoopIsHeld, Crash, Work, TxState
<1>3. RecordSaved'
  BY <1>0 DEF SubmitInv, RecordSaved, Crash, database, history, Underway, Work, TxState
<1>4. RoundKnown'
  BY <1>0 DEF RoundKnown, KnowsRound, PastAudit, PastFinalized
<1>5. LedgerAgrees' /\ LedgerIsUnique'
  <2>1. \A r \in Request : pc[r] \in Recorded => pc'[r] \in Recorded
    BY DEF Crash, Over, Recorded
  <2> QED
    BY <2>1, LedgerKept DEF Crash, database, history
<1>6. BilledIsCharged'
  BY <1>0 DEF SubmitInv, BilledIsCharged, Charged, Crash, database, history
<1>7. AnsweredForItsOwnRound'
  BY DEF SubmitInv, AnsweredForItsOwnRound, Reached, Crash, database, history
<1> QED
  BY <1>1, <1>2, <1>3, <1>4, <1>5, <1>6, <1>7 DEF SubmitInv

LEMMA BroadcastRaisesKeeps ==
    ASSUME SubmitInv, NEW r \in Request, BroadcastRaises(r)
    PROVE  SubmitInv'
<1>1. TypeOK'
  BY DEF SubmitInv, TypeOK, BroadcastRaises, database, history, Answer
<1>2. LoopIsHeld'
  BY DEF SubmitInv, TypeOK, LoopIsHeld, BroadcastRaises, Work, TxState
<1>3. RecordSaved'
  BY DEF SubmitInv, TypeOK, RecordSaved, BroadcastRaises, database, history, Underway,
         Work, TxState
<1>4. RoundKnown'
  BY DEF SubmitInv, TypeOK, RoundKnown, KnowsRound, BroadcastRaises, database, history,
         PastAudit, PastFinalized
<1>5. LedgerAgrees' /\ LedgerIsUnique'
  BY LedgerKept DEF SubmitInv, TypeOK, BroadcastRaises, database, history, Recorded, Over
<1>6. BilledIsCharged'
  BY DEF SubmitInv, TypeOK, BilledIsCharged, Charged, BroadcastRaises, database, history
<1>7. AnsweredForItsOwnRound'
  BY DEF SubmitInv, TypeOK, AnsweredForItsOwnRound, Reached, BroadcastRaises, database,
         history
<1> QED
  BY <1>1, <1>2, <1>3, <1>4, <1>5, <1>6, <1>7 DEF SubmitInv

LEMMA CountUsageKeeps ==
    ASSUME SubmitInv, NEW r \in Request, CountUsage(r)
    PROVE  SubmitInv'
<1>1. TypeOK'
  BY Steps DEF SubmitInv, TypeOK, CountUsage, history, Work
<1>2. LoopIsHeld'
  BY DEF SubmitInv, TypeOK, LoopIsHeld, CountUsage, history, Work
<1>3. RecordSaved'
  BY Steps
     DEF SubmitInv, TypeOK, RecordSaved, CountUsage, history, Underway, Work, TxState, LastSaved
<1>4. RoundKnown'
  BY Steps
     DEF SubmitInv, TypeOK, RoundKnown, KnowsRound, CountUsage, history, PastAudit, PastFinalized
<1>5. LedgerAgrees' /\ LedgerIsUnique'
  BY Steps, LedgerKept DEF SubmitInv, TypeOK, CountUsage, history, Recorded, Over
<1>6. BilledIsCharged'
  BY Steps DEF SubmitInv, TypeOK, BilledIsCharged, Charged, CountUsage, history
<1>7. AnsweredForItsOwnRound'
  BY DEF SubmitInv, AnsweredForItsOwnRound, Reached, CountUsage, history
<1> QED
  BY <1>1, <1>2, <1>3, <1>4, <1>5, <1>6, <1>7 DEF SubmitInv

LEMMA WriteFailsKeeps ==
    ASSUME SubmitInv, NEW r \in Request, WriteFails(r)
    PROVE  SubmitInv'
<1>0. pc[r] \in TxState => NextRecord(r) \in TransactionRecord
  BY NextRecordFacts DEF SubmitInv
<1>1. TypeOK'
  <2>1. _tx_store' \in [Request -> TransactionRecord \cup {None}]
    BY <1>0 DEF SubmitInv, TypeOK, WriteFails
  <2>2. response' \in [Request -> Answer \cup {None}]
    BY DEF SubmitInv, TypeOK, WriteFails, Answer
  <2>3. failures' \in 0 .. MaxFailures
    BY SubmitConstants DEF SubmitInv, TypeOK, WriteFails
  <2> QED
    BY <2>1, <2>2, <2>3 DEF SubmitInv, TypeOK, WriteFails, database, history
<1>2. LoopIsHeld'
  BY DEF SubmitInv, TypeOK, LoopIsHeld, WriteFails, Work, TxState
<1>3. RecordSaved'
  BY DEF SubmitInv, TypeOK, RecordSaved, WriteFails, database, history, Underway, Work,
         TxState
<1>4. RoundKnown'
  BY DEF SubmitInv, TypeOK, RoundKnown, KnowsRound, WriteFails, database, history,
         PastAudit, PastFinalized
<1>5. LedgerAgrees' /\ LedgerIsUnique'
  BY LedgerKept DEF SubmitInv, TypeOK, WriteFails, database, history, Recorded, Over
<1>6. BilledIsCharged'
  BY DEF SubmitInv, TypeOK, BilledIsCharged, Charged, WriteFails, database, history
<1>7. AnsweredForItsOwnRound'
  BY DEF SubmitInv, TypeOK, AnsweredForItsOwnRound, Reached, WriteFails, database, history
<1> QED
  BY <1>1, <1>2, <1>3, <1>4, <1>5, <1>6, <1>7 DEF SubmitInv

LEMMA PersistEventKeeps ==
    ASSUME SubmitInv, NEW r \in Request, PersistEvent(r)
    PROVE  SubmitInv'
<1> DEFINE event == _events[Len(_events)]
<1>1. /\ pc[r] = "audit"
      /\ pc' = [pc EXCEPT ![r] = "FINALIZED"]
      /\ audit_events' = Append(audit_events, event)
      /\ local' = [local EXCEPT ![r].event = event]
      /\ UNCHANGED <<running, _tx_store, _events, transactions, billing_ledger,
                     response, round>>
  BY Steps DEF PersistEvent, history
<1>2. /\ event \in AuditEvent
      /\ event = round[r]
      /\ local[r] \in RoundLocals
  <2>1. Len(_events) \in 1 .. Len(_events) /\ _events \in Seq(AuditEvent)
    BY <1>1, LenProperties DEF SubmitInv, TypeOK, RoundKnown, KnowsRound
  <2>2. event \in AuditEvent
    BY <2>1, ElementOfSeq
  <2> QED
    BY <1>1, <2>2 DEF SubmitInv, TypeOK, RoundKnown, KnowsRound
<1>3. /\ audit_events' \in Seq(AuditEvent)
      /\ \A k \in DOMAIN audit_events :
             k \in DOMAIN audit_events' /\ audit_events'[k] = audit_events[k]
      /\ \E k \in DOMAIN audit_events' : audit_events'[k] = event
  <2> HIDE DEF event
  <2>1. audit_events \in Seq(AuditEvent)
    BY DEF SubmitInv, TypeOK
  <2> QED
    BY <1>1, <1>2, <2>1, AppendOne
<1> HIDE DEF event
<1>4. /\ local'[r] \in RoundLocals
      /\ local'[r].event = event
      /\ local'[r].consensus_reached = local[r].consensus_reached
      /\ local'[r].results = local[r].results
      /\ local'[r].faulty = local[r].faulty
      /\ \A q \in Request : q # r => local'[q] = local[q] /\ pc'[q] = pc[q]
      /\ pc'[r] = "FINALIZED"
  BY <1>1, <1>2 DEF SubmitInv, TypeOK, RoundLocals
<1>5. TypeOK'
  <2>1. local' \in [Request -> RoundLocals \cup {None}]
    BY <1>1, <1>4 DEF SubmitInv, TypeOK
  <2> QED
    BY <1>1, <1>3, <2>1 DEF SubmitInv, TypeOK, PersistEvent, history, Work, TxState
<1>6. LoopIsHeld'
  BY <1>1, <1>4 DEF SubmitInv, TypeOK, LoopIsHeld, Work
<1>7. RecordSaved'
  <2>1. /\ "audit" \in Underway /\ LastSaved("audit") = "CONSENSUS_PENDING"
        /\ "FINALIZED" \in Underway /\ LastSaved("FINALIZED") = "CONSENSUS_PENDING"
    BY DEF Underway, Work, TxState, LastSaved
  <2>2. ASSUME NEW q \in Request
        PROVE  /\ pc'[q] = pc[q] \/ (q = r /\ pc'[r] = "FINALIZED" /\ pc[r] = "audit")
               /\ _tx_store'[q] = _tx_store[q] /\ transactions'[q] = transactions[q]
    BY <1>1, <1>4
  <2> QED
    BY <2>1, <2>2 DEF SubmitInv, RecordSaved
<1>8. RoundKnown'
  <2> SUFFICES ASSUME NEW q \in Request PROVE KnowsRound(q)'
    BY DEF RoundKnown
  <2>1. CASE q = r
    <3>1. KnowsRound(r) /\ pc[r] = "audit"
      BY <1>1 DEF SubmitInv, RoundKnown
    <3> QED
      BY <2>1, <3>1, <1>1, <1>2, <1>3, <1>4, NoneIsNoRecord
         DEF KnowsRound, PastAudit, PastFinalized
  <2>2. CASE q # r
    <3>1. pc[q] \notin Work
      BY <1>1, <2>2 DEF SubmitInv, LoopIsHeld, Work
    <3>2. pc'[q] \notin PastAudit \cup {"audit"} /\ pc'[q] \notin PastFinalized
      BY <1>4, <2>2, <3>1 DEF PastAudit, PastFinalized, Work, TxState
    <3> QED
      BY <3>2 DEF KnowsRound
  <2> QED
    BY <2>1, <2>2
<1>9. LedgerAgrees' /\ LedgerIsUnique'
  BY <1>1, <1>3, <1>4, LedgerKept DEF Recorded, Over
<1>10. BilledIsCharged'
  BY <1>1, <1>4 DEF SubmitInv, BilledIsCharged, Charged
<1>11. AnsweredForItsOwnRound'
  BY <1>1, <1>3 DEF SubmitInv, AnsweredForItsOwnRound, Reached
<1> QED
  BY <1>5, <1>6, <1>7, <1>8, <1>9, <1>10, <1>11 DEF SubmitInv

LEMMA BroadcastReturnsKeeps ==
    ASSUME SubmitInv, NEW r \in Request, BroadcastReturns(r)
    PROVE  SubmitInv'
<1>1. PICK res \in Results :
         LET cr    == run_consensus(res, Node)
             event == [round_id |-> Len(_events) + 1,
                       votes |-> Cardinality(DOMAIN res),
                       faulty |-> Cardinality(cr.faulty_nodes),
                       consensus_reached |-> cr.consensus_reached]
         IN  /\ _events' = Append(_events, event)
             /\ round' = [round EXCEPT ![r] = event]
             /\ local' = [local EXCEPT ![r] =
                   [results |-> Cardinality(DOMAIN res),
                    faulty |-> Cardinality(cr.faulty_nodes),
                    consensus_reached |-> cr.consensus_reached,
                    event |-> None]]
  BY DEF BroadcastReturns
<1> DEFINE cr      == run_consensus(res, Node)
           votes   == Cardinality(DOMAIN res)
           faulty  == Cardinality(cr.faulty_nodes)
           reached == cr.consensus_reached
           event   == [round_id |-> Len(_events) + 1, votes |-> votes,
                       faulty |-> faulty, consensus_reached |-> reached]
           known   == [results |-> votes, faulty |-> faulty,
                       consensus_reached |-> reached, event |-> None]
<1>2. votes \in Nat /\ faulty \in Nat /\ reached \in BOOLEAN
  <2>1. cr \in ConsensusResults
    BY RunConsensusType
  <2>2. DOMAIN res \in SUBSET Node /\ cr.faulty_nodes \in SUBSET Node /\ reached \in BOOLEAN
    BY <2>1 DEF Results, ConsensusResults
  <2>3. \A T \in SUBSET Node : Cardinality(T) \in Nat
    BY NodeFinite, FS_Subset, FS_CardinalityType
  <2> QED
    BY <2>2, <2>3
<1>3. /\ _events' = Append(_events, event)
      /\ round' = [round EXCEPT ![r] = event]
      /\ local' = [local EXCEPT ![r] = known]
  BY <1>1
<1> HIDE DEF cr, votes, faulty, reached
<1>4. /\ event \in AuditEvent
      /\ known.consensus_reached = event.consensus_reached
      /\ known.results = event.votes
      /\ known.faulty = event.faulty
      /\ known \in RoundLocals
  <2>1. Len(_events) \in Nat
    BY LenProperties DEF SubmitInv, TypeOK
  <2> QED
    BY <1>2, <2>1 DEF AuditEvent, RoundLocals
<1> HIDE DEF event, known
<1>5. /\ _events' \in Seq(AuditEvent)
      /\ Len(_events') > 0
      /\ _events'[Len(_events')] = event
  <2>1. _events \in Seq(AuditEvent)
    BY DEF SubmitInv, TypeOK
  <2> QED
    BY <1>3, <1>4, <2>1, AppendOne
<1>6. /\ local'[r] = known
      /\ round'[r] = event
      /\ pc'[r] = "audit"
      /\ pc[r] = "broadcast"
      /\ \A q \in Request : q # r => /\ local'[q] = local[q]
                                     /\ round'[q] = round[q]
                                     /\ pc'[q] = pc[q]
                                     /\ pc[q] \notin Work
      /\ running' = r
      /\ UNCHANGED <<_tx_store, transactions, audit_events, billing_ledger, response>>
  <2>1. \A q \in Request : pc[q] \notin Work
    BY SubmitConstants DEF SubmitInv, LoopIsHeld, BroadcastReturns
  <2> QED
    BY <1>3, <2>1 DEF SubmitInv, TypeOK, BroadcastReturns, database, history
<1>7. TypeOK'
  BY <1>3, <1>4, <1>5 DEF SubmitInv, TypeOK, BroadcastReturns, database, history, Work
<1>8. LoopIsHeld'
  BY <1>6 DEF SubmitInv, LoopIsHeld
<1>9. RecordSaved'
  BY <1>6 DEF SubmitInv, RecordSaved, Underway, Work, LastSaved
<1>10. RoundKnown'
  <2> SUFFICES ASSUME NEW q \in Request PROVE KnowsRound(q)'
    BY DEF RoundKnown
  <2>1. CASE q = r
    BY <2>1, <1>4, <1>5, <1>6, NoneIsNoRecord DEF KnowsRound, PastAudit, PastFinalized
  <2>2. CASE q # r
    BY <2>2, <1>6 DEF KnowsRound, PastAudit, PastFinalized, Work, TxState
  <2> QED
    BY <2>1, <2>2
<1>11. LedgerAgrees' /\ LedgerIsUnique'
  <2>1. \A q \in Request : pc[q] \in Recorded => q # r
    BY <1>6 DEF Recorded, Over
  <2>2. \A q \in Request : pc[q] \in Recorded =>
           pc'[q] \in Recorded /\ round'[q] = round[q]
    BY <1>6, <2>1
  <2> QED
    BY <1>6, <2>2, LedgerKept
<1>12. BilledIsCharged'
  BY <1>6 DEF SubmitInv, BilledIsCharged, Charged
<1>13. AnsweredForItsOwnRound'
  <2>1. response[r] = None
    BY <1>6 DEF SubmitInv, LoopIsHeld
  <2> QED
    BY <1>6, <2>1 DEF SubmitInv, AnsweredForItsOwnRound, Reached
<1> QED
  BY <1>7, <1>8, <1>9, <1>10, <1>11, <1>12, <1>13 DEF SubmitInv

LEMMA ChargeLedgerKeeps ==
    ASSUME SubmitInv, NEW r \in Request, ChargeLedger(r)
    PROVE  SubmitInv'
<1> DEFINE entry == [tx_id |-> r, node_round_count |-> _tx_store[r].node_count,
                     consensus_reached |-> _tx_store[r].consensus_reached]
           last  == Len(billing_ledger) + 1
<1>1. /\ pc[r] = "ledger"
      /\ pc' = [pc EXCEPT ![r] = "BILLED"]
      /\ pc'[r] = "BILLED"
      /\ \A q \in Request : q # r => pc'[q] = pc[q]
      /\ billing_ledger' = Append(billing_ledger, entry)
      /\ UNCHANGED <<running, local, _tx_store, _events, transactions, audit_events,
                     response, round>>
  BY Steps DEF ChargeLedger, history, SubmitInv, TypeOK
<1>2. /\ _tx_store[r] = transactions[r]
      /\ transactions[r] # None
      /\ transactions[r] \in TransactionRecord
      /\ transactions[r].state = "FINALIZED"
  BY <1>1 DEF SubmitInv, TypeOK, RecordSaved, Underway, Work, LastSaved
<1>3. entry \in LedgerEntry
  BY <1>2 DEF LedgerEntry, TransactionRecord
<1>4. /\ \E k \in DOMAIN audit_events : audit_events[k] = round[r]
      /\ transactions[r].consensus_reached = round[r].consensus_reached
      /\ transactions[r].node_count = round[r].votes + round[r].faulty
  <2>1. KnowsRound(r) /\ pc[r] = "ledger"
    BY <1>1 DEF SubmitInv, RoundKnown
  <2> QED
    BY <2>1 DEF KnowsRound, PastAudit, PastFinalized
<1>5. /\ entry.tx_id = r
      /\ entry.node_round_count = transactions[r].node_count
      /\ entry.consensus_reached = transactions[r].consensus_reached
  BY <1>2
<1> HIDE DEF entry
<1>6. /\ billing_ledger' \in Seq(LedgerEntry)
      /\ last \in DOMAIN billing_ledger'
      /\ billing_ledger'[last] = entry
      /\ \A i \in DOMAIN billing_ledger :
             i \in DOMAIN billing_ledger' /\ billing_ledger'[i] = billing_ledger[i]
      /\ \A i \in DOMAIN billing_ledger' : i \in DOMAIN billing_ledger \/ i = last
  <2>1. billing_ledger \in Seq(LedgerEntry)
    BY DEF SubmitInv, TypeOK
  <2> QED
    BY <1>1, <1>3, <2>1, AppendOne
<1> HIDE DEF last
<1>7. \A i \in DOMAIN billing_ledger : billing_ledger[i].tx_id \in Request \ {r}
  <2>1. \A i \in DOMAIN billing_ledger : billing_ledger[i].tx_id \in Request
    BY LedgerTypes DEF SubmitInv
  <2> QED
    BY <1>1, <2>1 DEF SubmitInv, LedgerAgrees, EntryAgrees, Over
<1>8. TypeOK'
  <2>1. _sla' \in [total : Nat, faults : Nat]
    BY DEF SubmitInv, TypeOK, ChargeLedger, history
  <2>2. pc' \in [Request -> Work \cup {"new", "broadcast", "answered", "lost"}]
    BY <1>1 DEF SubmitInv, TypeOK, Work, TxState
  <2> QED
    BY <1>1, <1>6, <2>1, <2>2 DEF SubmitInv, TypeOK, ChargeLedger, history
<1>9. LoopIsHeld'
  BY <1>1 DEF SubmitInv, LoopIsHeld, Work
<1>10. RecordSaved'
  BY <1>1, <1>2 DEF SubmitInv, RecordSaved, Underway, Work, TxState, LastSaved
<1>11. RoundKnown'
  BY <1>1 DEF SubmitInv, RoundKnown, KnowsRound, PastAudit, PastFinalized
<1>12. LedgerAgrees'
  <2> SUFFICES ASSUME NEW i \in DOMAIN billing_ledger'
               PROVE  EntryAgrees(billing_ledger[i])'
    BY DEF LedgerAgrees
  <2>1. CASE i = last
    <3>1. billing_ledger'[i] = entry
      BY <2>1, <1>6
    <3> QED
      BY <3>1, <1>1, <1>2, <1>4, <1>5 DEF EntryAgrees
  <2>2. CASE i \in DOMAIN billing_ledger
    <3>1. /\ billing_ledger'[i] = billing_ledger[i]
          /\ billing_ledger[i].tx_id \in Request \ {r}
          /\ EntryAgrees(billing_ledger[i])
      BY <2>2, <1>6, <1>7 DEF SubmitInv, LedgerAgrees
    <3> QED
      BY <3>1, <1>1 DEF EntryAgrees
  <2> QED
    BY <2>1, <2>2, <1>6
<1>13. LedgerIsUnique'
  BY <1>5, <1>6, <1>7 DEF SubmitInv, LedgerIsUnique
<1>14. BilledIsCharged'
  <2>1. \A q \in Request : Charged(q) => Charged(q)'
    BY <1>6 DEF Charged
  <2>2. Charged(r)'
    BY <1>5, <1>6 DEF Charged
  <2> QED
    BY <2>1, <2>2, <1>1, <1>2 DEF SubmitInv, BilledIsCharged
<1>15. AnsweredForItsOwnRound'
  BY <1>1 DEF SubmitInv, AnsweredForItsOwnRound, Reached
<1> QED
  BY <1>8, <1>9, <1>10, <1>11, <1>12, <1>13, <1>14, <1>15 DEF SubmitInv

\* What saving the next record does to the account of the charges, for the
\* two actions that save one.
LEMMA RecordWritten ==
    ASSUME SubmitInv, NEW r \in Request, pc[r] \in TxState, NEW next,
           transactions' = [transactions EXCEPT ![r] = NextRecord(r)],
           pc' = [pc EXCEPT ![r] = next],
           pc[r] \in {"BILLED", "REPLICATED"} => next \in Recorded,
           next \in {"BILLED", "REPLICATED"} => pc[r] \in {"BILLED", "REPLICATED"},
           UNCHANGED <<audit_events, billing_ledger, round>>
    PROVE  LedgerAgrees' /\ LedgerIsUnique' /\ BilledIsCharged'
<1> DEFINE new == NextRecord(r)
<1>1. /\ new # None
      /\ new.state = pc[r]
      /\ pc[r] = "BILLED" => new.billed_amount = new.node_count
      /\ pc[r] \in {"BILLED", "REPLICATED"} =>
            /\ new.node_count = transactions[r].node_count
            /\ new.consensus_reached = transactions[r].consensus_reached
      /\ pc[r] = "REPLICATED" => new.billed_amount = transactions[r].billed_amount
  BY NextRecordFacts DEF SubmitInv
<1>2. /\ transactions'[r] = new
      /\ pc'[r] = next
      /\ \A q \in Request : q # r => transactions'[q] = transactions[q] /\ pc'[q] = pc[q]
  BY DEF SubmitInv, TypeOK
<1> HIDE DEF new
<1>3. LedgerAgrees'
  <2> SUFFICES ASSUME NEW i \in DOMAIN billing_ledger
               PROVE  EntryAgrees(billing_ledger[i])'
    BY DEF LedgerAgrees
  <2>1. billing_ledger[i].tx_id \in Request /\ EntryAgrees(billing_ledger[i])
    BY LedgerTypes DEF SubmitInv, LedgerAgrees
  <2>2. CASE billing_ledger[i].tx_id = r
    <3>1. pc[r] \in {"BILLED", "REPLICATED"}
      BY <2>1, <2>2 DEF EntryAgrees, Over, TxState
    <3> QED
      BY <2>1, <2>2, <3>1, <1>1, <1>2 DEF EntryAgrees, Recorded
  <2>3. CASE billing_ledger[i].tx_id # r
    BY <2>1, <2>3, <1>2 DEF EntryAgrees
  <2> QED
    BY <2>2, <2>3
<1>4. LedgerIsUnique'
  BY DEF SubmitInv, LedgerIsUnique
<1>5. BilledIsCharged'
  <2> SUFFICES ASSUME NEW q \in Request
               PROVE  /\ pc'[q] \in {"BILLED", "REPLICATED"} => Charged(q)
                      /\ transactions'[q] # None
                         /\ transactions'[q].state \in {"BILLED", "REPLICATED"} =>
                            /\ Charged(q)
                            /\ transactions'[q].billed_amount = transactions'[q].node_count
    BY DEF BilledIsCharged, Charged
  <2>1. CASE q # r
    BY <2>1, <1>2 DEF SubmitInv, BilledIsCharged
  <2>2. CASE q = r
    <3>1. pc[r] \in {"BILLED", "REPLICATED"} => Charged(r)
      BY DEF SubmitInv, BilledIsCharged
    <3>2. pc[r] = "REPLICATED" => transactions[r].billed_amount = transactions[r].node_count
      BY DEF SubmitInv, BilledIsCharged, RecordSaved, Underway, Work, LastSaved
    <3> QED
      BY <2>2, <3>1, <3>2, <1>1, <1>2
  <2> QED
    BY <2>1, <2>2
<1> QED
  BY <1>3, <1>4, <1>5

LEMMA SaveRecordKeeps ==
    ASSUME SubmitInv, NEW r \in Request, SaveRecord(r)
    PROVE  SubmitInv'
<1> DEFINE next == After(pc[r])
<1>1. /\ pc[r] \in TxState \ {"REPLICATED"}
      /\ running = r
      /\ running' = IF pc[r] = "CONSENSUS_PENDING" THEN None ELSE r
      /\ pc' = [pc EXCEPT ![r] = next]
      /\ transactions' = [transactions EXCEPT ![r] = NextRecord(r)]
      /\ _tx_store' = [_tx_store EXCEPT ![r] = NextRecord(r)]
      /\ UNCHANGED <<local, _events, audit_events, billing_ledger, response, round>>
  BY DEF SaveRecord, history
<1>2. /\ NextRecord(r) \in TransactionRecord
      /\ NextRecord(r) # None
      /\ NextRecord(r).state = pc[r]
      /\ pc[r] = "FINALIZED" =>
            /\ NextRecord(r).consensus_reached = local[r].consensus_reached
            /\ NextRecord(r).node_count = local[r].results + local[r].faulty
      /\ pc[r] = "BILLED" =>
            /\ NextRecord(r).consensus_reached = transactions[r].consensus_reached
            /\ NextRecord(r).node_count = transactions[r].node_count
  BY <1>1, NextRecordFacts DEF SubmitInv
<1>3. /\ next \in Underway
      /\ LastSaved(next) = pc[r]
      /\ next \in Work <=> pc[r] # "CONSENSUS_PENDING"
      /\ next \in PastFinalized <=> pc[r] \in {"FINALIZED", "BILLED"}
      /\ next \in PastAudit <=> pc[r] \in {"FINALIZED", "BILLED"}
      /\ next \in {"BILLED", "REPLICATED"} <=> pc[r] = "BILLED"
      /\ next \notin {"new", "INITIATED", "audit"}
  BY <1>1, Steps
<1> HIDE DEF next
<1>4. /\ transactions'[r] = NextRecord(r)
      /\ _tx_store'[r] = NextRecord(r)
      /\ pc'[r] = next
      /\ \A q \in Request : q # r => /\ transactions'[q] = transactions[q]
                                     /\ _tx_store'[q] = _tx_store[q]
                                     /\ pc'[q] = pc[q]
                                     /\ pc[q] \notin Work
  <2>1. \A q \in Request : q # r => pc[q] \notin Work
    BY <1>1 DEF SubmitInv, LoopIsHeld
  <2> QED
    BY <1>1, <2>1 DEF SubmitInv, TypeOK
<1>5. TypeOK'
  BY <1>1, <1>2, <1>3 DEF SubmitInv, TypeOK, SaveRecord, history, Underway
<1>6. LoopIsHeld'
  BY <1>1, <1>3, <1>4 DEF SubmitInv, LoopIsHeld, Work, TxState
<1>7. RecordSaved'
  BY <1>2, <1>3, <1>4 DEF SubmitInv, RecordSaved
<1>8. RoundKnown'
  <2> SUFFICES ASSUME NEW q \in Request PROVE KnowsRound(q)'
    BY DEF RoundKnown
  <2>0. KnowsRound(q)
    BY DEF SubmitInv, RoundKnown
  <2>1. CASE q # r
    <3>1. pc'[q] = pc[q] /\ transactions'[q] = transactions[q]
      BY <2>1, <1>4
    <3> QED
      BY <2>0, <3>1, <1>1 DEF KnowsRound
  <2>2. CASE q = r
    <3>1. pc[r] \in {"FINALIZED", "BILLED"} => pc[r] \in PastAudit
      BY DEF PastAudit, PastFinalized
    <3>2. pc[r] = "BILLED" => pc[r] \in PastFinalized
      BY DEF PastFinalized
    <3> QED
      BY <2>0, <2>2, <3>1, <3>2, <1>1, <1>2, <1>3, <1>4 DEF KnowsRound
  <2> QED
    BY <2>1, <2>2
<1>9. LedgerAgrees' /\ LedgerIsUnique' /\ BilledIsCharged'
  BY <1>1, <1>3, RecordWritten DEF Recorded
<1>10. AnsweredForItsOwnRound'
  <2>1. response[r] = None
    BY <1>1 DEF SubmitInv, LoopIsHeld, TxState
  <2> QED
    BY <2>1, <1>1, <1>4 DEF SubmitInv, AnsweredForItsOwnRound, Reached
<1> QED
  BY <1>5, <1>6, <1>7, <1>8, <1>9, <1>10 DEF SubmitInv

LEMMA ReplicateKeeps ==
    ASSUME SubmitInv, NEW r \in Request, Replicate(r)
    PROVE  SubmitInv'
<1> DEFINE event == local[r].event
           ok    == [status |-> 200, event |-> event]
<1>1. /\ pc[r] = "REPLICATED"
      /\ running = r
      /\ running' = None
      /\ pc' = [pc EXCEPT ![r] = "answered"]
      /\ transactions' = [transactions EXCEPT ![r] = NextRecord(r)]
      /\ _tx_store' = [_tx_store EXCEPT ![r] = NextRecord(r)]
      /\ response' = [response EXCEPT ![r] = ok]
      /\ UNCHANGED <<local, _events, audit_events, billing_ledger, round>>
  BY DEF Replicate
<1>2. /\ NextRecord(r) \in TransactionRecord
      /\ NextRecord(r) # None
      /\ NextRecord(r).state = "REPLICATED"
  BY <1>1, NextRecordFacts DEF SubmitInv, TxState
<1>3. /\ event # None
      /\ event \in AuditEvent
      /\ event = round[r]
      /\ \E k \in DOMAIN audit_events : audit_events[k] = event
  BY <1>1
     DEF SubmitInv, TypeOK, RoundKnown, KnowsRound, PastAudit, PastFinalized, RoundLocals
<1> HIDE DEF event
<1>4. ok \in Answer /\ ok.event = event
  BY <1>3 DEF Answer
<1> HIDE DEF ok
<1>5. /\ transactions'[r] = NextRecord(r)
      /\ response'[r] = ok
      /\ pc'[r] = "answered"
      /\ \A q \in Request : q # r => /\ transactions'[q] = transactions[q]
                                     /\ _tx_store'[q] = _tx_store[q]
                                     /\ response'[q] = response[q]
                                     /\ pc'[q] = pc[q]
                                     /\ pc[q] \notin Work
  <2>1. \A q \in Request : q # r => pc[q] \notin Work
    BY <1>1 DEF SubmitInv, LoopIsHeld
  <2> QED
    BY <1>1, <2>1 DEF SubmitInv, TypeOK
<1>6. TypeOK'
  <2>1. _event_bus' \in [transactions : Seq(AuditEvent), faults : Seq(AuditEvent),
                         webhooks : SUBSET AuditEvent]
    <3> DEFINE bus == _event_bus
    <3>1. /\ bus.transactions \in Seq(AuditEvent)
          /\ bus.faults \in Seq(AuditEvent)
          /\ bus.webhooks \in SUBSET AuditEvent
      BY DEF SubmitInv, TypeOK
    <3>2. _event_bus' = [transactions |-> Append(bus.transactions, event),
                         faults |-> IF event.faulty > 0 THEN Append(bus.faults, event)
                                                        ELSE bus.faults,
                         webhooks |-> bus.webhooks \cup {event}]
      BY DEF Replicate, event
    <3> HIDE DEF bus
    <3> QED
      BY <1>3, <3>1, <3>2, AppendOne
  <2>2. /\ pc' \in [Request -> Work \cup {"new", "broadcast", "answered", "lost"}]
        /\ transactions' \in [Request -> TransactionRecord \cup {None}]
        /\ _tx_store' \in [Request -> TransactionRecord \cup {None}]
        /\ response' \in [Request -> Answer \cup {None}]
    BY <1>1, <1>2, <1>4 DEF SubmitInv, TypeOK
  <2>3. UNCHANGED <<local, _events, _sla, audit_events, billing_usage, billing_ledger,
                    round, failures, crashes>>
    BY DEF Replicate
  <2> QED
    BY <1>1, <2>1, <2>2, <2>3 DEF SubmitInv, TypeOK
<1>7. LoopIsHeld'
  BY <1>1, <1>5 DEF SubmitInv, LoopIsHeld, Work, TxState
<1>8. RecordSaved'
  BY <1>5 DEF SubmitInv, RecordSaved, Underway, Work, TxState
<1>9. RoundKnown'
  BY <1>1, <1>5 DEF SubmitInv, RoundKnown, KnowsRound, PastAudit, PastFinalized
<1>10. LedgerAgrees' /\ LedgerIsUnique' /\ BilledIsCharged'
  BY <1>1, RecordWritten DEF Recorded, Over, TxState
<1>11. AnsweredForItsOwnRound'
  <2> SUFFICES ASSUME NEW q \in Request, response'[q] # None, response'[q].status = 200
               PROVE  /\ response'[q].event = round'[q]
                      /\ \E k \in DOMAIN audit_events : audit_events[k] = response'[q].event
                      /\ transactions'[q] # None
                      /\ Rank[transactions'[q].state] >= Rank["REPLICATED"]
    BY <1>1 DEF AnsweredForItsOwnRound, Reached
  <2>1. CASE q = r
    <3>1. Rank["REPLICATED"] >= Rank["REPLICATED"]
      BY DEF Rank
    <3> QED
      BY <2>1, <3>1, <1>1, <1>2, <1>3, <1>4, <1>5
  <2>2. CASE q # r
    BY <2>2, <1>1, <1>5 DEF SubmitInv, AnsweredForItsOwnRound, Reached
  <2> QED
    BY <2>1, <2>2
<1> QED
  BY <1>6, <1>7, <1>8, <1>9, <1>10, <1>11 DEF SubmitInv

-----------------------------------------------------------------------------
(* Theorems                                                                *)

\* Every step keeps the invariant.
LEMMA StepInv == SubmitInv /\ [Next]_vars => SubmitInv'
<1> SUFFICES ASSUME SubmitInv, [Next]_vars PROVE SubmitInv'
  OBVIOUS
<1>1. CASE UNCHANGED vars
  BY <1>1
     DEF vars, memory, database, history, SubmitInv, TypeOK, LoopIsHeld, RecordSaved, RoundKnown,
              KnowsRound, LedgerAgrees, EntryAgrees, LedgerIsUnique, BilledIsCharged, Charged,
              AnsweredForItsOwnRound, Reached
<1>2. CASE Crash
  BY <1>2, CrashKeeps
<1>3. ASSUME NEW r \in Request, Submit(r) PROVE SubmitInv'
  BY <1>3, SubmitKeeps
<1>4. ASSUME NEW r \in Request, WriteFails(r) PROVE SubmitInv'
  BY <1>4, WriteFailsKeeps
<1>5. ASSUME NEW r \in Request, LoadRecord(r) PROVE SubmitInv'
  BY <1>5, LoadRecordKeeps
<1>6. ASSUME NEW r \in Request, SaveRecord(r) PROVE SubmitInv'
  BY <1>6, SaveRecordKeeps
<1>7. ASSUME NEW r \in Request, BroadcastRaises(r) PROVE SubmitInv'
  BY <1>7, BroadcastRaisesKeeps
<1>8. ASSUME NEW r \in Request, BroadcastReturns(r) PROVE SubmitInv'
  BY <1>8, BroadcastReturnsKeeps
<1>9. ASSUME NEW r \in Request, PersistEvent(r) PROVE SubmitInv'
  BY <1>9, PersistEventKeeps
<1>10. ASSUME NEW r \in Request, CountUsage(r) PROVE SubmitInv'
  BY <1>10, CountUsageKeeps
<1>11. ASSUME NEW r \in Request, ChargeLedger(r) PROVE SubmitInv'
  BY <1>11, ChargeLedgerKeeps
<1>12. ASSUME NEW r \in Request, Replicate(r) PROVE SubmitInv'
  BY <1>12, ReplicateKeeps
<1> QED
  BY <1>1, <1>2, <1>3, <1>4, <1>5, <1>6, <1>7, <1>8, <1>9, <1>10, <1>11, <1>12
     DEF Next, Handle

\* The invariant always holds.
LEMMA SpecInv == Spec => []SubmitInv
BY InitInv, StepInv, PTL DEF Spec

\* submit_transaction, its stores and its restart keep every variable in its
\* range, for every number of requests, failing writes and crashes.
THEOREM SpecTypeOK == Spec => []TypeOK
<1>1. SubmitInv => TypeOK
  BY DEF SubmitInv
<1> QED
  BY <1>1, SpecInv, PTL

\* What is behind Reached, for a record in the store.
LEMMA ReachedStates ==
    ASSUME TypeOK, NEW r \in Request
    PROVE  /\ Reached(r, "FINALIZED") <=>
                 transactions[r] # None
                 /\ transactions[r].state \in {"FINALIZED", "BILLED", "REPLICATED"}
           /\ Reached(r, "BILLED") <=>
                 transactions[r] # None /\ transactions[r].state \in {"BILLED", "REPLICATED"}
<1>1. transactions[r] # None => transactions[r].state \in TxState
  BY DEF TypeOK, TransactionRecord
<1> QED
  BY <1>1, Ranks DEF Reached

\* record_round and the BILLED save behind it: no transaction is charged
\* twice, and none is BILLED that was not charged what its record says.
THEOREM SpecChargedExactlyOnce == Spec => []ChargedExactlyOnce
<1>1. SubmitInv => ChargedExactlyOnce
  <2> SUFFICES ASSUME SubmitInv PROVE ChargedExactlyOnce
    OBVIOUS
  <2>1. ASSUME NEW r \in Request, Reached(r, "BILLED")
        PROVE  \E i \in DOMAIN billing_ledger :
                  /\ billing_ledger[i].tx_id = r
                  /\ billing_ledger[i].node_round_count = transactions[r].billed_amount
                  /\ billing_ledger[i].consensus_reached = transactions[r].consensus_reached
    <3>1. Charged(r) /\ transactions[r].billed_amount = transactions[r].node_count
      BY <2>1, ReachedStates DEF SubmitInv, BilledIsCharged
    <3>2. PICK i \in DOMAIN billing_ledger : billing_ledger[i].tx_id = r
      BY <3>1 DEF Charged
    <3>3. /\ transactions[r].node_count = billing_ledger[i].node_round_count
          /\ transactions[r].consensus_reached = billing_ledger[i].consensus_reached
      BY <3>2 DEF SubmitInv, LedgerAgrees, EntryAgrees
    <3> QED
      BY <3>1, <3>2, <3>3
  <2> QED
    BY <2>1 DEF ChargedExactlyOnce, SubmitInv, LedgerIsUnique
<1> QED
  BY <1>1, SpecInv, PTL

\* The order of the writes of submit_transaction: for every charge the
\* database holds a record at least FINALIZED and the event of that round,
\* and ledger, record and event agree on the verdict and the nodes charged.
THEOREM SpecChargeIsEvidenced == Spec => []ChargeIsEvidenced
<1>1. SubmitInv => ChargeIsEvidenced
  BY LedgerTypes, ReachedStates
     DEF SubmitInv, LedgerAgrees, EntryAgrees, ChargeIsEvidenced
<1> QED
  BY <1>1, SpecInv, PTL

\* latest_audit_event, read after the broadcast: the caller is told about
\* its own round, however many others completed in the meantime.
THEOREM SpecAnsweredForItsOwnRound == Spec => []AnsweredForItsOwnRound
<1>1. SubmitInv => AnsweredForItsOwnRound
  BY DEF SubmitInv
<1> QED
  BY <1>1, SpecInv, PTL

-----------------------------------------------------------------------------
(* The usage counter and the ledger                                        *)

\* Of two accounts of the same rounds, the usage counter is ahead by the
\* round being recorded and by at most one round per failed write or crash.
RecordingNow == IF \E r \in Request : pc[r] = "ledger" THEN 1 ELSE 0
UsageCounted ==
    billing_usage - Len(billing_ledger) - RecordingNow \in 0 .. failures + crashes

\* At most the handler that holds the event loop is recording its round.
LEMMA RecordingCount ==
    ASSUME SubmitInv
    PROVE  Cardinality({r \in Request : pc[r] = "ledger"}) = RecordingNow
<1> DEFINE R == {r \in Request : pc[r] = "ledger"}
<1>1. CASE \E r \in Request : pc[r] = "ledger"
  <2>1. PICK r \in Request : pc[r] = "ledger"
    BY <1>1
  <2>2. R = {r}
    BY <2>1 DEF SubmitInv, LoopIsHeld, Work
  <2>3. Cardinality({r}) = 1
    BY FS_Singleton
  <2> QED
    BY <1>1, <2>2, <2>3 DEF RecordingNow
<1>2. CASE ~ \E r \in Request : pc[r] = "ledger"
  <2>1. R = {}
    BY <1>2
  <2> QED
    BY <1>2, <2>1, FS_EmptySet DEF RecordingNow
<1> QED
  BY <1>1, <1>2

\* The counts are numbers.
LEMMA AccountTypes ==
    ASSUME SubmitInv
    PROVE  /\ billing_usage \in Nat /\ Len(billing_ledger) \in Nat
           /\ failures \in Nat /\ crashes \in Nat
           /\ RecordingNow \in 0 .. 1
           /\ \A r \in Request : pc[r] = "ledger" => running = r /\ RecordingNow = 1
           /\ running = None => RecordingNow = 0
<1>1. /\ billing_usage \in Nat /\ billing_ledger \in Seq(LedgerEntry)
      /\ failures \in Nat /\ crashes \in Nat
  BY SubmitConstants DEF SubmitInv, TypeOK
<1>2. Len(billing_ledger) \in Nat
  BY <1>1, LenProperties
<1>3. \A r \in Request : pc[r] = "ledger" => running = r
  BY DEF SubmitInv, LoopIsHeld, Work
<1> QED
  BY <1>1, <1>2, <1>3, SubmitConstants DEF RecordingNow

\* What a step has to do to keep the two accounts together.
LEMMA UsageStep == SubmitInv /\ SubmitInv' /\ UsageCounted /\ [Next]_vars => UsageCounted'
<1> SUFFICES ASSUME SubmitInv, SubmitInv', UsageCounted, [Next]_vars PROVE UsageCounted'
  OBVIOUS
<1>0. /\ billing_usage \in Nat /\ Len(billing_ledger) \in Nat
      /\ failures \in Nat /\ crashes \in Nat
      /\ RecordingNow \in 0 .. 1 /\ RecordingNow' \in 0 .. 1
      /\ \A r \in Request : pc[r] = "ledger" => running = r /\ RecordingNow = 1
      /\ \A r \in Request : pc'[r] = "ledger" => running' = r /\ RecordingNow' = 1
      /\ running = None => RecordingNow = 0
      /\ running' = None => RecordingNow' = 0
  <2>1. ASSUME SubmitInv'
        PROVE  /\ RecordingNow' \in 0 .. 1
               /\ \A r \in Request : pc'[r] = "ledger" => running' = r /\ RecordingNow' = 1
               /\ running' = None => RecordingNow' = 0
    BY SubmitConstants DEF SubmitInv, LoopIsHeld, Work, RecordingNow
  <2> QED
    BY <2>1, AccountTypes
<1>1. ASSUME UNCHANGED <<billing_usage, billing_ledger, failures, crashes>>,
             RecordingNow' = RecordingNow
      PROVE  UsageCounted'
  BY <1>1 DEF UsageCounted
<1>2. ASSUME NEW r \in Request, NEW step, pc' = [pc EXCEPT ![r] = step],
             pc[r] # "ledger", step # "ledger"
      PROVE  RecordingNow' = RecordingNow
  BY <1>2 DEF RecordingNow, SubmitInv, TypeOK
<1>3. CASE UNCHANGED vars
  BY <1>3, <1>1 DEF vars, memory, database, history, RecordingNow
<1>4. CASE Crash
  <2>1. /\ RecordingNow' = 0 /\ crashes' = crashes + 1
        /\ UNCHANGED <<billing_usage, billing_ledger, failures>>
    BY <1>4, <1>0 DEF Crash, database, history
  <2> QED
    BY <1>0, <2>1 DEF UsageCounted
<1>5. ASSUME NEW r \in Request, Submit(r) PROVE UsageCounted'
  <2>1. RecordingNow' = RecordingNow
    BY <1>5, <1>2 DEF Submit
  <2> QED
    BY <1>1, <1>5, <2>1 DEF Submit, database, history
<1>6. ASSUME NEW r \in Request, WriteFails(r) PROVE UsageCounted'
  <2>1. /\ RecordingNow' = 0 /\ failures' = failures + 1
        /\ UNCHANGED <<billing_usage, billing_ledger, crashes>>
    BY <1>6, <1>0 DEF WriteFails, database, history
  <2> QED
    BY <1>0, <2>1 DEF UsageCounted
<1>7. ASSUME NEW r \in Request, LoadRecord(r) PROVE UsageCounted'
  <2>1. RecordingNow' = RecordingNow
    BY <1>7 DEF LoadRecord, RecordingNow
  <2> QED
    BY <1>1, <1>7, <2>1 DEF LoadRecord, database, history
<1>8. ASSUME NEW r \in Request, SaveRecord(r) PROVE UsageCounted'
  <2>1. pc[r] # "ledger" /\ After(pc[r]) # "ledger"
    BY <1>8 DEF SaveRecord, history, TxState, After
  <2>2. RecordingNow' = RecordingNow
    BY <1>8, <1>2, <2>1 DEF SaveRecord, history
  <2> QED
    BY <1>1, <1>8, <2>2 DEF SaveRecord, history
<1>9. ASSUME NEW r \in Request, BroadcastRaises(r) PROVE UsageCounted'
  <2>1. RecordingNow' = RecordingNow
    BY <1>9, <1>2 DEF BroadcastRaises
  <2> QED
    BY <1>1, <1>9, <2>1 DEF BroadcastRaises, database, history
<1>10. ASSUME NEW r \in Request, BroadcastReturns(r) PROVE UsageCounted'
  <2>1. RecordingNow' = RecordingNow
    BY <1>10, <1>2 DEF BroadcastReturns
  <2> QED
    BY <1>1, <1>10, <2>1 DEF BroadcastReturns, database, history
<1>11. ASSUME NEW r \in Request, PersistEvent(r) PROVE UsageCounted'
  <2>1. RecordingNow' = RecordingNow
    BY <1>11, <1>2, Steps DEF PersistEvent, history
  <2> QED
    BY <1>1, <1>11, <2>1 DEF PersistEvent, history
<1>12. ASSUME NEW r \in Request, CountUsage(r) PROVE UsageCounted'
  <2>1. RecordingNow = 0
    BY <1>12, <1>0 DEF CountUsage, history, RecordingNow
  <2>2. pc'[r] = "ledger"
    BY <1>12, Steps DEF CountUsage, history, SubmitInv, TypeOK
  <2>3. /\ RecordingNow' = 1 /\ billing_usage' = billing_usage + 1
        /\ UNCHANGED <<billing_ledger, failures, crashes>>
    BY <1>12, <1>0, <2>2 DEF CountUsage, history
  <2> QED
    BY <1>0, <2>1, <2>3 DEF UsageCounted
<1>13. ASSUME NEW r \in Request, ChargeLedger(r) PROVE UsageCounted'
  <2>1. RecordingNow = 1
    BY <1>13, <1>0 DEF ChargeLedger, history
  <2>2. RecordingNow' = 0
    <3>1. pc'[r] = "BILLED" /\ running' = r
      BY <1>13, Steps DEF ChargeLedger, history, SubmitInv, TypeOK
    <3> QED
      BY <1>0, <3>1 DEF RecordingNow
  <2>3. Len(billing_ledger') = Len(billing_ledger) + 1
    <3> DEFINE entry == [tx_id |-> r, node_round_count |-> _tx_store[r].node_count,
                         consensus_reached |-> _tx_store[r].consensus_reached]
    <3>1. billing_ledger' = Append(billing_ledger, entry)
      BY <1>13 DEF ChargeLedger, history
    <3>2. billing_ledger \in Seq(LedgerEntry) /\ billing_ledger' \in Seq(LedgerEntry)
      BY DEF SubmitInv, TypeOK
    <3> HIDE DEF entry
    <3>3. billing_ledger \in Seq(LedgerEntry \cup {entry}) /\ entry \in LedgerEntry \cup {entry}
      BY <3>2
    <3> QED
      BY <3>1, <3>3, AppendOne
  <2>4. UNCHANGED <<billing_usage, failures, crashes>>
    BY <1>13 DEF ChargeLedger, history
  <2> QED
    BY <1>0, <2>1, <2>2, <2>3, <2>4 DEF UsageCounted
<1>14. ASSUME NEW r \in Request, Replicate(r) PROVE UsageCounted'
  <2>1. RecordingNow' = RecordingNow
    BY <1>14, <1>2 DEF Replicate
  <2> QED
    BY <1>1, <1>14, <2>1 DEF Replicate
<1> QED
  BY <1>3, <1>4, <1>5, <1>6, <1>7, <1>8, <1>9, <1>10, <1>11, <1>12, <1>13, <1>14
     DEF Next, Handle

\* record_round, its two writes and what can come between them: the usage
\* counter never misses a charge, and exceeds the ledger only by the round
\* being recorded and by rounds that a failed write or a crash cut short.
THEOREM SpecUsageCoversLedger == Spec => []UsageCoversLedger
<1>1. Init => UsageCounted
  BY SubmitConstants DEF Init, UsageCounted, RecordingNow
<1>2. SubmitInv /\ UsageCounted => UsageCoversLedger
  BY RecordingCount, AccountTypes DEF UsageCounted, UsageCoversLedger
<1> QED
  BY <1>1, <1>2, UsageStep, SpecInv, PTL DEF Spec

-----------------------------------------------------------------------------
(* The numbers of the rounds                                               *)

\* Without a failing write the log in memory is the audit table, and one
\* event more while that event is being persisted; every event has the
\* number of its place.
PersistingNow == IF \E r \in Request : pc[r] = "audit" THEN 1 ELSE 0
EventsNumbered ==
    failures = 0 =>
        /\ Len(_events) = Len(audit_events) + PersistingNow
        /\ \A k \in DOMAIN audit_events : _events[k] = audit_events[k]
        /\ \A k \in DOMAIN _events : _events[k].round_id = k

\* The steps that leave the log, the audit table and who persists alone.
LEMMA EventsUntouched ==
    ASSUME EventsNumbered, UNCHANGED <<_events, audit_events, failures>>,
           PersistingNow' = PersistingNow
    PROVE  EventsNumbered'
BY DEF EventsNumbered

\* Only the handler that holds the event loop persists an event.
LEMMA OnePersists ==
    ASSUME SubmitInv
    PROVE  /\ running = None => PersistingNow = 0
           /\ \A r \in Request : pc[r] = "audit" => PersistingNow = 1
           /\ \A r \in Request : running = r /\ pc[r] # "audit" => PersistingNow = 0
           /\ \A r \in Request : \A step :
                 pc[r] # "audit" /\ step # "audit" /\ pc' = [pc EXCEPT ![r] = step]
                    => PersistingNow' = PersistingNow
<1>1. \A r \in Request : pc[r] = "audit" => running = r
  BY DEF SubmitInv, LoopIsHeld, Work
<1> QED
  BY <1>1, SubmitConstants DEF PersistingNow, SubmitInv, TypeOK

\* broadcast appends the event to the log, with the next number.
LEMMA RoundReturned ==
    ASSUME NEW r \in Request, BroadcastReturns(r)
    PROVE  /\ \E e : e.round_id = Len(_events) + 1 /\ _events' = Append(_events, e)
           /\ pc[r] = "broadcast" /\ running = None /\ running' = r
           /\ pc' = [pc EXCEPT ![r] = "audit"]
           /\ \E known : local' = [local EXCEPT ![r] = known]
           /\ UNCHANGED <<_event_bus, audit_events, _tx_store, transactions, response, failures>>
<1>1. PICK res \in Results :
         LET cr    == run_consensus(res, Node)
             event == [round_id |-> Len(_events) + 1,
                       votes |-> Cardinality(DOMAIN res),
                       faulty |-> Cardinality(cr.faulty_nodes),
                       consensus_reached |-> cr.consensus_reached]
         IN  /\ _events' = Append(_events, event)
             /\ round' = [round EXCEPT ![r] = event]
             /\ local' = [local EXCEPT ![r] =
                   [results |-> Cardinality(DOMAIN res),
                    faulty |-> Cardinality(cr.faulty_nodes),
                    consensus_reached |-> cr.consensus_reached,
                    event |-> None]]
  BY DEF BroadcastReturns
<1> DEFINE cr    == run_consensus(res, Node)
           event == [round_id |-> Len(_events) + 1,
                     votes |-> Cardinality(DOMAIN res),
                     faulty |-> Cardinality(cr.faulty_nodes),
                     consensus_reached |-> cr.consensus_reached]
<1>2. event.round_id = Len(_events) + 1 /\ _events' = Append(_events, event)
  BY <1>1
<1>3. \E known : local' = [local EXCEPT ![r] = known]
  BY <1>1
<1> HIDE DEF event
<1> QED
  BY <1>2, <1>3 DEF BroadcastReturns, database, history

\* The log and the audit table are sequences of events.
LEMMA EventsTypes ==
    ASSUME SubmitInv
    PROVE  /\ _events \in Seq(AuditEvent) /\ Len(_events) \in Nat
           /\ DOMAIN _events = 1 .. Len(_events)
           /\ audit_events \in Seq(AuditEvent) /\ Len(audit_events) \in Nat
           /\ DOMAIN audit_events = 1 .. Len(audit_events)
           /\ failures \in Nat
BY SubmitConstants, LenProperties DEF SubmitInv, TypeOK

\* Without a failing write the audit table is the beginning of the log.
LEMMA AuditInLog ==
    ASSUME SubmitInv, EventsNumbered, failures = 0
    PROVE  \A k \in DOMAIN audit_events : /\ k \in DOMAIN _events
                                          /\ _events[k] = audit_events[k]
                                          /\ audit_events[k].round_id = k
<1>1. PersistingNow \in Nat /\ Len(_events) = Len(audit_events) + PersistingNow
  BY DEF EventsNumbered, PersistingNow
<1>2. DOMAIN audit_events \subseteq DOMAIN _events
  <2>1. 1 .. Len(audit_events) \subseteq 1 .. Len(_events)
    BY <1>1, EventsTypes
  <2> QED
    BY <2>1, EventsTypes
<1> QED
  BY <1>2 DEF EventsNumbered

\* Every step keeps the events numbered.
LEMMA EventsStep == SubmitInv /\ SubmitInv' /\ EventsNumbered /\ [Next]_vars => EventsNumbered'
<1> SUFFICES ASSUME SubmitInv, SubmitInv', EventsNumbered, [Next]_vars PROVE EventsNumbered'
  OBVIOUS
<1>1. CASE UNCHANGED vars
  BY <1>1, EventsUntouched DEF vars, memory, database, history, PersistingNow
<1>2. CASE Crash
  <2>1. _events' = audit_events /\ UNCHANGED <<audit_events, failures>> /\ PersistingNow' = 0
    BY <1>2 DEF Crash, database, history, PersistingNow
  <2>2. failures = 0 => \A k \in DOMAIN audit_events : audit_events[k].round_id = k
    BY AuditInLog
  <2> QED
    BY <2>1, <2>2, EventsTypes DEF EventsNumbered
<1>3. ASSUME NEW r \in Request, Submit(r) PROVE EventsNumbered'
  BY <1>3, OnePersists, EventsUntouched DEF Submit, database, history
<1>4. ASSUME NEW r \in Request, WriteFails(r) PROVE EventsNumbered'
  <2>1. failures' # 0
    BY <1>4, EventsTypes DEF WriteFails
  <2> QED
    BY <2>1 DEF EventsNumbered
<1>5. ASSUME NEW r \in Request, LoadRecord(r) PROVE EventsNumbered'
  BY <1>5, EventsUntouched DEF LoadRecord, database, history, PersistingNow
<1>6. ASSUME NEW r \in Request, SaveRecord(r) PROVE EventsNumbered'
  <2>1. pc[r] # "audit" /\ After(pc[r]) # "audit"
    BY <1>6, Steps DEF SaveRecord, history, TxState
  <2> QED
    BY <1>6, <2>1, OnePersists, EventsUntouched DEF SaveRecord, history
<1>7. ASSUME NEW r \in Request, BroadcastRaises(r) PROVE EventsNumbered'
  BY <1>7, OnePersists, EventsUntouched DEF BroadcastRaises, database, history
<1>8. ASSUME NEW r \in Request, BroadcastReturns(r) PROVE EventsNumbered'
  <2>1. PICK e : e.round_id = Len(_events) + 1 /\ _events' = Append(_events, e)
    BY <1>8, RoundReturned
  <2>2. PersistingNow = 0 /\ PersistingNow' = 1
    BY SMTT(20), <1>8, RoundReturned, OnePersists DEF PersistingNow, SubmitInv, TypeOK
  <2>3. /\ Len(_events') = Len(_events) + 1
        /\ \A k \in DOMAIN _events : _events'[k] = _events[k]
        /\ \A k \in DOMAIN _events' : k \in DOMAIN _events \/ k = Len(_events) + 1
        /\ _events'[Len(_events) + 1] = e
    <3>1. _events \in Seq(AuditEvent \cup {e}) /\ e \in AuditEvent \cup {e}
      BY EventsTypes
    <3> QED
      BY <2>1, <3>1, AppendOne
  <2>4. UNCHANGED <<audit_events, failures>>
    BY <1>8, RoundReturned
  <2> QED
    BY <2>1, <2>2, <2>3, <2>4, EventsTypes DEF EventsNumbered
<1>9. ASSUME NEW r \in Request, PersistEvent(r) PROVE EventsNumbered'
  <2> DEFINE e == _events[Len(_events)]
  <2>1. /\ PersistingNow = 1
        /\ audit_events' = Append(audit_events, e)
        /\ UNCHANGED <<_events, failures>>
    BY <1>9, OnePersists DEF PersistEvent, history
  <2>2. PersistingNow' = 0
    <3>1. pc'[r] = "FINALIZED" /\ \A q \in Request : q # r => pc'[q] = pc[q] /\ pc[q] # "audit"
      BY <1>9, Steps DEF PersistEvent, history, SubmitInv, TypeOK, LoopIsHeld, Work
    <3> QED
      BY <3>1 DEF PersistingNow
  <2>3. /\ Len(audit_events') = Len(audit_events) + 1
        /\ \A k \in DOMAIN audit_events : audit_events'[k] = audit_events[k]
        /\ \A k \in DOMAIN audit_events' : k \in DOMAIN audit_events \/ k = Len(audit_events) + 1
        /\ audit_events'[Len(audit_events) + 1] = e
    <3> HIDE DEF e
    <3>1. audit_events \in Seq(AuditEvent \cup {e}) /\ e \in AuditEvent \cup {e}
      BY EventsTypes
    <3> QED
      BY <2>1, <3>1, AppendOne
  <2> QED
    BY <2>1, <2>2, <2>3, EventsTypes DEF EventsNumbered
<1>10. ASSUME NEW r \in Request, CountUsage(r) PROVE EventsNumbered'
  BY <1>10, Steps, OnePersists, EventsUntouched DEF CountUsage, history
<1>11. ASSUME NEW r \in Request, ChargeLedger(r) PROVE EventsNumbered'
  BY <1>11, Steps, OnePersists, EventsUntouched DEF ChargeLedger, history
<1>12. ASSUME NEW r \in Request, Replicate(r) PROVE EventsNumbered'
  BY <1>12, OnePersists, EventsUntouched DEF Replicate
<1> QED
  BY <1>1, <1>2, <1>3, <1>4, <1>5, <1>6, <1>7, <1>8, <1>9, <1>10, <1>11, <1>12
     DEF Next, Handle

\* AuditLog.record and its reload from the store: as long as no write fails,
\* rounds are numbered by their place in the audit table over any number of
\* restarts, and whoever was answered 200 finds its round under its number.
THEOREM SpecRoundsAreConsecutive == Spec => []RoundsAreConsecutive
<1>1. Init => EventsNumbered
  BY DEF Init, EventsNumbered, PersistingNow
<1>2. SubmitInv /\ EventsNumbered => RoundsAreConsecutive
  <2> SUFFICES ASSUME SubmitInv, EventsNumbered, failures = 0
               PROVE  /\ \A k \in DOMAIN audit_events : audit_events[k].round_id = k
                      /\ \A k \in DOMAIN _events : get_event(k).round_id = k
                      /\ \A r \in Request : response[r] # None /\ response[r].status = 200 =>
                            get_event(response[r].event.round_id) = response[r].event
    BY DEF RoundsAreConsecutive
  <2>1. \A k \in DOMAIN audit_events : /\ k \in DOMAIN _events
                                       /\ _events[k] = audit_events[k]
                                       /\ audit_events[k].round_id = k
    BY AuditInLog
  <2>2. \A k \in DOMAIN _events : get_event(k).round_id = k
    BY DEF EventsNumbered, get_event
  <2>3. ASSUME NEW r \in Request, response[r] # None, response[r].status = 200
        PROVE  get_event(response[r].event.round_id) = response[r].event
    <3>1. PICK k \in DOMAIN audit_events : audit_events[k] = response[r].event
      BY <2>3 DEF SubmitInv, AnsweredForItsOwnRound
    <3> QED
      BY <2>1, <3>1 DEF get_event
  <2> QED
    BY <2>1, <2>2, <2>3
<1> QED
  BY <1>1, <1>2, EventsStep, SpecInv, PTL DEF Spec

-----------------------------------------------------------------------------
(* The order of the stream                                                 *)

\* The events sent since the start of the process carry rising numbers, none
\* beyond the length of the log.  From the append to the log until it is
\* sent, the event of the handler that holds the event loop is the last of
\* the log, and beyond all events sent.
Sent == _event_bus.transactions
BusIsBehind ==
    /\ \A i, j \in DOMAIN Sent : i < j => Sent[i].round_id < Sent[j].round_id
    /\ \A i \in DOMAIN Sent : Sent[i].round_id <= Len(_events)
    /\ \A r \in Request : pc[r] = "audit" => _events[Len(_events)].round_id = Len(_events)
    /\ \A r \in Request : pc[r] \in PastAudit => local[r].event.round_id = Len(_events)
    /\ \A r \in Request : pc[r] \in PastAudit \cup {"audit"} =>
          \A i \in DOMAIN Sent : Sent[i].round_id < Len(_events)

\* The steps that neither send nor log an event: who has an event to send
\* had it before.
LEMMA BusUntouched ==
    ASSUME BusIsBehind, UNCHANGED <<_event_bus, _events>>,
           \A r \in Request :
               /\ pc'[r] = "audit" => pc[r] = "audit"
               /\ pc'[r] \in PastAudit => pc[r] \in PastAudit /\ local'[r] = local[r]
    PROVE  BusIsBehind'
BY DEF BusIsBehind, Sent

\* A step of one handler that neither sends nor logs an event.
LEMMA BusUntouchedBy ==
    ASSUME SubmitInv, BusIsBehind, NEW r \in Request, NEW step,
           pc' = [pc EXCEPT ![r] = step], step # "audit",
           step \in PastAudit => pc[r] \in PastAudit,
           UNCHANGED <<_event_bus, _events, local>>
    PROVE  BusIsBehind'
<1>1. \A q \in Request : /\ pc'[q] = "audit" => pc[q] = "audit"
                         /\ pc'[q] \in PastAudit => pc[q] \in PastAudit
  BY DEF SubmitInv, TypeOK
<1> QED
  BY <1>1, BusUntouched

\* What has been sent is a sequence of events.
LEMMA SentTypes ==
    ASSUME SubmitInv
    PROVE  /\ Sent \in Seq(AuditEvent)
           /\ Len(_events) \in Nat
           /\ \A i \in DOMAIN Sent : i \in Nat /\ Sent[i].round_id \in Nat
<1>1. Sent \in Seq(AuditEvent)
  BY DEF SubmitInv, TypeOK, Sent
<1>2. \A i \in DOMAIN Sent : Sent[i] \in AuditEvent
  BY <1>1, ElementOfSeq
<1>3. DOMAIN Sent = 1 .. Len(Sent) /\ Len(Sent) \in Nat
  BY <1>1, LenProperties
<1> QED
  BY <1>1, <1>2, <1>3, EventsTypes DEF AuditEvent

\* Every step keeps what was sent behind the log, and in its order.
LEMMA BusStep == SubmitInv /\ BusIsBehind /\ [Next]_vars => BusIsBehind'
<1> SUFFICES ASSUME SubmitInv, BusIsBehind, [Next]_vars PROVE BusIsBehind'
  OBVIOUS
<1>1. CASE UNCHANGED vars
  BY <1>1, BusUntouched DEF vars, memory
<1>2. CASE Crash
  <2>1. Sent' = <<>> /\ \A r \in Request : pc'[r] \in {"new", "answered", "lost"}
    BY <1>2 DEF Crash, Sent
  <2>2. \A r \in Request : pc'[r] \notin PastAudit \cup {"audit"}
    BY <2>1 DEF PastAudit, PastFinalized
  <2>3. DOMAIN Sent' = {}
    BY <2>1
  <2> QED
    BY <2>2, <2>3 DEF BusIsBehind
<1>3. ASSUME NEW r \in Request, Submit(r) PROVE BusIsBehind'
  BY <1>3, BusUntouchedBy DEF Submit, PastAudit, PastFinalized
<1>4. ASSUME NEW r \in Request, WriteFails(r) PROVE BusIsBehind'
  BY <1>4, BusUntouchedBy DEF WriteFails, PastAudit, PastFinalized
<1>5. ASSUME NEW r \in Request, LoadRecord(r) PROVE BusIsBehind'
  BY <1>5, BusUntouched DEF LoadRecord
<1>6. ASSUME NEW r \in Request, SaveRecord(r) PROVE BusIsBehind'
  <2>1. /\ After(pc[r]) # "audit"
        /\ After(pc[r]) \in PastAudit => pc[r] \in PastAudit
    BY <1>6, Steps DEF SaveRecord, history, PastAudit, PastFinalized
  <2> QED
    BY <1>6, <2>1, BusUntouchedBy DEF SaveRecord, history
<1>7. ASSUME NEW r \in Request, BroadcastRaises(r) PROVE BusIsBehind'
  BY <1>7, BusUntouchedBy DEF BroadcastRaises, PastAudit, PastFinalized
<1>8. ASSUME NEW r \in Request, BroadcastReturns(r) PROVE BusIsBehind'
  <2>1. PICK e : e.round_id = Len(_events) + 1 /\ _events' = Append(_events, e)
    BY <1>8, RoundReturned
  <2>2. Len(_events') = Len(_events) + 1 /\ _events'[Len(_events) + 1] = e
    <3>1. _events \in Seq(AuditEvent \cup {e}) /\ e \in AuditEvent \cup {e}
      BY EventsTypes
    <3> QED
      BY <2>1, <3>1, AppendOne
  <2>3. \A i \in DOMAIN Sent : Sent[i].round_id < Len(_events')
    BY <2>2, SentTypes DEF BusIsBehind
  <2>4. Sent' = Sent
    BY <1>8, RoundReturned DEF Sent
  <2>5. \A q \in Request : pc'[q] \in PastAudit \cup {"audit"} => q = r /\ pc'[q] = "audit"
    <3>1. \A q \in Request : pc[q] \notin Work
      BY <1>8, RoundReturned, SubmitConstants DEF SubmitInv, LoopIsHeld
    <3>2. \A q \in Request : q # r => pc'[q] = pc[q]
      BY <1>8, RoundReturned DEF SubmitInv, TypeOK
    <3>3. pc'[r] = "audit"
      BY <1>8, RoundReturned DEF SubmitInv, TypeOK
    <3>4. PastAudit \cup {"audit"} \subseteq Work
      BY DEF PastAudit, PastFinalized, Work, TxState
    <3> QED
      BY <3>1, <3>2, <3>3, <3>4
  <2>6. "audit" \notin PastAudit
    BY DEF PastAudit, PastFinalized
  <2> QED
    BY <2>1, <2>2, <2>3, <2>4, <2>5, <2>6, SentTypes DEF BusIsBehind
<1>9. ASSUME NEW r \in Request, PersistEvent(r) PROVE BusIsBehind'
  <2>1. /\ pc[r] = "audit" /\ pc' = [pc EXCEPT ![r] = "FINALIZED"] /\ running = r
        /\ local' = [local EXCEPT ![r].event = _events[Len(_events)]]
        /\ UNCHANGED <<_events, _event_bus>>
    BY <1>9, Steps DEF PersistEvent, history
  <2>2. \A q \in Request : q # r => pc'[q] = pc[q] /\ pc[q] \notin Work
    BY <2>1 DEF SubmitInv, TypeOK, LoopIsHeld
  <2>3. \A q \in Request : pc'[q] \in PastAudit \cup {"audit"} => q = r
    <3>1. PastAudit \cup {"audit"} \subseteq Work
      BY DEF PastAudit, PastFinalized, Work, TxState
    <3> QED
      BY <2>2, <3>1
  <2>4. pc'[r] = "FINALIZED" /\ local'[r].event = _events[Len(_events)]
    <3>1. local[r] \in RoundLocals
      BY <2>1 DEF SubmitInv, TypeOK, RoundKnown, KnowsRound
    <3> QED
      BY <2>1, <3>1 DEF SubmitInv, TypeOK, RoundLocals
  <2>5. Sent' = Sent
    BY <2>1 DEF Sent
  <2> QED
    BY <2>1, <2>3, <2>4, <2>5 DEF BusIsBehind
<1>10. ASSUME NEW r \in Request, CountUsage(r) PROVE BusIsBehind'
  BY <1>10, Steps, BusUntouchedBy DEF CountUsage, history, PastAudit, PastFinalized
<1>11. ASSUME NEW r \in Request, ChargeLedger(r) PROVE BusIsBehind'
  BY <1>11, Steps, BusUntouchedBy DEF ChargeLedger, history, PastAudit, PastFinalized
<1>12. ASSUME NEW r \in Request, Replicate(r) PROVE BusIsBehind'
  <2> DEFINE e == local[r].event
  <2>1. /\ pc[r] = "REPLICATED" /\ pc' = [pc EXCEPT ![r] = "answered"] /\ running = r
        /\ Sent' = Append(Sent, e)
        /\ UNCHANGED <<_events, local>>
    BY <1>12 DEF Replicate, Sent
  <2>2. e \in AuditEvent
    BY <2>1
       DEF SubmitInv, TypeOK, RoundKnown, KnowsRound, PastAudit, PastFinalized, RoundLocals
  <2>3. /\ e.round_id = Len(_events)
        /\ \A i \in DOMAIN Sent : Sent[i].round_id < e.round_id
    BY <2>1 DEF BusIsBehind, PastAudit, PastFinalized
  <2> HIDE DEF e
  <2>4. /\ Len(Sent) \in Nat
        /\ Sent'[Len(Sent) + 1] = e
        /\ \A i \in DOMAIN Sent : Sent'[i] = Sent[i] /\ i < Len(Sent) + 1
        /\ \A i \in DOMAIN Sent' : i \in DOMAIN Sent \/ i = Len(Sent) + 1
    <3>1. DOMAIN Sent = 1 .. Len(Sent)
      BY SentTypes, LenProperties
    <3> QED
      BY <2>1, <2>2, <3>1, SentTypes, AppendOne
  <2>5. \A q \in Request : pc'[q] \notin PastAudit \cup {"audit"}
    <3>1. \A q \in Request : q # r => pc'[q] = pc[q] /\ pc[q] \notin Work
      BY <2>1 DEF SubmitInv, TypeOK, LoopIsHeld
    <3>2. pc'[r] = "answered"
      BY <2>1 DEF SubmitInv, TypeOK
    <3> QED
      BY <3>1, <3>2 DEF PastAudit, PastFinalized, Work, TxState
  <2>6. \A i, j \in DOMAIN Sent' : i < j => Sent'[i].round_id < Sent'[j].round_id
    BY <2>3, <2>4, SentTypes DEF BusIsBehind
  <2>7. \A i \in DOMAIN Sent' : Sent'[i].round_id <= Len(_events)
    BY <2>3, <2>4, SentTypes DEF BusIsBehind
  <2> QED
    BY <2>1, <2>5, <2>6, <2>7 DEF BusIsBehind
<1> QED
  BY <1>1, <1>2, <1>3, <1>4, <1>5, <1>6, <1>7, <1>8, <1>9, <1>10, <1>11, <1>12
     DEF Next, Handle

\* _event_bus.publish at the end of a handler: subscribers see the rounds in
\* the order of the audit log, although handlers interleave at the broadcast.
THEOREM SpecStreamFollowsAudit == Spec => []StreamFollowsAudit
<1>1. Init => BusIsBehind
  BY DEF Init, BusIsBehind, Sent, PastAudit, PastFinalized
<1>2. BusIsBehind => StreamFollowsAudit
  BY DEF BusIsBehind, StreamFollowsAudit, Sent
<1> QED
  BY <1>1, <1>2, BusStep, SpecInv, PTL DEF Spec

-----------------------------------------------------------------------------
(* The status endpoint                                                     *)

\* A record in memory is the one in the store, unless the write behind it
\* failed and the caller was told.
ToldOfError(r) == response[r] # None /\ response[r].status # 200
MemoryIsStored ==
    \A r \in Request :
        /\ pc[r] \in {"new", "INITIATED"} => _tx_store[r] = None
        /\ _tx_store[r] # None => _tx_store[r] = transactions[r] \/ ToldOfError(r)

\* The states of a transaction are saved in their order.
LEMMA SavedInOrder ==
    \A step \in TxState \ {"INITIATED"} :
        LastSaved(step) \in TxState /\ Rank[LastSaved(step)] <= Rank[step]
<1>1. /\ LastSaved("EXECUTING") = "INITIATED" /\ LastSaved("PROPOSED") = "EXECUTING"
      /\ LastSaved("CONSENSUS_PENDING") = "PROPOSED" /\ LastSaved("BILLED") = "FINALIZED"
      /\ LastSaved("FINALIZED") = "CONSENSUS_PENDING" /\ LastSaved("REPLICATED") = "BILLED"
  BY DEF LastSaved
<1>2. /\ Rank["INITIATED"] = 1 /\ Rank["EXECUTING"] = 2 /\ Rank["PROPOSED"] = 3
      /\ Rank["CONSENSUS_PENDING"] = 4 /\ Rank["FINALIZED"] = 5 /\ Rank["BILLED"] = 6
      /\ Rank["REPLICATED"] = 7
  BY DEF Rank
<1> QED
  BY <1>1, <1>2 DEF TxState

\* What the endpoint shows of a request does not regress when its records
\* stay, and neither does a record in memory lose its equal in the store.
LEMMA StatusUntouched ==
    ASSUME SubmitInv, NEW r \in Request, UNCHANGED <<_tx_store[r], transactions[r]>>
    PROVE  LET status == get_transaction_status(r)
           IN  status # None => status' # None /\ Rank[status.state] <= Rank[status'.state]
<1> DEFINE status == get_transaction_status(r)
<1>1. status' = status
  BY DEF get_transaction_status
<1>2. status # None => Rank[status.state] \in Nat
  <2>1. status # None => status \in TransactionRecord
    BY DEF SubmitInv, TypeOK, get_transaction_status
  <2>2. \A s \in TxState : Rank[s] \in Nat
    BY DEF Rank, TxState
  <2> QED
    BY <2>1, <2>2 DEF TransactionRecord
<1> QED
  BY <1>1, <1>2

\* A write of the next record: what is in memory, if no error was told, is
\* the record saved last, which the next one follows.
LEMMA NextFollows ==
    ASSUME SubmitInv, MemoryIsStored, NEW r \in Request, pc[r] \in TxState, running = r
    PROVE  LET status == get_transaction_status(r)
           IN  /\ ~ ToldOfError(r)
               /\ NextRecord(r) # None
               /\ status # None => Rank[status.state] <= Rank[NextRecord(r).state]
<1> DEFINE status == get_transaction_status(r)
<1>1. ~ ToldOfError(r)
  BY DEF SubmitInv, LoopIsHeld, ToldOfError, TxState
<1>2. NextRecord(r) # None /\ NextRecord(r).state = pc[r]
  BY NextRecordFacts DEF SubmitInv
<1>3. CASE pc[r] = "INITIATED"
  <2>1. status = None
    BY <1>3 DEF SubmitInv, RecordSaved, MemoryIsStored, get_transaction_status
  <2> QED
    BY <1>1, <1>2, <2>1
<1>4. CASE pc[r] # "INITIATED"
  <2>1. status = transactions[r] /\ transactions[r].state = LastSaved(pc[r])
    BY <1>4 DEF SubmitInv, RecordSaved, Underway, Work, get_transaction_status
  <2>2. Rank[LastSaved(pc[r])] <= Rank[pc[r]]
    BY <1>4, SavedInOrder
  <2> QED
    BY <1>1, <1>2, <2>1, <2>2
<1> QED
  BY <1>3, <1>4

\* The status of r stays or moves on, or the caller of r was told of an error.
Progresses(r) ==
    LET status == get_transaction_status(r)
    IN  status # None =>
          \/ status' # None /\ Rank[status.state] <= Rank[status'.state]
          \/ ToldOfError(r)

\* What the steps that write the next record of r do to its status.
LEMMA StatusAfterWrite ==
    ASSUME SubmitInv, MemoryIsStored, NEW r \in Request, pc[r] \in TxState, running = r,
           _tx_store' = [_tx_store EXCEPT ![r] = NextRecord(r)],
           \A q \in Request : q # r => transactions'[q] = transactions[q]
    PROVE  \A q \in Request : Progresses(q)
<1>1. /\ NextRecord(r) # None
      /\ _tx_store'[r] = NextRecord(r)
      /\ \A q \in Request : q # r => _tx_store'[q] = _tx_store[q]
  BY NextFollows DEF SubmitInv, TypeOK
<1>2. get_transaction_status(r)' = NextRecord(r)
  BY <1>1 DEF get_transaction_status
<1>3. Progresses(r)
  BY <1>1, <1>2, NextFollows DEF Progresses
<1>4. \A q \in Request : q # r => Progresses(q)
  BY <1>1, StatusUntouched DEF Progresses
<1> QED
  BY <1>3, <1>4

\* The steps that touch no record.
LEMMA RecordsUntouched ==
    ASSUME SubmitInv, MemoryIsStored, UNCHANGED <<_tx_store, transactions>>,
           \A q \in Request : /\ pc'[q] \in {"new", "INITIATED"} => pc[q] \in {"new", "INITIATED"}
                              /\ ToldOfError(q) => response'[q] = response[q]
    PROVE  MemoryIsStored' /\ \A q \in Request : Progresses(q)
<1>1. MemoryIsStored'
  BY DEF MemoryIsStored, ToldOfError
<1>2. \A q \in Request : Progresses(q)
  BY StatusUntouched DEF Progresses
<1> QED
  BY <1>1, <1>2

\* Every step keeps memory and store equal where no error was told, and no
\* step takes a status back.
LEMMA StatusStep ==
    SubmitInv /\ MemoryIsStored /\ [Next]_vars =>
        MemoryIsStored' /\ \A q \in Request : Progresses(q)
<1> SUFFICES ASSUME SubmitInv, MemoryIsStored, [Next]_vars
             PROVE  MemoryIsStored' /\ \A q \in Request : Progresses(q)
  OBVIOUS
<1>0. \A q \in Request : pc[q] \in TxState \cup Work => running = q /\ response[q] = None
  BY DEF SubmitInv, LoopIsHeld, Work, TxState
<1>1. CASE UNCHANGED vars
  BY <1>1, RecordsUntouched DEF vars, memory, database, history
<1>2. CASE Crash
  <2>1. /\ \A q \in Request : _tx_store'[q] = None
        /\ UNCHANGED <<transactions, response>>
    BY <1>2 DEF Crash, database, history
  <2>2. MemoryIsStored'
    BY <2>1 DEF MemoryIsStored
  <2>3. ASSUME NEW q \in Request PROVE Progresses(q)
    <3> DEFINE status == get_transaction_status(q)
    <3>1. status' = transactions[q]
      BY <2>1 DEF get_transaction_status
    <3>2. status = transactions[q] \/ ToldOfError(q)
      BY DEF MemoryIsStored, get_transaction_status
    <3>3. transactions[q] # None => Rank[transactions[q].state] \in Nat
      <4>1. transactions[q] # None => transactions[q] \in TransactionRecord
        BY DEF SubmitInv, TypeOK
      <4>2. \A s \in TxState : Rank[s] \in Nat
        BY DEF Rank, TxState
      <4> QED
        BY <4>1, <4>2 DEF TransactionRecord
    <3> QED
      BY <3>1, <3>2, <3>3 DEF Progresses
  <2> QED
    BY <2>2, <2>3
<1>3. ASSUME NEW r \in Request, Submit(r)
      PROVE  MemoryIsStored' /\ \A q \in Request : Progresses(q)
  BY <1>3, RecordsUntouched DEF Submit, database, history, SubmitInv, TypeOK
<1>4. ASSUME NEW r \in Request, WriteFails(r)
      PROVE  MemoryIsStored' /\ \A q \in Request : Progresses(q)
  <2>1. /\ pc[r] \in Work /\ running = r /\ pc' = [pc EXCEPT ![r] = "answered"]
        /\ pc'[r] = "answered"
        /\ \A q \in Request : q # r => response'[q] = response[q] /\ pc'[q] = pc[q]
        /\ ToldOfError(r)'
        /\ transactions' = transactions
    <3>1. /\ response'[r].status \in {422, 500}
          /\ response'[r] = [status |-> response'[r].status, event |-> None]
      BY <1>4 DEF WriteFails, SubmitInv, TypeOK
    <3>2. response'[r] \in Answer
      BY <3>1 DEF Answer
    <3>3. ToldOfError(r)'
      BY <3>1, <3>2, NoneIsNoRecord DEF ToldOfError
    <3> QED
      BY <1>4, <3>3 DEF WriteFails, SubmitInv, TypeOK, database, history
  <2>2. CASE pc[r] \in TxState
    <3>1. _tx_store' = [_tx_store EXCEPT ![r] = NextRecord(r)]
      BY <1>4, <2>2 DEF WriteFails
    <3>2. \A q \in Request : Progresses(q)
      BY <2>1, <2>2, <3>1, StatusAfterWrite
    <3>3. \A q \in Request : q # r => _tx_store'[q] = _tx_store[q]
      BY <3>1 DEF SubmitInv, TypeOK
    <3>4. MemoryIsStored'
      BY <2>1, <3>3 DEF MemoryIsStored, ToldOfError
    <3> QED
      BY <3>2, <3>4
  <2>3. CASE pc[r] \notin TxState
    <3>1. _tx_store' = _tx_store
      BY <1>4, <2>3 DEF WriteFails
    <3>2. response[r] = None
      BY <1>0, <2>1
    <3> QED
      BY <2>1, <3>1, <3>2, RecordsUntouched DEF ToldOfError
  <2> QED
    BY <2>2, <2>3
<1>5. ASSUME NEW r \in Request, LoadRecord(r)
      PROVE  MemoryIsStored' /\ \A q \in Request : Progresses(q)
  <2>1. /\ _tx_store'[r] = transactions[r] /\ transactions[r] # None /\ _tx_store[r] = None
        /\ \A q \in Request : q # r => _tx_store'[q] = _tx_store[q]
        /\ UNCHANGED <<pc, transactions, response>>
    BY <1>5 DEF LoadRecord, SubmitInv, TypeOK, database, history
  <2>2. MemoryIsStored'
    BY <2>1 DEF MemoryIsStored, ToldOfError, SubmitInv, RecordSaved
  <2>3. get_transaction_status(r)' = get_transaction_status(r)
    BY <2>1 DEF get_transaction_status
  <2>4. \A q \in Request : q # r => Progresses(q)
    BY <2>1, StatusUntouched DEF Progresses
  <2>5. Progresses(r)
    <3>1. transactions[r] \in TransactionRecord
      BY <2>1 DEF SubmitInv, TypeOK
    <3>2. Rank[transactions[r].state] \in Nat
      BY <3>1 DEF TransactionRecord, Rank, TxState
    <3> QED
      BY <2>1, <2>3, <3>2 DEF Progresses, get_transaction_status
  <2> QED
    BY <2>2, <2>4, <2>5
<1>6. ASSUME NEW r \in Request, SaveRecord(r)
      PROVE  MemoryIsStored' /\ \A q \in Request : Progresses(q)
  <2>1. /\ pc[r] \in TxState \ {"REPLICATED"} /\ running = r
        /\ _tx_store' = [_tx_store EXCEPT ![r] = NextRecord(r)]
        /\ transactions' = [transactions EXCEPT ![r] = NextRecord(r)]
        /\ pc' = [pc EXCEPT ![r] = After(pc[r])]
        /\ UNCHANGED response
    BY <1>6 DEF SaveRecord, history
  <2>2. /\ After(pc[r]) \notin {"new", "INITIATED"}
        /\ _tx_store'[r] = transactions'[r] /\ pc'[r] = After(pc[r])
        /\ \A q \in Request : q # r => /\ _tx_store'[q] = _tx_store[q]
                                       /\ transactions'[q] = transactions[q]
                                       /\ pc'[q] = pc[q]
    BY <2>1, Steps DEF SubmitInv, TypeOK
  <2>3. MemoryIsStored'
    BY <2>1, <2>2 DEF MemoryIsStored, ToldOfError
  <2> QED
    BY <2>1, <2>2, <2>3, StatusAfterWrite
<1>7. ASSUME NEW r \in Request, BroadcastRaises(r)
      PROVE  MemoryIsStored' /\ \A q \in Request : Progresses(q)
  <2>1. response[r] = None
    BY <1>7 DEF BroadcastRaises, SubmitInv, LoopIsHeld
  <2> QED
    BY <1>7, <2>1, RecordsUntouched
       DEF BroadcastRaises, database, history, SubmitInv, TypeOK, ToldOfError
<1>8. ASSUME NEW r \in Request, BroadcastReturns(r)
      PROVE  MemoryIsStored' /\ \A q \in Request : Progresses(q)
  BY <1>8, RoundReturned, RecordsUntouched DEF SubmitInv, TypeOK
<1>9. ASSUME NEW r \in Request, PersistEvent(r)
      PROVE  MemoryIsStored' /\ \A q \in Request : Progresses(q)
  BY <1>9, Steps, RecordsUntouched DEF PersistEvent, history, SubmitInv, TypeOK
<1>10. ASSUME NEW r \in Request, CountUsage(r)
       PROVE  MemoryIsStored' /\ \A q \in Request : Progresses(q)
  BY <1>10, Steps, RecordsUntouched DEF CountUsage, history, SubmitInv, TypeOK
<1>11. ASSUME NEW r \in Request, ChargeLedger(r)
       PROVE  MemoryIsStored' /\ \A q \in Request : Progresses(q)
  BY <1>11, Steps, RecordsUntouched DEF ChargeLedger, history, SubmitInv, TypeOK
<1>12. ASSUME NEW r \in Request, Replicate(r)
       PROVE  MemoryIsStored' /\ \A q \in Request : Progresses(q)
  <2>1. /\ pc[r] = "REPLICATED" /\ running = r
        /\ _tx_store' = [_tx_store EXCEPT ![r] = NextRecord(r)]
        /\ transactions' = [transactions EXCEPT ![r] = NextRecord(r)]
        /\ pc' = [pc EXCEPT ![r] = "answered"]
        /\ \A q \in Request : q # r => response'[q] = response[q]
    BY <1>12 DEF Replicate, SubmitInv, TypeOK
  <2>2. /\ _tx_store'[r] = transactions'[r] /\ pc'[r] = "answered"
        /\ \A q \in Request : q # r => /\ _tx_store'[q] = _tx_store[q]
                                       /\ transactions'[q] = transactions[q]
                                       /\ pc'[q] = pc[q]
    BY <2>1 DEF SubmitInv, TypeOK
  <2>3. MemoryIsStored'
    BY <2>1, <2>2 DEF MemoryIsStored, ToldOfError
  <2>4. pc[r] \in TxState
    BY <2>1 DEF TxState
  <2> QED
    BY <2>1, <2>2, <2>3, <2>4, StatusAfterWrite
<1> QED
  BY <1>1, <1>2, <1>3, <1>4, <1>5, <1>6, <1>7, <1>8, <1>9, <1>10, <1>11, <1>12
     DEF Next, Handle

\* _save_tx_record, memory first and then the store, and the restart between
\* any two of them: the status a caller sees never goes back to an earlier
\* state, unless that caller was told of an error.
THEOREM SpecStatusNeverRegresses == Spec => StatusNeverRegresses
<1>1. Init => MemoryIsStored
  BY DEF Init, MemoryIsStored
<1>2. SubmitInv /\ MemoryIsStored /\ [Next]_vars =>
        [\A r \in Request :
            LET status == get_transaction_status(r)
            IN  status # None =>
                \/ status' # None /\ Rank[status.state] <= Rank[status'.state]
                \/ response[r] # None /\ response[r].status # 200]_vars
  BY StatusStep DEF Progresses, ToldOfError
<1> QED
  BY <1>1, <1>2, StatusStep, SpecInv, PTL DEF Spec, StatusNeverRegresses
=============================================================================

----------------------- MODULE SettlementBridgeProofs -----------------------
(***************************************************************************)
(* Proofs about SettlementBridge, for any set of bridges, ids, models and  *)
(* submitters: type correctness, one claim per bridge and id, an L1        *)
(* verification behind every L2 record, and that the L2 storage is a       *)
(* write-once ledger for every id but 0. What a trusted bridge verified is *)
(* recorded, when messages are delivered.                                  *)
(***************************************************************************)
EXTENDS SettlementBridge, TLAPS

\* What is in flight was emitted: nothing enters the inbox but by a bridge.
InboxFromBridges == inbox \subseteq events

IInv == TypeOK /\ OneClaimPerBridge /\ InboxFromBridges /\ RecordBacked

----------------------------------------------------------------------------
\* An id that the replay guard takes for unrecorded has no record, unless it
\* is 0: records stand under their own id.
LEMMA GuardExact ==
  ASSUME RecordBacked, NEW i \in Ids \ {0}
  PROVE  StoredId(i) = 0 <=> records[i] = NoRecord
  BY WordsAssumption DEF RecordBacked, StoredId

\* The steps, one level below Next.
LEMMA NextSplit ==
  ASSUME Next
  PROVE  \/ \E b \in Bridges, id \in Ids, model \in Models, s \in Submitters :
               \E proofOk \in BOOLEAN : VerifyAndBridge(b, id, model, s, proofOk)
         \/ \E b \in Bridges : Owner(b)
         \/ \E m \in inbox : ConsumeInferenceResult(m)
         \/ \E m \in inbox : Discard(m)
  BY DEF Next, Call, Message

\* No step breaks the invariant.
LEMMA InvStep ==
  ASSUME IInv, [Next]_vars
  PROVE  IInv'
<1> USE DEF IInv, TypeOK, InboxFromBridges
<1>1. CASE UNCHANGED vars
  BY <1>1 DEF vars, OneClaimPerBridge, RecordBacked
<1>2. ASSUME NEW b \in Bridges, NEW id \in Ids, NEW model \in Models,
             NEW s \in Submitters, NEW proofOk \in BOOLEAN,
             VerifyAndBridge(b, id, model, s, proofOk)
      PROVE  IInv'
  <2> DEFINE claim == [bridge |-> b, id |-> id, model |-> model,
                       submitter |-> s]
  <2>1. /\ claim \in Claims
        /\ claim.bridge = b /\ claim.id = id
        /\ id \notin verified[b]
        /\ verified' = [verified EXCEPT ![b] = @ \cup {id}]
        /\ events' = events \cup {claim}
        /\ inbox' = inbox \cup {claim}
        /\ whitelist' = whitelist /\ records' = records
    BY <1>2 DEF VerifyAndBridge, Accepts, IsVerified, Claims, l2Vars
  <2> HIDE DEF claim
  <2>2. TypeOK' /\ InboxFromBridges'
    BY <2>1
  <2>3. \A e \in events : ~(e.bridge = b /\ e.id = id)
    BY <2>1 DEF OneClaimPerBridge
  <2>4. \A e, f \in events' : e.bridge = f.bridge /\ e.id = f.id => e = f
    BY <2>1, <2>3 DEF OneClaimPerBridge
  <2>5. ASSUME NEW c \in Bridges, NEW i \in Ids
        PROVE  i \in verified'[c] <=> \E e \in events' : e.bridge = c /\ e.id = i
    <3>1. i \in verified'[c] <=> i \in verified[c] \/ (c = b /\ i = id)
      BY <2>1
    <3>2. i \in verified[c] <=> \E e \in events : e.bridge = c /\ e.id = i
      BY DEF OneClaimPerBridge
    <3> QED
      BY <2>1, <3>1, <3>2
  <2>6. OneClaimPerBridge'
    BY <2>4, <2>5 DEF OneClaimPerBridge
  <2>7. RecordBacked'
    BY <2>1 DEF RecordBacked
  <2> QED
    BY <2>2, <2>6, <2>7
<1>3. ASSUME NEW b \in Bridges, Owner(b)
      PROVE  IInv'
  BY <1>3 DEF Owner, AddL1Verifier, RemoveL1Verifier, l1Vars,
              OneClaimPerBridge, RecordBacked
<1>4. ASSUME NEW m \in inbox, ConsumeInferenceResult(m)
      PROVE  IInv'
  <2> DEFINE r == [id |-> m.id, model |-> m.model, submitter |-> m.submitter]
  <2>1. /\ m \in Claims /\ m \in events
        /\ r \in Records /\ m.id \in Ids
        /\ r.id = m.id /\ r.model = m.model /\ r.submitter = m.submitter
        /\ records' = [records EXCEPT ![m.id] = r]
        /\ inbox' = inbox \ {m}
        /\ UNCHANGED <<verified, events, whitelist>>
    BY <1>4 DEF ConsumeInferenceResult, Claims, Records, l1Vars
  <2> HIDE DEF r
  <2>2. TypeOK' /\ InboxFromBridges'
    BY <2>1
  <2>3. OneClaimPerBridge'
    BY <2>1 DEF OneClaimPerBridge
  <2>4. RecordBacked'
    <3> SUFFICES ASSUME NEW i \in Ids, records'[i] # NoRecord
                 PROVE  /\ records'[i].id = i
                        /\ \E e \in events' : /\ e.id = i
                                              /\ e.model = records'[i].model
                                              /\ e.submitter = records'[i].submitter
      BY DEF RecordBacked
    <3>1. CASE i = m.id
      <4>1. records'[i] = r
        BY <2>1, <3>1
      <4> QED
        BY <2>1, <3>1, <4>1
    <3>2. CASE i # m.id
      <4>1. records'[i] = records[i]
        BY <2>1, <3>2
      <4> QED
        BY <2>1, <4>1 DEF RecordBacked
    <3> QED
      BY <3>1, <3>2
  <2> QED
    BY <2>2, <2>3, <2>4
<1>5. ASSUME NEW m \in inbox, Discard(m)
      PROVE  IInv'
  BY <1>5 DEF Discard, l1Vars, l2Vars, OneClaimPerBridge, RecordBacked
<1> QED
  BY <1>1, <1>2, <1>3, <1>4, <1>5, NextSplit

\* The initial states satisfy the invariant.
LEMMA InitInv ==
  ASSUME Init
  PROVE  IInv
  BY DEF Init, IInv, TypeOK, OneClaimPerBridge, InboxFromBridges, RecordBacked

\* The invariant holds in every reachable state.
THEOREM InvariantHolds == Spec => []IInv
  BY InitInv, InvStep, PTL DEF Spec

\* Every variable keeps its type.
THEOREM TypeCorrect == Spec => []TypeOK
<1>1. IInv => TypeOK
  BY DEF IInv
<1> QED
  BY <1>1, InvariantHolds, PTL

\* No bridge vouches twice for an inference id.
THEOREM ClaimsUnique == Spec => []OneClaimPerBridge
<1>1. IInv => OneClaimPerBridge
  BY DEF IInv
<1> QED
  BY <1>1, InvariantHolds, PTL

\* Behind every L2 record there is a verification on L1.
THEOREM RecordsBacked == Spec => []RecordBacked
<1>1. IInv => RecordBacked
  BY DEF IInv
<1> QED
  BY <1>1, InvariantHolds, PTL

----------------------------------------------------------------------------
\* Neither chain forgets: events stay, and an id once seen as verified on L2
\* is seen as verified for ever. What callers of the bridge build on.
LEMMA ChainsMonotone ==
  ASSUME IInv, [Next]_vars
  PROVE  /\ events \subseteq events'
         /\ \A i \in Ids : IsInferenceVerified(i) => IsInferenceVerified(i)'
<1> USE DEF IsInferenceVerified, StoredId
<1>1. CASE records' = records /\ events \subseteq events'
  BY <1>1
<1>2. ASSUME NEW m \in inbox, ConsumeInferenceResult(m)
      PROVE  /\ events' = events
             /\ \A i \in Ids : IsInferenceVerified(i) => IsInferenceVerified(i)'
  <2>1. StoredId(m.id) = 0
    BY <1>2 DEF ConsumeInferenceResult, Consumable
  <2>2. \A i \in Ids \ {m.id} : records'[i] = records[i]
    BY <1>2 DEF ConsumeInferenceResult, IInv, TypeOK
  <2> QED
    BY <1>2, <2>1, <2>2 DEF ConsumeInferenceResult, l1Vars
<1> QED
  BY <1>1, <1>2, NextSplit
     DEF VerifyAndBridge, Owner, AddL1Verifier, RemoveL1Verifier, Discard,
         l1Vars, l2Vars, vars

\* One message, one record: a step records at most one inference.
LEMMA OneRecordPerStep ==
  ASSUME IInv, [Next]_vars, NEW i \in Ids, NEW k \in Ids,
         IsInferenceVerified(i)' # IsInferenceVerified(i),
         IsInferenceVerified(k)' # IsInferenceVerified(k)
  PROVE  i = k
<1>1. records' # records
  BY DEF IsInferenceVerified, StoredId
<1>2. PICK m \in inbox : ConsumeInferenceResult(m)
  BY <1>1, NextSplit
     DEF vars, VerifyAndBridge, Owner, AddL1Verifier, RemoveL1Verifier, Discard,
         l2Vars
<1>3. \A n \in Ids \ {m.id} : records'[n] = records[n]
  BY <1>2 DEF ConsumeInferenceResult, IInv, TypeOK
<1>4. \A n \in Ids \ {m.id} : IsInferenceVerified(n)' = IsInferenceVerified(n)
  BY <1>3 DEF IsInferenceVerified, StoredId
<1> QED
  BY <1>4


----------------------------------------------------------------------------
\* A step of the two chains attests one new key of the ledger or none.
LEMMA LedgerStep ==
  ASSUME IInv, [Next]_vars
  PROVE  [Ledger!Attest]_([i \in Ids \ {0} |-> records[i]])
<1> DEFINE ledger == [i \in Ids \ {0} |-> records[i]]
<1>1. CASE records' = records
  BY <1>1
<1>2. ASSUME NEW m \in inbox, ConsumeInferenceResult(m)
      PROVE  ledger' = ledger \/ Ledger!Attest
  <2> DEFINE r == [id |-> m.id, model |-> m.model, submitter |-> m.submitter]
  <2>1. /\ m.id \in Ids /\ r \in Records
        /\ StoredId(m.id) = 0
        /\ records' = [records EXCEPT ![m.id] = r]
        /\ records \in [Ids -> Records \cup {NoRecord}]
    BY <1>2 DEF ConsumeInferenceResult, Consumable, IInv, TypeOK, Claims, Records
  <2> HIDE DEF r
  <2>2. CASE m.id = 0
    BY <2>1, <2>2
  <2>3. CASE m.id # 0
    <3>1. records[m.id] = NoRecord
      BY <2>1, <2>3, GuardExact DEF IInv
    <3>2. ledger' \in [Ids \ {0} -> Records \cup {NoRecord}]
      BY <2>1
    <3>3. ledger'[m.id] = r /\ ledger[m.id] = NoRecord
      BY <2>1, <2>3, <3>1
    <3>4. ledger' # ledger
      BY <2>1, <3>3, NoRecordAssumption
    <3>5. \A k \in Ledger!Attested : ledger'[k] = ledger[k]
      BY <2>1, <3>3 DEF Ledger!Attested
    <3> QED
      BY <3>2, <3>4, <3>5 DEF Ledger!Attest
  <2> QED
    BY <2>2, <2>3
<1> QED
  BY <1>1, <1>2, NextSplit
     DEF VerifyAndBridge, Owner, AddL1Verifier, RemoveL1Verifier, Discard,
         l2Vars, vars

\* The L2 storage implements the write-once ledger.
THEOREM BridgeImplementsLedger == Spec => LedgerWriteOnce
<1>1. Init => Ledger!Init
  BY DEF Init, Ledger!Init
<1> QED
  BY <1>1, LedgerStep, InvariantHolds, PTL DEF Spec, LedgerWriteOnce, Ledger!Spec

----------------------------------------------------------------------------
(* What a message in flight comes to.                                      *)

\* The asserts of its handler would let a message in flight pass: the guards of
\* ConsumeInferenceResult(m), which bind every primed variable and shrink the
\* inbox, so this is ENABLED <<ConsumeInferenceResult(m)>>_vars written out.
Deliverable(m) == m \in inbox /\ Consumable(m)

\* The sequencer delivers m unless m stops being deliverable again and again:
\* WF_vars(ConsumeInferenceResult(m)) with that ENABLED.
Delivered(m) ==
    []([]Deliverable(m) => <><<ConsumeInferenceResult(m)>>_vars)

\* Nothing more is owed to m.
Served(m) == IsInferenceVerified(m.id) \/ m.bridge \notin whitelist

\* A message is deliverable until it is served: its handler can only revert on
\* an id that is recorded already or on a bridge that is not whitelisted.
LEMMA DeliverableOrServed ==
  ASSUME NEW m \in inbox
  PROVE  Deliverable(m) \/ Served(m)
  BY DEF Deliverable, Consumable, Served, IsInferenceVerified

\* A message that leaves the inbox is served, by its delivery or by the reason
\* for which it was given up.
LEMMA GoneIsServed ==
  ASSUME IInv, [Next]_vars, NEW m \in inbox, m.id # 0, m \notin inbox'
  PROVE  Served(m)'
<1>1. m \in Claims /\ m.id \in Ids /\ m.id \in Nat
  BY WordsAssumption DEF IInv, TypeOK, Claims
<1>2. PICK n \in inbox : ConsumeInferenceResult(n) \/ Discard(n)
  BY NextSplit
     DEF vars, VerifyAndBridge, Owner, AddL1Verifier, RemoveL1Verifier
<1>3. n = m
  BY <1>2 DEF ConsumeInferenceResult, Discard
<1>4. CASE ConsumeInferenceResult(m)
  <2>1. records'[m.id] = [id |-> m.id, model |-> m.model, submitter |-> m.submitter]
    BY <1>1, <1>4 DEF ConsumeInferenceResult, IInv, TypeOK
  <2>2. records'[m.id] # NoRecord
    BY <1>1, <2>1, NoRecordAssumption DEF Records, Claims
  <2>3. StoredId(m.id)' = m.id
    BY <2>1, <2>2 DEF StoredId
  <2> QED
    BY <2>3 DEF Served, IsInferenceVerified
<1>5. CASE Discard(m)
  BY <1>5 DEF Discard, l2Vars, Consumable, Served, IsInferenceVerified, StoredId
<1> QED
  BY <1>2, <1>3, <1>4, <1>5

\* consume_inference_result: a message is lost to L2 only for an id that is
\* recorded by then, or while its bridge is not whitelisted.
THEOREM NoMessageLost ==
  Spec => [][\A m \in inbox : m.id # 0 /\ m \notin inbox' => Served(m)']_vars
<1>1. IInv /\ [Next]_vars =>
         [\A m \in inbox : m.id # 0 /\ m \notin inbox' => Served(m)']_vars
  BY GoneIsServed
<1> QED
  BY <1>1, InvariantHolds, PTL DEF Spec

\* A delivery serves the message it delivers.
LEMMA DeliveryServes ==
  ASSUME IInv, NEW m, m.id # 0, ConsumeInferenceResult(m), [Next]_vars
  PROVE  Served(m)'
  BY GoneIsServed DEF ConsumeInferenceResult

\* One message: what a bridge verified gets recorded, or its bridge loses the
\* owner's trust.
LEMMA MessageServed ==
  ASSUME NEW m \in Claims, m.id # 0
  PROVE  Spec /\ Delivered(m) => (m \in inbox ~> Served(m))
<1>1. IInv /\ [Next]_vars /\ m \in inbox => (m \in inbox \/ Served(m))'
  BY GoneIsServed
<1>2. m \in inbox => Deliverable(m) \/ Served(m)
  BY DeliverableOrServed
<1>3. IInv /\ [Next]_vars /\ <<ConsumeInferenceResult(m)>>_vars => Served(m)'
  BY DeliveryServes
<1> QED
  BY <1>1, <1>2, <1>3, InvariantHolds, PTL DEF Spec, Delivered

\* The fairness of FairSpec is Delivered, wherever the guards enable the action.
LEMMA FairnessDelivers ==
  ASSUME NEW m \in Claims
  PROVE  /\ WF_vars(ConsumeInferenceResult(m))
         /\ [](Deliverable(m) => ENABLED <<ConsumeInferenceResult(m)>>_vars)
         => Delivered(m)
  BY PTL DEF Delivered

\* BridgedReachesL2 from a fair sequencer, with the ENABLED of its fairness
\* written out: what a bridge verified on L1 is recorded on L2, by its own
\* message or another's, or the owner stops trusting the bridge.
THEOREM BridgedIsServed ==
  Spec /\ (\A m \in Claims : Delivered(m)) => BridgedReachesL2
<1> SUFFICES ASSUME NEW m \in Claims, m.id # 0
             PROVE  Spec /\ (\A k \in Claims : Delivered(k)) =>
             (m \in inbox ~> IsInferenceVerified(m.id) \/ m.bridge \notin whitelist)
  BY DEF BridgedReachesL2
<1>1. (\A k \in Claims : Delivered(k)) => Delivered(m)
  OBVIOUS
<1>2. Spec /\ Delivered(m) => (m \in inbox ~> Served(m))
  BY MessageServed
<1>3. Served(m) => IsInferenceVerified(m.id) \/ m.bridge \notin whitelist
  BY DEF Served
<1> QED
  BY <1>1, <1>2, <1>3, PTL
============================================================================

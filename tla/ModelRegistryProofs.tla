------------------------- MODULE ModelRegistryProofs ------------------------
(***************************************************************************)
(* Proofs about ModelRegistry, for any requests, names, versions and ids   *)
(* (also colliding ones), with settlement enabled or not: what the table   *)
(* and the answers say of the contract is true, and the contract's maps    *)
(* are write-once.                                                         *)
(***************************************************************************)
EXTENDS ModelRegistry, TLAPS

\* What a handler knows is true because the contract forgets nothing: its
\* mined transaction put its CID there; past the check its model is there; the
\* row it found is still of its name; and a row is inserted by its own request,
\* which is answered with that.
MinedIsThere ==
    \A r \in Registrations :
        tx[r] = "mined" => models[Id(r)] = [cid |-> CidOf[r], by |-> Gateway]
SentOnce ==
    \A r \in Registrations :
        pc[r] \in {"idle", "pinning", "checking", "sending"} => tx[r] = "none"
OwnHash ==
    \A r \in Registrations :
        hash[r] \in Registrations => hash[r] = r /\ tx[r] = "mined"
CheckedIsThere ==
    SettleEnabled => \A r \in Registrations :
        pc[r] \in {"persisting", "updating", "inserting"} => models[Id(r)] # NoRecord
FoundIsNamed ==
    \A r \in Registrations : pc[r] = "updating" => found[r] \in Named(NameOf[r])
RowsAreAnswered == \A q \in InTable : pc[q] = "answered"

\* A row with a transaction's hash has its name and CID; a registered row has
\* a registration of its name that the contract knows, and its own model id is
\* there unless it was a placeholder.
HashesAreMined ==
    \A q \in InTable : \A r \in Registrations : rows[q].hash = r =>
        NameOf[r] = rows[q].name /\ CidOf[r] = rows[q].cid /\ tx[r] = "mined"
RegisteredIsThere ==
    SettleEnabled => \A q \in InTable : rows[q].cid # "pending" =>
        \E p \in Registrations : NameOf[p] = rows[q].name /\ models[Id(p)] # NoRecord
IdIsThere ==
    SettleEnabled => \A q \in InTable : rows[q].version # DefaultVersion =>
        models[IdOf[<<rows[q].name, rows[q].version>>]] # NoRecord

IInv == /\ TypeOK
        /\ MinedIsThere /\ SentOnce /\ OwnHash /\ CheckedIsThere /\ FoundIsNamed
        /\ RowsAreAnswered /\ HashesAreMined /\ RegisteredIsThere /\ IdIsThere
        /\ AnswerIsTrue

----------------------------------------------------------------------------
(* The steps, grouped by what they write                                   *)

\* What each request asks for is among the values of the columns.
LEMMA RequestValues ==
  ASSUME NEW q \in Requests
  PROVE  /\ NameOf[q] \in Names /\ DefaultVersion \in Versions
         /\ q \in Registrations => /\ VersionOf[q] \in Versions
                                   /\ CidOf[q] \in Cids /\ CidOf[q] # "pending"
                                   /\ Id(q) \in ModelIds
<1>1. NameOf[q] \in Names /\ DefaultVersion \in Versions
  BY DEF Names, Versions
<1>2. ASSUME q \in Registrations
      PROVE  VersionOf[q] \in Versions /\ CidOf[q] \in Cids /\ CidOf[q] # "pending"
  BY <1>2, NamesAssumption DEF Versions, Cids
<1>3. ASSUME q \in Registrations PROVE Id(q) \in ModelIds
  BY <1>1, <1>2, <1>3 DEF Id, ModelIds
<1> QED
  BY <1>1, <1>2, <1>3

\* An entry of the contract's registry stays, and the types are kept.
LEMMA ContractStep ==
  ASSUME TypeOK, Contract
  PROVE  /\ IV!TypeOK'
         /\ \A m \in ModelIds : models[m] # NoRecord => models'[m] = models[m]
<1> USE DEF IV!TypeOK, IV!AccessTypeOK, IV!access
<1>1. CASE IV!Administer
  <2>1. UNCHANGED <<models, attestations>>
    BY <1>1 DEF IV!Administer
  <2>2. ASSUME NEW a \in {Gateway} \cup Others \cup {NoRecord},
                    IV!TransferOwnership(a)
        PROVE  IV!AccessTypeOK'
    BY <2>2 DEF TypeOK, IV!TransferOwnership
  <2>3. ASSUME NEW a \in {Gateway} \cup Others, NEW b \in BOOLEAN, IV!SetSettler(a, b)
        PROVE  IV!AccessTypeOK'
    BY <2>3 DEF TypeOK, IV!SetSettler
  <2>4. ASSUME IV!SetPaused PROVE IV!AccessTypeOK'
    BY <2>4 DEF TypeOK, IV!SetPaused
  <2>5. ASSUME NEW a \in {Gateway, NoRecord} \cup Others, IV!NewOwner(a)
        PROVE  IV!AccessTypeOK'
    BY <2>5 DEF TypeOK, IV!NewOwner
  <2>6. ASSUME IV!Accept PROVE IV!AccessTypeOK'
    BY <2>6, <2>5 DEF TypeOK, IV!Accept
  <2>7. IV!AccessTypeOK'
    BY <1>1, <2>2, <2>3, <2>4, <2>5, <2>6 DEF IV!Administer, IV!Admin
  <2> QED
    BY <2>1, <2>7 DEF TypeOK
<1>2. ASSUME NEW a \in Others, NEW m \in ModelIds, NEW h \in OutputHashes,
             IV!SubmitProof(a, m, h)
      PROVE  IV!TypeOK' /\ models' = models
  <2>1. [model |-> m, settler |-> a] \in IV!Attestations
    BY DEF IV!Attestations
  <2> QED
    BY <1>2, <2>1 DEF TypeOK, IV!SubmitProof
<1>3. ASSUME NEW a \in Others, NEW m \in ModelIds, NEW cid \in Cids,
             IV!RegisterModel(a, m, cid)
      PROVE  /\ IV!TypeOK'
             /\ \A n \in ModelIds : models[n] # NoRecord => models'[n] = models[n]
  <2>1. [cid |-> cid, by |-> a] \in IV!Models
    BY DEF IV!Models
  <2> QED
    BY <1>3, <2>1 DEF TypeOK, IV!RegisterModel
<1> QED
  BY <1>1, <1>2, <1>3 DEF Contract, IV!Administer

\* A step of a handler leaves the contract alone; MineTx writes the model.
LEMMA ContractKept ==
  ASSUME IV!TypeOK, UNCHANGED contract
  PROVE  IV!TypeOK' /\ models' = models
  BY DEF contract, IV!TypeOK, IV!AccessTypeOK

LEMMA MineStep ==
  ASSUME TypeOK, NEW r \in Registrations, MineTx(r)
  PROVE  /\ TypeOK'
         /\ models[Id(r)] = NoRecord
         /\ models' = [models EXCEPT ![Id(r)] = [cid |-> CidOf[r], by |-> Gateway]]
<1>1. Id(r) \in ModelIds /\ [cid |-> CidOf[r], by |-> Gateway] \in IV!Models
  BY RequestValues DEF Requests, IV!Models
<1>2. IV!TypeOK'
  BY <1>1 DEF TypeOK, MineTx, IV!RegisterModel, IV!TypeOK, IV!AccessTypeOK, IV!access
<1> QED
  BY <1>1, <1>2 DEF TypeOK, MineTx, IV!RegisterModel, OffGateway, handlers, TxStates

\* Rows that are stored are rows.
LEMMA RowTypes ==
  ASSUME NEW n \in Names, NEW v \in Versions, NEW c \in Cids \cup {"pending"},
         NEW h \in OnChainHashes
  PROVE  /\ Row(n, v, c, h) \in Rows /\ Row(n, v, c, h) # NoRecord
         /\ Row(n, v, c, h).name = n /\ Row(n, v, c, h).version = v
         /\ Row(n, v, c, h).cid = c /\ Row(n, v, c, h).hash = h
  BY NamesAssumption DEF Row, Rows

LEMMA RowParts ==
  ASSUME NEW row \in Rows
  PROVE  /\ row.name \in Names /\ row.version \in Versions
         /\ row.cid \in Cids \cup {"pending"} /\ row.hash \in OnChainHashes
  BY DEF Rows

\* Every step is one of these.
LEMMA NextSplit ==
  ASSUME Next
  PROVE  \/ \E j \in JobRequests : UpsertFound(j) \/ UpsertNotFound(j) \/ UpsertInsert(j)
         \/ \E r \in Registrations :
               \/ LookUp(r) \/ Pin(r) \/ CheckRegistered(r) \/ SendTx(r)
               \/ Receipt(r) \/ FindRow(r) \/ UpdateRow(r) \/ InsertRow(r)
               \/ MineTx(r) \/ RevertTx(r)
         \/ \E q \in Requests : Fail(q)
         \/ Contract
  BY DEF Next, SubmitJob, Register

\* What a step may do to the table, and to the contract's registry.
RowsStay == \A q \in InTable :
    /\ rows'[q] # NoRecord
    /\ rows'[q].name = rows[q].name /\ rows'[q].version = rows[q].version
    /\ rows[q].cid # "pending" => rows'[q].cid # "pending"
ModelsStay == \A m \in ModelIds : models[m] # NoRecord => models'[m] = models[m]

----------------------------------------------------------------------------
\* A step that inserts a row of request q.
LEMMA InsertStep ==
  ASSUME IInv, NEW q \in Requests,
         NEW v \in Versions, NEW c \in Cids \cup {"pending"}, NEW h \in OnChainHashes,
         Insert(q, Row(NameOf[q], v, c, h)),
         q \notin Registrations =>
            v = DefaultVersion /\ c = "pending" /\ h = "pending",
         q \in Registrations => v = VersionOf[q] /\ c = CidOf[q] /\ h = hash[q]
  PROVE  IInv' /\ RowsStay /\ ModelsStay
<1> DEFINE row == Row(NameOf[q], v, c, h)
<1>1. /\ row \in Rows /\ row # NoRecord /\ row.name = NameOf[q]
      /\ row.version = v /\ row.cid = c /\ row.hash = h
  <2>1. NameOf[q] \in Names
    BY RequestValues
  <2> QED
    BY <2>1, NamesAssumption DEF Row, Rows
<1>2. /\ pc[q] = "inserting" /\ pc' = [pc EXCEPT ![q] = "answered"]
      /\ outcome' = [outcome EXCEPT ![q] = IF q \in JobRequests THEN "accepted"
                                                                ELSE "created"]
      /\ rows' = [rows EXCEPT ![q] = row]
      /\ UNCHANGED <<contract, hash, found, tx>>
  BY DEF Insert, Answer, Goto
<1> HIDE DEF row
<1>3. TypeOK'
  BY <1>1, <1>2, ContractKept DEF IInv, TypeOK, Steps, Outcomes
<1>4. rows[q] = NoRecord
  BY <1>2 DEF IInv, RowsAreAnswered, InTable
<1>5. InTable' = InTable \cup {q} /\ \A p \in InTable : rows'[p] = rows[p]
  BY <1>1, <1>2, <1>4 DEF InTable, IInv, TypeOK
<1>6. RowsStay /\ ModelsStay
  BY <1>5, <1>2 DEF RowsStay, ModelsStay, InTable, contract
<1>7. MinedIsThere' /\ SentOnce' /\ OwnHash' /\ CheckedIsThere' /\ RowsAreAnswered'
  BY <1>2, <1>5 DEF IInv, TypeOK, contract, MinedIsThere, SentOnce, OwnHash, CheckedIsThere,
                    RowsAreAnswered, InTable
<1>8. FoundIsNamed'
  BY <1>2, <1>5 DEF IInv, TypeOK, FoundIsNamed, Named
<1>9. HashesAreMined'
  <2>1. q \in Registrations => rows'[q].cid = CidOf[q] /\ rows'[q].hash = hash[q]
    BY <1>1, <1>2 DEF IInv, TypeOK
  <2>2. q \notin Registrations => rows'[q].hash \notin Registrations
    BY <1>1, <1>2, NamesAssumption DEF IInv, TypeOK, Words
  <2>3. rows'[q].name = NameOf[q]
    BY <1>1, <1>2 DEF IInv, TypeOK
  <2> QED
    BY <1>2, <1>5, <2>1, <2>2, <2>3 DEF IInv, HashesAreMined, OwnHash
<1>10. RegisteredIsThere'
  <2>1. SettleEnabled /\ q \in Registrations => models[Id(q)] # NoRecord
    BY <1>2 DEF IInv, CheckedIsThere
  <2>2. rows'[q].name = NameOf[q] /\ rows'[q].cid = c
    BY <1>1, <1>2 DEF IInv, TypeOK
  <2> QED
    BY <1>2, <1>5, <2>1, <2>2 DEF IInv, RegisteredIsThere, contract
<1>11. IdIsThere'
  <2>1. SettleEnabled /\ q \in Registrations => models[Id(q)] # NoRecord
    BY <1>2 DEF IInv, CheckedIsThere
  <2>2. rows'[q].name = NameOf[q] /\ rows'[q].version = v
    BY <1>1, <1>2 DEF IInv, TypeOK
  <2> QED
    BY <1>2, <1>5, <2>1, <2>2 DEF IInv, IdIsThere, Id, contract
<1>12. AnswerIsTrue'
  <2>1. CASE q \in JobRequests
    BY <2>1, <1>2, <1>5, NamesAssumption
       DEF IInv, TypeOK, AnswerIsTrue, Named, contract, Requests
  <2>2. CASE q \in Registrations
    <3>1. SettleEnabled => models[Id(q)] # NoRecord
      BY <1>2, <2>2 DEF IInv, CheckedIsThere
    <3>2. q \in Named(NameOf[q])' /\ rows'[q].cid # "pending"
      BY <1>1, <1>2, <1>5, <2>2, RequestValues DEF IInv, TypeOK, Named
    <3> QED
      BY <3>1, <3>2, <1>2, <1>5, <2>2, NamesAssumption
         DEF IInv, TypeOK, AnswerIsTrue, Named, contract
  <2> QED
    BY <2>1, <2>2 DEF Requests
<1> QED
  BY <1>3, <1>6, <1>7, <1>8, <1>9, <1>10, <1>11, <1>12 DEF IInv

\* A step that answers request q and writes nothing.
LEMMA AnswerStep ==
  ASSUME IInv, NEW q \in Requests, NEW s \in Steps \ {"answered"}, NEW what \in Outcomes,
         Answer(q, s, what), UNCHANGED rows,
         what # "created",
         q \in Registrations /\ what = "partial" =>
            SettleEnabled /\ s \in {"persisting", "updating", "inserting"},
         q \in Registrations /\ what = "conflict" =>
            \E p \in Named(NameOf[q]) : rows[p].cid # "pending"
  PROVE  IInv' /\ RowsStay /\ ModelsStay
<1>1. /\ pc[q] = s /\ pc' = [pc EXCEPT ![q] = "answered"]
      /\ outcome' = [outcome EXCEPT ![q] = what]
      /\ UNCHANGED <<contract, hash, found, tx, rows>>
  BY DEF Answer, Goto
<1>2. TypeOK'
  BY <1>1, ContractKept DEF IInv, TypeOK, Steps
<1>3. RowsStay /\ ModelsStay
  BY <1>1 DEF RowsStay, ModelsStay, InTable, contract
<1>4. /\ MinedIsThere' /\ SentOnce' /\ OwnHash' /\ CheckedIsThere' /\ FoundIsNamed'
      /\ RowsAreAnswered' /\ HashesAreMined' /\ RegisteredIsThere' /\ IdIsThere'
  BY <1>1 DEF IInv, TypeOK, contract, MinedIsThere, SentOnce, OwnHash, CheckedIsThere, FoundIsNamed,
              RowsAreAnswered, HashesAreMined, RegisteredIsThere, IdIsThere, InTable, Named
<1>5. AnswerIsTrue'
  <2>1. q \in Registrations /\ what = "partial" => models[Id(q)] # NoRecord
    BY <1>1 DEF IInv, CheckedIsThere
  <2>2. SettleEnabled /\ q \in Registrations /\ what = "conflict" =>
           \E p \in Registrations : NameOf[p] = NameOf[q] /\ models[Id(p)] # NoRecord
    BY DEF IInv, RegisteredIsThere, Named
  <2> QED
    BY <1>1, <2>1, <2>2 DEF IInv, TypeOK, AnswerIsTrue, Named, InTable, contract
<1> QED
  BY <1>2, <1>3, <1>4, <1>5 DEF IInv

\* A step of request q's handler on its way: what it learns is what is left to
\* show, the table, the contract and the answers being as before.
LEMMA WalkStep ==
  ASSUME IInv, NEW q \in Requests, NEW to \in Steps, pc[q] # "answered",
         pc' = [pc EXCEPT ![q] = to],
         UNCHANGED <<contract, rows, outcome>>, TypeOK',
         MinedIsThere', SentOnce', OwnHash', CheckedIsThere', FoundIsNamed', HashesAreMined'
  PROVE  IInv' /\ RowsStay /\ ModelsStay
<1>1. RowsStay /\ ModelsStay
  BY DEF RowsStay, ModelsStay, InTable, contract
<1>2. RowsAreAnswered' /\ RegisteredIsThere' /\ IdIsThere' /\ AnswerIsTrue'
  BY DEF IInv, TypeOK, contract, RowsAreAnswered, RegisteredIsThere, IdIsThere,
         AnswerIsTrue, InTable, Named
<1> QED
  BY <1>1, <1>2 DEF IInv

LEMMA LookUpStep ==
  ASSUME IInv, NEW r \in Registrations, LookUp(r)
  PROVE  IInv' /\ RowsStay /\ ModelsStay
<1>1. CASE /\ \E q \in Named(NameOf[r]) : rows[q].cid # "pending"
           /\ Answer(r, "idle", "conflict") /\ UNCHANGED rows
  BY <1>1, AnswerStep DEF Steps, Outcomes, Requests
<1>2. CASE Goto(r, "idle", "pinning") /\ OnlyHandlers /\ UNCHANGED <<outcome, hash, found>>
  <2>1. pc[r] = "idle" /\ pc' = [pc EXCEPT ![r] = "pinning"]
    BY <1>2 DEF Goto
  <2>2. UNCHANGED <<contract, tx, rows, outcome, hash, found>>
    BY <1>2 DEF OnlyHandlers
  <2>3. TypeOK'
    BY <2>1, <2>2, ContractKept DEF IInv, TypeOK, Steps
  <2>4. MinedIsThere' /\ SentOnce' /\ OwnHash' /\ CheckedIsThere' /\ FoundIsNamed' /\ HashesAreMined'
    BY <2>1, <2>2 DEF IInv, TypeOK, contract, MinedIsThere, SentOnce, OwnHash, CheckedIsThere,
                      FoundIsNamed, HashesAreMined, InTable, Named
  <2> QED
    BY <2>1, <2>2, <2>3, <2>4, WalkStep DEF Steps, Requests
<1> QED
  BY <1>1, <1>2 DEF LookUp

LEMMA UpsertNotFoundStep ==
  ASSUME IInv, NEW j \in JobRequests, UpsertNotFound(j)
  PROVE  IInv' /\ RowsStay /\ ModelsStay
<1>1. pc[j] = "idle" /\ pc' = [pc EXCEPT ![j] = "inserting"]
  BY DEF UpsertNotFound, Goto
<1>2. UNCHANGED <<contract, tx, rows, outcome, hash, found>>
  BY DEF UpsertNotFound, OnlyHandlers
<1>3. TypeOK'
  BY <1>1, <1>2, ContractKept DEF IInv, TypeOK, Steps
<1>4. MinedIsThere' /\ SentOnce' /\ OwnHash' /\ CheckedIsThere' /\ FoundIsNamed' /\ HashesAreMined'
  BY <1>1, <1>2, NamesAssumption
     DEF IInv, TypeOK, contract, MinedIsThere, SentOnce, OwnHash, CheckedIsThere,
         FoundIsNamed, HashesAreMined, InTable, Named
<1> QED
  BY <1>1, <1>2, <1>3, <1>4, WalkStep DEF Steps, Requests

LEMMA PinStep ==
  ASSUME IInv, NEW r \in Registrations, Pin(r)
  PROVE  IInv' /\ RowsStay /\ ModelsStay
<1> DEFINE to == IF SettleEnabled THEN "checking" ELSE "persisting"
<1>1. /\ pc[r] = "pinning" /\ pc' = [pc EXCEPT ![r] = to] /\ to \in Steps
      /\ hash' = [hash EXCEPT ![r] = IF SettleEnabled THEN @ ELSE "settlement-disabled"]
      /\ UNCHANGED <<contract, tx, rows, outcome, found>>
  BY DEF Pin, Goto, OnlyHandlers, Steps
<1>2. SettleEnabled => to = "checking"
  OBVIOUS
<1>3. to # "updating"
  OBVIOUS
<1> HIDE DEF to
<1>4. TypeOK'
  BY <1>1, ContractKept DEF IInv, TypeOK, OnChainHashes, Words
<1>5. MinedIsThere' /\ SentOnce' /\ CheckedIsThere' /\ FoundIsNamed' /\ HashesAreMined'
  BY <1>1, <1>2, <1>3
     DEF IInv, TypeOK, contract, MinedIsThere, SentOnce, CheckedIsThere,
         FoundIsNamed, HashesAreMined, InTable, Named
<1>6. OwnHash'
  BY <1>1, NamesAssumption DEF IInv, TypeOK, OwnHash, Words
<1> QED
  BY <1>1, <1>4, <1>5, <1>6, WalkStep DEF Requests

LEMMA CheckRegisteredStep ==
  ASSUME IInv, NEW r \in Registrations, CheckRegistered(r)
  PROVE  IInv' /\ RowsStay /\ ModelsStay
<1>1. PICK to \in {"persisting", "sending"} :
        /\ pc[r] = "checking" /\ pc' = [pc EXCEPT ![r] = to]
        /\ to = "persisting" => models[Id(r)] # NoRecord
        /\ hash' = [hash EXCEPT ![r] = IF to = "persisting" THEN "already-registered" ELSE @]
        /\ UNCHANGED <<contract, tx, rows, outcome, found>>
  <2>1. CASE models[Id(r)] # NoRecord
    BY <2>1 DEF CheckRegistered, Goto, OnlyHandlers
  <2>2. CASE models[Id(r)] = NoRecord
    BY <2>2 DEF CheckRegistered, Goto, OnlyHandlers, IInv, TypeOK
  <2> QED
    BY <2>1, <2>2
<1>2. TypeOK'
  BY <1>1, ContractKept DEF IInv, TypeOK, OnChainHashes, Words, Steps
<1>3. MinedIsThere' /\ SentOnce' /\ CheckedIsThere' /\ FoundIsNamed' /\ HashesAreMined'
  BY <1>1 DEF IInv, TypeOK, contract, MinedIsThere, SentOnce, CheckedIsThere,
              FoundIsNamed, HashesAreMined, InTable, Named
<1>4. OwnHash'
  BY <1>1, NamesAssumption DEF IInv, TypeOK, OwnHash, Words
<1> QED
  BY <1>1, <1>2, <1>3, <1>4, WalkStep DEF Steps, Requests

LEMMA SendTxStep ==
  ASSUME IInv, NEW r \in Registrations, SendTx(r)
  PROVE  IInv' /\ RowsStay /\ ModelsStay
<1>1. /\ pc[r] = "sending" /\ pc' = [pc EXCEPT ![r] = "confirming"]
      /\ tx' = [tx EXCEPT ![r] = "pending"]
      /\ UNCHANGED <<contract, rows, outcome, hash, found>>
  BY DEF SendTx, Goto
<1>2. TypeOK'
  BY <1>1, ContractKept DEF IInv, TypeOK, Steps, TxStates
<1>3. CheckedIsThere' /\ FoundIsNamed' /\ MinedIsThere' /\ SentOnce'
  BY <1>1 DEF IInv, TypeOK, contract, MinedIsThere, SentOnce, CheckedIsThere, FoundIsNamed,
              InTable, Named, Requests
<1>4. OwnHash' /\ HashesAreMined'
  BY <1>1 DEF IInv, TypeOK, SentOnce, OwnHash, HashesAreMined, InTable
<1> QED
  BY <1>1, <1>2, <1>3, <1>4, WalkStep DEF Steps, Requests

LEMMA ReceiptStep ==
  ASSUME IInv, NEW r \in Registrations, Receipt(r)
  PROVE  IInv' /\ RowsStay /\ ModelsStay
<1>1. /\ tx[r] = "mined"
      /\ pc[r] = "confirming" /\ pc' = [pc EXCEPT ![r] = "persisting"]
      /\ hash' = [hash EXCEPT ![r] = r]
      /\ UNCHANGED <<contract, tx, rows, outcome, found>>
  BY DEF Receipt, Goto, OnlyHandlers
<1>2. TypeOK'
  BY <1>1, ContractKept DEF IInv, TypeOK, Steps, OnChainHashes
<1>3. FoundIsNamed' /\ MinedIsThere' /\ SentOnce' /\ HashesAreMined' /\ OwnHash'
  BY <1>1 DEF IInv, TypeOK, contract, MinedIsThere, SentOnce, FoundIsNamed, OwnHash,
              HashesAreMined, InTable, Named
<1>4. models[Id(r)] # NoRecord
  <2>1. [cid |-> CidOf[r], by |-> Gateway] \in IV!Models
    BY RequestValues DEF IV!Models, Requests
  <2> QED
    BY <1>1, <2>1, NamesAssumption DEF IInv, MinedIsThere
<1>5. CheckedIsThere'
  BY <1>1, <1>4 DEF IInv, TypeOK, contract, CheckedIsThere
<1> QED
  BY <1>1, <1>2, <1>3, <1>5, WalkStep DEF Steps, Requests

LEMMA FindRowStep ==
  ASSUME IInv, NEW r \in Registrations, FindRow(r)
  PROVE  IInv' /\ RowsStay /\ ModelsStay
<1>1. PICK to \in {"updating", "inserting"} :
        /\ pc[r] = "persisting" /\ pc' = [pc EXCEPT ![r] = to]
        /\ \/ to = "inserting" /\ UNCHANGED found
           \/ /\ to = "updating"
              /\ \E q \in Named(NameOf[r]) : found' = [found EXCEPT ![r] = q]
        /\ UNCHANGED <<contract, tx, rows, outcome, hash>>
  BY DEF FindRow, Goto, OnlyHandlers
<1>2. TypeOK'
  BY <1>1, ContractKept DEF IInv, TypeOK, Steps, Named, InTable
<1>3. FoundIsNamed'
  BY <1>1 DEF IInv, TypeOK, FoundIsNamed, Named, InTable, Requests
<1>4. MinedIsThere' /\ SentOnce' /\ HashesAreMined' /\ OwnHash' /\ CheckedIsThere'
  BY <1>1 DEF IInv, TypeOK, contract, MinedIsThere, SentOnce, OwnHash, CheckedIsThere,
              HashesAreMined, InTable
<1> QED
  BY <1>1, <1>2, <1>3, <1>4, WalkStep DEF Steps, Requests

\* The row that was found gets the registration's CID and hash.
LEMMA UpdateRowStep ==
  ASSUME IInv, NEW r \in Registrations, UpdateRow(r)
  PROVE  IInv' /\ RowsStay /\ ModelsStay
<1> DEFINE q   == found[r]
           row == Row(rows[q].name, rows[q].version, CidOf[r], hash[r])
<1>1. /\ pc[r] = "updating" /\ pc' = [pc EXCEPT ![r] = "answered"]
      /\ outcome' = [outcome EXCEPT ![r] = "created"]
      /\ rows' = [rows EXCEPT ![q] = row]
      /\ UNCHANGED <<contract, hash, found, tx>>
  BY DEF UpdateRow, Answer, Goto
<1>2. q \in InTable /\ rows[q] \in Rows /\ rows[q].name = NameOf[r] /\ pc[q] = "answered"
  BY <1>1 DEF IInv, TypeOK, FoundIsNamed, Named, InTable, RowsAreAnswered
<1>3. /\ row \in Rows /\ row # NoRecord
      /\ row.name = rows[q].name /\ row.version = rows[q].version
      /\ row.cid = CidOf[r] /\ row.hash = hash[r]
  <2>1. CidOf[r] \in Cids /\ hash[r] \in OnChainHashes
    BY RequestValues DEF IInv, TypeOK, Requests
  <2>2. rows[q].name \in Names /\ rows[q].version \in Versions
    BY <1>2, RowParts
  <2> QED
    BY <2>1, <2>2, RowTypes
<1>4. CidOf[r] # "pending"
  BY RequestValues DEF Requests
<1> HIDE DEF row
<1>5. TypeOK'
  BY <1>1, <1>2, <1>3, ContractKept DEF IInv, TypeOK, Steps, Outcomes, InTable
<1>6. /\ InTable' = InTable /\ rows'[q] = row
      /\ \A p \in InTable \ {q} : rows'[p] = rows[p]
  BY <1>1, <1>2, <1>3 DEF InTable, IInv, TypeOK
<1>7. RowsStay /\ ModelsStay
  BY <1>1, <1>3, <1>4, <1>6 DEF RowsStay, ModelsStay, contract, InTable
<1>8. \A n \in Names : Named(n)' = Named(n)
  BY <1>2, <1>3, <1>6 DEF Named
<1>9. MinedIsThere' /\ SentOnce' /\ OwnHash' /\ CheckedIsThere' /\ RowsAreAnswered'
  BY <1>1, <1>6 DEF IInv, TypeOK, contract, MinedIsThere, SentOnce, OwnHash, CheckedIsThere,
                    RowsAreAnswered
<1>10. FoundIsNamed'
  BY <1>1, <1>8, RequestValues DEF IInv, TypeOK, FoundIsNamed, Requests
<1>11. HashesAreMined'
  BY <1>1, <1>2, <1>3, <1>6 DEF IInv, HashesAreMined, OwnHash
<1>12. SettleEnabled => models[Id(r)] # NoRecord
  BY <1>1 DEF IInv, CheckedIsThere
<1>13. RegisteredIsThere'
  BY <1>1, <1>2, <1>3, <1>6, <1>12 DEF IInv, RegisteredIsThere, contract
<1>14. IdIsThere'
  BY <1>1, <1>3, <1>6 DEF IInv, IdIsThere, contract
<1>15. AnswerIsTrue'
  <2>1. q \in Named(NameOf[r])' /\ rows'[q].cid # "pending"
    BY <1>2, <1>3, <1>4, <1>6 DEF Named
  <2>2. \A p \in Registrations : \A o \in Named(NameOf[p]) :
           rows[o].cid # "pending" => o \in Named(NameOf[p])' /\ rows'[o].cid # "pending"
    BY <1>7, <1>6 DEF RowsStay, Named
  <2>3. \A p \in Registrations \ {r} : outcome'[p] = outcome[p]
    BY <1>1 DEF IInv, TypeOK, Requests
  <2>4. outcome'[r] = "created"
    BY <1>1 DEF IInv, TypeOK, Requests
  <2> QED
    BY <1>1, <1>12, <2>1, <2>2, <2>3, <2>4 DEF IInv, AnswerIsTrue, contract
<1> QED
  BY <1>5, <1>7, <1>9, <1>10, <1>11, <1>13, <1>14, <1>15 DEF IInv

\* A registration is recorded on the contract, or refused.
LEMMA ChainStep ==
  ASSUME IInv, TypeOK', ModelsStay, UNCHANGED <<handlers, rows>>,
         MinedIsThere',
         \A p \in Registrations : tx'[p] = tx[p] \/ tx[p] = "pending"
  PROVE  IInv' /\ RowsStay /\ ModelsStay
<1>1. UNCHANGED <<pc, outcome, hash, found, rows>>
  BY DEF handlers
<1>2. \A p \in Registrations : models[Id(p)] # NoRecord => models'[Id(p)] # NoRecord
  BY RequestValues DEF ModelsStay, Requests
<1>3. \A p \in Registrations : /\ tx[p] = "mined" => tx'[p] = "mined"
                               /\ tx[p] = "none" => tx'[p] = "none"
  OBVIOUS
<1>4. SentOnce' /\ OwnHash' /\ CheckedIsThere' /\ FoundIsNamed' /\ RowsAreAnswered'
  BY <1>1, <1>2, <1>3 DEF IInv, SentOnce, OwnHash, CheckedIsThere, FoundIsNamed,
                          RowsAreAnswered, InTable, Named
<1>5. HashesAreMined' /\ RegisteredIsThere'
  BY <1>1, <1>2, <1>3 DEF IInv, HashesAreMined, RegisteredIsThere, InTable
<1>6. IdIsThere'
  <2>1. \A q \in InTable : IdOf[<<rows[q].name, rows[q].version>>] \in ModelIds
    BY RowParts DEF IInv, TypeOK, InTable, ModelIds
  <2> QED
    BY <1>1, <2>1 DEF IInv, IdIsThere, ModelsStay, InTable
<1>7. AnswerIsTrue'
  BY <1>1, <1>2 DEF IInv, AnswerIsTrue, Named, InTable
<1> QED
  BY <1>1, <1>4, <1>5, <1>6, <1>7 DEF IInv, RowsStay, InTable

LEMMA NetworkSteps ==
  ASSUME IInv, Contract \/ \E r \in Registrations : MineTx(r) \/ RevertTx(r)
  PROVE  IInv' /\ RowsStay /\ ModelsStay
<1>1. CASE Contract
  <2>1. UNCHANGED <<handlers, rows, tx>> /\ IV!TypeOK' /\ ModelsStay
    BY <1>1, ContractStep DEF Contract, OffGateway, IInv, ModelsStay
  <2>2. TypeOK'
    BY <2>1 DEF IInv, TypeOK, handlers
  <2>3. MinedIsThere'
    <3>1. \A r \in Registrations :
             Id(r) \in ModelIds /\ [cid |-> CidOf[r], by |-> Gateway] # NoRecord
      BY RequestValues, NamesAssumption DEF IV!Models, Requests
    <3> QED
      BY <2>1, <3>1 DEF IInv, MinedIsThere, ModelsStay
  <2> QED
    BY <2>1, <2>2, <2>3, ChainStep
<1>2. ASSUME NEW r \in Registrations, MineTx(r) PROVE IInv' /\ RowsStay /\ ModelsStay
  <2>1. /\ TypeOK' /\ models[Id(r)] = NoRecord
        /\ models' = [models EXCEPT ![Id(r)] = [cid |-> CidOf[r], by |-> Gateway]]
        /\ tx[r] = "pending" /\ tx' = [tx EXCEPT ![r] = "mined"]
        /\ UNCHANGED <<handlers, rows>>
    BY <1>2, MineStep DEF MineTx, OffGateway, IInv
  <2>2. ModelsStay
    BY <2>1 DEF ModelsStay, IInv, TypeOK, IV!TypeOK
  <2>3. MinedIsThere'
    <3>1. \A p \in Registrations :
             Id(p) \in ModelIds /\ [cid |-> CidOf[p], by |-> Gateway] # NoRecord
      BY RequestValues, NamesAssumption DEF IV!Models, Requests
    <3> QED
      BY <2>1, <2>2, <3>1 DEF IInv, TypeOK, IV!TypeOK, MinedIsThere, ModelsStay
  <2>4. \A p \in Registrations : tx'[p] = tx[p] \/ tx[p] = "pending"
    BY <2>1 DEF IInv, TypeOK
  <2> QED
    BY <2>1, <2>2, <2>3, <2>4, ChainStep
<1>3. ASSUME NEW r \in Registrations, RevertTx(r) PROVE IInv' /\ RowsStay /\ ModelsStay
  <2>1. /\ tx[r] = "pending" /\ tx' = [tx EXCEPT ![r] = "reverted"]
        /\ UNCHANGED <<contract, handlers, rows>>
    BY <1>3 DEF RevertTx, OffGateway
  <2>2. TypeOK' /\ models' = models
    BY <2>1, ContractKept DEF IInv, TypeOK, handlers, TxStates
  <2>3. MinedIsThere' /\ ModelsStay
    BY <2>1, <2>2 DEF IInv, TypeOK, MinedIsThere, ModelsStay
  <2>4. \A p \in Registrations : tx'[p] = tx[p] \/ tx[p] = "pending"
    BY <2>1 DEF IInv, TypeOK
  <2> QED
    BY <2>1, <2>2, <2>3, <2>4, ChainStep
<1> QED
  BY <1>1, <1>2, <1>3

LEMMA FailStep ==
  ASSUME IInv, NEW q \in Requests, Fail(q)
  PROVE  IInv' /\ RowsStay /\ ModelsStay
<1>1. PICK s \in Steps \ {"answered"}, what \in {"error", "partial"} :
        /\ Answer(q, s, what) /\ UNCHANGED rows
        /\ q \in Registrations /\ what = "partial" =>
              SettleEnabled /\ s \in {"persisting", "updating", "inserting"}
  BY DEF Fail, NotStored, Steps
<1> QED
  BY <1>1, AnswerStep DEF Outcomes

LEMMA InsertSteps ==
  ASSUME IInv, \/ \E j \in JobRequests : UpsertInsert(j)
               \/ \E r \in Registrations : InsertRow(r)
  PROVE  IInv' /\ RowsStay /\ ModelsStay
<1>1. ASSUME NEW j \in JobRequests, UpsertInsert(j) PROVE IInv' /\ RowsStay /\ ModelsStay
  <2>1. j \in Requests /\ j \notin Registrations /\ DefaultVersion \in Versions
    BY RequestValues, NamesAssumption DEF Requests
  <2>2. "pending" \in OnChainHashes
    BY DEF OnChainHashes, Words
  <2> QED
    BY <1>1, <2>1, <2>2, InsertStep DEF UpsertInsert
<1>2. ASSUME NEW r \in Registrations, InsertRow(r) PROVE IInv' /\ RowsStay /\ ModelsStay
  <2>1. /\ r \in Requests /\ VersionOf[r] \in Versions
        /\ CidOf[r] \in Cids /\ hash[r] \in OnChainHashes
    BY RequestValues DEF Requests, IInv, TypeOK
  <2> QED
    BY <1>2, <2>1, InsertStep DEF InsertRow
<1> QED
  BY <1>1, <1>2

LEMMA UpsertFoundStep ==
  ASSUME IInv, NEW j \in JobRequests, UpsertFound(j)
  PROVE  IInv' /\ RowsStay /\ ModelsStay
<1>1. j \in Requests /\ j \notin Registrations
  BY NamesAssumption DEF Requests
<1> QED
  BY <1>1, AnswerStep DEF UpsertFound, Steps, Outcomes

LEMMA InvStep ==
  ASSUME IInv, Next
  PROVE  IInv' /\ RowsStay /\ ModelsStay
  BY NextSplit, UpsertFoundStep, UpsertNotFoundStep, InsertSteps, LookUpStep, PinStep,
     CheckRegisteredStep, SendTxStep, ReceiptStep, FindRowStep, UpdateRowStep,
     NetworkSteps, FailStep

LEMMA InitInv == Init => IInv
<1> SUFFICES ASSUME Init PROVE IInv
  OBVIOUS
<1>1. TypeOK
  BY DEF Init, IV!Init, IV!AccessInit, TypeOK, IV!TypeOK, IV!AccessTypeOK, Steps, Outcomes,
         OnChainHashes, Words, TxStates
<1>2. InTable = {}
  BY DEF Init, InTable
<1>3. MinedIsThere /\ SentOnce /\ OwnHash /\ CheckedIsThere /\ FoundIsNamed /\ AnswerIsTrue
  BY NamesAssumption DEF Init, Words, Requests, MinedIsThere, SentOnce, OwnHash,
                         CheckedIsThere, FoundIsNamed, AnswerIsTrue
<1> QED
  BY <1>1, <1>2, <1>3 DEF IInv, RowsAreAnswered, HashesAreMined, RegisteredIsThere,
                         IdIsThere

THEOREM InvariantHolds == Spec => []IInv
<1>1. IInv /\ [Next]_vars => IInv'
  <2>1. CASE UNCHANGED vars
    BY <2>1 DEF vars, contract, handlers, IInv, TypeOK, IV!TypeOK, IV!AccessTypeOK,
       MinedIsThere, SentOnce, OwnHash, CheckedIsThere, FoundIsNamed, RowsAreAnswered,
       HashesAreMined, RegisteredIsThere, IdIsThere, AnswerIsTrue, InTable, Named
  <2> QED
    BY <2>1, InvStep
<1> QED
  BY InitInv, <1>1, PTL DEF Spec

----------------------------------------------------------------------------
\* Requests, contract and table hold values of their types.
THEOREM TypeCorrect == Spec => []TypeOK
<1>1. IInv => TypeOK
  BY DEF IInv
<1> QED
  BY InvariantHolds, <1>1, PTL

\* A transaction hash in a row is of the transaction that put the row's CID on
\* the contract, and the row's model id is there unless it is a placeholder's,
\* however the handlers interleave.
THEOREM HashesAreOfCids == Spec => []HashIsOfCid
<1>1. IInv => HashIsOfCid
  BY DEF IInv, HashesAreMined, MinedIsThere, IdIsThere, HashIsOfCid
<1> QED
  BY InvariantHolds, <1>1, PTL

\* What clients of POST /v1/models are told is true from then on.
THEOREM AnswersTrue == Spec => []AnswerIsTrue
<1>1. IInv => AnswerIsTrue
  BY DEF IInv
<1> QED
  BY InvariantHolds, <1>1, PTL

\* Rows keep their name and version, and registered rows stay registered.
THEOREM RowsStayRegistered == Spec => RegisteredStays
<1>1. IInv /\ [Next]_vars => [RowsStay]_vars
  BY InvStep
<1>2. IInv /\ [Next]_vars =>
        [\A q \in InTable :
            /\ rows'[q] # NoRecord
            /\ rows'[q].name = rows[q].name /\ rows'[q].version = rows[q].version
            /\ rows[q].cid # "pending" => rows'[q].cid # "pending"]_vars
  BY <1>1 DEF RowsStay
<1> QED
  BY InvariantHolds, <1>2, PTL DEF Spec, RegisteredStays

\* The contract's registry of models is a write-once ledger.
THEOREM ModelsAreWrittenOnce == Spec => ModelsWriteOnce
<1>1. Init => ModelLedger!Init
  BY DEF Init, IV!Init, ModelLedger!Init
<1>2. IInv /\ [Next]_vars => [ModelLedger!Attest]_models
  <2> SUFFICES ASSUME IInv, Next, models' # models PROVE ModelLedger!Attest
    BY DEF vars, contract
  <2>1. IInv' /\ ModelsStay
    BY InvStep
  <2> QED
    BY <2>1 DEF ModelLedger!Attest, ModelLedger!Attested, ModelsStay, IInv, TypeOK, IV!TypeOK
<1> QED
  BY InvariantHolds, <1>1, <1>2, PTL DEF Spec, ModelsWriteOnce, ModelLedger!Spec

\* The attestations are a write-once ledger, too, whoever is owner or settler.
THEOREM OutputsAreWrittenOnce == Spec => OutputsWriteOnce
<1>1. Init => OutputLedger!Init
  BY DEF Init, IV!Init, OutputLedger!Init
<1>2. IInv /\ [Next]_vars => [OutputLedger!Attest]_attestations
  <2> SUFFICES ASSUME IInv, Next, attestations' # attestations
               PROVE  OutputLedger!Attest
    BY DEF vars, contract
  <2>1. IInv'
    BY InvStep
  <2>2. Contract
    BY NextSplit DEF UpsertFound, UpsertNotFound, UpsertInsert, LookUp, Pin, CheckRegistered,
       SendTx, Receipt, FindRow, UpdateRow, InsertRow, MineTx, RevertTx, Fail, Insert, Answer,
       OnlyHandlers, contract, IV!RegisterModel
  <2>3. PICK h \in OutputHashes : \E record : attestations[h] = NoRecord /\
           attestations' = [attestations EXCEPT ![h] = record]
    BY <2>2 DEF Contract, IV!Administer, IV!RegisterModel, IV!SubmitProof
  <2>4. \A k \in OutputHashes : attestations[k] # NoRecord =>
           attestations'[k] = attestations[k]
    BY <2>3 DEF IInv, TypeOK, IV!TypeOK
  <2> QED
    BY <2>1, <2>4 DEF OutputLedger!Attest, OutputLedger!Attested, IInv, TypeOK, IV!TypeOK
<1> QED
  BY InvariantHolds, <1>1, <1>2, PTL DEF Spec, OutputsWriteOnce, OutputLedger!Spec

----------------------------------------------------------------------------
\* Who renounces has withdrawn every offer of the ownership.
NoOffer == owner = NoRecord => pendingOwner = NoRecord

\* Only the functions of ContractAccess touch who may do what.
LEMMA AccessStep ==
  ASSUME [Next]_vars
  PROVE  IV!Admin \/ IV!Accept \/ UNCHANGED IV!access
  BY NextSplit DEF Contract, IV!Administer, IV!RegisterModel, IV!SubmitProof,
     UpsertFound, UpsertNotFound, UpsertInsert, LookUp, Pin, CheckRegistered, SendTx,
     Receipt, FindRow, UpdateRow, InsertRow, MineTx, RevertTx, Fail, Insert, Answer,
     OnlyHandlers, contract, vars, IV!access

\* An InferenceVerifier whose owner renounced it has its last settlers, and stays
\* paused if it was: an offer of the ownership made before is void, whatever
\* requests the gateway still sends.
THEOREM RenouncedIsFinal == Spec => IV!RenouncedForGood
<1>1. Init => NoOffer
  BY DEF Init, IV!Init, IV!AccessInit, NoOffer
<1>2. NoOffer /\ [Next]_vars => NoOffer'
  BY AccessStep DEF NoOffer, IV!Admin, IV!Accept, IV!TransferOwnership, IV!SetSettler,
     IV!SetPaused, IV!NewOwner, IV!access
<1>3. NoOffer /\ [Next]_vars
         => [owner = NoRecord => UNCHANGED IV!access]_(IV!access)
  BY AccessStep DEF NoOffer, IV!Admin, IV!Accept, IV!access
<1> QED
  BY <1>1, <1>2, <1>3, PTL DEF Spec, IV!RenouncedForGood

============================================================================

---------------------------- MODULE ModelRegistry ---------------------------
(***************************************************************************)
(* The models table and the two handlers of crates/gateway/src/main.rs     *)
(* that write it: POST /v1/models, which pins an artifact to IPFS,         *)
(* registers it on InferenceVerifier.sol (Settler::register_model) and     *)
(* stores the outcome, and POST /v1/jobs, which inserts a placeholder for  *)
(* a name it does not find (upsert_model).                                 *)
(*                                                                         *)
(* The table is unique in (name, version), but both handlers look models   *)
(* up by name alone. A handler may end at any of its calls (an error, or a *)
(* restart of the gateway), also while its transaction is pending, and a   *)
(* client may send the request again: that is another request.             *)
(***************************************************************************)
EXTENDS FiniteSets

CONSTANTS
    Registrations, JobRequests,     \* POST /v1/models, POST /v1/jobs
    NameOf, VersionOf, CidOf,       \* of requests; the CID of the artifact
    DefaultVersion,                 \* "0.1.0", of a placeholder
    IdOf,           \* derive_model_id of <<name, version>>: the hash of their
                    \* concatenation, so that two pairs may share an id
    SettleEnabled,                  \* AppState.settle_enabled
    Gateway, Others, OutputHashes,  \* the gateway's account deploys the
    NoRecord                        \* contract; see InferenceVerifier

Requests == Registrations \cup JobRequests
Names    == {NameOf[q] : q \in Requests}
Versions == {VersionOf[r] : r \in Registrations} \cup {DefaultVersion}
Cids     == {CidOf[r] : r \in Registrations}
ModelIds == {IdOf[p] : p \in Names \X Versions}
Id(r)    == IdOf[<<NameOf[r], VersionOf[r]>>]

VARIABLES
    owner, pendingOwner, settlers, paused, models, attestations,   \* contract
    pc,         \* where each request is
    outcome,    \* how it was answered
    hash,       \* the on_chain_hash a registration holds
    found,      \* the row it holds: named by the request that inserted it
    tx,         \* its transaction on the network
    rows        \* the models table

IV == INSTANCE InferenceVerifier WITH
          Accounts <- {Gateway} \cup Others,
          Deployer <- Gateway

contract == <<owner, pendingOwner, settlers, paused, models, attestations>>
handlers == <<pc, outcome, hash, found>>
vars == <<contract, handlers, tx, rows>>

----------------------------------------------------------------------------
Steps == {"idle", "pinning", "checking", "sending", "confirming", "persisting",
          "updating", "inserting", "answered"}
Outcomes == {"none", "created", "conflict", "partial", "accepted", "error"}
\* on_chain_hash: the hash of a registration's transaction, or a word.
Words == {"pending", "already-registered", "settlement-disabled"}
OnChainHashes == Registrations \cup Words
TxStates == {"none", "pending", "mined", "reverted"}
Rows == [name : Names, version : Versions, cid : Cids \cup {"pending"},
         hash : OnChainHashes]
Row(name, version, cid, h) ==
    [name |-> name, version |-> version, cid |-> cid, hash |-> h]

\* A CID and a hash are told from the words that stand in for them.
ASSUME NamesAssumption == /\ Registrations \cap (JobRequests \cup Words) = {}
                          /\ "pending" \notin Cids
                          /\ NoRecord \notin Requests \cup Rows \cup IV!Models

Init == /\ IV!Init
        /\ pc      = [q \in Requests |-> "idle"]
        /\ outcome = [q \in Requests |-> "none"]
        /\ hash    = [r \in Registrations |-> "pending"]
        /\ found   = [q \in Requests |-> NoRecord]
        /\ tx      = [r \in Registrations |-> "none"]
        /\ rows    = [q \in Requests |-> NoRecord]

----------------------------------------------------------------------------
(* The models table                                                        *)

\* repo::find_model_by_name: the first of the rows with the name, in no order.
InTable    == {q \in Requests : rows[q] # NoRecord}
Named(n)   == {q \in InTable : rows[q].name = n}
Unique(row) == \A q \in InTable :
                   <<rows[q].name, rows[q].version>> # <<row.name, row.version>>

Goto(q, from, to) == /\ pc[q] = from
                     /\ pc' = [pc EXCEPT ![q] = to]

Answer(q, from, what) == /\ Goto(q, from, "answered")
                         /\ outcome' = [outcome EXCEPT ![q] = what]
                         /\ UNCHANGED <<contract, hash, found, tx>>

\* repo::insert_model: a (name, version) that is there already is refused, as
\* any call may be (Fail).
Insert(q, row) == /\ Unique(row)
                  /\ rows' = [rows EXCEPT ![q] = row]
                  /\ Answer(q, "inserting", IF q \in JobRequests THEN "accepted"
                                                                 ELSE "created")

----------------------------------------------------------------------------
(* POST /v1/jobs, up to the model's row                                    *)

OnlyHandlers == UNCHANGED <<contract, tx, rows>>

\* Mutant: the row that was found is made a placeholder again.
UpsertResets(j) == \E q \in Named(NameOf[j]) :
                      /\ Answer(j, "idle", "accepted")
                      /\ rows' = [rows EXCEPT ![q].cid = "pending"]

UpsertFound(j) == /\ Named(NameOf[j]) # {}
                  /\ Answer(j, "idle", "accepted") /\ UNCHANGED rows

UpsertNotFound(j) == /\ Named(NameOf[j]) = {}
                     /\ Goto(j, "idle", "inserting")
                     /\ OnlyHandlers /\ UNCHANGED <<outcome, hash, found>>

\* Mutant: the version and the CID of the new row are swapped.
UpsertSwaps(j) ==
    Insert(j, Row(NameOf[j], "pending", DefaultVersion, "pending"))

UpsertInsert(j) ==
    Insert(j, Row(NameOf[j], DefaultVersion, "pending", "pending"))

----------------------------------------------------------------------------
(* POST /v1/models                                                         *)

\* The request is valid and IPFS configured; a row that is not a placeholder
\* is a conflict.
LookUp(r) == \/ \E q \in Named(NameOf[r]) : /\ rows[q].cid # "pending"
                                           /\ Answer(r, "idle", "conflict")
                                           /\ UNCHANGED rows
             \/ /\ \/ Named(NameOf[r]) = {}
                   \/ \E q \in Named(NameOf[r]) : rows[q].cid = "pending"
                /\ Goto(r, "idle", "pinning")
                /\ OnlyHandlers /\ UNCHANGED <<outcome, hash, found>>

\* ipfs.pin_bytes(): the CID is a function of the artifact.
Pin(r) == /\ Goto(r, "pinning", IF SettleEnabled THEN "checking" ELSE "persisting")
          /\ hash' = [hash EXCEPT ![r] = IF SettleEnabled THEN @
                                         ELSE "settlement-disabled"]
          /\ OnlyHandlers /\ UNCHANGED <<outcome, found>>

\* Settler::register_model: isRegisteredModel(), then the transaction, then
\* the receipt, for tx_timeout_secs.
CheckRegistered(r) ==
    /\ IF models[Id(r)] # NoRecord
       THEN /\ Goto(r, "checking", "persisting")
            /\ hash' = [hash EXCEPT ![r] = "already-registered"]
       ELSE Goto(r, "checking", "sending") /\ UNCHANGED hash
    /\ OnlyHandlers /\ UNCHANGED <<outcome, found>>

SendTx(r) == /\ Goto(r, "sending", "confirming")
             /\ tx' = [tx EXCEPT ![r] = "pending"]
             /\ UNCHANGED <<contract, rows, outcome, hash, found>>

\* Mutant: the status in the receipt is not looked at.
ReceiptOfAny(r) == /\ tx[r] \in {"mined", "reverted"}
                   /\ Goto(r, "confirming", "persisting")
                   /\ hash' = [hash EXCEPT ![r] = r]
                   /\ OnlyHandlers /\ UNCHANGED <<outcome, found>>

Receipt(r) == /\ tx[r] = "mined"
              /\ Goto(r, "confirming", "persisting")
              /\ hash' = [hash EXCEPT ![r] = r]
              /\ OnlyHandlers /\ UNCHANGED <<outcome, found>>

\* upsert_registered_model: the lookup, and then the row that was found gets
\* the CID and the hash but keeps its version, or a new row is inserted.
FindRow(r) ==
    /\ \/ \E q \in Named(NameOf[r]) : /\ Goto(r, "persisting", "updating")
                                      /\ found' = [found EXCEPT ![r] = q]
       \/ /\ Named(NameOf[r]) = {}
          /\ Goto(r, "persisting", "inserting")
          /\ UNCHANGED found
    /\ OnlyHandlers /\ UNCHANGED <<outcome, hash>>

\* Mutant: a CID that is there already is kept.
UpdateKeepsCid(r) ==
    /\ Answer(r, "updating", "created")
    /\ rows' = [rows EXCEPT ![found[r]].hash = hash[r],
                            ![found[r]].cid  = IF @ = "pending" THEN CidOf[r] ELSE @]

UpdateRow(r) ==
    /\ Answer(r, "updating", "created")
    /\ LET q == found[r]
       IN rows' = [rows EXCEPT ![q] = Row(rows[q].name, rows[q].version,
                                          CidOf[r], hash[r])]

InsertRow(r) ==
    Insert(r, Row(NameOf[r], VersionOf[r], CidOf[r], hash[r]))

\* The status when Postgres fails, 207 or 500.
NotStored == IF SettleEnabled THEN "partial" ELSE "error"

\* A call fails: to Postgres (or it refuses a second row), to IPFS, to the node
\* (while the transaction may be on its way), or no receipt arrives in time.
Fail(q) == /\ \/ \E s \in {"idle", "pinning", "checking", "sending",
                           "confirming"} : Answer(q, s, "error")
              \/ \E s \in {"persisting", "updating"} : Answer(q, s, NotStored)
              \/ Answer(q, "inserting", IF q \in JobRequests THEN "error"
                                                             ELSE NotStored)
           /\ UNCHANGED rows

----------------------------------------------------------------------------
(* The network and the contract                                            *)

OffGateway == UNCHANGED <<handlers, rows>>

MineTx(r) == /\ tx[r] = "pending"
             /\ tx' = [tx EXCEPT ![r] = "mined"]
             /\ IV!RegisterModel(Gateway, Id(r), CidOf[r])
             /\ OffGateway

\* The contract refuses (registered meanwhile, not the owner), or out of gas.
RevertTx(r) == /\ tx[r] = "pending"
               /\ tx' = [tx EXCEPT ![r] = "reverted"]
               /\ OffGateway /\ UNCHANGED contract

\* Other accounts: whoever is the owner, and the settlers.
Contract == /\ \/ IV!Administer
               \/ \E a \in Others, m \in ModelIds :
                     \/ \E h \in OutputHashes : IV!SubmitProof(a, m, h)
                     \/ \E cid \in Cids : IV!RegisterModel(a, m, cid)
            /\ OffGateway /\ UNCHANGED tx

----------------------------------------------------------------------------
SubmitJob(j) == UpsertFound(j) \/ UpsertNotFound(j) \/ UpsertInsert(j)
Register(r)  == \/ LookUp(r) \/ Pin(r) \/ CheckRegistered(r) \/ SendTx(r)
                \/ Receipt(r) \/ FindRow(r) \/ UpdateRow(r) \/ InsertRow(r)

Next == \/ \E j \in JobRequests : SubmitJob(j)
        \/ \E r \in Registrations : Register(r) \/ MineTx(r) \/ RevertTx(r)
        \/ \E q \in Requests : Fail(q)
        \/ Contract

Spec == Init /\ [][Next]_vars

----------------------------------------------------------------------------
(* Properties                                                              *)

TypeOK == /\ IV!TypeOK
          /\ pc      \in [Requests -> Steps]
          /\ outcome \in [Requests -> Outcomes]
          /\ hash    \in [Registrations -> OnChainHashes]
          /\ found   \in [Requests -> Requests \cup {NoRecord}]
          /\ tx      \in [Registrations -> TxStates]
          /\ rows    \in [Requests -> Rows \cup {NoRecord}]

\* "Registered models are permanent and immutable", "verified output hashes
\* are permanent and immutable" (InferenceVerifier.sol:35-36), whoever becomes
\* the owner and whatever two handlers send at the same time.
ModelLedger == INSTANCE AttestationLedger WITH
    Keys <- ModelIds, Records <- IV!Models, ledger <- models
OutputLedger == INSTANCE AttestationLedger WITH
    Keys <- OutputHashes, Records <- IV!Attestations, ledger <- attestations
ModelsWriteOnce  == ModelLedger!Spec
OutputsWriteOnce == OutputLedger!Spec

\* A row's hash, CID and version agree with the contract. A transaction hash is
\* of the registration that put the row's own CID there, for this name; never of
\* a transaction that reverted or of another request's artifact. Name and
\* version, from which jobs derive their model id, have an entry, unless the row
\* was inserted by a job: a registration leaves the version of a placeholder.
HashIsOfCid ==
    \A q \in InTable :
        /\ rows[q].hash \in Registrations =>
              LET r == rows[q].hash
              IN /\ NameOf[r] = rows[q].name
                 /\ models[Id(r)] = [cid |-> rows[q].cid, by |-> Gateway]
        /\ SettleEnabled /\ rows[q].version # DefaultVersion =>
              models[IdOf[<<rows[q].name, rows[q].version>>]] # NoRecord

\* A client that is told "created" (201) has its model on the contract and in
\* the table; "partial" (207) or "conflict" (409) says it is on the contract,
\* whatever happens between the calls of the handler and to its transaction.
\* (Of the CID that an answer carries it says nothing: see CidIsConfirmed.)
AnswerIsTrue ==
    SettleEnabled =>
        \A r \in Registrations :
            /\ outcome[r] \in {"created", "partial"} => models[Id(r)] # NoRecord
            /\ outcome[r] \in {"created", "conflict"} =>
                  \E q \in Named(NameOf[r]) : rows[q].cid # "pending"
            /\ outcome[r] = "conflict" =>
                  \E p \in Registrations : /\ NameOf[p] = NameOf[r]
                                           /\ models[Id(p)] # NoRecord

\* A registered row is never a placeholder again, and no row is ever removed
\* or becomes the row of another model.
RegisteredStays ==
    [][\A q \in InTable :
          /\ rows'[q] # NoRecord
          /\ rows'[q].name = rows[q].name /\ rows'[q].version = rows[q].version
          /\ rows[q].cid # "pending" => rows'[q].cid # "pending"]_vars

\* "Upsert the model row in Postgres with the confirmed IPFS CID" (main.rs:536):
\* the CID of a registered row is one that the contract has.
CidIsConfirmed ==
    \A q \in InTable :
        rows[q].cid # "pending" => \E m \in ModelIds :
            models[m] # NoRecord /\ models[m].cid = rows[q].cid
============================================================================

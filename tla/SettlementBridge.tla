--------------------------- MODULE SettlementBridge -------------------------
(***************************************************************************)
(* Settlement across two chains. An InferenceBridge contract on Ethereum   *)
(* (contracts/evm/src/InferenceBridge.sol) checks a Halo2 proof and sends  *)
(* one L1->L2 message; the InferenceVerifier contract on StarkNet          *)
(* (contracts/starknet_l2/src/inference_verifier.cairo) records it.        *)
(*                                                                         *)
(* Several bridges may be deployed, each with its own replay map; the L2   *)
(* contract trusts the bridges its owner whitelists. The StarkNet          *)
(* messaging in between is external: a message is delivered at any later   *)
(* time, in any order, at most once, and one whose handler reverts is      *)
(* tried again or discarded. A transaction that reverts changes nothing,   *)
(* so a require or an assert is a guard.                                   *)
(***************************************************************************)
EXTENDS Naturals, FiniteSets

CONSTANTS
    Bridges,    \* addresses of the deployed InferenceBridge contracts
    Submitters, \* L1 accounts: verifyAndBridge is open to every caller
    Ids,        \* bytes32 values used as inferenceId
    Models,     \* bytes32 values used as modelHash
    FieldSize,  \* the prime of felt252: larger payload words are refused
    NoRecord    \* the zeroed storage of verified_inferences

ASSUME WordsAssumption == Ids \subseteq Nat /\ Models \subseteq Nat
ASSUME FieldSizeAssumption == FieldSize \in Nat \ {0}

Claims == [bridge : Bridges, id : Ids, model : Models, submitter : Submitters]
Records == [id : Ids, model : Models, submitter : Submitters]
ASSUME NoRecordAssumption == NoRecord \notin Records

VARIABLES
    verified,   \* InferenceBridge.verified of each bridge, as a set of ids
    events,     \* the InferenceVerified events the bridges emitted
    inbox,      \* L1->L2 messages sent and not yet consumed
    whitelist,  \* l1_verifier_whitelist
    records     \* verified_inferences

vars == <<verified, events, inbox, whitelist, records>>
l1Vars == <<verified, events>>
l2Vars == <<whitelist, records>>

----------------------------------------------------------------------------
Init == /\ verified = [b \in Bridges |-> {}]
        /\ events = {}
        /\ inbox = {}
        /\ \E b \in Bridges : whitelist = {b}       \* initial_l1_verifier
        /\ records = [i \in Ids |-> NoRecord]

\* isVerified() of bridge b.
IsVerified(b, id) == id \in verified[b]

\* Mutant: no replay guard.
AcceptsReplays(b, id, model, proofOk) == /\ proofOk
                                         /\ id < FieldSize
                                         /\ model < FieldSize

\* verifyAndBridge() does not revert: not a replay, the Halo2 verifier accepts
\* the proof, and StarkNet core accepts the payload's words as felts.
Accepts(b, id, model, proofOk) == /\ ~IsVerified(b, id)
                                  /\ proofOk
                                  /\ id < FieldSize
                                  /\ model < FieldSize

VerifyAndBridge(b, id, model, submitter, proofOk) ==
    LET claim == [bridge |-> b, id |-> id, model |-> model,
                  submitter |-> submitter]
    IN  /\ Accepts(b, id, model, proofOk)
        /\ verified' = [verified EXCEPT ![b] = @ \cup {id}]
        /\ events' = events \cup {claim}
        /\ inbox' = inbox \cup {claim}
        /\ UNCHANGED l2Vars

\* The id in the stored struct: 0 in zeroed storage.
StoredId(id) == IF records[id] = NoRecord THEN 0 ELSE records[id].id

\* is_inference_verified()
IsInferenceVerified(id) == StoredId(id) # 0

\* Mutant: no replay guard on L2.
ConsumableAgain(m) == m.bridge \in whitelist

\* Mutant: the replay guard looks at the model instead of the inference.
ConsumableOncePerModel(m) ==
    /\ m.bridge \in whitelist
    /\ \A i \in Ids : records[i] # NoRecord => records[i].model # m.model

\* The asserts of consume_inference_result.
Consumable(m) == m.bridge \in whitelist /\ StoredId(m.id) = 0

\* Mutant: from_address is stored as the submitter.
ConsumeStoresSender(m) ==
    /\ m \in inbox
    /\ Consumable(m)
    /\ records' = [records EXCEPT ![m.id] = [id        |-> m.id,
                                             model     |-> m.model,
                                             submitter |-> m.bridge]]
    /\ inbox' = inbox \ {m}
    /\ UNCHANGED <<l1Vars, whitelist>>

\* Mutant: the words of the payload are read in the wrong order.
ConsumeSwapsWords(m) ==
    /\ m \in inbox
    /\ Consumable(m)
    /\ records' = [records EXCEPT ![m.model] = [id        |-> m.model,
                                                model     |-> m.id,
                                                submitter |-> m.submitter]]
    /\ inbox' = inbox \ {m}
    /\ UNCHANGED <<l1Vars, whitelist>>

ConsumeInferenceResult(m) ==
    /\ m \in inbox
    /\ Consumable(m)
    /\ records' = [records EXCEPT ![m.id] = [id        |-> m.id,
                                             model     |-> m.model,
                                             submitter |-> m.submitter]]
    /\ inbox' = inbox \ {m}
    /\ UNCHANGED <<l1Vars, whitelist>>

\* StarkNet gives up on a message whose handler reverts.
Discard(m) == /\ m \in inbox
              /\ ~Consumable(m)
              /\ inbox' = inbox \ {m}
              /\ UNCHANGED <<l1Vars, l2Vars>>

\* The L2 contract's owner.
AddL1Verifier(b) == /\ whitelist' = whitelist \cup {b}
                    /\ UNCHANGED <<l1Vars, inbox, records>>

RemoveL1Verifier(b) == /\ whitelist' = whitelist \ {b}
                       /\ UNCHANGED <<l1Vars, inbox, records>>

----------------------------------------------------------------------------
Call(b) == \E id \in Ids, model \in Models, s \in Submitters :
              \E proofOk \in BOOLEAN :
                  VerifyAndBridge(b, id, model, s, proofOk)
Owner(b) == AddL1Verifier(b) \/ RemoveL1Verifier(b)
Message == \E m \in inbox : ConsumeInferenceResult(m) \/ Discard(m)

Next == (\E b \in Bridges : Call(b) \/ Owner(b)) \/ Message

Spec == Init /\ [][Next]_vars

\* StarkNet's sequencer delivers what it can deliver.
FairSpec == Spec /\ \A m \in Claims : WF_vars(ConsumeInferenceResult(m))

----------------------------------------------------------------------------
(* Properties                                                              *)

TypeOK == /\ verified \in [Bridges -> SUBSET Ids]
          /\ events \subseteq Claims
          /\ inbox \subseteq Claims
          /\ whitelist \subseteq Bridges
          /\ records \in [Ids -> Records \cup {NoRecord}]

\* Each bridge vouches at most once for an inference id, with one model and
\* one submitter, and its replay map says exactly which ids it vouched for.
OneClaimPerBridge ==
    /\ \A e, f \in events : e.bridge = f.bridge /\ e.id = f.id => e = f
    /\ \A b \in Bridges, i \in Ids :
          i \in verified[b] <=> \E e \in events : e.bridge = b /\ e.id = i

\* The chain of trust of the L2 contract, which checks no proof itself: every
\* record stands under its own id and repeats what a bridge verified on L1.
RecordBacked ==
    \A i \in Ids : records[i] # NoRecord =>
        /\ records[i].id = i
        /\ \E e \in events : /\ e.id = i
                             /\ e.model = records[i].model
                             /\ e.submitter = records[i].submitter

\* "Writes a tamper-proof InferenceRecord" (inference_verifier.cairo:7-8): the
\* L2 contract is a write-once ledger for every id but 0, whose record a second
\* bridge's message would replace (no keccak digest is known to end in 128
\* zero bits), with several bridges vouching for the same id and the whitelist changing meanwhile.
Ledger == INSTANCE AttestationLedger WITH
              Keys   <- Ids \ {0},
              ledger <- [i \in Ids \ {0} |-> records[i]]
LedgerWriteOnce == Ledger!Spec

\* What a bridge verified on L1 gets recorded on L2, by this message or by
\* another bridge's, unless the owner stops trusting the bridge meanwhile.
BridgedReachesL2 ==
    \A m \in Claims : m.id # 0 =>
        (m \in inbox ~> IsInferenceVerified(m.id) \/ m.bridge \notin whitelist)
============================================================================

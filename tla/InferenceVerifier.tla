-------------------------- MODULE InferenceVerifier -------------------------
(***************************************************************************)
(* contracts/evm/src/InferenceVerifier.sol: the registry of models and the *)
(* attestations of outputs. Every function is one transaction. Whether a   *)
(* proof is valid is an input: it is for the Halo2 verifier of the day,    *)
(* which upgradeVerifier() exchanges, to say.                              *)
(***************************************************************************)
EXTENDS ContractAccess

CONSTANTS
    ModelIds, Cids, \* model ids; IPFS CIDs, none of them empty
    OutputHashes

VARIABLES models, attestations

Models       == [cid : Cids, by : Accounts]
Attestations == [model : ModelIds, settler : Accounts]

TypeOK == /\ AccessTypeOK
          /\ models \in [ModelIds -> Models \cup {NoRecord}]
          /\ attestations \in [OutputHashes -> Attestations \cup {NoRecord}]

Init == /\ AccessInit({})
        /\ models = [m \in ModelIds |-> NoRecord]
        /\ attestations = [h \in OutputHashes |-> NoRecord]

----------------------------------------------------------------------------
\* Mutant: the owner may register a model again.
RegisterAgain(a, m, cid) ==
    /\ a = owner
    /\ models' = [models EXCEPT ![m] = [cid |-> cid, by |-> a]]
    /\ UNCHANGED <<access, attestations>>

RegisterModel(a, m, cid) ==
    /\ a = owner
    /\ models[m] = NoRecord
    /\ models' = [models EXCEPT ![m] = [cid |-> cid, by |-> a]]
    /\ UNCHANGED <<access, attestations>>

\* With a valid proof; the model need not be registered.
SubmitProof(a, m, h) ==
    /\ MaySettle(a)
    /\ attestations[h] = NoRecord
    /\ attestations' = [attestations EXCEPT ![h] = [model |-> m, settler |-> a]]
    /\ UNCHANGED <<access, models>>

\* The functions that touch neither map.
Administer == (Admin \/ Accept) /\ UNCHANGED <<models, attestations>>
============================================================================

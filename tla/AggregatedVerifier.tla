-------------------------- MODULE AggregatedVerifier ------------------------
(***************************************************************************)
(* contracts/evm/src/AggregatedVerifier.sol: one transaction settles a     *)
(* batch of outputs under one aggregated proof, all of them or none. The   *)
(* events are kept in the order they are emitted, a BatchSettled with its  *)
(* OutputVerified events; a batch id is whatever the caller says.          *)
(***************************************************************************)
EXTENDS Naturals, Sequences, SequencesExt, ContractAccess

CONSTANTS
    OutputHashes, BatchIds,
    MaxBatchSize    \* MAX_BATCH_SIZE

ASSUME MaxBatchSizeAssumption == MaxBatchSize \in Nat \ {0}

VARIABLES
    isVerified,     \* the outputs whose entry in the mapping is true
    settled         \* the events

vars == <<access, isVerified, settled>>

Batch(id, hashes) == [id |-> id, hashes |-> hashes]

Batches == [id : BatchIds,
            hashes : UNION {[1..n -> OutputHashes] : n \in 1..MaxBatchSize}]

Init == /\ AccessInit({Deployer})
        /\ isVerified = {}
        /\ settled = <<>>

----------------------------------------------------------------------------
\* allVerified()
AllVerified(hashes) == \A i \in DOMAIN hashes : hashes[i] \in isVerified

\* Mutant: the entries are all read before the first is written.
NoneVerifiedBefore(hashes) == \A i \in DOMAIN hashes : hashes[i] \notin isVerified

\* The loop of submitBatch() reverts at a hash that is verified already, be it
\* by an earlier turn of the same loop.
NoneVerified(hashes) ==
    \A i \in DOMAIN hashes : /\ hashes[i] \notin isVerified
                             /\ \A k \in 1..(i - 1) : hashes[k] # hashes[i]

\* Mutant: an empty batch is no error.
SizeOkOrEmpty(hashes) == Len(hashes) <= MaxBatchSize

SizeOk(hashes) == Len(hashes) \in 1..MaxBatchSize

\* With a valid aggregated proof, which says nothing of the hashes.
SubmitBatch(a, id, hashes) ==
    /\ MaySettle(a)
    /\ SizeOk(hashes)
    /\ NoneVerified(hashes)
    /\ isVerified' = isVerified \cup ToSet(hashes)
    /\ settled' = Append(settled, Batch(id, hashes))
    /\ UNCHANGED access

\* The functions that settle nothing.
Administer == (Admin \/ Accept) /\ UNCHANGED <<isVerified, settled>>

\* Callers send any batch, up to one more than what is accepted.
Next == \/ Administer
        \/ \E a \in Accounts, id \in BatchIds,
              hashes \in BoundedSeq(OutputHashes, MaxBatchSize + 1) :
                SubmitBatch(a, id, hashes)

Spec == Init /\ [][Next]_vars

----------------------------------------------------------------------------
TypeOK == /\ AccessTypeOK
          /\ isVerified \subseteq OutputHashes
          /\ \A i \in DOMAIN settled : settled[i] \in Batches

\* "Check whether all hashes in a batch have been verified"
\* (AggregatedVerifier.sol:108): allVerified() is true of every batch that was
\* settled, and of no list that names an output that was not; and no output was
\* settled twice, neither in two batches nor at two places of one.
HashesInOneBatch ==
    /\ \A h \in isVerified :
          \E i \in DOMAIN settled : h \in ToSet(settled[i].hashes)
    /\ \A i \in DOMAIN settled :
          /\ AllVerified(settled[i].hashes)
          /\ \A j \in DOMAIN settled :
                \A k \in DOMAIN settled[i].hashes, l \in DOMAIN settled[j].hashes :
                    settled[i].hashes[k] = settled[j].hashes[l] => i = j /\ k = l
============================================================================

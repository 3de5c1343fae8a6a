-------------------------- MODULE AttestationLedger -------------------------
(***************************************************************************)
(* What every contract of this project that stores verified inferences     *)
(* promises: a write-once map. A key has no record until it is attested;   *)
(* from then on its record never changes and never disappears. One step    *)
(* may attest several keys (a batch) but always at least one.              *)
(***************************************************************************)
CONSTANTS
    Keys,       \* what is attested: inference ids, proof hashes
    Records,    \* what may be stored under a key
    NoRecord    \* the default value of the contract's storage, no record

VARIABLE ledger

----------------------------------------------------------------------------
Attested == {k \in Keys : ledger[k] # NoRecord}

TypeOK == ledger \in [Keys -> Records \cup {NoRecord}]

Init == ledger = [k \in Keys |-> NoRecord]

Attest == /\ ledger' \in [Keys -> Records \cup {NoRecord}]
          /\ ledger' # ledger
          /\ \A k \in Attested : ledger'[k] = ledger[k]

Spec == Init /\ [][Attest]_ledger
============================================================================

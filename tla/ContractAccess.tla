--------------------------- MODULE ContractAccess ---------------------------
(***************************************************************************)
(* Who may do what on InferenceVerifier.sol and AggregatedVerifier.sol: an *)
(* owner (OpenZeppelin's Ownable2Step), a whitelist of settlers and a      *)
(* pause switch (OpenZeppelin's Pausable).                                 *)
(***************************************************************************)
CONSTANTS
    Accounts,       \* callers; the zero address is not among them
    Deployer,       \* the initial owner
    NoRecord        \* the zero address, as an owner or pending owner

ASSUME DeployerAssumption == Deployer \in Accounts

VARIABLES owner, pendingOwner, settlers, paused

access == <<owner, pendingOwner, settlers, paused>>

AccessTypeOK == /\ {owner, pendingOwner} \subseteq Accounts \cup {NoRecord}
                /\ settlers \subseteq Accounts
                /\ paused \in BOOLEAN

AccessInit(initialSettlers) == /\ owner = Deployer /\ pendingOwner = NoRecord
                               /\ settlers = initialSettlers
                               /\ paused = FALSE

MaySettle(a) == ~paused /\ a \in settlers

----------------------------------------------------------------------------
SetSettler(a, approved) ==
    /\ settlers' = IF approved THEN settlers \cup {a} ELSE settlers \ {a}
    /\ UNCHANGED <<owner, pendingOwner, paused>>

\* pause() and unpause(), each of which reverts when there is nothing to do.
SetPaused == /\ paused' = ~paused
             /\ UNCHANGED <<owner, pendingOwner, settlers>>

\* transferOwnership(); the zero address takes an offer back.
TransferOwnership(a) == /\ pendingOwner' = a
                        /\ UNCHANGED <<owner, settlers, paused>>

\* Mutant: whoever was to take over still may.
NewOwnerKeepsPending(a) == /\ owner' = a
                           /\ UNCHANGED <<pendingOwner, settlers, paused>>

\* acceptOwnership() by the pending owner, renounceOwnership() by the owner.
NewOwner(a) == /\ owner' = a /\ pendingOwner' = NoRecord
               /\ UNCHANGED <<settlers, paused>>

\* What the owner, if there is one, may do.
Admin == /\ owner # NoRecord
         /\ \/ \E a \in Accounts \cup {NoRecord} : TransferOwnership(a)
            \/ \E a \in Accounts, b \in BOOLEAN : SetSettler(a, b)
            \/ SetPaused
            \/ NewOwner(NoRecord)

Accept == pendingOwner # NoRecord /\ NewOwner(pendingOwner)

----------------------------------------------------------------------------
\* A contract whose owner renounced it stays as it is: nobody becomes owner,
\* settler or unpauses it again, not even an account that was offered the
\* ownership before. (Nothing is settled for ever if it was paused.)
RenouncedForGood == [][owner = NoRecord => UNCHANGED access]_access
============================================================================

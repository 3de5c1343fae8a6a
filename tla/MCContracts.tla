----------------------------- MODULE MCContracts ----------------------------
(* A contract that no code of the repository calls, and the parser of what *)
(* is sent to the other contracts: side by side, neither looks at the      *)
(* other. The files vary the proof or the instances, and have words of two *)
(* bytes.                                                                  *)
EXTENDS AggregatedVerifier, ProofFile

Column == <<[bytes |-> <<13, 0>>, odd |-> FALSE]>>
Proofs == {Missing} \cup BoundedSeq({7, 255, 256, NoNumber}, 2)

MCStrings == {NoString} \cup
             [bytes : {<<>>, <<1>>, <<13, 0>>, <<0, 13>>, <<1, NoHex>>, <<0, 0, 13>>},
              odd : {FALSE}] \cup
             {[bytes |-> <<1>>, odd |-> TRUE], [bytes |-> <<NoHex>>, odd |-> TRUE]}
Columns == {Missing} \cup BoundedSeq(MCStrings, 2)

MCFiles ==
    [proof : Proofs, instances : {<<Column>>}] \cup
    [proof : {<<7, 255>>},
     instances : {Missing, <<>>} \cup {<<c>> : c \in Columns} \cup {<<<<>>, Column>>}]

MCInit == Init /\ InitFile
MCNext == \/ Next /\ UNCHANGED <<file, calldata>>
          \/ ReadFile /\ UNCHANGED vars
MCSpec == MCInit /\ [][MCNext]_<<vars, file, calldata>>
============================================================================

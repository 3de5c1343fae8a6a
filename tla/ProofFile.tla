------------------------------ MODULE ProofFile -----------------------------
(***************************************************************************)
(* ParsedProof::from_file (crates/settler/src/contract.rs): what becomes   *)
(* of a proof.json between EZKL and the calldata of the bridge. The file   *)
(* holds the proof as an array of JSON numbers and columns of instances in *)
(* hex, little-endian; the calldata holds bytes and words. Only the first  *)
(* column is read.                                                         *)
(*                                                                         *)
(* A JSON value that is not a natural number is NoNumber, one that is not  *)
(* a string is NoString, and a field that is no array is Missing. A string *)
(* is the digits after its "0x", if any, in pairs: a byte, or NoHex where  *)
(* from_str_radix fails; odd says that half a pair follows. A word of the  *)
(* calldata is its bytes, the most significant first.                      *)
(***************************************************************************)
EXTENDS Naturals, Sequences, SequencesExt, FiniteSetsExt

CONSTANTS
    WordBytes,      \* 32
    Missing, NoNumber, NoString, NoHex,
    Files           \* those that the settlement may find

Numbers == Nat \cup {NoNumber}
Strings == [bytes : Seq(0..255 \cup {NoHex}), odd : BOOLEAN] \cup {NoString}

ASSUME WordBytesAssumption == WordBytes \in Nat \ {0}
ASSUME NoNumberAssumption == NoNumber \notin Nat
ASSUME FilesAssumption ==
    \A f \in Files :
        /\ f.proof # Missing => f.proof \in Seq(Numbers)
        /\ f.instances # Missing => f.instances \in Seq(Seq(Strings) \cup {Missing})

VARIABLES
    file,           \* the file of a job
    calldata        \* what its settlement task made of it

----------------------------------------------------------------------------
Unread   == [outcome |-> "unread"]
Failed   == [outcome |-> "ProofParseError"]
\* An index or a slice out of bounds: the task ends without an error.
Panicked == [outcome |-> "panic"]
Parsed(proof, instances) ==
    [outcome |-> "parsed", proof |-> proof, instances |-> instances]

\* `n as u8`
AsU8(n) == n % 256

\* U256::from_be_slice: zeros fill the word from the left.
FromBeSlice(bytes) ==
    LET fill == WordBytes - Len(bytes)
    IN [k \in 1..WordBytes |-> IF k > fill THEN bytes[k - fill] ELSE 0]

\* Mutant: the words are read as they are written.
FromLeBytesUnreversed(bytes) == FromBeSlice(bytes)

\* bytes.reverse() and U256::from_be_slice
FromLeBytes(bytes) == FromBeSlice(Reverse(bytes))

\* A missing string is the empty one, whose word is 0.
Digits(s) == IF s = NoString THEN [bytes |-> <<>>, odd |-> FALSE] ELSE s

\* The pairs are read from left to right.
HexFails(s)  == NoHex \in ToSet(Digits(s).bytes)
HexPanics(s) == Digits(s).odd \/ Len(Digits(s).bytes) > WordBytes

\* The column is read from left to right, too, and the first that fails decides.
ReadColumn(column) ==
    LET bad == {i \in DOMAIN column : HexFails(column[i]) \/ HexPanics(column[i])}
    IN IF bad = {}
       THEN [outcome   |-> "parsed",
             instances |-> [i \in DOMAIN column |-> FromLeBytes(Digits(column[i]).bytes)]]
       ELSE IF HexFails(column[Min(bad)]) THEN Failed ELSE Panicked

\* A file that cannot be read, or is no JSON, has all fields Missing.
FromFile(f) ==
    IF \/ f.proof = Missing \/ NoNumber \in ToSet(f.proof)
       \/ f.instances \in {Missing, <<>>} \/ f.instances[1] = Missing
    THEN Failed
    ELSE LET column == ReadColumn(f.instances[1])
         IN IF column.outcome # "parsed" THEN column
            ELSE Parsed([i \in DOMAIN f.proof |-> AsU8(f.proof[i])],
                        column.instances)

InitFile == file \in Files /\ calldata = Unread

ReadFile == /\ calldata = Unread
            /\ calldata' = FromFile(file)
            /\ UNCHANGED file

FileSpec == InitFile /\ [][ReadFile]_<<file, calldata>>

----------------------------------------------------------------------------
\* The byte of weight 256^e of a word.
ByteOfWeight(word, e) == word[WordBytes - e]

\* The word holds the number that the string writes, least significant byte first.
IsLittleEndian(word, bytes) ==
    \A e \in 0..(WordBytes - 1) :
        ByteOfWeight(word, e) = IF e < Len(bytes) THEN bytes[e + 1] ELSE 0

\* What the comment above from_file says of EZKL's files: bytes, and strings
\* that fill a word.
OfEzkl(f) ==
    /\ f.proof # Missing
    /\ \A i \in DOMAIN f.proof : f.proof[i] \in 0..255
    /\ f.instances \notin {Missing, <<>>}
    /\ f.instances[1] # Missing
    /\ \A i \in DOMAIN f.instances[1] :
          LET s == f.instances[1][i]
          IN s # NoString /\ ~HexFails(s) /\ ~s.odd /\ Len(s.bytes) = WordBytes

\* "must be byte-reversed before parsing as big-endian U256" (contract.rs:207):
\* whatever is sent to the chain for a file is its proof, byte by byte, and the
\* values of its first column, in order, except for numbers that are no bytes
\* and instances that are no strings; a file of EZKL is never refused.
CalldataIsFile ==
    /\ calldata # Unread /\ OfEzkl(file) => calldata.outcome = "parsed"
    /\ calldata.outcome = "parsed" =>
          /\ Len(calldata.proof) = Len(file.proof)
          /\ Len(calldata.instances) = Len(file.instances[1])
          /\ \A i \in DOMAIN file.proof :
                file.proof[i] \in 0..255 => calldata.proof[i] = file.proof[i]
          /\ \A i \in DOMAIN file.instances[1] :
                LET s == file.instances[1][i]
                IN s # NoString => IsLittleEndian(calldata.instances[i], s.bytes)
============================================================================

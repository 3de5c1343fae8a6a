--------------------------- MODULE ProofFileProofs --------------------------
(***************************************************************************)
(* Proofs about ProofFile: for every set of files and every width of a     *)
(* word, what from_file makes of a file is that file's proof and instances.*)
(***************************************************************************)
EXTENDS ProofFile, TLAPS

\* The calldata of a job is made once, from the file its worker left.
IInv == /\ file \in Files
        /\ calldata \in {Unread, FromFile(file)}

----------------------------------------------------------------------------
\* A string that fits turns into a word byte by byte, reversed: from_be_slice
\* fills from the left what the reversal put last.
LEMMA WordIsString ==
  ASSUME NEW B, NEW bytes \in Seq(B), Len(bytes) <= WordBytes
  PROVE  IsLittleEndian(FromLeBytes(bytes), bytes)
<1> DEFINE n == Len(bytes)
           fill == WordBytes - n
           word == FromLeBytes(bytes)
<1>1. n \in Nat /\ WordBytes \in Nat /\ fill \in Nat
  BY WordBytesAssumption
<1>2. /\ Len(Reverse(bytes)) = n
      /\ \A i \in 1..n : Reverse(bytes)[i] = bytes[n - i + 1]
  BY <1>1 DEF Reverse
<1>3. word = [k \in 1..WordBytes |->
                 IF k > fill THEN Reverse(bytes)[k - fill] ELSE 0]
  BY <1>2 DEF FromLeBytes, FromBeSlice
<1> HIDE DEF word
<1> SUFFICES ASSUME NEW e \in 0..(WordBytes - 1)
             PROVE  ByteOfWeight(word, e) = IF e < n THEN bytes[e + 1] ELSE 0
  BY DEF IsLittleEndian, word
<1>4. /\ WordBytes - e \in 1..WordBytes
      /\ ByteOfWeight(word, e) = IF WordBytes - e > fill
                                 THEN Reverse(bytes)[WordBytes - e - fill]
                                 ELSE 0
  BY <1>1, <1>3 DEF ByteOfWeight
<1>5. WordBytes - e > fill <=> e < n
  BY <1>1
<1>6. WordBytes - e - fill = n - e
  BY <1>1
<1>7. CASE e < n
  <2>1. n - e \in 1..n /\ n - (n - e) + 1 = e + 1
    BY <1>1, <1>7
  <2> QED
    BY <1>2, <1>4, <1>5, <1>6, <1>7, <2>1
<1>8. CASE ~(e < n)
  BY <1>4, <1>5, <1>8
<1> QED
  BY <1>7, <1>8

\* A column that is read is read string by string, none of which fails or panics.
LEMMA ColumnRead ==
  ASSUME NEW column, ReadColumn(column).outcome = "parsed"
  PROVE  /\ ReadColumn(column).instances =
               [i \in DOMAIN column |-> FromLeBytes(Digits(column[i]).bytes)]
         /\ \A i \in DOMAIN column : ~HexFails(column[i]) /\ ~HexPanics(column[i])
  BY DEF ReadColumn, Failed, Panicked

\* What is parsed is what from_file read, field by field.
LEMMA ParsedFields ==
  ASSUME NEW f, FromFile(f).outcome = "parsed"
  PROVE  /\ f.proof # Missing /\ f.instances \notin {Missing, <<>>}
         /\ f.instances[1] # Missing
         /\ ReadColumn(f.instances[1]).outcome = "parsed"
         /\ FromFile(f).proof = [i \in DOMAIN f.proof |-> AsU8(f.proof[i])]
         /\ FromFile(f).instances = ReadColumn(f.instances[1]).instances
  BY DEF FromFile, Failed, Parsed

\* Files are typed: a proof is a sequence, and so is the column that is read.
LEMMA FileTypes ==
  ASSUME NEW f \in Files
  PROVE  /\ f.proof # Missing => f.proof \in Seq(Numbers)
         /\ f.instances \notin {Missing, <<>>} /\ f.instances[1] # Missing
               => f.instances[1] \in Seq(Strings)
<1>1. f.proof # Missing => f.proof \in Seq(Numbers)
  BY FilesAssumption
<1>2. ASSUME f.instances \notin {Missing, <<>>}, f.instances[1] # Missing
      PROVE  f.instances[1] \in Seq(Strings)
  <2>1. f.instances \in Seq(Seq(Strings) \cup {Missing})
    BY <1>2, FilesAssumption
  <2>2. 1 \in 1..Len(f.instances)
    BY <1>2, <2>1
  <2> QED
    BY <1>2, <2>1, <2>2
<1> QED
  BY <1>1, <1>2

\* The calldata of a file that is parsed is that file's.
LEMMA ParsedIsFile ==
  ASSUME NEW f \in Files, FromFile(f).outcome = "parsed"
  PROVE  /\ Len(FromFile(f).proof) = Len(f.proof)
         /\ Len(FromFile(f).instances) = Len(f.instances[1])
         /\ \A i \in DOMAIN f.proof :
               f.proof[i] \in 0..255 => FromFile(f).proof[i] = f.proof[i]
         /\ \A i \in DOMAIN f.instances[1] :
               LET s == f.instances[1][i]
               IN s # NoString => IsLittleEndian(FromFile(f).instances[i], s.bytes)
<1> DEFINE column == f.instances[1]
<1>1. /\ f.proof \in Seq(Numbers) /\ column \in Seq(Strings)
      /\ ReadColumn(column).outcome = "parsed"
      /\ FromFile(f).proof = [i \in DOMAIN f.proof |-> AsU8(f.proof[i])]
      /\ FromFile(f).instances = ReadColumn(column).instances
  BY ParsedFields, FileTypes
<1>2. /\ FromFile(f).instances =
            [i \in DOMAIN column |-> FromLeBytes(Digits(column[i]).bytes)]
      /\ \A i \in DOMAIN column : ~HexFails(column[i]) /\ ~HexPanics(column[i])
  BY <1>1, ColumnRead
<1> HIDE DEF column
<1>3. Len(FromFile(f).proof) = Len(f.proof)
  BY <1>1
<1>4. Len(FromFile(f).instances) = Len(column)
  BY <1>1, <1>2
<1>5. ASSUME NEW i \in DOMAIN f.proof, f.proof[i] \in 0..255
      PROVE  FromFile(f).proof[i] = f.proof[i]
  <2>1. f.proof[i] % 256 = f.proof[i]
    BY <1>5
  <2> QED
    BY <1>1, <2>1 DEF AsU8
<1>6. ASSUME NEW i \in DOMAIN column, column[i] # NoString
      PROVE  IsLittleEndian(FromFile(f).instances[i], column[i].bytes)
  <2>1. /\ Digits(column[i]) = column[i]
        /\ column[i].bytes \in Seq(0..255 \cup {NoHex})
    BY <1>1, <1>6 DEF Digits, Strings
  <2>2. Len(column[i].bytes) <= WordBytes
    BY <1>2, <2>1, WordBytesAssumption DEF HexPanics
  <2>3. IsLittleEndian(FromLeBytes(column[i].bytes), column[i].bytes)
    BY <2>1, <2>2, WordIsString
  <2> QED
    BY <1>2, <2>1, <2>3
<1> QED
  BY <1>3, <1>4, <1>5, <1>6 DEF column

\* A file as EZKL writes it is parsed: no number is refused, no string fails
\* and none is cut at the wrong place.
LEMMA EzklIsParsed ==
  ASSUME NEW f \in Files, OfEzkl(f)
  PROVE  FromFile(f).outcome = "parsed"
<1> DEFINE column == f.instances[1]
<1>1. NoNumber \notin ToSet(f.proof)
  <2>1. ASSUME NEW i \in DOMAIN f.proof
        PROVE  f.proof[i] # NoNumber
    <3>1. f.proof[i] \in 0..255
      BY DEF OfEzkl
    <3>2. f.proof[i] \in Nat
      BY <3>1
    <3> QED
      BY <3>2, NoNumberAssumption
  <2> QED
    BY <2>1 DEF ToSet
<1>2. ASSUME NEW i \in DOMAIN column
      PROVE  ~HexFails(column[i]) /\ ~HexPanics(column[i])
  BY <1>2, WordBytesAssumption DEF OfEzkl, HexPanics, Digits
<1>3. ReadColumn(column).outcome = "parsed"
  BY <1>2 DEF ReadColumn
<1> QED
  BY <1>1, <1>3 DEF FromFile, OfEzkl, Parsed

----------------------------------------------------------------------------
\* Whatever calldata there is was made of the file, by ReadFile.
LEMMA CalldataOfFile == FileSpec => []IInv
<1>1. InitFile => IInv
  BY DEF InitFile, IInv
<1>2. IInv /\ [ReadFile]_<<file, calldata>> => IInv'
  BY DEF IInv, ReadFile
<1> QED
  BY <1>1, <1>2, PTL DEF FileSpec

\* ParsedProof::from_file: the calldata is the proof byte by byte and the words
\* of the first column in order, each the number its string writes little-endian;
\* a file of EZKL is parsed. For words of any width and files of any length.
THEOREM CalldataFaithful == FileSpec => []CalldataIsFile
<1>1. IInv => CalldataIsFile
  <2> SUFFICES ASSUME IInv PROVE CalldataIsFile
    OBVIOUS
  <2>1. CASE calldata = Unread
    BY <2>1 DEF CalldataIsFile, Unread
  <2>2. CASE calldata = FromFile(file)
    <3>1. OfEzkl(file) => calldata.outcome = "parsed"
      BY <2>2, EzklIsParsed DEF IInv
    <3>2. ASSUME calldata.outcome = "parsed"
          PROVE  /\ Len(calldata.proof) = Len(file.proof)
                 /\ Len(calldata.instances) = Len(file.instances[1])
                 /\ \A i \in DOMAIN file.proof :
                       file.proof[i] \in 0..255 => calldata.proof[i] = file.proof[i]
                 /\ \A i \in DOMAIN file.instances[1] :
                       LET s == file.instances[1][i]
                       IN s # NoString => IsLittleEndian(calldata.instances[i], s.bytes)
      BY <2>2, <3>2, ParsedIsFile DEF IInv
    <3> QED
      BY <3>1, <3>2 DEF CalldataIsFile
  <2> QED
    BY <2>1, <2>2 DEF IInv
<1> QED
  BY <1>1, CalldataOfFile, PTL
============================================================================

------------------------- MODULE ImageWritersProofs -------------------------
(***************************************************************************)
(* What a device could not read is marked in the file it is saved in, and  *)
(* still is when the file is opened (DamageIsMarked): for any media, any   *)
(* files found and any options.  Every reader takes the damage of a disk   *)
(* from the sign of its file, every writer but one signs the file as the   *)
(* disk is damaged.                                                        *)
(***************************************************************************)
EXTENDS ImageWriters, WellFoundedInduction, TLAPS

(***************************************************************************)
(* Readers                                                                 *)
(***************************************************************************)

\* The damage of a disk that is read from a file with this sign.
DamageBy(sign) ==
    IF sign = "crc" THEN "bad" ELSE IF sign \in {"none", "lost"} THEN sign ELSE "signed"

\* A reader that takes a file makes a disk damaged as the file says.
Reads(answer, f) == answer.said = "yes" => answer.disk.damage = DamageBy(f.sign)

LEMMA Refused == \A f : Reads(No, f) /\ Reads(Throws, f)
BY DEF Reads, No, Throws

LEMMA TakesMade ==
    ASSUME NEW f, NEW g, g.sign = f.sign, NEW fmt, NEW tracks, NEW type
    PROVE  Reads(Took(Made(g, fmt, tracks, type)), f)
BY DEF Reads, Took, Made, DamageBy

LEMMA TakesFormatted ==
    ASSUME NEW f, NEW g, g.sign = f.sign, NEW fmt, NEW headFirst, NEW type
    PROVE  Reads(Formatted(g, fmt, headFirst, type), f)
<1>1. Formatted(g, fmt, headFirst, type) = Took(Made(g, fmt, Populated(g, fmt, headFirst, FALSE), type))
  BY DEF Formatted
<1> QED  BY <1>1, TakesMade

\* The sign stays when other fields are changed.
LEMMA KeepsSign ==
    ASSUME NEW f, FileFields(f), NEW v, NEW w
    PROVE  /\ [f EXCEPT !.body = v].sign = f.sign
           /\ [f EXCEPT !.body = v, !.unit = w].sign = f.sign
           /\ [f EXCEPT !.unit = v].sign = f.sign
           /\ [f EXCEPT !.ext = v].sign = f.sign /\ FileFields([f EXCEPT !.ext = v])
           /\ [f EXCEPT !.sig = v, !.ext = w].sign = f.sign
BY DEF FileFields

LEMMA HeaderReads ==
    ASSUME NEW f, FileFields(f), NEW opt
    PROVE  /\ Reads(ReadSAD(f, opt), f) /\ Reads(ReadMSA(f, opt), f) /\ Reads(ReadSCL(f, opt), f)
           /\ Reads(ReadDTI(f, opt), f) /\ Reads(ReadSAP(f, opt), f) /\ Reads(ReadQDOS(f, opt), f)
           /\ Reads(ReadSBT(f, opt), f)
<1>1. Reads(ReadSAD(f, opt), f)
  BY Refused, TakesFormatted, Zenon DEF ReadSAD
<1>2. Reads(ReadMSA(f, opt), f)
  BY Refused, TakesFormatted, Zenon DEF ReadMSA
<1>3. Reads(ReadSCL(f, opt), f)
  BY Refused, TakesFormatted, KeepsSign, Zenon DEF ReadSCL
<1>4. Reads(ReadDTI(f, opt), f)
  <2> DEFINE fmt == [With(NoFormat, f.says) EXCEPT !.sectors = 1, !.size = 5, !.base = 0,
                                                   !.rate = "250K", !.enc = "Ace"]
             body == [i \in DOMAIN f.body |-> f.body[i] + Shifted]
             bytes == TrackBytes(fmt)
             read == [f EXCEPT !.body = body, !.unit = bytes]
  <2>1. ReadDTI(f, opt) = No \/ ReadDTI(f, opt) = Throws
        \/ ReadDTI(f, opt) = Formatted(read, fmt, TRUE, "DTI")
    BY Zenon DEF ReadDTI
  <2> HIDE DEF body, bytes, fmt
  <2>2. read.sign = f.sign
    BY DEF FileFields, read
  <2> HIDE DEF read
  <2> QED  BY <2>1, <2>2, Refused, TakesFormatted, Zenon
<1>5. Reads(ReadSAP(f, opt), f)
  BY Refused, TakesFormatted, Zenon DEF ReadSAP
<1>6. Reads(ReadQDOS(f, opt), f)
  BY Refused, TakesFormatted, Zenon DEF ReadQDOS
<1>7. Reads(ReadSBT(f, opt), f)
  BY Refused, TakesFormatted, KeepsSign, Zenon DEF ReadSBT
<1> QED  BY <1>1, <1>2, <1>3, <1>4, <1>5, <1>6, <1>7

LEMMA FieldReads ==
    ASSUME NEW f, FileFields(f), NEW opt
    PROVE  /\ Reads(ReadD80(f, opt), f) /\ Reads(ReadBPB(f, opt), f) /\ Reads(ReadST(f, opt), f)
           /\ Reads(ReadADF(f, opt), f) /\ Reads(ReadOPD(f, opt), f) /\ Reads(ReadMBD(f, opt), f)
<1>1. Reads(ReadD80(f, opt), f)
  BY Refused, TakesFormatted, Zenon DEF ReadD80
<1>2. Reads(ReadBPB(f, opt), f)
  BY Refused, TakesMade, Zenon DEF ReadBPB
<1>3. Reads(ReadST(f, opt), f)
  BY Refused, TakesFormatted, Zenon DEF ReadST
<1>4. Reads(ReadADF(f, opt), f)
  BY Refused, TakesFormatted, Zenon DEF ReadADF
<1>5. Reads(ReadOPD(f, opt), f)
  BY Refused, TakesFormatted, Zenon DEF ReadOPD
<1>6. Reads(ReadMBD(f, opt), f)
  BY Refused, TakesFormatted, Zenon DEF ReadMBD
<1> QED  BY <1>1, <1>2, <1>3, <1>4, <1>5, <1>6

LEMMA SizeReads ==
    ASSUME NEW f, FileFields(f), NEW opt
    PROVE  /\ Reads(Read2D(f, opt), f) /\ Reads(ReadLIF(f, opt), f) /\ Reads(ReadCPM(f, opt), f)
           /\ Reads(ReadTRD(f, opt), f) /\ Reads(ReadCFI(f, opt), f) /\ Reads(ReadS24(f, opt), f)
           /\ Reads(ReadD2M(f, opt), f) /\ Reads(ReadD4M(f, opt), f) /\ Reads(ReadD81(f, opt), f)
<1>1. ASSUME NEW ext, NEW fmt, NEW type
      PROVE  Reads(ReadSized(f, ext, fmt, type), f)
  BY Refused, TakesFormatted, Zenon DEF ReadSized
<1>2. ASSUME NEW fmt, NEW kind, NEW signCyl
      PROVE  Reads(ReadReversed(f, fmt, kind, signCyl), f)
  BY Refused, TakesMade, Zenon DEF ReadReversed
<1>3. Reads(ReadTRD(f, opt), f)
  BY Refused, TakesFormatted, Zenon DEF ReadTRD
<1>4. Reads(ReadCFI(f, opt), f)
  <2> DEFINE g == [f EXCEPT !.sig = "none", !.ext = "cfi"]
             packed == ReadBPB(g, opt)
  <2>1. g.sign = f.sign /\ FileFields(g)
    BY KeepsSign DEF FileFields
  <2> HIDE DEF g
  <2>2. Reads(packed, g)
    BY <2>1, FieldReads
  <2>3. packed.said = "yes" => \E fmt, tracks : packed.disk = Made(g, fmt, tracks, "BPB")
    BY DEF ReadBPB, No, Took
  <2>4. packed.said = "yes" => [packed.disk EXCEPT !.type = "CFI"].damage = packed.disk.damage
    BY <2>3 DEF Made
  <2>5. \/ ReadCFI(f, opt) = No \/ ReadCFI(f, opt) = Throws
        \/ packed.said = "yes" /\ ReadCFI(f, opt) = Took([packed.disk EXCEPT !.type = "CFI"])
    BY DEF ReadCFI, g
  <2> HIDE DEF packed
  <2> DEFINE taken == [packed.disk EXCEPT !.type = "CFI"]
  <2>6. packed.said = "yes" => Reads(Took(taken), f)
    <3> HIDE DEF taken
    <3>1. packed.said = "yes" => taken.damage = DamageBy(f.sign)
      BY <2>1, <2>2, <2>4 DEF Reads, taken
    <3> QED  BY <3>1 DEF Reads, Took
  <2> HIDE DEF taken
  <2> QED  BY <2>5, <2>6, Refused, Zenon DEF taken
<1>5. Reads(ReadS24(f, opt), f)
  <2>1. ASSUME NEW fmt
        PROVE  Reads(Formatted([f EXCEPT !.unit = TrackBytes(fmt)], fmt, TRUE, "S24"), f)
    BY TakesFormatted, KeepsSign, Zenon
  <2> DEFINE fmt == At("500K", Plain(80, 2, IF f.unit = 11520 THEN 7 ELSE 6, 7))
             took == Formatted([f EXCEPT !.unit = TrackBytes(fmt)], fmt, TRUE, "S24")
  <2>2. ReadS24(f, opt) = IF f.size \notin S24Bytes THEN No ELSE took
    BY DEF ReadS24
  <2> HIDE DEF fmt
  <2>3. Reads(took, f)
    BY <2>1
  <2> HIDE DEF took
  <2> QED  BY <2>2, <2>3, Refused
<1> QED  BY <1>1, <1>2, <1>3, <1>4, <1>5 DEF Read2D, ReadLIF, ReadCPM, ReadD2M, ReadD4M, ReadD81

LEMMA OtherReads ==
    ASSUME NEW f, FileFields(f), NEW opt
    PROVE  /\ Reads(ReadMGT(f, opt), f) /\ Reads(ReadDS2(f, opt), f) /\ Reads(ReadFD(f, opt), f)
           /\ Reads(ReadRAW(f, opt), f)
<1>1. Reads(ReadMGT(f, opt), f)
  BY Refused, TakesFormatted, Zenon DEF ReadMGT
<1>2. Reads(ReadDS2(f, opt), f)
  BY Refused, TakesFormatted, KeepsSign, Zenon DEF ReadDS2
<1>3. Reads(ReadFD(f, opt), f)
  BY Refused, TakesFormatted, Zenon DEF ReadFD
<1>4. Reads(ReadRAW(f, opt), f)
  BY Refused, TakesFormatted, Zenon DEF ReadRAW
<1> QED  BY <1>1, <1>2, <1>3, <1>4

\* A nonempty set of natural numbers has its least element in it.
LEMMA LeastElement ==
    ASSUME NEW S, S \subseteq Nat, S # {}
    PROVE  Min(S) \in S
<1> DEFINE R == {p \in Nat \X Nat : p[1] < p[2]}
<1>1. IsWellFoundedOn(R, Nat)
  BY NatLessThanWellFounded DEF OpToRel
<1>2. ASSUME NEW y \in Nat, NEW x \in Nat, y < x
      PROVE  <<y, x>> \in R
  BY <1>2
<1> HIDE DEF R
<1>3. PICK x \in S : \A y \in S : ~(<<y, x>> \in R)
  BY <1>1, WFMin
<1>4. ASSUME NEW y \in S
      PROVE  x =< y
  <2>1. x \in Nat /\ y \in Nat
    OBVIOUS
  <2>2. ~(y < x)
    BY <1>2, <1>3, <2>1
  <2> QED  BY <2>1, <2>2
<1> QED  BY <1>4 DEF Min

\* The first type that takes the file reads its sign, as they all do.
LEMMA ReadingReads ==
    ASSUME NEW f, FileFields(f), NEW opt
    PROVE  Reads(Reading(f, opt), f)
<1> DEFINE answers ==
            <<ReadSAD(f, opt), ReadSCL(f, opt), ReadDTI(f, opt), ReadMSA(f, opt),
              ReadSBT(f, opt), ReadQDOS(f, opt), ReadSAP(f, opt), ReadD80(f, opt),
              ReadST(f, opt), ReadBPB(f, opt), ReadADF(f, opt), ReadMBD(f, opt),
              ReadOPD(f, opt), Read2D(f, opt), ReadTRD(f, opt), ReadLIF(f, opt),
              ReadCFI(f, opt), ReadS24(f, opt), ReadD2M(f, opt), ReadD4M(f, opt),
              ReadD81(f, opt), ReadMGT(f, opt), ReadDS2(f, opt), ReadCPM(f, opt),
              ReadFD(f, opt), ReadRAW(f, opt)>>
           takers == {i \in DOMAIN answers : answers[i].said # "no"}
<1>1. DOMAIN answers = 1..26
  OBVIOUS
<1>2. ASSUME NEW i \in 1..26
      PROVE  Reads(answers[i], f)
  BY <1>1, HeaderReads, FieldReads, SizeReads, OtherReads
<1>3. Reading(f, opt) = IF takers = {} THEN Throws ELSE answers[Min(takers)]
  BY DEF Reading
<1> HIDE DEF answers
<1>4. takers # {} => Min(takers) \in 1..26
  <2>1. takers \subseteq Nat /\ takers \subseteq 1..26
    BY <1>1
  <2> HIDE DEF takers
  <2> QED  BY <2>1, LeastElement
<1> HIDE DEF takers
<1> QED  BY <1>2, <1>3, <1>4, Refused

(***************************************************************************)
(* Writers                                                                 *)
(***************************************************************************)

\* A file of a disk is signed as the disk is damaged.
Signed(f, d) == FileFields(f) /\ f.sign = d.damage

\* A writer signs the file, or gives bad data a wrong checksum.
Marks(result, d) ==
    result.said = "yes" =>
        /\ FileFields(result.file)
        /\ result.file.ext # "do" =>
              \/ result.file.sign = d.damage
              \/ result.file.sign = "crc" /\ d.damage = "bad"

LEMMA NothingWritten == \A d : Marks(Unsuitable, d) /\ Marks(Throws, d)
BY DEF Marks, Unsuitable, Throws

LEMMA RegularSigned == \A d, fmt, ext : Signed(Regular(d, fmt, ext), d)
BY DEF Signed, Regular, FileFields, SignOf

LEMMA ChangedSigned ==
    ASSUME NEW f, NEW d, Signed(f, d), NEW v, NEW w
    PROVE  /\ Signed([f EXCEPT !.sig = v], d) /\ Signed([f EXCEPT !.says = v], d)
           /\ Signed([f EXCEPT !.size = v], d) /\ Signed([f EXCEPT !.unit = v], d)
           /\ Signed([f EXCEPT !.holds = v], d)
BY DEF Signed, FileFields

LEMMA HeadedSigned == \A d, fmt, ext, sig, overhead : Signed(Headed(d, fmt, ext, sig, overhead), d)
<1> TAKE d, fmt, ext, sig, overhead
<1> DEFINE f == Regular(d, fmt, ext)
           says == [kind |-> sig, cyls |-> fmt.cyls, heads |-> fmt.heads,
                    sectors |-> fmt.sectors, size |-> fmt.size]
           size == f.size + overhead
<1>1. Headed(d, fmt, ext, sig, overhead) = [[[f EXCEPT !.sig = sig] EXCEPT !.says = says]
                                               EXCEPT !.size = size]
  BY DEF Headed
<1>2. Signed(f, d)
  BY RegularSigned, Zenon
<1> HIDE DEF f, says, size
<1>3. Signed([f EXCEPT !.sig = sig], d)
  BY <1>2, ChangedSigned
<1>4. Signed([[f EXCEPT !.sig = sig] EXCEPT !.says = says], d)
  BY <1>3, ChangedSigned, Zenon
<1>5. Signed([[[f EXCEPT !.sig = sig] EXCEPT !.says = says] EXCEPT !.size = size], d)
  BY <1>4, ChangedSigned, Zenon
<1> QED  BY <1>1, <1>5

LEMMA SignedMarks == \A f, d : Signed(f, d) => Marks(Wrote(f), d)
BY DEF Signed, Marks, Wrote

LEMMA WritersMark ==
    ASSUME NEW d, NEW opt
    PROVE  /\ Marks(WriteOPD(d, opt), d) /\ Marks(WriteMBD(d, opt), d) /\ Marks(WriteADF(d, opt), d)
           /\ Marks(WriteQDOS(d, opt), d) /\ Marks(WriteMGT(d, opt), d) /\ Marks(WriteCPM(d, opt), d)
           /\ Marks(WriteLIF(d, opt), d) /\ Marks(WriteSAD(d, opt), d) /\ Marks(WriteFD(d, opt), d)
           /\ Marks(WriteSAP(d, opt), d) /\ Marks(WriteDTI(d, opt), d) /\ Marks(WriteDO(d, opt), d)
           /\ Marks(WriteRAW(d, opt), d) /\ Marks(WriteST(d, opt), d)
<1>1. \A fmt, ext : Marks(WriteFixed(d, fmt, ext), d)
  BY RegularSigned, SignedMarks, Zenon DEF WriteFixed
<1>2. Marks(WriteOPD(d, opt), d)
  BY <1>1, NothingWritten, Zenon DEF WriteOPD
<1>3. Marks(WriteMBD(d, opt), d)
  BY <1>1, NothingWritten, Zenon DEF WriteMBD
<1>4. Marks(WriteADF(d, opt), d)
  BY <1>1, NothingWritten, Zenon DEF WriteADF
<1>5. Marks(WriteQDOS(d, opt), d)
  BY <1>1, NothingWritten, Zenon DEF WriteQDOS
<1>6. Marks(WriteSAD(d, opt), d)
  BY HeadedSigned, SignedMarks, NothingWritten, Zenon DEF WriteSAD
<1>7. Marks(WriteFD(d, opt), d)
  BY <1>1, NothingWritten, Zenon DEF WriteFD
<1>8. Marks(WriteSAP(d, opt), d)
  <2>1. ASSUME NEW f, Signed(f, d)
        PROVE  Marks(Wrote([f EXCEPT !.sign = IF d.damage = "bad" THEN "crc" ELSE @]), d)
    BY <2>1 DEF Signed, Marks, Wrote, FileFields
  <2>2. \A fmt, overhead : Signed(Headed(d, fmt, "sap", "SAP", overhead), d)
    BY HeadedSigned, Zenon
  <2> QED  BY <2>1, <2>2, NothingWritten, Zenon DEF WriteSAP
<1>9. Marks(WriteDTI(d, opt), d)
  <2> DEFINE f == Headed(d, HeadFirst(d.fmt), "dti", "DTI", 8)
             unit == 2304
             size == (d.fmt.cyls * d.fmt.heads) * 2304 + 8
             saved == [[f EXCEPT !.unit = unit] EXCEPT !.size = size]
  <2>1. WriteDTI(d, opt) = Throws \/ WriteDTI(d, opt) = Wrote(saved)
    BY DEF WriteDTI
  <2>2. Signed(f, d)
    BY HeadedSigned, Zenon
  <2> HIDE DEF f, unit, size
  <2>3. Signed([f EXCEPT !.unit = unit], d)
    BY <2>2, ChangedSigned, Zenon
  <2>4. Signed(saved, d)
    BY <2>3, ChangedSigned, Zenon
  <2> HIDE DEF saved
  <2> QED  BY <2>1, <2>4, SignedMarks, NothingWritten, Zenon
<1>10. Marks(WriteDO(d, opt), d)
  BY DEF WriteDO, Marks, Wrote, Regular, FileFields
<1>11. Marks(WriteRAW(d, opt), d)
  BY <1>1, NothingWritten, Zenon DEF WriteRAW
<1>12. Marks(WriteST(d, opt), d)
  <2>1. ASSUME NEW f, Signed(f, d), NEW v
        PROVE  Marks(Wrote([f EXCEPT !.holds = v]), d) /\ Marks(Wrote(f), d)
    BY <2>1, ChangedSigned, SignedMarks, Zenon
  <2>2. \A fmt : Signed(Regular(d, fmt, "st"), d)
    BY RegularSigned, Zenon
  <2>3. ASSUME NEW preset, NEW fmt
        PROVE  Marks(WriteSTIn(d, preset, fmt, opt), d)
    BY <2>1, <2>2, NothingWritten, Zenon DEF WriteSTIn
  <2> QED  BY <2>3, Zenon DEF WriteST
<1> QED  BY <1>1, <1>2, <1>3, <1>4, <1>5, <1>6, <1>7, <1>8, <1>9, <1>10, <1>11, <1>12
         DEF WriteMGT, WriteCPM, WriteLIF

(***************************************************************************)
(* The invariant                                                           *)
(***************************************************************************)

\* The damage of the disk that is saved, or was, is known.
SavedInv ==
    /\ source # NoDisk => source.damage # "lost" /\ file # NoFile
    /\ source = NoDisk /\ disk # NoDisk => disk.damage # "lost"

\* The file is signed as the disk it was saved from is damaged, and a disk that
\* was read from it is damaged as the file is signed.
FileInv ==
    /\ file # NoFile => FileFields(file)
    /\ file # NoFile /\ source = NoDisk => file.sign # "lost"
    /\ source # NoDisk /\ file.ext # "do" =>
          \/ file.sign = source.damage
          \/ file.sign = "crc" /\ source.damage = "bad"
    /\ source # NoDisk /\ disk # NoDisk => disk.damage = DamageBy(file.sign)

IInv == SavedInv /\ FileInv

\* What is open is marked as damaged when the medium was.
LEMMA InvMarks == IInv => DamageIsMarked
<1> SUFFICES ASSUME IInv, file # NoFile, source # NoDisk, file.ext # "do"
             PROVE  /\ source.damage # "none" => file.sign # "lost"
                    /\ disk # NoDisk => disk.damage # "none" \/ source.damage = "none"
  BY DEF DamageIsMarked
<1> QED  BY DEF IInv, SavedInv, FileInv, DamageBy

LEMMA InitMarks == Init => IInv
BY DEF Init, IInv, SavedInv, FileInv

LEMMA DeviceMarks == DamageIsKnown /\ IInv /\ ReadADevice => IInv'
<1> SUFFICES ASSUME DamageIsKnown, IInv, ReadADevice
             PROVE  IInv'
  OBVIOUS
<1>1. PICK d \in Media : ReadDevice(d)
  BY DEF ReadADevice
<1>2. d.damage # "lost"
  BY DEF DamageIsKnown
<1> QED  BY <1>1, <1>2 DEF ReadADevice, ReadDevice, IInv, SavedInv, FileInv

LEMMA FindMarks == DamageIsKnown /\ IInv /\ FindAFile => IInv'
<1> SUFFICES ASSUME DamageIsKnown, IInv, FindAFile
             PROVE  IInv'
  OBVIOUS
<1>1. PICK f \in Found : Find(f)
  BY DEF FindAFile
<1>2. FileFields(f) /\ f.sign # "lost"
  BY DEF DamageIsKnown
<1> QED  BY <1>1, <1>2 DEF FindAFile, Find, IInv, SavedInv, FileInv

LEMMA SaveMarks == IInv /\ SaveAs => IInv'
<1> SUFFICES ASSUME IInv, NEW ext \in SaveExts, Save(ext)
             PROVE  IInv'
  BY DEF SaveAs
<1>1. PICK result :
        /\ Marks(result, disk)
        /\ file' = IF result.said = "yes" THEN result.file ELSE NoFile
        /\ source' = IF result.said = "yes" THEN disk ELSE NoDisk
        /\ disk' = NoDisk /\ disk # NoDisk /\ source = NoDisk
  BY WritersMark, NothingWritten, Zenon DEF Save
<1>2. disk.damage # "lost"
  BY <1>1 DEF IInv, SavedInv
<1>3. CASE result.said # "yes"
  BY <1>1, <1>3 DEF IInv, SavedInv, FileInv
<1>4. CASE result.said = "yes"
  <2>1. file' = result.file /\ source' = disk
    BY <1>1, <1>4
  <2>2. FileFields(result.file) /\ NoFile # result.file
    BY <1>1, <1>4 DEF Marks, FileFields, NoFile
  <2>3. result.file.ext # "do" =>
            \/ result.file.sign = disk.damage
            \/ result.file.sign = "crc" /\ disk.damage = "bad"
    BY <1>1, <1>4 DEF Marks
  <2> QED  BY <1>1, <1>2, <2>1, <2>2, <2>3 DEF IInv, SavedInv, FileInv
<1> QED  BY <1>3, <1>4

LEMMA OpenMarks == IInv /\ Open => IInv'
<1> SUFFICES ASSUME IInv, Open
             PROVE  IInv'
  OBVIOUS
<1> DEFINE f == [file EXCEPT !.ext = NameSeen(options.layers, @)]
<1>1. FileFields(file)
  BY DEF Open, IInv, FileInv
<1>2. f.sign = file.sign /\ FileFields(f)
  BY <1>1, KeepsSign, Zenon
<1>3. Reads(Reading(f, options), f)
  BY <1>2, ReadingReads, Zenon
<1>4. PICK result :
        /\ result \in {IF Unpacked(options.layers) = <<>> THEN Reading(f, options) ELSE Throws}
        /\ disk' = IF result.said = "yes" THEN result.disk ELSE NoDisk
  BY DEF Open
<1> HIDE DEF f
<1>5. Reads(result, f)
  BY <1>3, <1>4, Refused
<1>6. result.said = "yes" => result.disk.damage = DamageBy(file.sign)
  BY <1>2, <1>5 DEF Reads
<1>7. UNCHANGED <<file, source>> /\ file # NoFile /\ disk = NoDisk
  BY DEF Open
<1>8. disk' # NoDisk => disk'.damage = DamageBy(file.sign)
  BY <1>4, <1>6
<1>9. file.sign # "lost" => DamageBy(file.sign) # "lost"
  BY DEF DamageBy
<1> QED  BY <1>7, <1>8, <1>9 DEF IInv, SavedInv, FileInv

LEMMA IdleMarks == IInv /\ UNCHANGED vars => IInv'
BY DEF IInv, SavedInv, FileInv, vars

\* A sector that could not be read is marked in the file, and is not taken for a
\* good one when the file is opened; only images of Apple disks have no mark.
\* For any media and any files whose damage, if they have any, shows, and for
\* any options and extensions.
THEOREM DamageMarked == DamageIsKnown => (Spec => []DamageIsMarked)
<1> SUFFICES ASSUME DamageIsKnown
             PROVE  Spec => []DamageIsMarked
  OBVIOUS
<1>1. Init => IInv
  BY InitMarks
<1>2. IInv /\ [Next]_vars => IInv'
  BY DeviceMarks, FindMarks, SaveMarks, OpenMarks, IdleMarks DEF Next
<1>3. IInv => DamageIsMarked
  BY InvMarks
<1> QED  BY <1>1, <1>2, <1>3, PTL DEF Spec

=============================================================================

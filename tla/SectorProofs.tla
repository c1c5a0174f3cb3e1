---------------------------- MODULE SectorProofs ----------------------------
(***************************************************************************)
(* Theorems about Sector: the type invariant; that the copies and read     *)
(* counts stay aligned, of one size and limited (CopiesInv); that copies   *)
(* come from what was read and the flag is honest (NoPhantomData,          *)
(* GoodFlagIsHonest); that good data survives and stable data stays stable *)
(* (GoodDataSurvives, StableStaysStable).  The proofs follow the calls:    *)
(* lemmas for the operations on the two lists, then for one read (Store,   *)
(* AddOriginal, Add), then one step for each action.                       *)
(***************************************************************************)
EXTENDS Sector, TLAPS, SequenceTheorems, WellFoundedInduction

\* A sector of the right type whose two lists belong together.
Sound(s) == s \in SectorType /\ WellFormed(s)

-----------------------------------------------------------------------------
(* The operations on the lists.                                            *)

\* RemoveAt shortens a sequence by one and invents no element.
LEMMA RemoveAtShortens ==
    ASSUME NEW S, NEW s \in Seq(S), NEW i \in 1..Len(s)
    PROVE  /\ RemoveAt(s, i) \in Seq(S)
           /\ Len(RemoveAt(s, i)) = Len(s) - 1
           /\ \A j \in 1..Len(RemoveAt(s, i)) :
                 \E k \in 1..Len(s) : RemoveAt(s, i)[j] = s[k]
<1> DEFINE a == SubSeq(s, 1, i - 1)
           b == SubSeq(s, i + 1, Len(s))
<1>1. a \in Seq(S) /\ Len(a) = i - 1 /\ \A j \in 1..Len(a) : a[j] = s[j]
  OBVIOUS
<1>2. /\ b \in Seq(S)
      /\ Len(b) = Len(s) - i
      /\ \A j \in 1..Len(b) : b[j] = s[i + j]
  OBVIOUS
<1> DEFINE c == a \o b
<1>3. /\ c \in Seq(S)
      /\ Len(c) = Len(a) + Len(b)
      /\ \A j \in 1..(Len(a) + Len(b)) :
            c[j] = IF j <= Len(a) THEN a[j] ELSE b[j - Len(a)]
  <2> HIDE DEF a, b
  <2> QED  BY <1>1, <1>2, ConcatProperties
<1>4. i \in 1..Len(s) /\ i \in Int /\ Len(s) \in Nat
  OBVIOUS
<1>5. RemoveAt(s, i) = c
  BY DEF RemoveAt
<1> HIDE DEF a, b, c
<1>6. Len(c) = Len(s) - 1
  BY <1>1, <1>2, <1>3, <1>4
<1>7. ASSUME NEW j \in 1..Len(c)
      PROVE  \E k \in 1..Len(s) : c[j] = s[k]
  <2>1. CASE j <= Len(a)
    <3>1. c[j] = s[j] /\ j \in 1..Len(s)
      BY <1>1, <1>3, <1>4, <1>6, <2>1
    <3> QED  BY <3>1
  <2>2. CASE j > Len(a)
    <3>1. /\ j - Len(a) \in 1..Len(b)
          /\ i + (j - Len(a)) \in 1..Len(s)
          /\ c[j] = b[j - Len(a)]
      BY <1>1, <1>2, <1>3, <1>4, <2>2
    <3>2. c[j] = s[i + (j - Len(a))]
      BY <1>2, <3>1
    <3> QED  BY <3>1, <3>2
  <2> QED  BY <1>1, <1>4, <1>6, <2>1, <2>2
<1> QED  BY <1>3, <1>5, <1>6, <1>7

\* Resize returns data of the size asked for.
LEMMA ResizeSize ==
    ASSUME NEW d \in Data, NEW n \in Nat
    PROVE  Resize(d, n) \in Data /\ Len(Resize(d, n)) = n
BY DEF Resize, Data, Byte

\* The size of a sector is that of each of its copies.
LEMMA DataSizeIsCommon ==
    ASSUME NEW s \in SectorType, SameSize(s)
    PROVE  /\ DataSize(s) \in Nat
           /\ \A i \in DOMAIN s.copies : Len(s.copies[i]) = DataSize(s)
<1>1. s.copies \in Seq(Data)
  BY DEF SectorType
<1>2. \A i \in DOMAIN s.copies : s.copies[i] \in Data
  BY <1>1
<1>3. \A d \in Data : Len(d) \in Nat
  BY DEF Data
<1>4. s.copies # << >> => 1 \in DOMAIN s.copies
  BY <1>1
<1>5. s.copies = << >> => DOMAIN s.copies = {}
  OBVIOUS
<1> QED  BY <1>2, <1>3, <1>4, <1>5 DEF DataSize, HasData, SameSize

\* Resizing all copies keeps their number and gives them one size.
LEMMA ResizeAllSize ==
    ASSUME NEW ds \in Seq(Data), NEW n \in Nat
    PROVE  /\ ResizeAll(ds, n) \in Seq(Data)
           /\ Len(ResizeAll(ds, n)) = Len(ds)
           /\ \A i \in DOMAIN ResizeAll(ds, n) : Len(ResizeAll(ds, n)[i]) = n
<1>1. \A i \in DOMAIN ds : ds[i] \in Data
  OBVIOUS
<1>2. \A i \in DOMAIN ds : Resize(ds[i], n) \in Data /\ Len(Resize(ds[i], n)) = n
  BY <1>1, ResizeSize
<1> QED  BY <1>2 DEF ResizeAll

\* Erasing one copy with its count keeps the lists in step.
LEMMA EraseDataSound ==
    ASSUME NEW s, Sound(s), NEW n \in DOMAIN s.copies
    PROVE  Sound(EraseData(s, n)) /\ EraseData(s, n).badIdCrc = s.badIdCrc
<1> DEFINE c == RemoveAt(s.copies, n)
           t == RemoveAt(s.stats, n)
<1>1. /\ s.copies \in Seq(Data) /\ s.stats \in Seq(Int)
      /\ Len(s.copies) = Len(s.stats)
      /\ n \in 1..Len(s.copies) /\ n \in 1..Len(s.stats)
  BY DEF Sound, SectorType, WellFormed, Aligned
<1>2. /\ c \in Seq(Data) /\ Len(c) = Len(s.copies) - 1
      /\ \A i \in 1..Len(c) : \E k \in 1..Len(s.copies) : c[i] = s.copies[k]
  BY <1>1, RemoveAtShortens
<1>3. t \in Seq(Int) /\ Len(t) = Len(s.stats) - 1
  BY <1>1, RemoveAtShortens
<1>4. EraseData(s, n) = [s EXCEPT !.copies = c, !.stats = t]
  BY DEF EraseData
<1> HIDE DEF c, t
<1>5. EraseData(s, n) \in SectorType
  BY <1>2, <1>3, <1>4 DEF Sound, SectorType
<1>6. EraseData(s, n).copies = c /\ EraseData(s, n).stats = t
  BY <1>4 DEF Sound, SectorType
<1>7. EraseData(s, n).badIdCrc = s.badIdCrc
  BY <1>4 DEF Sound, SectorType
<1>8. \A i, j \in DOMAIN c : Len(c[i]) = Len(c[j])
  <2>1. DOMAIN c = 1..Len(c) /\ DOMAIN s.copies = 1..Len(s.copies)
    BY <1>1, <1>2
  <2> QED  BY <1>2, <2>1 DEF Sound, WellFormed, SameSize
<1>9. Len(c) <= MaxCopies /\ Len(c) = Len(t)
  BY <1>1, <1>2, <1>3, SectorAssumption DEF Sound, WellFormed, WithinLimit
<1>10. s.badIdCrc => FALSE
  BY <1>1 DEF Sound, WellFormed, NoDataUnderBadId
<1> QED  BY <1>5, <1>6, <1>7, <1>8, <1>9, <1>10
         DEF Sound, WellFormed, Aligned, SameSize, WithinLimit, NoDataUnderBadId

\* Removing all data leaves both lists empty.
LEMMA RemoveDataSound ==
    ASSUME NEW s \in SectorType
    PROVE  Sound(RemoveData(s)) /\ RemoveData(s).badIdCrc = s.badIdCrc
<1>1. RemoveData(s) \in SectorType
  <2>1. << >> \in Seq(Data) /\ << >> \in Seq(Int) /\ Normal \in Dams
    BY DEF Dams
  <2> QED  BY <2>1 DEF RemoveData, SectorType
<1>2. RemoveData(s).copies = << >> /\ RemoveData(s).stats = << >>
  BY DEF RemoveData, SectorType
<1> QED  BY <1>1, <1>2, SectorAssumption
         DEF Sound, WellFormed, Aligned, SameSize, WithinLimit, NoDataUnderBadId,
             RemoveData, SectorType

\* Keeping the first n copies keeps their counts.
LEMMA LimitCopiesSound ==
    ASSUME NEW s, Sound(s), NEW n \in Nat
    PROVE  /\ Sound(LimitCopies(s, n))
           /\ LimitCopies(s, n).badIdCrc = s.badIdCrc
           /\ n = MaxCopies => LimitCopies(s, n) = s
<1>1. /\ s \in SectorType /\ s.copies \in Seq(Data) /\ s.stats \in Seq(Int)
      /\ Len(s.copies) = Len(s.stats) /\ Len(s.copies) <= MaxCopies
  BY DEF Sound, SectorType, WellFormed, Aligned, WithinLimit
<1>2. CASE ~(Len(s.copies) > n)
  BY <1>2 DEF LimitCopies
<1>3. CASE Len(s.copies) > n
  <2> DEFINE c == SubSeq(s.copies, 1, n)
             t == SubSeq(s.stats, 1, n)
  <2>1. c \in Seq(Data) /\ Len(c) = n /\ \A i \in 1..n : c[i] = s.copies[i]
    BY <1>1, <1>3
  <2>2. t \in Seq(Int) /\ Len(t) = n
    BY <1>1, <1>3
  <2>3. LimitCopies(s, n) = [s EXCEPT !.copies = c, !.stats = t]
    BY <1>1, <1>3 DEF LimitCopies
  <2> HIDE DEF c, t
  <2>4. LimitCopies(s, n) \in SectorType
    BY <1>1, <2>1, <2>2, <2>3 DEF SectorType
  <2>5. /\ LimitCopies(s, n).copies = c /\ LimitCopies(s, n).stats = t
        /\ LimitCopies(s, n).badIdCrc = s.badIdCrc
    BY <1>1, <2>3 DEF SectorType
  <2>6. \A i, j \in DOMAIN c : Len(c[i]) = Len(c[j])
    <3>1. DOMAIN c = 1..n /\ 1..n \subseteq DOMAIN s.copies
      BY <1>1, <1>3, <2>1
    <3> QED  BY <2>1, <3>1 DEF Sound, WellFormed, SameSize
  <2>7. Len(c) <= MaxCopies /\ n # MaxCopies
    BY <1>1, <1>3, <2>1, SectorAssumption
  <2>8. ~s.badIdCrc
    BY <1>1, <1>3 DEF Sound, WellFormed, NoDataUnderBadId
  <2> QED  BY <2>1, <2>2, <2>4, <2>5, <2>6, <2>7, <2>8
           DEF Sound, WellFormed, Aligned, SameSize, WithinLimit, NoDataUnderBadId
<1> QED  BY <1>2, <1>3

\* Any change that gives all copies one new size keeps the sector sound.
LEMMA ResizedSound ==
    ASSUME NEW s, Sound(s), NEW n \in Nat, NEW c \in Seq(Data),
           Len(c) = Len(s.copies), \A i \in DOMAIN c : Len(c[i]) = n
    PROVE  Sound([s EXCEPT !.copies = c])
<1>1. s \in SectorType /\ s.copies \in Seq(Data) /\ s.stats \in Seq(Int)
  BY DEF Sound, SectorType
<1>2. [s EXCEPT !.copies = c] \in SectorType
  BY <1>1 DEF SectorType
<1>3. /\ [s EXCEPT !.copies = c].copies = c
      /\ [s EXCEPT !.copies = c].stats = s.stats
      /\ [s EXCEPT !.copies = c].badIdCrc = s.badIdCrc
  BY <1>1 DEF SectorType
<1>4. s.copies = << >> => c = << >>
  BY <1>1
<1> QED  BY <1>2, <1>3, <1>4
         DEF Sound, WellFormed, Aligned, SameSize, WithinLimit, NoDataUnderBadId

-----------------------------------------------------------------------------
(* One read: the data is compared with the copies, then stored or counted. *)

\* What add_original leaves for process_merge_result: a new copy still lacks its
\* count, and a matched copy has one.
Pending(out) ==
    /\ out.sector \in SectorType
    /\ SameSize(out.sector) /\ WithinLimit(out.sector)
    /\ NoDataUnderBadId(out.sector)
    /\ out.status \in Merge
    /\ out.improved \in Int
    /\ IF out.status \in {"NewData", "Improved"}
       THEN ~out.sector.badIdCrc
            /\ Len(out.sector.copies) = Len(out.sector.stats) + 1
       ELSE Aligned(out.sector)
    /\ out.status = "Matched" => out.at \in DOMAIN out.sector.stats

\* The smaller of two numbers is one of them.
LEMMA MinOfTwo ==
    ASSUME NEW a \in Nat, NEW b \in Nat
    PROVE  Min({a, b}) \in {a, b} /\ Min({a, b}) \in Nat
<1>1. CASE a <= b
  <2>1. a \in {a, b} /\ \A y \in {a, b} : a =< y
    BY <1>1
  <2> QED  BY <2>1 DEF Min
<1>2. CASE b <= a
  <2>1. b \in {a, b} /\ \A y \in {a, b} : b =< y
    BY <1>2
  <2> QED  BY <2>1 DEF Min
<1> QED  BY <1>1, <1>2

\* Data that is neither refused nor known is stored as a copy without a count,
\* dropped because the copies are full, or given up.
LEMMA StorePending ==
    ASSUME NEW s, Sound(s), ~s.badIdCrc,
           NEW d \in Data, NEW bad \in BOOLEAN, NEW dam \in Dams,
           NEW st \in {"NewData", "Improved"}, NEW imp \in Int
    PROVE  LET out == Store(s, d, bad, dam, st, imp)
           IN  /\ Pending(out)
               /\ out.sector.readAttempts = s.readAttempts
<1> DEFINE size == IF HasData(s) THEN Min({Len(d), DataSize(s)}) ELSE Len(d)
           c == ResizeAll(s.copies, size)
           cut == [s EXCEPT !.copies = c]
           stored == IF Len(s.copies) >= MaxCopies THEN LimitCopies(cut, MaxCopies)
                     ELSE [cut EXCEPT !.copies = Append(@, Resize(d, size))]
           flagged == [stored EXCEPT !.badDataCrc = bad, !.dam = dam]
           out == Store(s, d, bad, dam, st, imp)
<1>1. /\ s \in SectorType /\ s.copies \in Seq(Data) /\ s.stats \in Seq(Int)
      /\ SameSize(s) /\ Aligned(s) /\ WithinLimit(s) /\ MaxCopies \in Nat
  BY SectorAssumption DEF Sound, SectorType, WellFormed
<1>2. Len(d) \in Nat /\ DataSize(s) \in Nat
  BY <1>1, DataSizeIsCommon DEF Data
<1>3. size \in Nat
  BY <1>2, MinOfTwo
<1> HIDE DEF size
<1>4. /\ c \in Seq(Data) /\ Len(c) = Len(s.copies)
      /\ \A i \in DOMAIN c : Len(c[i]) = size
  BY <1>1, <1>3, ResizeAllSize
<1>5. Resize(d, size) \in Data /\ Len(Resize(d, size)) = size
  BY <1>3, ResizeSize
<1> HIDE DEF c
<1>6. Sound(cut)
  BY <1>3, <1>4, ResizedSound
<1>7. /\ cut \in SectorType /\ cut.copies = c /\ cut.stats = s.stats
      /\ cut.badIdCrc = FALSE /\ cut.readAttempts = s.readAttempts
  BY <1>1, <1>4 DEF SectorType
<1>8. ASSUME Len(s.copies) >= MaxCopies
      PROVE  Pending(out) /\ out.sector.readAttempts = s.readAttempts
  <2>1. stored = cut
    BY <1>1, <1>6, <1>8, LimitCopiesSound
  <2>2. \/ out = Outcome(s, "Unchanged", 0, 0)
        \/ out = Outcome(flagged, "NewDataOverLimit", 0, imp)
    BY <1>8 DEF Store, size, c
  <2> HIDE DEF cut, stored, out
  <2>3. /\ flagged \in SectorType
        /\ flagged.copies = c /\ flagged.stats = s.stats
        /\ flagged.badIdCrc = FALSE /\ flagged.readAttempts = s.readAttempts
    BY <1>7, <2>1 DEF SectorType
  <2>4. SameSize(flagged) /\ WithinLimit(flagged) /\ Aligned(flagged)
    BY <1>1, <1>4, <2>3 DEF SameSize, WithinLimit, Aligned
  <2> HIDE DEF flagged
  <2> QED
    BY <1>1, <2>2, <2>3, <2>4 DEF Pending, Outcome, Sound, WellFormed, Merge, NoDataUnderBadId
<1>9. ASSUME Len(s.copies) < MaxCopies
      PROVE  Pending(out) /\ out.sector.readAttempts = s.readAttempts
  <2> DEFINE more == Append(c, Resize(d, size))
  <2>1. /\ more \in Seq(Data) /\ Len(more) = Len(c) + 1
        /\ \A i \in 1..Len(c) : more[i] = c[i]
        /\ more[Len(c) + 1] = Resize(d, size)
    BY <1>4, <1>5, AppendProperties
  <2>2. stored = [cut EXCEPT !.copies = more]
    BY <1>1, <1>7, <1>9
  <2>3. out = Outcome(s, "Unchanged", 0, 0) \/ out = Outcome(flagged, st, 0, imp)
    BY <1>1, <1>9 DEF Store, size, c
  <2> HIDE DEF cut, stored, out, more
  <2>4. /\ flagged \in SectorType
        /\ flagged.copies = more /\ flagged.stats = s.stats
        /\ flagged.badIdCrc = FALSE /\ flagged.readAttempts = s.readAttempts
    BY <1>7, <2>1, <2>2 DEF SectorType
  <2> HIDE DEF flagged
  <2>5. \A i \in 1..Len(more) : Len(more[i]) = size
    <3>1. DOMAIN c = 1..Len(c) /\ Len(c) \in Nat
      BY <1>4
    <3> QED  BY <1>4, <1>5, <2>1, <3>1
  <2>6. SameSize(flagged)
    <3>1. DOMAIN more = 1..Len(more)
      BY <2>1
    <3> QED  BY <2>4, <2>5, <3>1 DEF SameSize
  <2>7. Len(more) <= MaxCopies /\ Len(more) = Len(s.stats) + 1
    <3>1. Len(s.copies) \in Nat
      BY <1>1
    <3> QED  BY <1>1, <1>4, <1>9, <2>1, <3>1 DEF Aligned
  <2> QED
    BY <1>1, <2>3, <2>4, <2>6, <2>7
    DEF Pending, Outcome, Sound, WellFormed, WithinLimit, Merge, NoDataUnderBadId
<1>10. Len(s.copies) \in Nat
  BY <1>1
<1> QED  BY <1>1, <1>8, <1>9, <1>10

\* A nonempty set of natural numbers has its least element in it.
LEMMA MinIsElement ==
    ASSUME NEW S, S \subseteq Nat, S # {}
    PROVE  Min(S) \in S
<1> DEFINE R == {p \in Nat \X Nat : p[1] < p[2]}
<1>1. IsWellFoundedOn(R, Nat)
  BY NatLessThanWellFounded DEF OpToRel
<1>2. ASSUME NEW y \in Nat, NEW x \in Nat, y < x
      PROVE  <<y, x>> \in R
  BY <1>2
<1> HIDE DEF R
<1>3. PICK x \in S : \A y \in S : ~(<<y, x>> \in R)
  BY <1>1, WFMin
<1>4. ASSUME NEW y \in S
      PROVE  x =< y
  <2>1. x \in Nat /\ y \in Nat
    OBVIOUS
  <2>2. ~(y < x)
    BY <1>2, <1>3, <2>1
  <2> QED  BY <2>1, <2>2
<1> QED  BY <1>4 DEF Min

\* add_original leaves a sector that process_merge_result can complete.
LEMMA AddOriginalPending ==
    ASSUME NEW s, Sound(s), NEW d \in Data, NEW bad \in BOOLEAN, NEW dam \in Dams
    PROVE  /\ Pending(AddOriginal(s, d, bad, dam))
           /\ AddOriginal(s, d, bad, dam).sector.readAttempts = s.readAttempts
<1> DEFINE base == IF Supersedes(s, d, bad) THEN RemoveData(s) ELSE s
           first == Min(Agreeing(base, d))
           out == AddOriginal(s, d, bad, dam)
           Goal == Pending(out) /\ out.sector.readAttempts = s.readAttempts
<1>1. s \in SectorType /\ Aligned(s)
  BY DEF Sound, WellFormed
<1>2. /\ Sound(base)
      /\ base.badIdCrc = s.badIdCrc /\ base.readAttempts = s.readAttempts
  BY <1>1, RemoveDataSound DEF RemoveData, SectorType
<1>3. CASE Refuses(s, d, bad)
  <2>1. out = Outcome(s, "Unchanged", 0, 0)
    BY <1>3 DEF AddOriginal
  <2> HIDE DEF out
  <2>2. Goal
    BY <2>1 DEF Pending, Outcome, Sound, WellFormed, Merge
  <2> QED  BY <2>2 DEF out
<1>4. CASE ~Refuses(s, d, bad)
  <2>1. ~s.badIdCrc
    BY <1>4 DEF Refuses
  <2>2. CASE Agreeing(base, d) = {}
    <3>1. out = Store(base, d, bad, dam, "NewData", 0)
      BY <1>4, <2>2 DEF AddOriginal
    <3> HIDE DEF out, base
    <3>2. Goal
      BY <1>2, <2>1, <3>1, StorePending
    <3> QED  BY <3>2 DEF out
  <2>3. CASE Agreeing(base, d) # {}
    <3>1. first \in DOMAIN base.copies
      <4>1. DOMAIN base.copies \subseteq Nat
        BY <1>2 DEF Sound, SectorType
      <4>2. Agreeing(base, d) \subseteq DOMAIN base.copies
        BY DEF Agreeing
      <4> HIDE DEF base
      <4> QED  BY <2>3, <4>1, <4>2, MinIsElement
    <3>2. /\ base \in SectorType /\ Aligned(base) /\ SameSize(base)
          /\ WithinLimit(base) /\ NoDataUnderBadId(base)
          /\ DOMAIN base.copies = DOMAIN base.stats
          /\ base.stats[first] \in Int
      <4> HIDE DEF base, first
      <4>1. base \in SectorType /\ Aligned(base)
        BY <1>2 DEF Sound, WellFormed
      <4>2. DOMAIN base.copies = DOMAIN base.stats
        BY <4>1 DEF SectorType, Aligned
      <4> QED  BY <1>2, <3>1, <4>1, <4>2 DEF Sound, WellFormed, SectorType
    <3>3. CASE KeepsStored(base.copies[first], d, CompleteSize(base, d))
      <4>1. out = Outcome(base, "Matched", first, 0)
        BY <1>4, <2>3, <3>3 DEF AddOriginal
      <4> HIDE DEF out, base, first
      <4>2. Goal
        BY <1>2, <3>1, <3>2, <4>1 DEF Pending, Outcome, Merge
      <4> QED  BY <4>2 DEF out
    <3>4. CASE ~KeepsStored(base.copies[first], d, CompleteSize(base, d))
      <4>1. out = Store(EraseData(base, first), d, bad, dam, "Improved", base.stats[first])
        BY <1>4, <2>3, <3>4 DEF AddOriginal
      <4> HIDE DEF out, base, first
      <4>2. Sound(EraseData(base, first)) /\ ~EraseData(base, first).badIdCrc
        BY <1>2, <2>1, <3>1, EraseDataSound
      <4>3. EraseData(base, first).readAttempts = s.readAttempts
        BY <1>2, <3>2 DEF EraseData, SectorType
      <4>4. Goal
        BY <3>2, <4>1, <4>2, <4>3, StorePending
      <4> QED  BY <4>4 DEF out
    <3> QED  BY <3>3, <3>4
  <2> QED  BY <2>2, <2>3
<1> QED  BY <1>3, <1>4

\* The combined rate of two readings is a whole number.
LEMMA PercentCombinedIsInt ==
    ASSUME NEW c1 \in Int, NEW c2 \in Int, NEW a1 \in Nat \ {0}, NEW a2 \in Nat \ {0}
    PROVE  PercentCombined(c1, a1, c2, a2) \in Int
<1> DEFINE num == (c1 * a2 + c2 * a1 - c1 * c2) * (a1 + a2)
           den == a1 * a2
<1>1. num \in Int /\ den \in Int /\ den > 0
  OBVIOUS
<1>2. PercentCombined(c1, a1, c2, a2) = (2 * num + den) \div (2 * den)
  BY DEF PercentCombined
<1> HIDE DEF num, den
<1>3. (2 * num + den) \in Int /\ 2 * den \in Int /\ 2 * den > 0
  BY <1>1
<1>4. ASSUME NEW x \in Int, NEW y \in Int, y > 0
      PROVE  x \div y \in Int
  BY <1>4
<1> QED  BY <1>2, <1>3, <1>4

\* process_merge_result adds exactly the count that is missing.
LEMMA ProcessMergeResultSound ==
    ASSUME NEW out, Pending(out), NEW attempts \in Nat, NEW count \in Int,
           NEW counterMode \in BOOLEAN,
           counterMode \/ (out.status \in {"Matched", "Improved"}
                              => out.sector.readAttempts > 0 /\ attempts > 0)
    PROVE  Sound(ProcessMergeResult(out, attempts, count, counterMode))
<1> DEFINE s == out.sector
           Combined(old) == IF counterMode THEN old + count
                            ELSE PercentCombined(old, s.readAttempts, count, attempts)
           res == ProcessMergeResult(out, attempts, count, counterMode)
<1>1. /\ s \in SectorType /\ s.copies \in Seq(Data) /\ s.stats \in Seq(Int)
      /\ s.readAttempts \in Nat /\ out.improved \in Int
      /\ SameSize(s) /\ WithinLimit(s) /\ NoDataUnderBadId(s)
  BY DEF Pending, SectorType
<1>2. ASSUME out.status \in {"Matched", "Improved"}, NEW old \in Int
      PROVE  Combined(old) \in Int
  <2>1. CASE counterMode
    BY <2>1
  <2>2. CASE ~counterMode
    <3>1. s.readAttempts \in Nat \ {0} /\ attempts \in Nat \ {0}
      BY <1>1, <1>2, <2>2
    <3> QED  BY <2>2, <3>1, PercentCombinedIsInt
  <2> QED  BY <2>1, <2>2
<1>3. ASSUME NEW t \in Seq(Int), Len(s.copies) = Len(t)
      PROVE  Sound([s EXCEPT !.stats = t])
  <2> HIDE DEF s
  <2>1. /\ [s EXCEPT !.stats = t] \in SectorType
        /\ [s EXCEPT !.stats = t].copies = s.copies
        /\ [s EXCEPT !.stats = t].stats = t
        /\ [s EXCEPT !.stats = t].badIdCrc = s.badIdCrc
    BY <1>1 DEF SectorType
  <2> QED  BY <1>1, <1>3, <2>1
           DEF Sound, WellFormed, Aligned, SameSize, WithinLimit, NoDataUnderBadId
<1>4. CASE out.status = "NewData"
  <2>1. res = [s EXCEPT !.stats = Append(s.stats, count)]
    BY <1>4 DEF ProcessMergeResult
  <2>2. Append(s.stats, count) \in Seq(Int) /\ Len(s.copies) = Len(Append(s.stats, count))
    BY <1>1, <1>4, AppendProperties DEF Pending
  <2> QED  BY <1>3, <2>1, <2>2
<1>5. CASE out.status = "Improved"
  <2>1. res = [s EXCEPT !.stats = Append(s.stats, Combined(out.improved))]
    BY <1>5 DEF ProcessMergeResult
  <2>2. Combined(out.improved) \in Int
    BY <1>1, <1>2, <1>5
  <2> HIDE DEF Combined
  <2>3. /\ Append(s.stats, Combined(out.improved)) \in Seq(Int)
        /\ Len(s.copies) = Len(Append(s.stats, Combined(out.improved)))
    BY <1>1, <1>5, <2>2, AppendProperties DEF Pending
  <2> QED  BY <1>3, <2>1, <2>3
<1>6. CASE out.status = "Matched"
  <2> DEFINE i == out.at
             t == [s.stats EXCEPT ![i] = Combined(s.stats[i])]
  <2>1. res = [s EXCEPT !.stats = t]
    BY <1>6 DEF ProcessMergeResult
  <2>2. i \in 1..Len(s.stats) /\ s.stats[i] \in Int
    BY <1>1, <1>6 DEF Pending
  <2>3. Combined(s.stats[i]) \in Int
    BY <1>2, <1>6, <2>2
  <2> HIDE DEF Combined
  <2>4. t \in Seq(Int) /\ Len(t) = Len(s.stats)
    BY <1>1, <2>2, <2>3, ExceptSeq
  <2>5. Len(s.copies) = Len(s.stats)
    BY <1>6 DEF Pending, Aligned
  <2> QED  BY <1>3, <2>1, <2>4, <2>5
<1>7. CASE out.status \notin {"NewData", "Improved", "Matched"}
  <2>1. res = s
    BY <1>7 DEF ProcessMergeResult
  <2> QED  BY <1>1, <1>7, <2>1 DEF Pending, Sound, WellFormed
<1> QED  BY <1>4, <1>5, <1>6, <1>7

\* Adding data that was read, or a copy of another reading, keeps the sector sound.
LEMMA AddSound ==
    ASSUME NEW s, Sound(s), NEW d \in Data, NEW bad \in BOOLEAN, NEW dam \in Dams,
           NEW attempts \in Nat, NEW count \in Int, NEW counterMode \in BOOLEAN,
           counterMode \/ (AddOriginal(s, d, bad, dam).status \in {"Matched", "Improved"}
                              => s.readAttempts > 0 /\ attempts > 0)
    PROVE  /\ Sound(Add(s, d, bad, dam, attempts, count, counterMode).sector)
           /\ Add(s, d, bad, dam, attempts, count, counterMode).status \in Merge
<1> DEFINE out == AddOriginal(s, d, bad, dam)
<1>1. Pending(out) /\ out.sector.readAttempts = s.readAttempts
  BY AddOriginalPending
<1>2. /\ Add(s, d, bad, dam, attempts, count, counterMode).sector
            = ProcessMergeResult(out, attempts, count, counterMode)
      /\ Add(s, d, bad, dam, attempts, count, counterMode).status = out.status
  BY DEF Add
<1> HIDE DEF out
<1>3. Sound(ProcessMergeResult(out, attempts, count, counterMode))
  BY <1>1, ProcessMergeResultSound DEF out
<1> QED  BY <1>1, <1>2, <1>3 DEF Pending

\* Counting an attempt touches neither list.
LEMMA CountedSound ==
    ASSUME NEW s, Sound(s), NEW n \in Nat
    PROVE  Sound([s EXCEPT !.readAttempts = n])
<1>1. /\ [s EXCEPT !.readAttempts = n] \in SectorType
      /\ [s EXCEPT !.readAttempts = n].copies = s.copies
      /\ [s EXCEPT !.readAttempts = n].stats = s.stats
      /\ [s EXCEPT !.readAttempts = n].badIdCrc = s.badIdCrc
  BY DEF Sound, SectorType
<1> QED  BY <1>1
         DEF Sound, WellFormed, Aligned, SameSize, WithinLimit, NoDataUnderBadId

-----------------------------------------------------------------------------
(* The other operations of the actions.                                    *)

\* A new sector is sound.
LEMMA NewSectorSound ==
    ASSUME NEW constant \in BOOLEAN
    PROVE  Sound(NewSector(constant))
<1>1. << >> \in Seq(Data) /\ << >> \in Seq(Int) /\ Normal \in Dams
  BY DEF Dams
<1> QED  BY <1>1, SectorAssumption
         DEF NewSector, Sound, SectorType, WellFormed, Aligned, SameSize, WithinLimit,
             NoDataUnderBadId

\* Setting the bad id flag drops the data, clearing it changes nothing else.
LEMMA SetBadIdCrcSound ==
    ASSUME NEW s, Sound(s), NEW bad \in BOOLEAN
    PROVE  Sound(SetBadIdCrc(s, bad)) /\ SetBadIdCrc(s, bad).readAttempts = s.readAttempts
<1> DEFINE flagged == [s EXCEPT !.badIdCrc = bad]
<1>1. /\ flagged \in SectorType /\ flagged.copies = s.copies /\ flagged.stats = s.stats
      /\ flagged.badIdCrc = bad /\ flagged.readAttempts = s.readAttempts
  BY DEF Sound, SectorType
<1>2. CASE bad
  <2>1. SetBadIdCrc(s, bad) = RemoveData(flagged)
    BY <1>2 DEF SetBadIdCrc
  <2> HIDE DEF flagged
  <2>2. RemoveData(flagged).readAttempts = s.readAttempts
    BY <1>1 DEF RemoveData, SectorType
  <2> QED  BY <1>1, <2>1, <2>2, RemoveDataSound
<1>3. CASE ~bad
  <2>1. SetBadIdCrc(s, bad) = flagged
    BY <1>3 DEF SetBadIdCrc
  <2> HIDE DEF flagged
  <2> QED  BY <1>1, <1>3, <2>1
           DEF Sound, WellFormed, Aligned, SameSize, WithinLimit, NoDataUnderBadId
<1> QED  BY <1>2, <1>3

\* Removing gap data cuts all copies at the same place.
LEMMA RemoveGapDataSound ==
    ASSUME NEW s, Sound(s), NEW keepCrc \in BOOLEAN
    PROVE  Sound(RemoveGapData(s, keepCrc))
<1> DEFINE n == IF keepCrc /\ s.badDataCrc /\ DataSize(s) >= Size + CrcSize
                THEN Size + CrcSize ELSE Size
           At(d) == IF keepCrc /\ s.badDataCrc /\ Len(d) >= Size + CrcSize
                    THEN Size + CrcSize ELSE Size
           c == [i \in DOMAIN s.copies |-> Resize(s.copies[i], At(s.copies[i]))]
<1>1. s \in SectorType /\ s.copies \in Seq(Data)
  BY DEF Sound, SectorType
<1>2. n \in Nat
  BY SectorAssumption
<1>3. ASSUME NEW i \in DOMAIN s.copies
      PROVE  At(s.copies[i]) = n /\ s.copies[i] \in Data
  BY <1>1, DataSizeIsCommon DEF Sound, WellFormed
<1>4. RemoveGapData(s, keepCrc) \in {s, [s EXCEPT !.copies = c]}
  BY <1>1 DEF RemoveGapData
<1> HIDE DEF n, At
<1>5. c = ResizeAll(s.copies, n)
  BY <1>3 DEF ResizeAll
<1>6. c \in Seq(Data) /\ Len(c) = Len(s.copies) /\ \A i \in DOMAIN c : Len(c[i]) = n
  BY <1>1, <1>2, <1>5, ResizeAllSize
<1> HIDE DEF c
<1>7. Sound([s EXCEPT !.copies = c])
  BY <1>2, <1>6, ResizedSound
<1> QED  BY <1>4, <1>7

\* Declaring data bad keeps the copies.
LEMMA SetBadDataCrcSound ==
    ASSUME NEW s, Sound(s)
    PROVE  Sound(SetBadDataCrc(s, TRUE))
<1>1. SetBadDataCrc(s, TRUE) = [s EXCEPT !.badDataCrc = TRUE]
  BY DEF SetBadDataCrc
<1>2. /\ [s EXCEPT !.badDataCrc = TRUE] \in SectorType
      /\ [s EXCEPT !.badDataCrc = TRUE].copies = s.copies
      /\ [s EXCEPT !.badDataCrc = TRUE].stats = s.stats
      /\ [s EXCEPT !.badDataCrc = TRUE].badIdCrc = s.badIdCrc
  BY DEF Sound, SectorType
<1> QED  BY <1>1, <1>2
         DEF Sound, WellFormed, Aligned, SameSize, WithinLimit, NoDataUnderBadId

-----------------------------------------------------------------------------
(* The invariant.  CopiesInv speaks of the sector only; a merge preserves   *)
(* it because the other sector is sound too and the loop stays within its   *)
(* copies, and both facts have to be carried along.                         *)

IInv ==
    /\ Sound(sector)
    /\ merging \in MergingType
    /\ Sound(merging.from)
    /\ status \in Merge

LEMMA IdleSound == Idle \in MergingType /\ Sound(Idle.from)
<1>1. Sound(NewSector(FALSE)) /\ NewSector(FALSE) \in SectorType
  BY NewSectorSound DEF Sound
<1>2. "Unchanged" \in Merge
  BY DEF Merge
<1>3. \A s \in SectorType :
         /\ [active |-> FALSE, from |-> s, next |-> 1, ret |-> "Unchanged"] \in MergingType
         /\ [active |-> FALSE, from |-> s, next |-> 1, ret |-> "Unchanged"].from = s
  BY <1>2 DEF MergingType
<1> QED  BY <1>1, <1>3, Zenon DEF Idle

LEMMA InitSound == Init => IInv
<1> SUFFICES ASSUME Init PROVE IInv
  OBVIOUS
<1>1. Sound(sector)
  BY NewSectorSound, SetBadIdCrcSound DEF Init
<1> QED  BY <1>1, IdleSound DEF Init, IInv, Merge

LEMMA OthersSound == \A o \in Others : Sound(o)
BY SectorAssumption DEF Sound

LEMMA NextSound == IInv /\ [Next]_vars => IInv'
<1> SUFFICES ASSUME IInv, [Next]_vars PROVE IInv'
  OBVIOUS
<1>0. /\ Sound(sector) /\ sector \in SectorType /\ sector.readAttempts \in Nat
      /\ merging \in MergingType /\ Sound(merging.from) /\ status \in Merge
      /\ merging.from \in SectorType /\ merging.from.readAttempts \in Nat
  BY DEF IInv, Sound, SectorType
<1>1. CASE AddData
  <2>1. PICK r \in Reads : /\ sector' = AddRead(sector, r).sector
                           /\ status' = AddRead(sector, r).status
    BY <1>1 DEF AddData
  <2>2. r.data \in Data /\ r.bad \in BOOLEAN /\ r.dam \in Dams
    BY SectorAssumption DEF ReadType
  <2> DEFINE added == Add(sector, r.data, r.bad, r.dam, 1, 1, TRUE)
  <2>3. Sound(added.sector) /\ added.status \in Merge
    <3>1. 1 \in Nat /\ 1 \in Int /\ TRUE \in BOOLEAN
      OBVIOUS
    <3> QED  BY <1>0, <2>2, <3>1, AddSound, Zenon
  <2>4. added = [sector |-> added.sector, status |-> added.status]
    BY DEF Add
  <2>5. /\ AddRead(sector, r) = [added EXCEPT !.sector.readAttempts = @ + 1]
    BY DEF AddRead
  <2> HIDE DEF added
  <2>6. /\ sector' = [added.sector EXCEPT !.readAttempts = added.sector.readAttempts + 1]
        /\ status' = added.status
    BY <2>1, <2>4, <2>5
  <2>7. added.sector.readAttempts + 1 \in Nat
    BY <2>3 DEF Sound, SectorType
  <2>8. Sound(sector')
    BY <2>3, <2>6, <2>7, CountedSound
  <2> QED  BY <1>0, <1>1, <2>3, <2>6, <2>8 DEF AddData, IInv
<1>2. CASE AddReadAttempts
  <2>1. Sound([sector EXCEPT !.readAttempts = sector.readAttempts + 1])
    BY <1>0, CountedSound
  <2> QED  BY <1>0, <1>2, <2>1 DEF AddReadAttempts, IInv
<1>3. CASE BeginMerge
  <2> DEFINE repaired == SetBadIdCrc(sector, FALSE)
             ret == IF sector.badIdCrc THEN "Improved" ELSE "Unchanged"
  <2>1. Sound(repaired) /\ repaired.readAttempts \in Nat
    BY <1>0, SetBadIdCrcSound
  <2>2. PICK o \in Others :
           \/ status' = "Unchanged" /\ UNCHANGED <<sector, merging>>
           \/ /\ sector' = [repaired EXCEPT !.readAttempts = repaired.readAttempts
                                                                + o.readAttempts]
              /\ status' = ret /\ UNCHANGED merging
           \/ sector' = repaired /\ merging' = MergeStart(o, ret) /\ UNCHANGED status
    BY <1>3 DEF BeginMerge
  <2>3. Sound(o) /\ o \in SectorType /\ o.readAttempts \in Nat
    BY OthersSound DEF Sound, SectorType
  <2>4. Sound([repaired EXCEPT !.readAttempts = repaired.readAttempts + o.readAttempts])
    <3> HIDE DEF repaired
    <3> QED  BY <2>1, <2>3, CountedSound
  <2>5. MergeStart(o, ret) \in MergingType /\ Sound(MergeStart(o, ret).from)
    BY <2>3 DEF MergeStart, MergingType, Merge
  <2>6. ret \in Merge /\ "Unchanged" \in Merge
    BY DEF Merge
  <2> HIDE DEF repaired, ret
  <2> QED  BY <1>0, <2>1, <2>2, <2>4, <2>5, <2>6 DEF IInv
<1>4. CASE MergeCopy
  <2> DEFINE o == merging.from
             i == merging.next
             added == Add(sector, o.copies[i], o.badDataCrc, o.dam,
                          o.readAttempts, o.stats[i], ~o.constantDisk)
  <2>1. i \in 1..Len(o.copies) /\ Len(o.copies) = Len(o.stats)
    BY <1>0, <1>4 DEF MergeCopy, MergingType, Sound, WellFormed, Aligned
  <2>2. /\ o.copies[i] \in Data /\ o.badDataCrc \in BOOLEAN /\ o.dam \in Dams
        /\ o.readAttempts \in Nat /\ o.stats[i] \in Int /\ (~o.constantDisk) \in BOOLEAN
    BY <1>0, <2>1 DEF SectorType
  <2>3. AddOriginal(sector, o.copies[i], o.badDataCrc, o.dam).status
            \in {"Matched", "Improved"} /\ o.constantDisk
          => sector.readAttempts > 0 /\ o.readAttempts > 0
    BY <1>4 DEF MergeCopy, Combines, Combinable
  <2>4. Sound(added.sector) /\ added.status \in Merge
    BY <1>0, <2>2, <2>3, AddSound
  <2>5. /\ sector' = added.sector /\ status' = status
        /\ merging' = [merging EXCEPT !.next = i + 1,
                                      !.ret = MoreImportant(merging.ret, added.status)]
    BY <1>4 DEF MergeCopy
  <2> HIDE DEF added
  <2>6. MoreImportant(merging.ret, added.status) \in Merge
    BY <1>0, <2>4 DEF MoreImportant, MergingType
  <2>7. merging' \in MergingType /\ merging'.from = merging.from
    <3>1. i + 1 \in Nat \ {0}
      BY <1>0 DEF MergingType
    <3> QED  BY <1>0, <2>5, <2>6, <3>1 DEF MergingType
  <2> QED  BY <1>0, <2>4, <2>5, <2>7 DEF IInv
<1>5. CASE EndMerge
  <2>1. Sound([sector EXCEPT !.readAttempts = sector.readAttempts
                                                 + merging.from.readAttempts])
    BY <1>0, CountedSound
  <2>2. merging.ret \in Merge
    BY <1>0 DEF MergingType
  <2> QED  BY <1>5, <2>1, <2>2, IdleSound DEF EndMerge, IInv
<1>6. CASE LimitOverlappingCopies
  BY <1>0, <1>6, LimitCopiesSound DEF LimitOverlappingCopies, IInv
<1>7. CASE DropGapData
  BY <1>0, <1>7, RemoveGapDataSound DEF DropGapData, IInv
<1>8. CASE MarkDataBad
  BY <1>0, <1>8, SetBadDataCrcSound DEF MarkDataBad, IInv
<1>9. CASE UNCHANGED vars
  BY <1>9 DEF vars, IInv
<1> QED  BY <1>1, <1>2, <1>3, <1>4, <1>5, <1>6, <1>7, <1>8, <1>9 DEF Next

\* The strengthened invariant holds in every reachable state.
THEOREM SectorInvariant == Spec => []IInv
<1> QED  BY InitSound, NextSound, PTL DEF Spec

\* Every variable has its type.
THEOREM SectorTypeOK == Spec => []TypeOK
<1>1. IInv => TypeOK
  BY DEF IInv, TypeOK, Sound
<1> QED  BY <1>1, SectorInvariant, PTL

\* For every set of reads and of other readings, every limit of copies and every
\* option, the copies and the read counts stay aligned, of one size and limited.
THEOREM SectorCopiesInv == Spec => []CopiesInv
<1>1. IInv => CopiesInv
  BY DEF IInv, CopiesInv, Sound
<1> QED  BY <1>1, SectorInvariant, PTL

-----------------------------------------------------------------------------
(* Where copies come from: copies are only cut, never padded or mixed.     *)

\* Every copy of s is the beginning of some data of S.
CutFrom(s, S) == \A i \in DOMAIN s.copies : \E d \in S : IsPrefix(s.copies[i], d)

\* Cutting data gives its beginning, and a beginning of the same data as before.
LEMMA ResizeCuts ==
    ASSUME NEW d \in Data, NEW n \in Nat, n <= Len(d), NEW e \in Data, IsPrefix(d, e)
    PROVE  IsPrefix(Resize(d, n), e)
<1> DEFINE r == Resize(d, n)
<1>1. /\ Len(d) \in Nat /\ Len(e) \in Nat
      /\ d \in Seq(Nat) /\ e \in Seq(Nat)
  BY DEF Data, Byte
<1>2. r \in Seq(Nat) /\ Len(r) = n /\ \A k \in 1..n : r[k] = d[k]
  BY <1>1 DEF Resize
<1> HIDE DEF r
<1>3. Len(d) <= Len(e) /\ \A k \in 1..Len(d) : d[k] = e[k]
  <2>1. Len(d) <= Len(e) /\ SubSeq(d, 1, Len(d)) = SubSeq(e, 1, Len(d))
    BY DEF IsPrefix
  <2>2. \A k \in 1..Len(d) : SubSeq(d, 1, Len(d))[k] = d[k] /\ SubSeq(e, 1, Len(d))[k] = e[k]
    BY <1>1, <2>1
  <2> QED  BY <2>1, <2>2
<1>4. SubSeq(r, 1, Len(r)) = SubSeq(e, 1, Len(r))
  <2>1. ASSUME NEW s \in Seq(Nat), n <= Len(s)
        PROVE  SubSeq(s, 1, n) = [k \in 1..n |-> s[k]]
    BY <2>1
  <2>2. SubSeq(r, 1, n) = [k \in 1..n |-> r[k]]
    BY <1>2, <2>1
  <2>3. SubSeq(e, 1, n) = [k \in 1..n |-> e[k]]
    BY <1>1, <1>3, <2>1
  <2>4. ASSUME NEW k \in 1..n
        PROVE  r[k] = e[k]
    <3>1. k \in 1..Len(d)
      BY <1>1
    <3>2. r[k] = d[k] /\ d[k] = e[k]
      BY <1>2, <1>3, <3>1, Zenon
    <3> QED  BY <3>2
  <2> QED  BY <1>2, <2>2, <2>3, <2>4
<1>5. Len(r) <= Len(e)
  BY <1>1, <1>2, <1>3
<1> QED  BY <1>4, <1>5 DEF IsPrefix, r

LEMMA MinIsLeast ==
    ASSUME NEW a \in Nat, NEW b \in Nat
    PROVE  \A x \in {a, b} : Min({a, b}) <= x
<1>1. CASE a <= b
  <2>1. a \in {a, b} /\ \A y \in {a, b} : a =< y
    BY <1>1
  <2> QED  BY <2>1 DEF Min
<1>2. CASE b <= a
  <2>1. b \in {a, b} /\ \A y \in {a, b} : b =< y
    BY <1>2
  <2> QED  BY <2>1 DEF Min
<1> QED  BY <1>1, <1>2

LEMMA IsItsOwnPrefix ==
    ASSUME NEW d \in Data
    PROVE  IsPrefix(d, d)
BY DEF IsPrefix, Data

\* Resizing all copies to what each of them has cuts them.
LEMMA ResizeAllCuts ==
    ASSUME NEW s \in SectorType, NEW S \in SUBSET Data, CutFrom(s, S), NEW n \in Nat,
           \A i \in DOMAIN s.copies : n <= Len(s.copies[i]),
           NEW t \in SectorType, t.copies = ResizeAll(s.copies, n)
    PROVE  CutFrom(t, S)
<1>1. s.copies \in Seq(Data) /\ DOMAIN t.copies = DOMAIN s.copies
  BY DEF SectorType, ResizeAll
<1>2. ASSUME NEW i \in DOMAIN t.copies
      PROVE  \E d \in S : IsPrefix(t.copies[i], d)
  <2>1. i \in DOMAIN s.copies /\ s.copies[i] \in Data
    BY <1>1
  <2>2. PICK d \in S : IsPrefix(s.copies[i], d)
    BY <2>1 DEF CutFrom
  <2>3. t.copies[i] = Resize(s.copies[i], n)
    BY <2>1 DEF ResizeAll
  <2>4. IsPrefix(Resize(s.copies[i], n), d)
    BY <2>1, <2>2, ResizeCuts
  <2> QED  BY <2>3, <2>4
<1> QED  BY <1>2 DEF CutFrom

\* Copies that are among those of s come from where they come.
LEMMA FewerCut ==
    ASSUME NEW s, NEW t, NEW S, CutFrom(s, S),
           \A i \in DOMAIN t.copies : \E k \in DOMAIN s.copies : t.copies[i] = s.copies[k]
    PROVE  CutFrom(t, S)
BY Zenon DEF CutFrom

\* Nothing was stored, or the flag is that of the data read and no copy is longer.
Stored(s, d, bad, new) ==
    \/ new = s /\ HasData(s)
    \/ /\ new.badDataCrc = bad
       /\ 1 \in DOMAIN new.copies
       /\ \A i \in DOMAIN new.copies : Len(new.copies[i]) \in Nat /\ Len(new.copies[i]) <= Len(d)

\* What is stored comes from the data read, the rest from where it came.
LEMMA StoreCuts ==
    ASSUME NEW s, Sound(s), NEW S \in SUBSET Data, CutFrom(s, S),
           NEW d \in S, NEW bad \in BOOLEAN, NEW dam \in Dams,
           NEW st, NEW imp
    PROVE  /\ CutFrom(Store(s, d, bad, dam, st, imp).sector, S)
           /\ Stored(s, d, bad, Store(s, d, bad, dam, st, imp).sector)
<1> DEFINE size == IF HasData(s) THEN Min({Len(d), DataSize(s)}) ELSE Len(d)
           c == ResizeAll(s.copies, size)
           cut == [s EXCEPT !.copies = c]
           more == Append(c, Resize(d, size))
           stored == IF Len(s.copies) >= MaxCopies THEN LimitCopies(cut, MaxCopies)
                     ELSE [cut EXCEPT !.copies = Append(@, Resize(d, size))]
           flagged == [stored EXCEPT !.badDataCrc = bad, !.dam = dam]
           out == Store(s, d, bad, dam, st, imp)
<1>1. /\ s \in SectorType /\ s.copies \in Seq(Data) /\ s.stats \in Seq(Int)
      /\ SameSize(s) /\ MaxCopies \in Nat /\ Len(s.copies) <= MaxCopies
  BY SectorAssumption DEF Sound, SectorType, WellFormed, WithinLimit
<1>2. d \in Data /\ Len(d) \in Nat /\ DataSize(s) \in Nat
  BY <1>1, DataSizeIsCommon DEF Data
<1>3. size \in Nat /\ size <= Len(d) /\ (HasData(s) => size <= DataSize(s))
  <2>1. CASE HasData(s)
    <3>1. \A x \in {Len(d), DataSize(s)} : Min({Len(d), DataSize(s)}) <= x
      BY <1>2, MinIsLeast
    <3> QED  BY <1>2, <2>1, <3>1, MinOfTwo
  <2> QED  BY <1>2, <2>1
<1>4. \A i \in DOMAIN s.copies : size <= Len(s.copies[i])
  BY <1>1, <1>3, DataSizeIsCommon DEF HasData
<1> HIDE DEF size
<1>5. /\ c \in Seq(Data) /\ Len(c) = Len(s.copies)
      /\ \A i \in DOMAIN c : Len(c[i]) = size
  BY <1>1, <1>3, ResizeAllSize
<1>6. Resize(d, size) \in Data /\ IsPrefix(Resize(d, size), d)
  BY <1>2, <1>3, ResizeSize, ResizeCuts, IsItsOwnPrefix
<1>7. Sound(cut) /\ cut \in SectorType /\ cut.copies = c
  <2> HIDE DEF c
  <2>1. cut.copies = c
    BY <1>1 DEF SectorType
  <2> QED  BY <1>3, <1>5, <2>1, ResizedSound DEF Sound
<1>8. CutFrom(cut, S)
  <2> HIDE DEF cut, c
  <2>1. cut.copies = ResizeAll(s.copies, size)
    BY <1>7 DEF c
  <2> QED  BY <1>1, <1>3, <1>4, <1>7, <2>1, ResizeAllCuts
<1>9. (out.sector = s /\ HasData(s)) \/ out.sector = flagged
  BY DEF Store, Outcome, size, c
<1>10. CASE Len(s.copies) >= MaxCopies
  <2>1. stored = cut
    BY <1>7, <1>10, LimitCopiesSound, SectorAssumption
  <2> HIDE DEF cut, stored, out
  <2>2. flagged.copies = cut.copies /\ flagged.badDataCrc = bad
    BY <1>7, <2>1 DEF SectorType
  <2>3. 1 \in DOMAIN c
    <3>1. Len(c) >= 1
      BY <1>1, <1>5, <1>10, SectorAssumption
    <3> HIDE DEF c
    <3> QED  BY <1>5, <3>1
  <2> HIDE DEF flagged, c
  <2> QED  BY <1>2, <1>3, <1>5, <1>7, <1>8, <1>9, <2>2, <2>3 DEF CutFrom, Stored, out
<1>11. CASE ~(Len(s.copies) >= MaxCopies)
  <2> HIDE DEF c
  <2>1. stored = [cut EXCEPT !.copies = more]
    BY <1>7, <1>11
  <2>2. /\ Len(more) = Len(c) + 1 /\ more \in Seq(Data)
        /\ \A i \in 1..Len(c) : more[i] = c[i]
        /\ more[Len(c) + 1] = Resize(d, size)
    BY <1>5, <1>6, AppendProperties
  <2> HIDE DEF more, cut, stored, out
  <2>3. flagged.copies = more /\ flagged.badDataCrc = bad
    BY <1>7, <2>1, <2>2 DEF SectorType
  <2>4. ASSUME NEW i \in 1..Len(more)
        PROVE  \E e \in S : IsPrefix(more[i], e)
    <3>1. CASE i \in 1..Len(c)
      BY <1>5, <1>7, <1>8, <2>2, <3>1 DEF CutFrom
    <3>2. CASE i = Len(c) + 1
      BY <1>6, <2>2, <3>2
    <3> QED  BY <1>5, <2>2, <3>1, <3>2
  <2>5. DOMAIN more = 1..Len(more) /\ 1 \in DOMAIN more
    BY <1>5, <2>2
  <2>6. ASSUME NEW i \in DOMAIN more
        PROVE  Len(more[i]) = size
    <3>1. CASE i \in 1..Len(c)
      BY <1>5, <2>2, <3>1
    <3>2. CASE i = Len(c) + 1
      BY <1>3, <2>2, <3>2, <1>2, ResizeSize
    <3> QED  BY <1>5, <2>2, <2>5, <3>1, <3>2
  <2> HIDE DEF flagged
  <2> QED  BY <1>2, <1>3, <1>9, <2>3, <2>4, <2>5, <2>6 DEF CutFrom, Stored, out
<1> QED  BY <1>10, <1>11

\* Wherever the copies come from.
LEMMA StoreShape ==
    ASSUME NEW s, Sound(s), NEW d \in Data, NEW bad \in BOOLEAN, NEW dam \in Dams,
           NEW st, NEW imp
    PROVE  Stored(s, d, bad, Store(s, d, bad, dam, st, imp).sector)
<1> DEFINE S == {d} \cup {s.copies[i] : i \in DOMAIN s.copies}
<1>1. s.copies \in Seq(Data)
  BY DEF Sound, SectorType
<1>2. S \in SUBSET Data /\ d \in S
  BY <1>1
<1>3. CutFrom(s, S)
  <2>1. \A i \in DOMAIN s.copies : s.copies[i] \in S /\ IsPrefix(s.copies[i], s.copies[i])
    BY <1>1, IsItsOwnPrefix
  <2> QED  BY <2>1, Zenon DEF CutFrom
<1> HIDE DEF S
<1> QED  BY <1>2, <1>3, StoreCuts

\* What EraseData and LimitCopies leave are copies of before.
LEMMA EraseDataKeeps ==
    ASSUME NEW s, Sound(s), NEW n \in DOMAIN s.copies
    PROVE  /\ \A i \in DOMAIN EraseData(s, n).copies :
                 \E k \in DOMAIN s.copies : EraseData(s, n).copies[i] = s.copies[k]
           /\ EraseData(s, n).badDataCrc = s.badDataCrc
<1>1. /\ s \in SectorType /\ s.copies \in Seq(Data) /\ n \in 1..Len(s.copies)
  BY DEF Sound, SectorType
<1> DEFINE c == RemoveAt(s.copies, n)
<1>2. /\ EraseData(s, n).copies = c
      /\ EraseData(s, n).badDataCrc = s.badDataCrc
  BY <1>1 DEF EraseData, SectorType
<1>3. c \in Seq(Data) /\ \A i \in 1..Len(c) : \E k \in 1..Len(s.copies) : c[i] = s.copies[k]
  BY <1>1, RemoveAtShortens
<1> HIDE DEF c
<1>4. DOMAIN c = 1..Len(c) /\ DOMAIN s.copies = 1..Len(s.copies)
  BY <1>1, <1>3
<1> QED  BY <1>2, <1>3, <1>4

LEMMA LimitCopiesKeeps ==
    ASSUME NEW s, Sound(s), NEW n \in Nat
    PROVE  /\ \A i \in DOMAIN LimitCopies(s, n).copies :
                 \E k \in DOMAIN s.copies : LimitCopies(s, n).copies[i] = s.copies[k]
           /\ LimitCopies(s, n).badDataCrc = s.badDataCrc
<1>1. s \in SectorType /\ s.copies \in Seq(Data)
  BY DEF Sound, SectorType
<1>2. CASE ~(Len(s.copies) > n)
  BY <1>2 DEF LimitCopies
<1>3. CASE Len(s.copies) > n
  <2> DEFINE c == SubSeq(s.copies, 1, n)
  <2>1. c \in Seq(Data) /\ Len(c) = n /\ \A i \in 1..n : c[i] = s.copies[i]
    BY <1>1, <1>3
  <2>2. DOMAIN c = 1..n /\ 1..n \subseteq DOMAIN s.copies
    BY <1>1, <1>3, <2>1
  <2>3. LimitCopies(s, n).copies = c /\ LimitCopies(s, n).badDataCrc = s.badDataCrc
    BY <1>1, <1>3 DEF LimitCopies, SectorType
  <2> HIDE DEF c
  <2> QED  BY <2>1, <2>2, <2>3
<1> QED  BY <1>2, <1>3

\* The shape of add_original: what it starts from, and how it ends.
AddCase(s, d, bad, dam, base) ==
    LET out == AddOriginal(s, d, bad, dam)
        first == Min(Agreeing(base, d))
    IN  \/ Refuses(s, d, bad) /\ out = Outcome(s, "Unchanged", 0, 0)
        \/ ~Refuses(s, d, bad) /\ out = Store(base, d, bad, dam, "NewData", 0)
        \/ /\ ~Refuses(s, d, bad) /\ first \in Agreeing(base, d)
           /\ KeepsStored(base.copies[first], d, CompleteSize(base, d))
           /\ out = Outcome(base, "Matched", first, 0)
        \/ /\ ~Refuses(s, d, bad) /\ first \in Agreeing(base, d)
           /\ ~KeepsStored(base.copies[first], d, CompleteSize(base, d))
           /\ out = Store(EraseData(base, first), d, bad, dam, "Improved", base.stats[first])

LEMMA AddOriginalCases ==
    ASSUME NEW s, Sound(s), NEW d, NEW bad, NEW dam
    PROVE  \E base \in {s, RemoveData(s)} :
              /\ base = IF Supersedes(s, d, bad) THEN RemoveData(s) ELSE s
              /\ Sound(base)
              /\ AddCase(s, d, bad, dam, base)
<1> DEFINE base == IF Supersedes(s, d, bad) THEN RemoveData(s) ELSE s
           first == Min(Agreeing(base, d))
<1>1. Sound(base)
  BY RemoveDataSound DEF Sound
<1>2. Agreeing(base, d) # {} => first \in Agreeing(base, d)
  <2>1. DOMAIN base.copies \subseteq Nat
    BY <1>1 DEF Sound, SectorType
  <2>2. Agreeing(base, d) \subseteq DOMAIN base.copies
    BY DEF Agreeing
  <2> HIDE DEF base
  <2> QED  BY <2>1, <2>2, MinIsElement
<1>3. AddCase(s, d, bad, dam, base)
  BY <1>2 DEF AddCase, AddOriginal
<1>4. base \in {s, RemoveData(s)}
  OBVIOUS
<1> HIDE DEF base
<1> QED  BY <1>1, <1>3, <1>4 DEF base

\* One read: every copy comes from the data read or from where the copies came,
\* which does not matter when good data replaces bad.
LEMMA AddOriginalCuts ==
    ASSUME NEW s, Sound(s), NEW S \in SUBSET Data,
           NEW d \in S, NEW bad \in BOOLEAN, NEW dam \in Dams,
           CutFrom(s, S) \/ (s.badDataCrc /\ ~bad)
    PROVE  \/ AddOriginal(s, d, bad, dam).sector = s
           \/ CutFrom(AddOriginal(s, d, bad, dam).sector, S)
<1>1. PICK base \in {s, RemoveData(s)} :
         /\ base = IF Supersedes(s, d, bad) THEN RemoveData(s) ELSE s
         /\ Sound(base) /\ AddCase(s, d, bad, dam, base)
  BY AddOriginalCases
<1>2. CutFrom(RemoveData(s), S)
  BY DEF RemoveData, CutFrom, Sound, SectorType
<1>3. CutFrom(base, S)
  BY <1>1, <1>2 DEF Supersedes
<1> DEFINE first == Min(Agreeing(base, d))
           out == AddOriginal(s, d, bad, dam)
<1>4. CASE out = Outcome(s, "Unchanged", 0, 0)
  BY <1>4 DEF Outcome
<1>5. CASE out = Store(base, d, bad, dam, "NewData", 0)
  <2>1. CutFrom(Store(base, d, bad, dam, "NewData", 0).sector, S)
    BY <1>1, <1>3, StoreCuts
  <2> QED  BY <1>5, <2>1, Zenon
<1>6. CASE out = Outcome(base, "Matched", first, 0)
  BY <1>3, <1>6 DEF Outcome
<1>7. CASE /\ first \in Agreeing(base, d)
           /\ out = Store(EraseData(base, first), d, bad, dam, "Improved", base.stats[first])
  <2> DEFINE erased == EraseData(base, first)
             count == base.stats[first]
  <2>1. first \in DOMAIN base.copies
    BY <1>7 DEF Agreeing
  <2>2. Sound(erased)
    BY <1>1, <2>1, EraseDataSound
  <2>3. CutFrom(erased, S)
    <3>1. \A i \in DOMAIN erased.copies :
             \E k \in DOMAIN base.copies : erased.copies[i] = base.copies[k]
      BY <1>1, <2>1, EraseDataKeeps
    <3> HIDE DEF erased
    <3> QED  BY <1>3, <3>1, FewerCut
  <2> HIDE DEF erased, count
  <2>4. CutFrom(Store(erased, d, bad, dam, "Improved", count).sector, S)
    BY <2>2, <2>3, StoreCuts
  <2> QED  BY <1>7, <2>4, Zenon DEF erased, count
<1> QED  BY <1>1, <1>4, <1>5, <1>6, <1>7 DEF AddCase

\* A good sector has only copies from G.
GoodFrom(s, G) == ~s.badDataCrc => CutFrom(s, G)

\* The flag of data that was read with an error.
IsBad(bad) == bad = TRUE

\* Bad data leaves a sector good only when it is not stored.
LEMMA AddOriginalBad ==
    ASSUME NEW s, Sound(s), NEW d \in Data, NEW bad \in BOOLEAN, NEW dam \in Dams,
           IsBad(bad), NEW G, GoodFrom(s, G)
    PROVE  GoodFrom(AddOriginal(s, d, bad, dam).sector, G)
<1>1. PICK base \in {s, RemoveData(s)} :
         /\ base = IF Supersedes(s, d, bad) THEN RemoveData(s) ELSE s
         /\ Sound(base) /\ AddCase(s, d, bad, dam, base)
  BY AddOriginalCases, Zenon
<1>2. GoodFrom(RemoveData(s), G)
  BY DEF RemoveData, CutFrom, GoodFrom, Sound, SectorType
<1>3. GoodFrom(base, G)
  BY <1>1, <1>2
<1>4. ASSUME NEW x, Sound(x), GoodFrom(x, G), NEW st, NEW imp
      PROVE  GoodFrom(Store(x, d, bad, dam, st, imp).sector, G)
  <2> DEFINE stored == Store(x, d, bad, dam, st, imp).sector
  <2>1. stored = x \/ stored.badDataCrc = TRUE
    BY <1>4, StoreShape DEF IsBad, Stored
  <2> HIDE DEF stored
  <2>2. GoodFrom(stored, G)
    BY <1>4, <2>1 DEF GoodFrom
  <2> QED  BY <2>2 DEF stored
<1> DEFINE first == Min(Agreeing(base, d))
           out == AddOriginal(s, d, bad, dam)
<1>5. CASE out = Outcome(s, "Unchanged", 0, 0)
  <2>1. out.sector = s
    BY <1>5 DEF Outcome
  <2> QED  BY <2>1
<1>6. CASE out = Store(base, d, bad, dam, "NewData", 0)
  BY <1>1, <1>3, <1>4, <1>6
<1>7. CASE out = Outcome(base, "Matched", first, 0)
  <2>1. out.sector = base
    BY <1>7 DEF Outcome
  <2> QED  BY <1>3, <2>1
<1>8. CASE /\ first \in Agreeing(base, d)
           /\ out = Store(EraseData(base, first), d, bad, dam, "Improved", base.stats[first])
  <2> DEFINE erased == EraseData(base, first)
             count == base.stats[first]
  <2>1. first \in DOMAIN base.copies
    BY <1>8 DEF Agreeing
  <2>2. Sound(erased)
    BY <1>1, <2>1, EraseDataSound
  <2>3. GoodFrom(erased, G)
    <3>1. /\ \A i \in DOMAIN erased.copies :
                \E k \in DOMAIN base.copies : erased.copies[i] = base.copies[k]
          /\ erased.badDataCrc = base.badDataCrc
      BY <1>1, <2>1, EraseDataKeeps
    <3> HIDE DEF erased
    <3>2. CutFrom(base, G) => CutFrom(erased, G)
      BY <3>1, FewerCut
    <3> QED  BY <1>3, <3>1, <3>2 DEF GoodFrom
  <2> HIDE DEF erased, count
  <2>4. GoodFrom(Store(erased, d, bad, dam, "Improved", count).sector, G)
    BY <2>2, <2>3, <1>4
  <2> QED  BY <1>8, <2>4, Zenon DEF erased, count
<1> QED  BY <1>1, <1>5, <1>6, <1>7, <1>8 DEF AddCase

\* The count that is added changes nothing but the counts.
LEMMA ProcessMergeResultCounts ==
    ASSUME NEW out, out.sector \in SectorType, NEW attempts, NEW count, NEW counterMode
    PROVE  LET s == ProcessMergeResult(out, attempts, count, counterMode)
           IN  /\ s.copies = out.sector.copies
               /\ s.badDataCrc = out.sector.badDataCrc
               /\ s.readAttempts = out.sector.readAttempts
BY DEF ProcessMergeResult, SectorType

-----------------------------------------------------------------------------
(* The invariant: what is being merged is data of another reading, good     *)
(* data when its flag says so.                                              *)

Honest(s) ==
    /\ CutFrom(s, Sources(BOOLEAN))
    /\ GoodFrom(s, Sources({FALSE}))

OriginInv ==
    /\ Honest(sector)
    /\ \A i \in DOMAIN merging.from.copies :
          /\ merging.from.copies[i] \in Sources(BOOLEAN)
          /\ ~merging.from.badDataCrc => merging.from.copies[i] \in Sources({FALSE})

LEMMA SourcesAreData ==
    ASSUME NEW bad \in {BOOLEAN, {FALSE}}
    PROVE  Sources(bad) \subseteq Data
<1>1. \A r \in Reads : r.data \in Data
  BY SectorAssumption DEF ReadType
<1>2. \A o \in Others : o.copies \in Seq(Data)
  BY SectorAssumption DEF SectorType
<1>3. \A o \in Others : ToSet(o.copies) \subseteq Data
  BY <1>2 DEF ToSet
<1> QED  BY <1>1, <1>3 DEF Sources

\* A sector with the copies and the flag of an honest one is honest.
LEMMA SameIsHonest ==
    ASSUME NEW s, Honest(s), NEW t, t.copies = s.copies,
           t.badDataCrc = s.badDataCrc \/ t.badDataCrc = TRUE
    PROVE  Honest(t)
BY DEF Honest, GoodFrom, CutFrom

LEMMA AddHonest ==
    ASSUME NEW s, Sound(s), Honest(s),
           NEW d \in Sources(BOOLEAN), NEW bad \in BOOLEAN, NEW dam \in Dams,
           bad = FALSE => d \in Sources({FALSE}),
           NEW attempts, NEW count, NEW counterMode
    PROVE  Honest(Add(s, d, bad, dam, attempts, count, counterMode).sector)
<1> DEFINE out == AddOriginal(s, d, bad, dam)
           res == Add(s, d, bad, dam, attempts, count, counterMode).sector
           All == Sources(BOOLEAN)
           Good == Sources({FALSE})
<1>1. All \in SUBSET Data /\ Good \in SUBSET Data /\ d \in Data
  BY SourcesAreData
<1>h. CutFrom(s, All) /\ GoodFrom(s, Good) /\ d \in All /\ (bad = FALSE => d \in Good)
  BY DEF Honest
<1> HIDE DEF All, Good
<1>2. CutFrom(out.sector, All)
  BY <1>1, <1>h, AddOriginalCuts
<1>3. GoodFrom(out.sector, Good)
  <2>1. CASE bad = TRUE
    <3>1. IsBad(bad)
      BY <2>1 DEF IsBad
    <3> QED  BY <1>1, <1>h, <3>1, AddOriginalBad
  <2>2. CASE bad = FALSE
    <3>1. d \in Good /\ (CutFrom(s, Good) \/ (s.badDataCrc /\ ~bad))
      BY <1>h, <2>2 DEF GoodFrom
    <3>2. out.sector = s \/ CutFrom(out.sector, Good)
      BY <1>1, <3>1, AddOriginalCuts
    <3> HIDE DEF out
    <3> QED  BY <1>h, <3>2 DEF GoodFrom
  <2> QED  BY <2>1, <2>2
<1>4. out.sector \in SectorType
  BY <1>1, AddOriginalPending DEF Pending
<1> HIDE DEF out
<1>5. res.copies = out.sector.copies /\ res.badDataCrc = out.sector.badDataCrc
  BY <1>4, ProcessMergeResultCounts DEF Add, out
<1> HIDE DEF res
<1>6. Honest(res)
  BY <1>2, <1>3, <1>5 DEF Honest, GoodFrom, CutFrom, All, Good
<1> QED  BY <1>6 DEF res

\* A reading and the copies of another sector are sources, good ones when their
\* flag says so.
LEMMA ReadIsSource ==
    ASSUME NEW r \in Reads
    PROVE  /\ r.data \in Sources(BOOLEAN)
           /\ r.bad = FALSE => r.data \in Sources({FALSE})
<1>1. r.bad \in BOOLEAN
  BY SectorAssumption DEF ReadType
<1>2. ASSUME NEW bad, r.bad \in bad
      PROVE  r.data \in Sources(bad)
  BY <1>2, Zenon DEF Sources
<1> QED  BY <1>1, <1>2

LEMMA OtherIsSource ==
    ASSUME NEW o \in Others, NEW i \in DOMAIN o.copies
    PROVE  /\ o.copies[i] \in Sources(BOOLEAN)
           /\ ~o.badDataCrc => o.copies[i] \in Sources({FALSE})
<1>1. o.badDataCrc \in BOOLEAN /\ o.copies \in Seq(Data)
  BY SectorAssumption DEF SectorType
<1>2. o.copies[i] \in ToSet(o.copies)
  BY <1>1 DEF ToSet
<1>3. ASSUME NEW bad, o.badDataCrc \in bad
      PROVE  o.copies[i] \in Sources(bad)
  BY <1>2, <1>3, Zenon DEF Sources
<1>4. o.badDataCrc \in BOOLEAN => o.copies[i] \in Sources(BOOLEAN)
  BY <1>3
<1>5. o.badDataCrc = FALSE => o.copies[i] \in Sources({FALSE})
  BY <1>3
<1> QED  BY <1>1, <1>4, <1>5

\* Fewer copies, or copies cut at one place, stay honest.
LEMMA FewerIsHonest ==
    ASSUME NEW s, Honest(s), NEW t, t.badDataCrc = s.badDataCrc,
           \A i \in DOMAIN t.copies : \E k \in DOMAIN s.copies : t.copies[i] = s.copies[k]
    PROVE  Honest(t)
<1>1. ASSUME NEW S, CutFrom(s, S)
      PROVE  CutFrom(t, S)
  BY <1>1, FewerCut
<1> QED  BY <1>1 DEF Honest, GoodFrom

LEMMA RemoveGapDataHonest ==
    ASSUME NEW s, Sound(s), Honest(s), NEW keepCrc \in BOOLEAN
    PROVE  Honest(RemoveGapData(s, keepCrc))
<1> DEFINE At(d) == IF keepCrc /\ s.badDataCrc /\ Len(d) >= Size + CrcSize
                    THEN Size + CrcSize ELSE Size
           n == At(s.copies[1])
           c == [i \in DOMAIN s.copies |-> Resize(s.copies[i], At(s.copies[i]))]
           t == [s EXCEPT !.copies = c]
<1>1. s \in SectorType /\ s.copies \in Seq(Data) /\ SameSize(s)
  BY DEF Sound, SectorType, WellFormed
<1>2. CASE ~HasGapData(s)
  BY <1>2 DEF RemoveGapData
<1>3. CASE HasGapData(s)
  <2>1. RemoveGapData(s, keepCrc) = t
    BY <1>3 DEF RemoveGapData
  <2>2. /\ DataSize(s) \in Nat /\ DataSize(s) > Size /\ Size \in Nat /\ CrcSize \in Nat
        /\ \A i \in DOMAIN s.copies : Len(s.copies[i]) = DataSize(s)
    BY <1>1, <1>3, DataSizeIsCommon, SectorAssumption DEF HasGapData
  <2>3. HasData(s) /\ 1 \in DOMAIN s.copies
    <3>1. HasData(s)
      BY <2>2 DEF DataSize
    <3> QED  BY <1>1, <3>1 DEF HasData
  <2>4. n \in Nat /\ n <= DataSize(s)
    BY <2>2, <2>3
  <2>5. \A i \in DOMAIN s.copies : At(s.copies[i]) = n
    BY <2>2, <2>3
  <2> HIDE DEF At, n
  <2>6. c = ResizeAll(s.copies, n)
    BY <2>5 DEF ResizeAll
  <2>7. c \in Seq(Data)
    BY <1>1, <2>4, <2>6, ResizeAllSize
  <2> HIDE DEF c
  <2>8. t \in SectorType /\ t.copies = c /\ t.badDataCrc = s.badDataCrc
    BY <1>1, <2>7 DEF SectorType
  <2> HIDE DEF t
  <2>9. ASSUME NEW S \in SUBSET Data, CutFrom(s, S)
        PROVE  CutFrom(t, S)
    <3>1. \A i \in DOMAIN s.copies : n <= Len(s.copies[i])
      BY <2>2, <2>4
    <3>2. t.copies = ResizeAll(s.copies, n)
      BY <2>6, <2>8
    <3> QED  BY <1>1, <2>4, <2>8, <2>9, <3>1, <3>2, ResizeAllCuts
  <2>10. Honest(t)
    <3>1. Sources(BOOLEAN) \in SUBSET Data /\ Sources({FALSE}) \in SUBSET Data
      BY SourcesAreData
    <3> QED  BY <2>8, <2>9, <3>1 DEF Honest, GoodFrom
  <2> QED  BY <2>1, <2>10
<1> QED  BY <1>2, <1>3

LEMMA OriginInit == Init => OriginInv
<1> SUFFICES ASSUME Init PROVE OriginInv
  OBVIOUS
<1>1. sector.copies = << >>
  <2>1. PICK c \in BOOLEAN, bad \in BOOLEAN : sector = SetBadIdCrc(NewSector(c), bad)
    BY DEF Init
  <2> DEFINE flagged == [NewSector(c) EXCEPT !.badIdCrc = bad]
  <2>2. flagged \in SectorType /\ flagged.copies = << >>
    <3>1. NewSector(c) \in SectorType /\ NewSector(c).copies = << >>
      BY NewSectorSound DEF Sound, NewSector
    <3> QED  BY <3>1 DEF SectorType
  <2>3. sector = RemoveData(flagged) \/ sector = flagged
    BY <2>1 DEF SetBadIdCrc
  <2> HIDE DEF flagged
  <2>4. RemoveData(flagged).copies = << >>
    BY <2>2 DEF RemoveData, SectorType
  <2> QED  BY <2>2, <2>3, <2>4
<1>2. merging.from.copies = << >>
  BY DEF Init, Idle, NewSector
<1> QED  BY <1>1, <1>2 DEF OriginInv, Honest, GoodFrom, CutFrom

LEMMA OriginNext == IInv /\ OriginInv /\ [Next]_vars => OriginInv'
<1> DEFINE FromIsSource(m) ==
              \A i \in DOMAIN m.from.copies :
                 /\ m.from.copies[i] \in Sources(BOOLEAN)
                 /\ ~m.from.badDataCrc => m.from.copies[i] \in Sources({FALSE})
<1> SUFFICES ASSUME IInv, OriginInv, [Next]_vars
             PROVE  Honest(sector') /\ FromIsSource(merging')
  BY DEF OriginInv, Honest, GoodFrom, CutFrom, Sources
<1>0. /\ Sound(sector) /\ sector \in SectorType
      /\ merging \in MergingType /\ Sound(merging.from) /\ merging.from \in SectorType
      /\ Honest(sector) /\ FromIsSource(merging)
  BY DEF IInv, Sound, OriginInv
<1>i. FromIsSource(Idle)
  BY DEF Idle, NewSector
<1>1. CASE AddData
  <2>1. PICK r \in Reads : sector' = AddRead(sector, r).sector
    BY <1>1 DEF AddData
  <2>2. r.data \in Data /\ r.bad \in BOOLEAN /\ r.dam \in Dams
    BY SectorAssumption DEF ReadType
  <2> DEFINE added == Add(sector, r.data, r.bad, r.dam, 1, 1, TRUE)
  <2>3. Honest(added.sector)
    BY <1>0, <2>2, ReadIsSource, AddHonest
  <2>4. added = [sector |-> added.sector, status |-> added.status]
    BY DEF Add
  <2>5. AddRead(sector, r) = [added EXCEPT !.sector.readAttempts = @ + 1]
    BY DEF AddRead
  <2>6. added.sector \in SectorType
    <3>1. 1 \in Nat /\ 1 \in Int /\ TRUE \in BOOLEAN
      OBVIOUS
    <3>2. Sound(added.sector)
      BY <1>0, <2>2, <3>1, AddSound, Zenon
    <3> QED  BY <3>2 DEF Sound
  <2> HIDE DEF added
  <2>7. sector' = [added.sector EXCEPT !.readAttempts = added.sector.readAttempts + 1]
    BY <2>1, <2>4, <2>5
  <2>8. sector'.copies = added.sector.copies /\ sector'.badDataCrc = added.sector.badDataCrc
    BY <2>6, <2>7 DEF SectorType
  <2>9. Honest(sector')
    BY <2>3, <2>8, SameIsHonest
  <2> QED  BY <1>0, <1>1, <2>9 DEF AddData
<1>2. CASE AddReadAttempts
  <2>1. sector'.copies = sector.copies /\ sector'.badDataCrc = sector.badDataCrc
    BY <1>0, <1>2 DEF AddReadAttempts, SectorType
  <2> QED  BY <1>0, <1>2, <2>1, SameIsHonest DEF AddReadAttempts
<1>3. CASE BeginMerge
  <2> DEFINE repaired == SetBadIdCrc(sector, FALSE)
             ret == IF sector.badIdCrc THEN "Improved" ELSE "Unchanged"
  <2>1. PICK o \in Others :
           \/ UNCHANGED <<sector, merging>>
           \/ /\ sector' = [repaired EXCEPT !.readAttempts = @ + o.readAttempts]
              /\ UNCHANGED merging
           \/ sector' = repaired /\ merging' = MergeStart(o, ret)
    BY <1>3 DEF BeginMerge
  <2>2. repaired = [sector EXCEPT !.badIdCrc = FALSE]
    BY DEF SetBadIdCrc
  <2>3. \/ sector' = sector
        \/ sector'.copies = sector.copies /\ sector'.badDataCrc = sector.badDataCrc
    <3> HIDE DEF repaired
    <3>1. repaired \in SectorType /\ repaired.copies = sector.copies
          /\ repaired.badDataCrc = sector.badDataCrc
      BY <1>0, <2>2 DEF SectorType
    <3> QED  BY <2>1, <3>1 DEF SectorType
  <2>4. Honest(sector')
    BY <1>0, <2>3, SameIsHonest
  <2>5. FromIsSource(MergeStart(o, ret))
    BY OtherIsSource DEF MergeStart
  <2> HIDE DEF FromIsSource, repaired, ret
  <2> QED  BY <1>0, <2>1, <2>4, <2>5
<1>4. CASE MergeCopy
  <2> DEFINE o == merging.from
             i == merging.next
             added == Add(sector, o.copies[i], o.badDataCrc, o.dam,
                          o.readAttempts, o.stats[i], ~o.constantDisk)
  <2>1. i \in DOMAIN o.copies
    BY <1>0, <1>4 DEF MergeCopy, MergingType, SectorType
  <2>2. o.copies[i] \in Sources(BOOLEAN) /\ o.badDataCrc \in BOOLEAN /\ o.dam \in Dams
    BY <1>0, <2>1 DEF SectorType
  <2>3. o.badDataCrc = FALSE => o.copies[i] \in Sources({FALSE})
    BY <1>0, <2>1
  <2>4. Honest(added.sector)
    <3> HIDE DEF o, i
    <3> QED  BY <1>0, <2>2, <2>3, AddHonest
  <2>5. sector' = added.sector
        /\ \E ret : merging' = [merging EXCEPT !.next = i + 1, !.ret = ret]
    BY <1>4 DEF MergeCopy
  <2>6. merging'.from = merging.from
    BY <1>0, <2>5 DEF MergingType
  <2> HIDE DEF added
  <2> QED  BY <1>0, <2>4, <2>5, <2>6
<1>5. CASE EndMerge
  <2>1. sector'.copies = sector.copies /\ sector'.badDataCrc = sector.badDataCrc
    BY <1>0, <1>5 DEF EndMerge, SectorType
  <2>2. merging' = Idle
    BY <1>5 DEF EndMerge
  <2> HIDE DEF FromIsSource
  <2> QED  BY <1>0, <1>i, <2>1, <2>2, SameIsHonest
<1>6. CASE LimitOverlappingCopies
  <2>1. sector' = LimitCopies(sector, 1) /\ merging' = merging /\ 1 \in Nat
    BY <1>6 DEF LimitOverlappingCopies
  <2>2. Honest(LimitCopies(sector, 1))
    BY <1>0, <2>1, LimitCopiesKeeps, FewerIsHonest
  <2> QED  BY <1>0, <2>1, <2>2
<1>7. CASE DropGapData
  BY <1>0, <1>7, RemoveGapDataHonest DEF DropGapData
<1>8. CASE MarkDataBad
  <2>1. sector' = [sector EXCEPT !.badDataCrc = TRUE] /\ merging' = merging
    BY <1>8 DEF MarkDataBad, SetBadDataCrc
  <2>2. sector'.copies = sector.copies /\ sector'.badDataCrc = TRUE
    BY <1>0, <2>1 DEF SectorType
  <2> QED  BY <1>0, <2>1, <2>2, SameIsHonest
<1>9. CASE UNCHANGED vars
  BY <1>0, <1>9 DEF vars
<1> QED  BY <1>1, <1>2, <1>3, <1>4, <1>5, <1>6, <1>7, <1>8, <1>9 DEF Next

\* Whatever is read and merged, every copy is the beginning of something that was
\* really read.
THEOREM SectorNoPhantom == Spec => []NoPhantomData
<1>1. OriginInv => NoPhantomData
  BY DEF OriginInv, Honest, CutFrom, NoPhantomData
<1> QED  BY <1>1, OriginInit, OriginNext, SectorInvariant, PTL DEF Spec

\* Whatever is read and merged, no copy of a sector whose flag says good comes from
\* a read with a CRC error.
THEOREM SectorGoodIsHonest == Spec => []GoodFlagIsHonest
<1>1. OriginInv => GoodFlagIsHonest
  BY DEF OriginInv, Honest, GoodFrom, CutFrom, GoodFlagIsHonest
<1> QED  BY <1>1, OriginInit, OriginNext, SectorInvariant, PTL DEF Spec

-----------------------------------------------------------------------------
(* Good data survives.                                                     *)

\* The flag says good, and there is no gap behind the data if there is any.
NotBad(s) == s.badDataCrc = FALSE
Ready(s) == NotBad(s) /\ DataSize(s) <= Size

LEMMA ReadyIsGood ==
    ASSUME NEW s, s.badDataCrc \in BOOLEAN, DataSize(s) \in Int
    PROVE  HasGoodData(s) <=> HasData(s) /\ Ready(s)
BY SectorAssumption DEF HasGoodData, HasGapData, Ready, NotBad

\* What is stored into a sector without bad data is good.
LEMMA StoreGood ==
    ASSUME NEW s, Sound(s), Ready(s), NEW d \in Data, Len(d) <= Size,
           NEW bad \in BOOLEAN, bad = FALSE, NEW dam \in Dams, NEW st, NEW imp
    PROVE  HasGoodData(Store(s, d, bad, dam, st, imp).sector)
<1> DEFINE new == Store(s, d, bad, dam, st, imp).sector
<1>1. /\ Sound(s) /\ s.badDataCrc \in BOOLEAN /\ DataSize(s) \in Nat
  BY DataSizeIsCommon DEF Sound, SectorType, WellFormed
<1>2. \/ new = s /\ HasData(s)
      \/ /\ new.badDataCrc = bad
         /\ 1 \in DOMAIN new.copies
         /\ Len(new.copies[1]) \in Nat /\ Len(new.copies[1]) <= Len(d)
  BY StoreShape DEF Stored
<1> HIDE DEF new
<1>3. CASE new = s /\ HasData(s)
  <2>1. HasGoodData(s)
    BY <1>1, <1>3, ReadyIsGood
  <2> QED  BY <1>3, <2>1 DEF new
<1>4. CASE /\ new.badDataCrc = bad
           /\ 1 \in DOMAIN new.copies
           /\ Len(new.copies[1]) \in Nat /\ Len(new.copies[1]) <= Len(d)
  <2>1. Len(d) \in Nat /\ Size \in Nat
    BY SectorAssumption DEF Data
  <2>2. Len(new.copies[1]) <= Size
    BY <1>4, <2>1
  <2>3. HasData(new) /\ DataSize(new) = Len(new.copies[1])
    BY <1>4 DEF HasData, DataSize
  <2>4. ~(DataSize(new) > Size)
    BY <1>4, <2>1, <2>2, <2>3
  <2>5. new.badDataCrc = FALSE
    BY <1>4
  <2>6. HasGoodData(new)
    BY <2>3, <2>4, <2>5 DEF HasGoodData, HasGapData
  <2> QED  BY <2>6 DEF new
<1> QED  BY <1>2, <1>3, <1>4

\* Good data stays good: bad data is refused, and what replaces good data is good.
LEMMA AddOriginalKeepsGood ==
    ASSUME NEW s, Sound(s), HasGoodData(s), NEW d \in Data, Len(d) <= Size,
           NEW bad \in BOOLEAN, NEW dam \in Dams
    PROVE  HasGoodData(AddOriginal(s, d, bad, dam).sector)
<1>1. PICK base \in {s, RemoveData(s)} :
         /\ base = IF Supersedes(s, d, bad) THEN RemoveData(s) ELSE s
         /\ Sound(base) /\ AddCase(s, d, bad, dam, base)
  BY AddOriginalCases
<1>2. s \in SectorType /\ s.badDataCrc \in BOOLEAN /\ DataSize(s) \in Nat
  BY DataSizeIsCommon DEF Sound, SectorType, WellFormed
<1>3. HasData(s) /\ Ready(s)
  BY <1>2, ReadyIsGood
<1>4. Ready(RemoveData(s))
  <2>1. RemoveData(s).copies = << >> /\ RemoveData(s).badDataCrc = FALSE
    BY <1>2 DEF RemoveData, SectorType
  <2> QED  BY <2>1, SectorAssumption DEF Ready, NotBad, DataSize, HasData
<1>5. Ready(base)
  BY <1>1, <1>3, <1>4
<1> DEFINE first == Min(Agreeing(base, d))
           out == AddOriginal(s, d, bad, dam)
<1>6. CASE Refuses(s, d, bad) /\ out = Outcome(s, "Unchanged", 0, 0)
  <2>1. out.sector = s
    BY <1>6 DEF Outcome
  <2> QED  BY <2>1
<1>7. ASSUME ~Refuses(s, d, bad)
      PROVE  bad = FALSE
  BY <1>7 DEF Refuses
<1>8. CASE ~Refuses(s, d, bad) /\ out = Store(base, d, bad, dam, "NewData", 0)
  BY <1>1, <1>5, <1>7, <1>8, StoreGood
<1>9. CASE /\ ~Refuses(s, d, bad) /\ first \in Agreeing(base, d)
           /\ out = Outcome(base, "Matched", first, 0)
  <2>1. out.sector = base
    BY <1>9 DEF Outcome
  <2>2. base.copies # << >>
    <3>1. first \in DOMAIN base.copies
      BY <1>9 DEF Agreeing
    <3> QED  BY <3>1
  <2>3. base.badDataCrc \in BOOLEAN /\ DataSize(base) \in Nat
    BY <1>1, DataSizeIsCommon DEF Sound, SectorType, WellFormed
  <2>4. HasGoodData(base)
    BY <1>5, <2>2, <2>3, ReadyIsGood DEF HasData
  <2> QED  BY <2>1, <2>4
<1>10. CASE /\ ~Refuses(s, d, bad) /\ first \in Agreeing(base, d)
            /\ out = Store(EraseData(base, first), d, bad, dam, "Improved", base.stats[first])
  <2> DEFINE erased == EraseData(base, first)
             count == base.stats[first]
  <2>1. first \in DOMAIN base.copies
    BY <1>10 DEF Agreeing
  <2>2. Sound(erased)
    BY <1>1, <2>1, EraseDataSound
  <2>3. /\ \A i \in DOMAIN erased.copies :
              \E k \in DOMAIN base.copies : erased.copies[i] = base.copies[k]
        /\ erased.badDataCrc = base.badDataCrc
    BY <1>1, <2>1, EraseDataKeeps
  <2> HIDE DEF erased, count, first
  <2>4. DataSize(erased) <= Size
    <3>1. /\ \A i \in DOMAIN base.copies : Len(base.copies[i]) = DataSize(base)
          /\ erased.copies \in Seq(Data) /\ DataSize(base) <= Size
      BY <1>1, <1>5, <2>2, DataSizeIsCommon DEF Sound, WellFormed, SectorType, Ready
    <3>2. erased.copies # << >> => 1 \in DOMAIN erased.copies
      BY <3>1
    <3> QED  BY <2>3, <3>1, <3>2, SectorAssumption DEF DataSize, HasData
  <2>5. Ready(erased)
    BY <1>5, <2>3, <2>4 DEF Ready, NotBad
  <2>6. HasGoodData(Store(erased, d, bad, dam, "Improved", count).sector)
    BY <1>7, <1>10, <2>2, <2>5, StoreGood
  <2> QED  BY <1>10, <2>6, Zenon DEF erased, count
<1> QED  BY <1>1, <1>6, <1>8, <1>9, <1>10 DEF AddCase

\* A sector with the copies and the flag of a good one is good.
LEMMA SameIsGood ==
    ASSUME NEW s, HasGoodData(s), NEW t, t.copies = s.copies, t.badDataCrc = s.badDataCrc
    PROVE  HasGoodData(t)
BY DEF HasGoodData, HasGapData, HasData, DataSize

LEMMA AddKeepsGood ==
    ASSUME NEW s, Sound(s), HasGoodData(s), NEW d \in Data, Len(d) <= Size,
           NEW bad \in BOOLEAN, NEW dam \in Dams, NEW attempts, NEW count, NEW counterMode
    PROVE  HasGoodData(Add(s, d, bad, dam, attempts, count, counterMode).sector)
<1> DEFINE out == AddOriginal(s, d, bad, dam)
           res == Add(s, d, bad, dam, attempts, count, counterMode).sector
<1>1. HasGoodData(out.sector) /\ out.sector \in SectorType
  BY AddOriginalKeepsGood, AddOriginalPending DEF Pending
<1> HIDE DEF out
<1>2. res.copies = out.sector.copies /\ res.badDataCrc = out.sector.badDataCrc
  BY <1>1, ProcessMergeResultCounts DEF Add, out
<1> HIDE DEF res
<1>3. HasGoodData(res)
  BY <1>1, <1>2, SameIsGood
<1> QED  BY <1>3 DEF res

\* The sector being merged is one of the others.
FromInv == merging.active => merging.from \in Others

LEMMA FromNext == IInv /\ FromInv /\ [Next]_vars => FromInv'
<1> SUFFICES ASSUME IInv, FromInv, [Next]_vars PROVE FromInv'
  OBVIOUS
<1>0. merging \in MergingType
  BY DEF IInv
<1>1. CASE BeginMerge
  <2>1. \/ merging' = merging
        \/ \E o \in Others : \E ret : merging' = MergeStart(o, ret)
    BY <1>1 DEF BeginMerge
  <2> QED  BY <2>1 DEF FromInv, MergeStart
<1>2. CASE MergeCopy
  <2>1. merging.active /\ merging'.from = merging.from
    BY <1>0, <1>2 DEF MergeCopy, MergingType
  <2> QED  BY <2>1 DEF FromInv
<1>3. CASE EndMerge
  BY <1>3 DEF EndMerge, Idle, FromInv
<1>4. CASE UNCHANGED merging
  BY <1>4 DEF FromInv
<1> QED  BY <1>1, <1>2, <1>3, <1>4
         DEF Next, vars, AddData, AddReadAttempts, LimitOverlappingCopies, DropGapData,
             MarkDataBad

LEMMA FromInit == Init => FromInv
BY DEF Init, Idle, FromInv

LEMMA GoodStep ==
    ASSUME NoGapRead, IInv, FromInv, Reading, HasGoodData(sector)
    PROVE  HasGoodData(sector')
<1>0. /\ Sound(sector) /\ sector \in SectorType
      /\ merging \in MergingType /\ Sound(merging.from) /\ merging.from \in SectorType
  BY DEF IInv, Sound
<1>1. CASE AddData
  <2>1. PICK r \in Reads : sector' = AddRead(sector, r).sector
    BY <1>1 DEF AddData
  <2>2. r.data \in Data /\ r.bad \in BOOLEAN /\ r.dam \in Dams /\ Len(r.data) <= Size
    BY SectorAssumption DEF ReadType, NoGapRead
  <2> DEFINE added == Add(sector, r.data, r.bad, r.dam, 1, 1, TRUE)
  <2>3. HasGoodData(added.sector)
    BY <1>0, <2>2, AddKeepsGood
  <2>4. added = [sector |-> added.sector, status |-> added.status]
    BY DEF Add
  <2>5. AddRead(sector, r) = [added EXCEPT !.sector.readAttempts = @ + 1]
    BY DEF AddRead
  <2>6. added.sector \in SectorType
    <3>1. 1 \in Nat /\ 1 \in Int /\ TRUE \in BOOLEAN
      OBVIOUS
    <3>2. Sound(added.sector)
      BY <1>0, <2>2, <3>1, AddSound, Zenon
    <3> QED  BY <3>2 DEF Sound
  <2> HIDE DEF added
  <2>7. sector' = [added.sector EXCEPT !.readAttempts = added.sector.readAttempts + 1]
    BY <2>1, <2>4, <2>5
  <2>8. sector'.copies = added.sector.copies /\ sector'.badDataCrc = added.sector.badDataCrc
    BY <2>6, <2>7 DEF SectorType
  <2> QED  BY <2>3, <2>8, SameIsGood
<1>2. CASE AddReadAttempts \/ EndMerge
  <2>1. sector'.copies = sector.copies /\ sector'.badDataCrc = sector.badDataCrc
    BY <1>0, <1>2 DEF AddReadAttempts, EndMerge, SectorType
  <2> QED  BY <2>1, SameIsGood
<1>3. CASE BeginMerge
  <2> DEFINE repaired == SetBadIdCrc(sector, FALSE)
  <2>1. PICK o \in Others :
           \/ UNCHANGED sector
           \/ sector' = [repaired EXCEPT !.readAttempts = @ + o.readAttempts]
           \/ sector' = repaired
    BY <1>3 DEF BeginMerge
  <2>2. repaired = [sector EXCEPT !.badIdCrc = FALSE]
    BY DEF SetBadIdCrc
  <2> HIDE DEF repaired
  <2>3. repaired \in SectorType /\ repaired.copies = sector.copies
        /\ repaired.badDataCrc = sector.badDataCrc
    BY <1>0, <2>2 DEF SectorType
  <2>4. \/ sector' = sector
        \/ sector'.copies = sector.copies /\ sector'.badDataCrc = sector.badDataCrc
    BY <2>1, <2>3 DEF SectorType
  <2> QED  BY <2>4, SameIsGood
<1>4. CASE MergeCopy
  <2> DEFINE o == merging.from
             i == merging.next
             added == Add(sector, o.copies[i], o.badDataCrc, o.dam,
                          o.readAttempts, o.stats[i], ~o.constantDisk)
  <2>1. i \in DOMAIN o.copies /\ o \in Others
    BY <1>0, <1>4 DEF MergeCopy, MergingType, SectorType, FromInv
  <2>2. /\ o.copies[i] \in Data /\ o.badDataCrc \in BOOLEAN /\ o.dam \in Dams
        /\ Len(o.copies[i]) <= Size
    BY <1>0, <2>1 DEF SectorType, NoGapRead
  <2>3. HasGoodData(added.sector)
    <3> HIDE DEF o, i
    <3> QED  BY <1>0, <2>2, AddKeepsGood
  <2>4. sector' = added.sector
    BY <1>4 DEF MergeCopy
  <2> QED  BY <2>3, <2>4
<1> QED  BY <1>1, <1>2, <1>3, <1>4 DEF Reading

\* When no data is longer than its natural size (a controller never returns more),
\* no later read and no merge takes good data away.  Good data with a gap behind it
\* does not count as good, and a later bad read may replace it.
THEOREM SectorGoodData ==
    ASSUME NoGapRead
    PROVE  Spec => GoodDataSurvives
<1>1. IInv /\ FromInv /\ [Next]_vars
        => [Reading /\ HasGoodData(sector) => HasGoodData(sector')]_vars
  BY GoodStep
<1> QED  BY <1>1, FromInit, FromNext, SectorInvariant, PTL DEF Spec, GoodDataSurvives

-----------------------------------------------------------------------------
(* Stable data stays stable, when every reading has the natural size.      *)

\* All data has the natural size.
Natural(s) == \A i \in DOMAIN s.copies : Len(s.copies[i]) = Size

\* The combined rate of two readings is no less than the rate of the first and no
\* more than both have attempts.
LEMMA PercentCombinedBounds ==
    ASSUME NEW a1 \in Nat \ {0}, NEW a2 \in Nat \ {0}, NEW c1 \in 0..a1, NEW c2 \in 0..a2
    PROVE  PercentCombined(c1, a1, c2, a2) \in c1..(a1 + a2)
<1> DEFINE n == c1 * a2 + c2 * a1 - c1 * c2
           den == a1 * a2
           num == n * (a1 + a2)
<1>1. n \in Int /\ den \in Int /\ den > 0 /\ a1 + a2 \in Int /\ num \in Int
  OBVIOUS
<1>2. n >= c1 * a2
  <2>1. c2 * a1 - c1 * c2 = c2 * (a1 - c1)
    OBVIOUS
  <2>2. c2 * (a1 - c1) >= 0
    OBVIOUS
  <2> QED  BY <2>1, <2>2
<1>3. n <= den
  <2>1. (a1 - c1) * (a2 - c2) = den - n
    OBVIOUS
  <2>2. (a1 - c1) * (a2 - c2) >= 0
    OBVIOUS
  <2> HIDE DEF n, den
  <2> QED  BY <1>1, <2>1, <2>2
<1>4. num >= c1 * den
  <2>1. n * (a1 + a2) >= (c1 * a2) * (a1 + a2)
    <3> DEFINE x == c1 * a2
               y == a1 + a2
    <3>1. x \in Int /\ y \in Nat /\ n >= x
      BY <1>2
    <3> HIDE DEF n, x, y
    <3>2. (n - x) * y >= 0
      BY <1>1, <3>1
    <3>3. (n - x) * y = n * y - x * y
      BY <1>1, <3>1
    <3>4. n * y >= x * y
      BY <1>1, <3>1, <3>2, <3>3
    <3> QED  BY <3>4 DEF x, y
  <2>2. (c1 * a2) * (a1 + a2) = c1 * den + (c1 * a2) * a2
    OBVIOUS
  <2>3. (c1 * a2) * a2 >= 0
    OBVIOUS
  <2> DEFINE p == (c1 * a2) * (a1 + a2)
             q == (c1 * a2) * a2
             u == c1 * den
  <2>4. p \in Int /\ q \in Int /\ u \in Int
    OBVIOUS
  <2>5. num >= p /\ p = u + q /\ q >= 0
    BY <2>1, <2>2, <2>3
  <2> HIDE DEF p, q, u, num
  <2>6. num >= u
    BY <1>1, <2>4, <2>5
  <2> QED  BY <2>6 DEF u
<1>5. num <= (a1 + a2) * den
  <2> DEFINE y == a1 + a2
  <2>1. y \in Nat
    OBVIOUS
  <2> HIDE DEF n, den, y
  <2>2. (den - n) * y >= 0
    BY <1>1, <1>3, <2>1
  <2>3. (den - n) * y = y * den - n * y
    BY <1>1, <2>1
  <2>4. n * y <= y * den
    BY <1>1, <2>1, <2>2, <2>3
  <2> QED  BY <2>4 DEF y
<1>6. PercentCombined(c1, a1, c2, a2) = (2 * num + den) \div (2 * den)
  BY DEF PercentCombined
<1>7. ASSUME NEW N \in Int, NEW D \in Int, D > 0, NEW l \in Int, NEW h \in Int,
             N >= l * D, N <= h * D
      PROVE  (2 * N + D) \div (2 * D) \in l..h
  <2> DEFINE q == (2 * N + D) \div (2 * D)
  <2>1. q \in Int /\ (2 * D) * q <= 2 * N + D /\ 2 * N + D < (2 * D) * (q + 1)
    BY <1>7
  <2> HIDE DEF q
  <2>2. q >= l
    <3> SUFFICES ASSUME q <= l - 1 PROVE FALSE
      BY <2>1
    <3>1. (2 * D) * (q + 1) <= (2 * D) * l
      BY <1>7, <2>1
    <3>2. (2 * D) * l = 2 * (l * D)
      BY <1>7
    <3> QED  BY <1>7, <2>1, <3>1, <3>2
  <2>3. q <= h
    <3> SUFFICES ASSUME q >= h + 1 PROVE FALSE
      BY <2>1
    <3>1. (2 * D) * q >= (2 * D) * (h + 1)
      BY <1>7, <2>1
    <3>2. (2 * D) * (h + 1) = 2 * (h * D) + 2 * D
      BY <1>7
    <3> QED  BY <1>7, <2>1, <3>1, <3>2
  <2> QED  BY <1>7, <2>1, <2>2, <2>3 DEF q
<1> HIDE DEF num, den, n
<1>8. c1 \in Int
  OBVIOUS
<1> QED  BY <1>1, <1>4, <1>5, <1>6, <1>7, <1>8

\* Data of the size asked for is left as it is.
LEMMA ResizeSame ==
    ASSUME NEW d \in Data, NEW n \in Nat, Len(d) = n
    PROVE  Resize(d, n) = d
BY DEF Resize, Data, Byte

LEMMA NaturalResize ==
    ASSUME NEW ds \in Seq(Data), NEW n \in Nat, \A i \in DOMAIN ds : Len(ds[i]) = n
    PROVE  ResizeAll(ds, n) = ds
<1>1. \A i \in DOMAIN ds : Resize(ds[i], n) = ds[i]
  BY ResizeSame
<1>2. ResizeAll(ds, n) = [i \in DOMAIN ds |-> ds[i]]
  BY <1>1 DEF ResizeAll
<1> QED  BY <1>2

\* What Store makes of readings of the natural size.
NaturalStored(s, d, st, out) ==
    \/ out.status = "Unchanged" /\ out.sector = s /\ HasData(s)
    \/ /\ out.status = "NewDataOverLimit"
       /\ out.sector.copies = s.copies /\ out.sector.stats = s.stats
    \/ /\ out.status = st
       /\ out.sector.copies = Append(s.copies, d) /\ out.sector.stats = s.stats

LEMMA NaturalStore ==
    ASSUME NEW s, Sound(s), Natural(s), NEW d \in Data, Len(d) = Size,
           NEW bad, NEW dam, NEW st, NEW imp
    PROVE  NaturalStored(s, d, st, Store(s, d, bad, dam, st, imp))
<1> DEFINE size == IF HasData(s) THEN Min({Len(d), DataSize(s)}) ELSE Len(d)
           c == ResizeAll(s.copies, size)
           cut == [s EXCEPT !.copies = c]
           full == Len(s.copies) >= MaxCopies
           more == [cut EXCEPT !.copies = Append(@, Resize(d, size))]
           stored == IF full THEN LimitCopies(cut, MaxCopies) ELSE more
           flagged == [stored EXCEPT !.badDataCrc = bad, !.dam = dam]
           out == Store(s, d, bad, dam, st, imp)
<1>1. /\ s \in SectorType /\ s.copies \in Seq(Data) /\ Size \in Nat
      /\ (HasData(s) => DataSize(s) = Size)
  BY SectorAssumption DEF Sound, SectorType, Natural, HasData, DataSize
<1>2. size = Size
  <2>1. Min({Size, Size}) = Size
    BY <1>1, MinOfTwo
  <2> QED  BY <1>1, <2>1
<1> HIDE DEF size
<1>3. c = s.copies /\ Resize(d, size) = d
  BY <1>1, <1>2, NaturalResize, ResizeSame DEF Natural
<1> HIDE DEF c
<1>4. cut = s
  BY <1>1, <1>3 DEF SectorType
<1>5. \/ out.sector = s /\ out.status = "Unchanged" /\ HasData(s)
      \/ out.sector = flagged /\ out.status = IF full THEN "NewDataOverLimit" ELSE st
  BY DEF Store, Outcome, size, c
<1>6. full => stored = s
  BY <1>4, LimitCopiesSound, SectorAssumption
<1>7. ~full => stored = more /\ more = [s EXCEPT !.copies = Append(s.copies, d)]
  BY <1>3, <1>4
<1> HIDE DEF cut, more, out, stored
<1>8. /\ full => flagged.copies = s.copies /\ flagged.stats = s.stats
      /\ ~full => flagged.copies = Append(s.copies, d) /\ flagged.stats = s.stats
  BY <1>1, <1>6, <1>7 DEF SectorType
<1> HIDE DEF flagged, full
<1>9. NaturalStored(s, d, st, out)
  BY <1>5, <1>8 DEF NaturalStored
<1> QED  BY <1>9 DEF out

\* What add_original makes of them.
NaturalCase(s, d, out) ==
    \/ out.status \in {"Unchanged", "NewDataOverLimit"}
          /\ out.sector.copies = s.copies /\ out.sector.stats = s.stats
    \/ /\ ~NotBad(s) /\ out.status = "NewData"
       /\ out.sector.copies = <<d>> /\ out.sector.stats = << >>
    \/ /\ out.status = "NewData"
       /\ out.sector.copies = Append(s.copies, d) /\ out.sector.stats = s.stats
    \/ /\ out.status = "Matched" /\ out.at \in DOMAIN s.copies /\ s.copies[out.at] = d
       /\ out.sector.copies = s.copies /\ out.sector.stats = s.stats

LEMMA NaturalAddOriginal ==
    ASSUME NEW s, Sound(s), Natural(s), NEW d \in Data, Len(d) = Size, Not8K,
           NEW bad, NEW dam
    PROVE  NaturalCase(s, d, AddOriginal(s, d, bad, dam))
<1>1. PICK base \in {s, RemoveData(s)} :
         /\ base = IF Supersedes(s, d, bad) THEN RemoveData(s) ELSE s
         /\ Sound(base) /\ AddCase(s, d, bad, dam, base)
  BY AddOriginalCases
<1>2. /\ s \in SectorType /\ s.copies \in Seq(Data) /\ Size \in Nat
      /\ RemoveData(s).copies = << >> /\ RemoveData(s).stats = << >>
  BY SectorAssumption DEF Sound, SectorType, RemoveData
<1>3. base = s \/ (base = RemoveData(s) /\ ~NotBad(s))
  BY <1>1 DEF Supersedes, Is8K, NotBad, Not8K
<1>4. Natural(base)
  BY <1>2, <1>3 DEF Natural
<1> DEFINE first == Min(Agreeing(base, d))
           out == AddOriginal(s, d, bad, dam)
<1>5. CASE out = Outcome(s, "Unchanged", 0, 0)
  BY <1>5 DEF Outcome, NaturalCase
<1>6. CASE out = Store(base, d, bad, dam, "NewData", 0)
  <2> DEFINE new == Store(base, d, bad, dam, "NewData", 0)
  <2>1. NaturalStored(base, d, "NewData", new)
    BY <1>1, <1>4, NaturalStore
  <2> HIDE DEF new
  <2>2. ASSUME base = s
        PROVE  NaturalCase(s, d, new)
    BY <2>1, <2>2 DEF NaturalStored, NaturalCase
  <2>3. ASSUME base = RemoveData(s), ~NotBad(s)
        PROVE  NaturalCase(s, d, new)
    <3>1. ~HasData(base) /\ base.copies = << >> /\ base.stats = << >>
      BY <1>2, <2>3 DEF HasData
    <3>2. Append(<< >>, d) = <<d>>
      OBVIOUS
    <3>3. new.status # "NewDataOverLimit"
      <4>1. ~(Len(base.copies) >= MaxCopies)
        BY <3>1, SectorAssumption
      <4> QED  BY <4>1, <3>1 DEF new, Store, Outcome
    <3> QED  BY <2>1, <2>3, <3>1, <3>2, <3>3 DEF NaturalStored, NaturalCase
  <2>4. NaturalCase(s, d, new)
    BY <1>3, <2>2, <2>3
  <2> QED  BY <1>6, <2>4 DEF new
<1>7. ASSUME first \in Agreeing(base, d)
      PROVE  /\ base = s /\ first \in DOMAIN s.copies /\ s.copies[first] = d
             /\ KeepsStored(base.copies[first], d, CompleteSize(base, d))
  <2>1. first \in DOMAIN base.copies
    BY <1>7 DEF Agreeing
  <2>2. base = s
    BY <1>2, <1>3, <2>1
  <2>3. Len(s.copies[first]) = Size /\ s.copies[first] \in Data
    BY <1>2, <2>1, <2>2 DEF Natural
  <2>4. CompleteSize(s, d) = Size
    BY DEF CompleteSize, Is8K, Not8K
  <2>5. Min({Size, Size, Size}) = Size
    <3>1. {Size, Size, Size} = {Size, Size}
      OBVIOUS
    <3>2. Min({Size, Size}) = Size
      BY <1>2, MinOfTwo
    <3> QED  BY <3>1, <3>2, Zenon
  <2>6. \A k \in 1..Size : s.copies[first][k] = d[k]
    <3> HIDE DEF first
    <3> QED  BY <1>7, <2>2, <2>3, <2>4, <2>5 DEF Agreeing
  <2>7. s.copies[first] = d
    BY <2>3, <2>6 DEF Data
  <2> QED  BY <2>1, <2>2, <2>3, <2>7 DEF KeepsStored
<1>8. CASE /\ first \in Agreeing(base, d)
           /\ out = Outcome(base, "Matched", first, 0)
  BY <1>7, <1>8 DEF Outcome, NaturalCase
<1> HIDE DEF out
<1>9. NaturalCase(s, d, out)
  BY <1>1, <1>5, <1>6, <1>7, <1>8 DEF AddCase, out
<1> QED  BY <1>9 DEF out

\* What one more reading of d, with its counts, makes of a sector.
Counted(s, d, attempts, count, t) ==
    /\ t.readAttempts = s.readAttempts
    /\ \/ t.copies = s.copies /\ t.stats = s.stats
       \/ ~NotBad(s) /\ t.copies = <<d>> /\ t.stats = <<count>>
       \/ t.copies = Append(s.copies, d) /\ t.stats = Append(s.stats, count)
       \/ \E at \in DOMAIN s.copies : \E new \in Int :
             /\ s.copies[at] = d
             /\ t.copies = s.copies
             /\ t.stats = [s.stats EXCEPT ![at] = new]
             /\ s.stats[at] \in 0..s.readAttempts
                   => new \in s.stats[at]..(s.readAttempts + attempts)

LEMMA NaturalAdd ==
    ASSUME NEW s, Sound(s), Natural(s), NEW d \in Data, Len(d) = Size, Not8K,
           NEW bad \in BOOLEAN, NEW dam \in Dams,
           NEW attempts \in Nat, NEW count \in 0..attempts, NEW counterMode \in BOOLEAN,
           counterMode \/ (AddOriginal(s, d, bad, dam).status \in {"Matched", "Improved"}
                              => s.readAttempts > 0 /\ attempts > 0)
    PROVE  Counted(s, d, attempts, count,
                   Add(s, d, bad, dam, attempts, count, counterMode).sector)
<1> DEFINE out == AddOriginal(s, d, bad, dam)
           r == out.sector
           t == ProcessMergeResult(out, attempts, count, counterMode)
<1>1. /\ s.copies \in Seq(Data) /\ s.stats \in Seq(Int) /\ s.readAttempts \in Nat
      /\ Len(s.copies) = Len(s.stats)
  BY DEF Sound, SectorType, WellFormed, Aligned
<1>2. /\ NaturalCase(s, d, out) /\ r \in SectorType
      /\ r.readAttempts = s.readAttempts /\ r.stats \in Seq(Int)
  BY NaturalAddOriginal, AddOriginalPending DEF Pending, SectorType
<1>3. t.copies = r.copies /\ t.readAttempts = s.readAttempts
  <2> HIDE DEF out
  <2> QED  BY <1>2, ProcessMergeResultCounts
<1>4. counterMode \/ (out.status = "Matched" => s.readAttempts > 0 /\ attempts > 0)
  OBVIOUS
<1> HIDE DEF out
<1>5. CASE /\ out.status \in {"Unchanged", "NewDataOverLimit"}
           /\ r.copies = s.copies /\ r.stats = s.stats
  <2>1. t = r
    BY <1>5 DEF ProcessMergeResult
  <2> HIDE DEF t, r
  <2> QED  BY <1>2, <1>5, <2>1 DEF Counted, Add, out, t
<1>6. ASSUME out.status = "NewData"
      PROVE  t.stats = Append(r.stats, count)
  <2>1. t = [r EXCEPT !.stats = Append(r.stats, count)]
    BY <1>6 DEF ProcessMergeResult
  <2> HIDE DEF t, r
  <2> QED  BY <1>2, <2>1 DEF SectorType
<1>7. CASE /\ ~NotBad(s) /\ out.status = "NewData"
           /\ r.copies = <<d>> /\ r.stats = << >>
  <2>1. t.stats = <<count>>
    BY <1>6, <1>7
  <2> HIDE DEF t, r
  <2> QED  BY <1>3, <1>7, <2>1 DEF Counted, Add, out, t
<1>8. CASE /\ out.status = "NewData"
           /\ r.copies = Append(s.copies, d) /\ r.stats = s.stats
  <2>1. t.stats = Append(s.stats, count)
    BY <1>6, <1>8
  <2> HIDE DEF t, r
  <2> QED  BY <1>3, <1>8, <2>1 DEF Counted, Add, out, t
<1>9. CASE /\ out.status = "Matched" /\ out.at \in DOMAIN s.copies /\ s.copies[out.at] = d
           /\ r.copies = s.copies /\ r.stats = s.stats
  <2> DEFINE at == out.at
             old == s.stats[at]
             new == IF counterMode THEN old + count
                    ELSE PercentCombined(old, s.readAttempts, count, attempts)
             u == [s.stats EXCEPT ![at] = new]
  <2>1. t = [r EXCEPT !.stats = u]
    BY <1>2, <1>9 DEF ProcessMergeResult
  <2>2. t.stats = u
    <3> HIDE DEF t, r, u
    <3> QED  BY <1>2, <2>1 DEF SectorType
  <2>3. old \in Int
    BY <1>1, <1>9
  <2>4. new \in Int
    <3>1. CASE counterMode = TRUE
      BY <2>3, <3>1
    <3>2. CASE counterMode = FALSE
      <4>1. s.readAttempts \in Nat \ {0} /\ attempts \in Nat \ {0}
        BY <1>1, <1>4, <1>9, <3>2
      <4> HIDE DEF old
      <4>2. count \in Int
        OBVIOUS
      <4>3. PercentCombined(old, s.readAttempts, count, attempts) \in Int
        BY <2>3, <4>1, <4>2, PercentCombinedIsInt
      <4> QED  BY <3>2, <4>3 DEF old
    <3> QED  BY <3>1, <3>2
  <2>5. ASSUME old \in 0..s.readAttempts
        PROVE  new \in old..(s.readAttempts + attempts)
    <3>1. CASE counterMode = TRUE
      <4>1. new = old + count
        BY <3>1
      <4>2. s.readAttempts \in Nat
        BY <1>1
      <4> HIDE DEF new, old, u, t, r, at
      <4> QED  BY <2>5, <4>1, <4>2
    <3>2. CASE counterMode = FALSE
      <4>1. s.readAttempts \in Nat \ {0} /\ attempts \in Nat \ {0}
        BY <1>1, <1>4, <1>9, <3>2
      <4> HIDE DEF old
      <4>2. PercentCombined(old, s.readAttempts, count, attempts)
               \in old..(s.readAttempts + attempts)
        BY <2>5, <4>1, PercentCombinedBounds
      <4> QED  BY <3>2, <4>2
    <3> QED  BY <3>1, <3>2
  <2> HIDE DEF t, r, new
  <2> QED  BY <1>3, <1>9, <2>2, <2>4, <2>5 DEF Counted, Add, out, t
<1> QED  BY <1>2, <1>5, <1>7, <1>8, <1>9 DEF NaturalCase

\* Every count is one of the sector's own readings, or comes with a copy from the
\* merge that is not counted yet.
Bounded(s, done, n) ==
    \A i \in DOMAIN s.stats :
        \/ s.stats[i] \in 0..s.readAttempts
        \/ s.copies[i] \in done /\ s.stats[i] \in 0..(s.readAttempts + n)

\* A copy that no earlier one of the merge equals keeps every count within bounds.
LEMMA AddBounded ==
    ASSUME NEW s, Sound(s), NEW done, NEW n \in Nat, Bounded(s, done, n),
           NEW d, d \notin done, NEW count \in 0..n, NEW t, Counted(s, d, n, count, t)
    PROVE  /\ Bounded(t, done \cup {d}, n)
           /\ NotBad(s) => \A i \in DOMAIN s.stats :
                              i \in DOMAIN t.stats /\ t.stats[i] >= s.stats[i]
<1>1. /\ s.copies \in Seq(Data) /\ s.stats \in Seq(Int) /\ s.readAttempts \in Nat
      /\ Len(s.copies) = Len(s.stats) /\ t.readAttempts = s.readAttempts
      /\ DOMAIN s.copies = DOMAIN s.stats
  BY DEF Sound, SectorType, WellFormed, Aligned, Counted
<1>2. CASE t.copies = s.copies /\ t.stats = s.stats
  <2>1. \A i \in DOMAIN s.stats : s.stats[i] \in Int
    BY <1>1
  <2> QED  BY <1>1, <1>2, <2>1 DEF Bounded
<1>3. CASE ~NotBad(s) /\ t.copies = <<d>> /\ t.stats = <<count>>
  <2>1. DOMAIN t.stats = {1} /\ t.copies[1] = d /\ t.stats[1] = count
    BY <1>3
  <2> QED  BY <1>1, <1>3, <2>1 DEF Bounded
<1>4. CASE t.copies = Append(s.copies, d) /\ t.stats = Append(s.stats, count)
  <2>1. /\ DOMAIN t.stats = 1..(Len(s.stats) + 1)
        /\ \A i \in DOMAIN s.stats : t.stats[i] = s.stats[i]
        /\ t.stats[Len(s.stats) + 1] = count
    BY <1>1, <1>4
  <2>2. \A i \in DOMAIN s.stats : t.copies[i] = s.copies[i]
    BY <1>1, <1>4
  <2>3. t.copies[Len(s.stats) + 1] = d
    BY <1>1, <1>4
  <2>4. DOMAIN s.stats = 1..Len(s.stats) /\ \A i \in DOMAIN s.stats : s.stats[i] \in Int
    BY <1>1
  <2>5. ASSUME NEW i \in DOMAIN t.stats
        PROVE  \/ t.stats[i] \in 0..t.readAttempts
               \/ t.copies[i] \in done \cup {d} /\ t.stats[i] \in 0..(t.readAttempts + n)
    <3>1. CASE i \in DOMAIN s.stats
      BY <1>1, <2>1, <2>2, <3>1 DEF Bounded
    <3>2. CASE i = Len(s.stats) + 1
      BY <1>1, <2>1, <2>3, <3>2
    <3> QED  BY <1>1, <2>1, <2>4, <3>1, <3>2
  <2>6. \A i \in DOMAIN s.stats : i \in DOMAIN t.stats /\ t.stats[i] >= s.stats[i]
    BY <2>1, <2>4, <1>1
  <2> QED  BY <2>5, <2>6 DEF Bounded
<1>5. ASSUME NEW at \in DOMAIN s.copies, NEW new \in Int,
             s.copies[at] = d, t.copies = s.copies,
             t.stats = [s.stats EXCEPT ![at] = new],
             s.stats[at] \in 0..s.readAttempts
                 => new \in s.stats[at]..(s.readAttempts + n)
      PROVE  /\ Bounded(t, done \cup {d}, n)
             /\ \A i \in DOMAIN s.stats : i \in DOMAIN t.stats /\ t.stats[i] >= s.stats[i]
  <2>1. s.stats[at] \in 0..s.readAttempts
    BY <1>1, <1>5 DEF Bounded
  <2>2. /\ DOMAIN t.stats = DOMAIN s.stats /\ t.stats[at] = new
        /\ \A i \in DOMAIN s.stats : i # at => t.stats[i] = s.stats[i]
    BY <1>1, <1>5
  <2>3. \A i \in DOMAIN s.stats : s.stats[i] \in Int
    BY <1>1
  <2>4. new \in s.stats[at]..(s.readAttempts + n)
    BY <1>5, <2>1
  <2>5. ASSUME NEW i \in DOMAIN s.stats
        PROVE  /\ t.stats[i] >= s.stats[i]
               /\ \/ t.stats[i] \in 0..t.readAttempts
                  \/ t.copies[i] \in done \cup {d} /\ t.stats[i] \in 0..(t.readAttempts + n)
    <3>1. CASE i = at
      BY <1>1, <1>5, <2>1, <2>2, <2>4, <3>1
    <3>2. CASE i # at
      <4>1. t.stats[i] = s.stats[i] /\ t.copies[i] = s.copies[i] /\ s.stats[i] \in Int
        BY <1>5, <2>2, <2>3, <3>2
      <4> QED  BY <1>1, <4>1 DEF Bounded
    <3> QED  BY <3>1, <3>2
  <2> QED  BY <2>2, <2>5 DEF Bounded
<1> QED  BY <1>2, <1>3, <1>4, <1>5 DEF Counted

\* A sector that counted what was added keeps the natural size.
LEMMA CountedNatural ==
    ASSUME NEW s, Sound(s), Natural(s), NEW d \in Data, Len(d) = Size,
           NEW n, NEW count, NEW t, Counted(s, d, n, count, t)
    PROVE  Natural(t)
<1>1. s.copies \in Seq(Data)
  BY DEF Sound, SectorType
<1>2. CASE t.copies = s.copies
  BY <1>2 DEF Natural
<1>3. CASE t.copies = <<d>>
  BY <1>3 DEF Natural
<1>4. CASE t.copies = Append(s.copies, d)
  <2>1. /\ DOMAIN t.copies = 1..(Len(s.copies) + 1) /\ DOMAIN s.copies = 1..Len(s.copies)
        /\ \A i \in DOMAIN s.copies : t.copies[i] = s.copies[i]
        /\ t.copies[Len(s.copies) + 1] = d
    BY <1>1, <1>4
  <2>2. ASSUME NEW i \in DOMAIN t.copies
        PROVE  Len(t.copies[i]) = Size
    <3>1. CASE i \in DOMAIN s.copies
      BY <2>1, <3>1 DEF Natural
    <3>2. CASE i = Len(s.copies) + 1
      BY <2>1, <3>2
    <3> QED  BY <1>1, <2>1, <3>1, <3>2
  <2> QED  BY <2>2 DEF Natural
<1> QED  BY <1>2, <1>3, <1>4 DEF Counted

\* The copies of the other sector that were already merged, and its attempts, which
\* are counted when the merge ends.
Merged(m) == IF m.active THEN {m.from.copies[k] : k \in 1..(m.next - 1)} ELSE {}
Uncounted(m) == IF m.active THEN m.from.readAttempts ELSE 0

CountsInv == Natural(sector) /\ Bounded(sector, Merged(merging), Uncounted(merging))

LEMMA CountsInit == Init => CountsInv
<1> SUFFICES ASSUME Init PROVE CountsInv
  OBVIOUS
<1>1. PICK c \in BOOLEAN, bad \in BOOLEAN : sector = SetBadIdCrc(NewSector(c), bad)
  BY DEF Init
<1> DEFINE flagged == [NewSector(c) EXCEPT !.badIdCrc = bad]
<1>2. flagged \in SectorType /\ flagged.copies = << >> /\ flagged.stats = << >>
  <2>1. /\ NewSector(c) \in SectorType
        /\ NewSector(c).copies = << >> /\ NewSector(c).stats = << >>
    BY NewSectorSound DEF Sound, NewSector
  <2> QED  BY <2>1 DEF SectorType
<1>3. sector = RemoveData(flagged) \/ sector = flagged
  BY <1>1 DEF SetBadIdCrc
<1> HIDE DEF flagged
<1>4. RemoveData(flagged).copies = << >> /\ RemoveData(flagged).stats = << >>
  BY <1>2 DEF RemoveData, SectorType
<1>5. sector.copies = << >> /\ sector.stats = << >>
  BY <1>2, <1>3, <1>4
<1> QED  BY <1>5 DEF CountsInv, Natural, Bounded

\* What a step of the invariant needs: the copies, the counts and a bound that
\* does not shrink.
LEMMA SameCounts ==
    ASSUME NEW s, s \in SectorType, NEW t, t \in SectorType, Natural(s),
           t.copies = s.copies, t.stats = s.stats,
           NEW done, NEW n \in Nat, Bounded(s, done, n),
           t.readAttempts >= s.readAttempts,
           NEW done2, NEW n2 \in Nat,
           \/ done2 = done /\ n2 = n
           \/ t.readAttempts >= s.readAttempts + n
           \/ done = {}
    PROVE  Natural(t) /\ Bounded(t, done2, n2)
<1>1. s.readAttempts \in Nat /\ t.readAttempts \in Nat
  BY DEF SectorType
<1>2. \A i \in DOMAIN s.stats : s.stats[i] \in Int
  BY DEF SectorType
<1> QED  BY <1>1, <1>2 DEF Natural, Bounded

LEMMA CountedFields ==
    ASSUME NEW s \in SectorType, NEW n \in Nat
    PROVE  LET t == [s EXCEPT !.readAttempts = n]
           IN  /\ t \in SectorType /\ t.copies = s.copies /\ t.stats = s.stats
               /\ t.readAttempts = n
BY DEF SectorType

\* Counting a read of its own.
LEMMA ReadCounts ==
    ASSUME NaturalSizes, NEW s, Sound(s), Natural(s), Bounded(s, {}, 0), NEW r \in Reads
    PROVE  LET t == AddRead(s, r).sector
           IN  /\ Natural(t) /\ Bounded(t, {}, 0)
               /\ NotBad(s) => \A i \in DOMAIN s.stats :
                                  i \in DOMAIN t.stats /\ t.stats[i] >= s.stats[i]
<1> DEFINE added == Add(s, r.data, r.bad, r.dam, 1, 1, TRUE)
           u == added.sector
           t == AddRead(s, r).sector
<1>1. /\ r.data \in Data /\ r.bad \in BOOLEAN /\ r.dam \in Dams
      /\ Len(r.data) = Size /\ Not8K
  BY SectorAssumption DEF ReadType, NaturalSizes
<1>2. 1 \in Nat /\ 1 \in 0..1 /\ 1 \in Int /\ TRUE \in BOOLEAN
  OBVIOUS
<1>3. Counted(s, r.data, 1, 1, u)
  BY <1>1, <1>2, NaturalAdd
<1>4. Sound(u)
  BY <1>1, <1>2, AddSound, Zenon
<1>5. added = [sector |-> u, status |-> added.status]
  BY DEF Add
<1>6. AddRead(s, r) = [added EXCEPT !.sector.readAttempts = @ + 1]
  BY DEF AddRead
<1> HIDE DEF added
<1>7. t = [u EXCEPT !.readAttempts = u.readAttempts + 1]
  BY <1>5, <1>6
<1>8. u \in SectorType /\ s.readAttempts \in Nat /\ u.readAttempts = s.readAttempts
  BY <1>3, <1>4 DEF Sound, SectorType, Counted
<1>9. /\ t \in SectorType /\ t.copies = u.copies /\ t.stats = u.stats
      /\ t.readAttempts = s.readAttempts + 1
  <2> HIDE DEF u, t
  <2>1. u.readAttempts + 1 \in Nat
    BY <1>8
  <2> QED  BY <1>7, <1>8, <2>1, CountedFields
<1>10. Bounded(s, {}, 1)
  BY <1>8 DEF Bounded
<1> HIDE DEF u, t
<1>11. /\ Bounded(u, {r.data}, 1)
       /\ NotBad(s) => \A i \in DOMAIN s.stats :
                          i \in DOMAIN u.stats /\ u.stats[i] >= s.stats[i]
  <2>1. r.data \notin {} /\ {r.data} = {} \cup {r.data}
    OBVIOUS
  <2>2. /\ Bounded(u, {} \cup {r.data}, 1)
        /\ NotBad(s) => \A i \in DOMAIN s.stats :
                           i \in DOMAIN u.stats /\ u.stats[i] >= s.stats[i]
    BY <1>2, <1>3, <1>10, <2>1, AddBounded, Zenon
  <2> QED  BY <2>1, <2>2
<1>12. Natural(u)
  BY <1>1, <1>3, CountedNatural
<1>13. Natural(t) /\ Bounded(t, {}, 0)
  BY <1>8, <1>9, <1>11, <1>12, SameCounts
<1> QED  BY <1>9, <1>11, <1>13 DEF t

\* Merging one copy of another reading.
LEMMA MergeCounts ==
    ASSUME NaturalSizes, IInv, FromInv, CountsInv, MergeCopy
    PROVE  /\ CountsInv'
           /\ NotBad(sector) => \A i \in DOMAIN sector.stats :
                  i \in DOMAIN sector'.stats /\ sector'.stats[i] >= sector.stats[i]
<1> DEFINE o == merging.from
           n == merging.next
           d == o.copies[n]
           done == {o.copies[k] : k \in 1..(n - 1)}
           u == Add(sector, d, o.badDataCrc, o.dam,
                    o.readAttempts, o.stats[n], ~o.constantDisk).sector
<1>0. /\ Sound(sector) /\ merging \in MergingType /\ merging.active
      /\ o \in SectorType /\ o \in Others /\ o.readAttempts \in Nat
      /\ n \in Nat \ {0} /\ n <= Len(o.copies) /\ Len(o.copies) = Len(o.stats)
  BY DEF IInv, MergeCopy, FromInv, MergingType, Sound, SectorType, WellFormed, Aligned
<1>1. n \in DOMAIN o.copies /\ n \in DOMAIN o.stats /\ DOMAIN o.copies = 1..Len(o.copies)
  BY <1>0 DEF SectorType
<1>2. /\ d \in Data /\ o.badDataCrc \in BOOLEAN /\ o.dam \in Dams
      /\ (~o.constantDisk) \in BOOLEAN
  BY <1>0, <1>1 DEF SectorType
<1>3. /\ Len(d) = Size /\ o.stats[n] \in 0..o.readAttempts /\ Not8K
      /\ \A k \in DOMAIN o.copies : o.copies[n] = o.copies[k] => n = k
  BY <1>0, <1>1 DEF NaturalSizes
<1>4. AddOriginal(sector, d, o.badDataCrc, o.dam).status \in {"Matched", "Improved"}
        /\ o.constantDisk => sector.readAttempts > 0 /\ o.readAttempts > 0
  BY DEF MergeCopy, Combines, Combinable
<1>5. /\ Natural(sector) /\ Bounded(sector, done, o.readAttempts)
  BY <1>0 DEF CountsInv, Merged, Uncounted
<1>6. d \notin done
  <2> SUFFICES ASSUME NEW k \in 1..(n - 1), o.copies[k] = o.copies[n] PROVE FALSE
    OBVIOUS
  <2>1. k \in DOMAIN o.copies /\ k # n
    BY <1>0, <1>1
  <2> QED  BY <1>3, <2>1
<1>7. /\ sector' = u /\ merging'.active /\ merging'.from = o /\ merging'.next = n + 1
  BY <1>0 DEF MergeCopy, MergingType
<1>8. Merged(merging)' = done \cup {d} /\ Uncounted(merging)' = o.readAttempts
  <2>1. 1..((n + 1) - 1) = (1..(n - 1)) \cup {n}
    BY <1>0
  <2> HIDE DEF o
  <2>2. Merged(merging)' = {o.copies[k] : k \in 1..((n + 1) - 1)}
    BY <1>7 DEF Merged
  <2> QED  BY <1>7, <2>1, <2>2 DEF Uncounted
<1>9. Counted(sector, d, o.readAttempts, o.stats[n], u)
  <2> HIDE DEF o, n, d
  <2> QED  BY <1>0, <1>2, <1>3, <1>4, <1>5, NaturalAdd
<1> HIDE DEF u, o, n, d, done
<1>10. /\ Bounded(u, done \cup {d}, o.readAttempts)
       /\ NotBad(sector) => \A i \in DOMAIN sector.stats :
                              i \in DOMAIN u.stats /\ u.stats[i] >= sector.stats[i]
  BY <1>0, <1>3, <1>5, <1>6, <1>9, AddBounded
<1>11. Natural(u)
  BY <1>0, <1>2, <1>3, <1>5, <1>9, CountedNatural
<1>12. CountsInv'
  BY <1>7, <1>8, <1>10, <1>11 DEF CountsInv, Natural, Bounded
<1> QED  BY <1>7, <1>10, <1>12

LEMMA CountsNext ==
    ASSUME NaturalSizes, IInv, FromInv, CountsInv, [Next]_vars
    PROVE  CountsInv'
<1>0. /\ Sound(sector) /\ sector \in SectorType /\ Natural(sector)
      /\ merging \in MergingType /\ merging.from \in SectorType
      /\ Bounded(sector, Merged(merging), Uncounted(merging))
      /\ merging.from.readAttempts \in Nat /\ sector.readAttempts \in Nat
      /\ Uncounted(merging) \in Nat
  BY DEF IInv, Sound, CountsInv, SectorType, Uncounted
<1>a. IInv'
  BY NextSound
<1>b. sector' \in SectorType /\ sector'.readAttempts \in Nat /\ Uncounted(merging') \in Nat
  BY <1>a DEF IInv, Sound, SectorType, Uncounted
<1>c. ASSUME ~merging.active
      PROVE  Merged(merging) = {} /\ Uncounted(merging) = 0
  BY <1>c DEF Merged, Uncounted
<1>s. ASSUME Natural(sector'), Bounded(sector', Merged(merging'), Uncounted(merging'))
      PROVE  CountsInv'
  BY <1>s DEF CountsInv, Natural, Bounded, Merged, Uncounted
<1>d. ASSUME sector'.copies = sector.copies, sector'.stats = sector.stats,
             sector'.readAttempts >= sector.readAttempts,
             \/ merging' = merging
             \/ sector'.readAttempts >= sector.readAttempts + Uncounted(merging)
             \/ Merged(merging) = {}
      PROVE  CountsInv'
  <2> DEFINE m == merging'
  <2>1. \/ Merged(m) = Merged(merging) /\ Uncounted(m) = Uncounted(merging)
        \/ sector'.readAttempts >= sector.readAttempts + Uncounted(merging)
        \/ Merged(merging) = {}
    BY <1>d
  <2> HIDE DEF m
  <2>2. Natural(sector') /\ Bounded(sector', Merged(m), Uncounted(m))
    BY <1>0, <1>b, <1>d, <2>1, SameCounts DEF m
  <2> QED  BY <1>s, <2>2 DEF m
<1>1. CASE AddData
  <2>1. PICK r \in Reads : sector' = AddRead(sector, r).sector /\ merging' = merging
    BY <1>1 DEF AddData
  <2>2. Merged(merging) = {} /\ Uncounted(merging) = 0
    BY <1>1, <1>c DEF AddData
  <2>3. Natural(sector') /\ Bounded(sector', {}, 0)
    BY <1>0, <2>1, <2>2, ReadCounts
  <2> QED  BY <1>s, <2>1, <2>2, <2>3
<1>2. CASE AddReadAttempts
  <2>1. /\ sector'.copies = sector.copies /\ sector'.stats = sector.stats
        /\ sector'.readAttempts = sector.readAttempts + 1 /\ merging' = merging
    BY <1>0, <1>2 DEF AddReadAttempts, SectorType
  <2> QED  BY <1>0, <1>d, <2>1
<1>3. CASE BeginMerge
  <2> DEFINE repaired == SetBadIdCrc(sector, FALSE)
  <2>1. PICK o \in Others :
           \/ UNCHANGED sector
           \/ sector' = [repaired EXCEPT !.readAttempts = @ + o.readAttempts]
           \/ sector' = repaired
    BY <1>3 DEF BeginMerge
  <2>2. repaired = [sector EXCEPT !.badIdCrc = FALSE] /\ o.readAttempts \in Nat
    BY OthersSound DEF SetBadIdCrc, Sound, SectorType
  <2> HIDE DEF repaired
  <2>3. /\ repaired \in SectorType /\ repaired.copies = sector.copies
        /\ repaired.stats = sector.stats /\ repaired.readAttempts = sector.readAttempts
    BY <1>0, <2>2 DEF SectorType
  <2>4. /\ sector'.copies = sector.copies /\ sector'.stats = sector.stats
        /\ sector'.readAttempts >= sector.readAttempts
    <3>1. repaired.readAttempts + o.readAttempts \in Nat
      BY <1>0, <2>2, <2>3
    <3>2. CASE sector' = [repaired EXCEPT !.readAttempts = @ + o.readAttempts]
      BY <1>0, <2>2, <2>3, <3>1, <3>2, CountedFields
    <3> QED  BY <1>0, <2>1, <2>3, <3>2
  <2>5. Merged(merging) = {}
    BY <1>3, <1>c DEF BeginMerge
  <2> QED  BY <1>d, <2>4, <2>5
<1>4. CASE MergeCopy
  BY <1>4, MergeCounts
<1>5. CASE EndMerge
  <2>1. /\ sector'.copies = sector.copies /\ sector'.stats = sector.stats
        /\ sector'.readAttempts = sector.readAttempts + merging.from.readAttempts
        /\ Uncounted(merging) = merging.from.readAttempts
    BY <1>0, <1>5 DEF EndMerge, SectorType, Uncounted
  <2> QED  BY <1>0, <1>d, <2>1
<1>6. CASE LimitOverlappingCopies
  <2>1. sector' = LimitCopies(sector, 1) /\ Merged(merging) = {} /\ Uncounted(merging) = 0
        /\ merging' = merging
    BY <1>6, <1>c DEF LimitOverlappingCopies
  <2>2. CASE ~(Len(sector.copies) > 1)
    BY <1>0, <1>d, <2>1, <2>2 DEF LimitCopies
  <2>3. CASE Len(sector.copies) > 1
    <3> DEFINE c == SubSeq(sector.copies, 1, 1)
               t == SubSeq(sector.stats, 1, 1)
    <3>1. /\ sector.copies \in Seq(Data) /\ sector.stats \in Seq(Int)
          /\ Len(sector.stats) = Len(sector.copies)
      BY <1>0 DEF Sound, SectorType, WellFormed, Aligned
    <3>2. /\ c \in Seq(Data) /\ DOMAIN c = {1} /\ c[1] = sector.copies[1]
          /\ t \in Seq(Int) /\ DOMAIN t = {1} /\ t[1] = sector.stats[1]
      BY <2>3, <3>1
    <3>3. 1 \in DOMAIN sector.copies /\ 1 \in DOMAIN sector.stats
      BY <2>3, <3>1
    <3>4. sector' = [sector EXCEPT !.copies = c, !.stats = t]
      BY <2>1, <2>3 DEF LimitCopies
    <3> HIDE DEF c, t
    <3>5. /\ sector'.copies = c /\ sector'.stats = t
          /\ sector'.readAttempts = sector.readAttempts
      BY <1>0, <3>4 DEF SectorType
    <3>6. Natural(sector')
      BY <1>0, <3>2, <3>3, <3>5 DEF Natural
    <3>7. Bounded(sector', {}, 0)
      BY <1>0, <2>1, <3>2, <3>3, <3>5 DEF Bounded
    <3> QED  BY <1>s, <2>1, <3>6, <3>7
  <2> QED  BY <2>2, <2>3
<1>7. CASE DropGapData
  <2>1. ~HasGapData(sector)
    <3>1. HasData(sector) => 1 \in DOMAIN sector.copies
      BY <1>0 DEF HasData, SectorType
    <3>2. DataSize(sector) \in {0, Size}
      BY <1>0, <3>1 DEF DataSize, Natural
    <3> QED  BY <3>2, SectorAssumption DEF HasGapData
  <2>2. sector' = sector /\ merging' = merging
    BY <1>7, <2>1 DEF DropGapData, RemoveGapData
  <2> QED  BY <1>0, <1>d, <2>2
<1>8. CASE MarkDataBad
  <2>1. sector' = [sector EXCEPT !.badDataCrc = TRUE] /\ merging' = merging
    BY <1>8 DEF MarkDataBad, SetBadDataCrc
  <2>2. /\ sector'.copies = sector.copies /\ sector'.stats = sector.stats
        /\ sector'.readAttempts = sector.readAttempts
    BY <1>0, <2>1 DEF SectorType
  <2> QED  BY <1>0, <1>d, <2>1, <2>2
<1>9. CASE UNCHANGED vars
  BY <1>0, <1>9, <1>d DEF vars
<1> QED  BY <1>1, <1>2, <1>3, <1>4, <1>5, <1>6, <1>7, <1>8, <1>9 DEF Next

\* A natural sector is stable when it is good and, for the paranoid, one of its
\* counts reached the level.
LEMMA NaturalStable ==
    ASSUME NEW s, s \in SectorType, Natural(s)
    PROVE  HasStableData(s) <=>
              /\ HasGoodData(s)
              /\ Paranoia => \E i \in DOMAIN s.stats : IsStable(s.stats[i])
<1>1. HasData(s) => 1 \in DOMAIN s.copies
  BY DEF HasData, SectorType
<1>2. HasData(s) => DataSize(s) = Size
  BY <1>1 DEF DataSize, Natural
<1> QED  BY <1>2, SectorAssumption
         DEF HasStableData, HasGoodNormalData, HasGoodData, HasGapData

LEMMA StableStep ==
    ASSUME NaturalSizes, IInv, FromInv, CountsInv, Reading, HasStableData(sector)
    PROVE  HasStableData(sector')
<1>0. /\ Sound(sector) /\ sector \in SectorType /\ sector.stats \in Seq(Int)
      /\ Natural(sector) /\ merging \in MergingType
      /\ Bounded(sector, Merged(merging), Uncounted(merging))
  BY DEF IInv, Sound, CountsInv, SectorType
<1>1. /\ HasGoodData(sector)
      /\ Paranoia => \E i \in DOMAIN sector.stats : IsStable(sector.stats[i])
  BY <1>0, NaturalStable
<1>2. NotBad(sector)
  BY <1>0, <1>1 DEF HasGoodData, NotBad, SectorType
<1>n. [Next]_vars
  BY DEF Reading, Next
<1>3. Sound(sector') /\ sector' \in SectorType /\ sector'.stats \in Seq(Int)
      /\ Natural(sector')
  <2>1. IInv' /\ CountsInv'
    BY <1>n, NextSound, CountsNext
  <2> QED  BY <2>1 DEF IInv, Sound, CountsInv, SectorType, Natural
<1>4. HasGoodData(sector')
  <2>1. NoGapRead
    <3>1. \A r \in Reads : Len(r.data) = Size /\ Size \in Nat
      BY SectorAssumption DEF NaturalSizes
    <3>2. \A o \in Others : \A i \in DOMAIN o.copies : Len(o.copies[i]) = Size /\ Size \in Nat
      BY SectorAssumption DEF NaturalSizes
    <3> QED  BY <3>1, <3>2 DEF NoGapRead
  <2> QED  BY <1>1, <2>1, GoodStep
<1>5. \A i \in DOMAIN sector.stats :
         i \in DOMAIN sector'.stats /\ sector'.stats[i] >= sector.stats[i]
  <2>1. CASE AddData
    <3>1. PICK r \in Reads : sector' = AddRead(sector, r).sector
      BY <2>1 DEF AddData
    <3>2. Bounded(sector, {}, 0)
      BY <1>0, <2>1 DEF AddData, Merged, Uncounted
    <3> QED  BY <1>0, <1>2, <3>1, <3>2, ReadCounts
  <2>2. CASE AddReadAttempts \/ EndMerge
    <3>1. sector'.stats = sector.stats
      BY <1>0, <2>2 DEF AddReadAttempts, EndMerge, SectorType
    <3>2. \A i \in DOMAIN sector.stats : sector.stats[i] \in Int
      BY <1>0
    <3> QED  BY <3>1, <3>2
  <2>3. CASE BeginMerge
    <3> DEFINE repaired == SetBadIdCrc(sector, FALSE)
    <3>1. PICK o \in Others :
             \/ UNCHANGED sector
             \/ sector' = [repaired EXCEPT !.readAttempts = @ + o.readAttempts]
             \/ sector' = repaired
      BY <2>3 DEF BeginMerge
    <3>2. repaired = [sector EXCEPT !.badIdCrc = FALSE]
      BY DEF SetBadIdCrc
    <3> HIDE DEF repaired
    <3>3. repaired \in SectorType /\ repaired.stats = sector.stats
      BY <1>0, <3>2 DEF SectorType
    <3>4. sector'.stats = sector.stats
      BY <3>1, <3>3 DEF SectorType
    <3>5. \A i \in DOMAIN sector.stats : sector.stats[i] \in Int
      BY <1>0
    <3> QED  BY <3>4, <3>5
  <2>4. CASE MergeCopy
    BY <1>2, <2>4, MergeCounts
  <2> QED  BY <2>1, <2>2, <2>3, <2>4 DEF Reading
<1>6. ASSUME Paranoia
      PROVE  \E i \in DOMAIN sector'.stats : IsStable(sector'.stats[i])
  <2>1. PICK i \in DOMAIN sector.stats : IsStable(sector.stats[i])
    BY <1>1, <1>6
  <2>2. /\ i \in DOMAIN sector'.stats /\ sector'.stats[i] >= sector.stats[i]
        /\ sector.stats[i] \in Int /\ sector'.stats[i] \in Int
    BY <1>0, <1>3, <1>5, <2>1
  <2> QED  BY <2>1, <2>2, SectorAssumption DEF IsStable
<1>7. Natural(sector') /\ sector' \in SectorType
  BY <1>3
<1> QED  BY <1>4, <1>6, <1>7, NaturalStable

\* When every reading has the natural size, no later read and no merge makes a
\* stable sector unstable: the copying loops may stop at the first stable reading.
THEOREM SectorStable ==
    ASSUME NaturalSizes
    PROVE  Spec => StableStaysStable
<1>1. IInv /\ FromInv /\ CountsInv /\ [Next]_vars
        => [Reading /\ HasStableData(sector) => HasStableData(sector')]_vars
  BY StableStep
<1>2. IInv /\ FromInv /\ CountsInv /\ [Next]_vars => CountsInv'
  BY CountsNext
<1> QED  BY <1>1, <1>2, FromInit, FromNext, CountsInit, SectorInvariant, PTL
         DEF Spec, StableStaysStable

=============================================================================

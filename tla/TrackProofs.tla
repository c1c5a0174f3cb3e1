----------------------------- MODULE TrackProofs -----------------------------
(***************************************************************************)
(* Two parts.  Track data: whatever tracks were decoded before, what is on *)
(* the medium is found (FormatsAreFound), and the bits that are kept show  *)
(* the sectors (BitsShowTheSectors), for any contents, any requests in any *)
(* order, any options and any number of tracks.  Track assembly: the       *)
(* sectors of the tracks a damaged track is put together from lie in order *)
(* (InOrder), for any scans, readings, rounds, lengths and tolerances.     *)
(***************************************************************************)
EXTENDS TrackData, TrackAssembly, SequenceTheorems, FiniteSetTheorems,
        WellFoundedInduction, TLAPS

\* A nonempty set of natural numbers has its least element in it.
LEMMA LeastElement ==
    ASSUME NEW S, S \subseteq Nat, S # {}
    PROVE  Min(S) \in S /\ \A y \in S : Min(S) <= y
<1> DEFINE R == {p \in Nat \X Nat : p[1] < p[2]}
<1>1. IsWellFoundedOn(R, Nat)
  BY NatLessThanWellFounded DEF OpToRel
<1>2. ASSUME NEW y \in Nat, NEW x \in Nat, y < x
      PROVE  <<y, x>> \in R
  BY <1>2
<1> HIDE DEF R
<1>3. PICK x \in S : \A y \in S : ~(<<y, x>> \in R)
  BY <1>1, WFMin
<1>4. ASSUME NEW y \in S
      PROVE  x =< y
  <2>1. x \in Nat /\ y \in Nat
    OBVIOUS
  <2>2. ~(y < x)
    BY <1>2, <1>3, <2>1
  <2> QED  BY <2>1, <2>2
<1> QED  BY <1>4 DEF Min

KnownEncodings == ToSet(Encodings)

(***************************************************************************)
(* The order of a scan and its end                                         *)
(***************************************************************************)

\* The encodings a scan tries.
LEMMA KnownOnes ==
    /\ KnownEncodings = {"MFM", "Amiga", "GCR", "Victor", "Apple"}
    /\ DOMAIN Encodings = 1..5
    /\ \A e \in KnownEncodings : \E p \in 1..5 : Encodings[p] = e
    /\ \A p \in 1..5 : Encodings[p] \in KnownEncodings
<1>1. DOMAIN Encodings = 1..5
  BY DEF Encodings
<1>2. \A p \in 1..5 : p = 1 \/ p = 2 \/ p = 3 \/ p = 4 \/ p = 5
  OBVIOUS
<1>3. /\ Encodings[1] = "MFM" /\ Encodings[2] = "Amiga" /\ Encodings[3] = "GCR"
      /\ Encodings[4] = "Victor" /\ Encodings[5] = "Apple"
  BY DEF Encodings
<1> QED  BY <1>1, <1>2, <1>3 DEF KnownEncodings, ToSet

\* Whichever encoding comes first, all that are looked for are tried.
LEMMA TriesAll ==
    ASSUME NEW recent, Asked = "Unknown" => recent \in KnownEncodings
    PROVE  /\ \E n \in Nat \ {0} : DOMAIN Tried(recent) = 1..n /\ Len(Tried(recent)) = n
           /\ \A e : LookedFor(e) => \E i \in DOMAIN Tried(recent) : Tried(recent)[i] = e
           /\ Asked = "Unknown" => \A i \in DOMAIN Tried(recent) : Tried(recent)[i] \in KnownEncodings
<1>1. CASE Asked # "Unknown"
  <2>1. Tried(recent) = <<Asked>>
    BY <1>1 DEF Tried
  <2>2. DOMAIN <<Asked>> = 1..1 /\ Len(<<Asked>>) = 1 /\ <<Asked>>[1] = Asked
    OBVIOUS
  <2> QED  BY <1>1, <2>1, <2>2 DEF LookedFor
<1>2. CASE Asked = "Unknown"
  <2> DEFINE place == CHOOSE p \in DOMAIN Encodings : Encodings[p] = recent
             order == [i \in 1..5 |->
                          IF i = 1 THEN recent ELSE Encodings[IF i <= place THEN i - 1 ELSE i]]
  <2>1. Tried(recent) = order
    BY <1>2, KnownOnes DEF Tried
  <2>2. place \in 1..5 /\ Encodings[place] = recent
    BY <1>2, KnownOnes
  <2> HIDE DEF place
  <2>3. DOMAIN order = 1..5 /\ Len(order) = 5
    OBVIOUS
  <2>4. \A i \in 1..5 : order[i] \in KnownEncodings
    BY <1>2, <2>2, KnownOnes
  <2>5. ASSUME NEW e \in KnownEncodings
        PROVE  \E i \in 1..5 : order[i] = e
    <3>1. PICK p \in 1..5 : Encodings[p] = e
      BY KnownOnes
    <3>2. CASE p = place
      BY <2>2, <3>1, <3>2
    <3>3. CASE p < place
      <4>1. p + 1 \in 1..5 /\ p + 1 # 1 /\ p + 1 <= place /\ (p + 1) - 1 = p
        BY <2>2, <3>3
      <4>2. order[p + 1] = e
        BY <3>1, <4>1
      <4> QED  BY <4>1, <4>2
    <3>4. CASE p > place
      <4>1. p # 1 /\ ~(p <= place)
        BY <2>2, <3>4
      <4> QED  BY <3>1, <4>1
    <3> QED  BY <2>2, <3>2, <3>3, <3>4
  <2> HIDE DEF order
  <2> QED  BY <1>2, <2>1, <2>3, <2>4, <2>5 DEF LookedFor, KnownEncodings
<1> QED  BY <1>1, <1>2

\* What an encoding finds is in what is added, and unless all are
\* to be tried, all that is added to an empty track is from the encoding tried last.
EndsWell(d, adds, n) ==
    /\ Ended(d, adds) \in 1..n
    /\ \A i \in 1..n : adds[i] # {}
          => d.sectors \cup UNION {adds[k] : k \in 1..Ended(d, adds)} # {}
    /\ d.sectors = {} /\ ~MultiFormat
          => UNION {adds[k] : k \in 1..Ended(d, adds)} \subseteq adds[Ended(d, adds)]

LEMMA EndOfScan ==
    ASSUME NEW d, NEW n \in Nat \ {0}, NEW adds, DOMAIN adds = 1..n, Len(adds) = n
    PROVE  EndsWell(d, adds, n)
<1> DEFINE hits == Finds(d, adds)
           last1 == Ended(d, adds)
<1>1. hits \subseteq 1..n /\ hits \subseteq Nat
  BY DEF Finds
<1>2. CASE MultiFormat \/ hits = {}
  <2>1. last1 = n
    BY <1>2 DEF Ended
  <2>2. hits = {} => \A i \in 1..n : adds[i] = {}
    BY DEF Finds
  <2>3. ASSUME NEW i \in 1..n, adds[i] # {}
        PROVE  UNION {adds[k] : k \in 1..n} # {}
    BY <2>3
  <2> QED  BY <1>2, <2>1, <2>2, <2>3 DEF EndsWell
<1>3. CASE ~MultiFormat /\ hits # {}
  <2>1. last1 \in hits /\ \A y \in hits : last1 <= y
    BY <1>1, <1>3, LeastElement DEF Ended
  <2>2. last1 \in 1..n
    BY <1>1, <2>1
  <2>3. d.sectors # {} \/ adds[last1] # {}
    BY <2>1 DEF Finds
  <2>4. d.sectors = {} => \A k \in 1..last1 : k # last1 => adds[k] = {}
    <3> HIDE DEF last1
    <3>1. \A k \in 1..n : adds[k] # {} => k \in hits
      BY DEF Finds
    <3> QED  BY <2>1, <2>2, <3>1
  <2>5. last1 \in 1..last1
    BY <2>2
  <2> HIDE DEF last1
  <2>6. d.sectors \cup UNION {adds[k] : k \in 1..last1} # {}
    BY <2>3, <2>5
  <2>7. d.sectors = {} => UNION {adds[k] : k \in 1..last1} \subseteq adds[last1]
    BY <2>4
  <2> QED  BY <2>2, <2>6, <2>7 DEF last1, EndsWell
<1> QED  BY <1>2, <1>3

(***************************************************************************)
(* What every request keeps                                                *)
(***************************************************************************)

\* The fields of track data.
IsData(d) ==
    d = [flags |-> d.flags, normalised |-> d.normalised, sectors |-> d.sectors, view |-> d.view]

IsMemory(mem) == mem = [bits |-> mem.bits, flux |-> mem.flux]

\* An encoding is remembered that is tried.
Remembers(mem) ==
    /\ IsMemory(mem)
    /\ Asked = "Unknown" => mem.bits \in KnownEncodings /\ mem.flux \in KnownEncodings

Found(d) ==
    "track" \in d.flags /\ source \in {"bits", "flux"} =>
        \A c \in content : c.good /\ LookedFor(c.enc) => d.sectors # {}

Showing(d) ==
    source = "flux" /\ {"track", "bits"} \subseteq d.flags /\ d.sectors # {} /\ ~MultiFormat =>
        \E s \in d.sectors : Shows(d.view, s.enc)

\* The sectors come with the track, and the bits are those the source had or those
\* its scan made.
Kept(d) ==
    /\ IsData(d)
    /\ "track" \notin d.flags => d.sectors = {}
    /\ source = "bits" => "bits" \in d.flags /\ d.view = "any"
    /\ source = "flux" => "flux" \in d.flags /\ ("track" \in d.flags <=> "bits" \in d.flags)
    /\ source # "flux" /\ "flux" \in d.flags => "bits" \in d.flags

GoodData(d) == Kept(d) /\ Found(d) /\ Showing(d)

DataInv == GoodData(td) /\ Remembers(last)

\* What is added are sectors, and no others are lost.
LEMMA AddedData ==
    ASSUME NEW d, IsData(d), NEW adds
    PROVE  /\ IsData(Added(d, adds))
           /\ Added(d, adds).flags = d.flags \cup {"track"}
           /\ Added(d, adds).view = d.view
           /\ Added(d, adds).sectors = d.sectors \cup UNION {adds[i] : i \in 1..Ended(d, adds)}
<1> DEFINE more == UNION {adds[i] : i \in 1..Ended(d, adds)}
<1>1. Added(d, adds) = [d EXCEPT !.flags = @ \cup {"track"}, !.sectors = @ \cup more]
  BY DEF Added, AddSectors
<1> HIDE DEF more
<1>2. d = [flags |-> d.flags, normalised |-> d.normalised, sectors |-> d.sectors, view |-> d.view]
  BY DEF IsData
<1>3. Added(d, adds) = [flags |-> d.flags \cup {"track"}, normalised |-> d.normalised,
                        sectors |-> d.sectors \cup more, view |-> d.view]
  BY <1>1, <1>2
<1> QED  BY <1>3 DEF IsData, more

LEMMA WithBits ==
    ASSUME NEW d, IsData(d), NEW v
    PROVE  [d EXCEPT !.flags = @ \cup {"bits"}, !.view = v]
           = [flags |-> d.flags \cup {"bits"}, normalised |-> d.normalised,
              sectors |-> d.sectors, view |-> v]
<1> DEFINE e == [d EXCEPT !.flags = @ \cup {"bits"}]
           f == d.flags \cup {"bits"}
           n == d.normalised
           c == d.sectors
           w == d.view
<1>1. d = [flags |-> d.flags, normalised |-> n, sectors |-> c, view |-> w]
  BY DEF IsData
<1>2. e = [flags |-> f, normalised |-> n, sectors |-> c, view |-> w]
  BY <1>1
<1>3. [d EXCEPT !.flags = @ \cup {"bits"}, !.view = v] = [e EXCEPT !.view = v]
  BY <1>1
<1> HIDE DEF e, f, n, c, w
<1>4. [e EXCEPT !.view = v] = [flags |-> f, normalised |-> n, sectors |-> c, view |-> v]
  BY <1>2
<1> QED  BY <1>3, <1>4 DEF f, n, c

\* The remembered encoding is one that was tried.
LEMMA RemembersKnown ==
    ASSUME NEW d, NEW adds, NEW recent, Asked = "Unknown", recent \in KnownEncodings,
           DOMAIN adds = DOMAIN Tried(recent)
    PROVE  Remembered(d, adds, Tried(recent), recent) \in KnownEncodings
<1>1. PICK n \in Nat \ {0} : DOMAIN Tried(recent) = 1..n /\ Len(Tried(recent)) = n
  BY TriesAll
<1>2. CASE MultiFormat \/ Finds(d, adds) = {}
  BY <1>2 DEF Remembered
<1>3. CASE ~(MultiFormat \/ Finds(d, adds) = {})
  <2>1. Finds(d, adds) \subseteq 1..n /\ Finds(d, adds) \subseteq Nat
    BY <1>1 DEF Finds
  <2>2. Ended(d, adds) \in 1..n
    BY <1>3, <2>1, LeastElement DEF Ended
  <2>3. \A i \in DOMAIN Tried(recent) : Tried(recent)[i] \in KnownEncodings
    BY TriesAll
  <2> QED  BY <1>1, <1>3, <2>2, <2>3 DEF Remembered
<1> QED  BY <1>2, <1>3

\* A good sector that is looked for is among what the scanner of its encoding adds.
LEMMA GoodIsScanned ==
    ASSUME NEW c \in content, c.good, NEW view, Shows(view, c.enc)
    PROVE  Scanned(c.enc, view) # {}
<1>1. c \in Shown(c.enc, view)
  BY DEF Shown
<1>2. ~AddsNothing(c.enc, view)
  BY <1>1 DEF AddsNothing
<1> QED  BY <1>1, <1>2 DEF Scanned

LEMMA ScannedIsShown ==
    ASSUME NEW e, NEW view, NEW s \in Scanned(e, view)
    PROVE  s.enc = e /\ Shows(view, s.enc)
BY DEF Scanned, Shown

LEMMA FluxScan ==
    ASSUME NEW d, Kept(d), Remembers(last), source = "flux", "track" \notin d.flags
    PROVE  GoodData(ScanFlux(d).d) /\ (Asked = "Unknown" => ScanFlux(d).last \in KnownEncodings)
<1> DEFINE order == Tried(last.flux)
           adds == [i \in DOMAIN order |-> Scanned(order[i], order[i])]
           bits == [d EXCEPT !.flags = @ \cup {"bits"}, !.view = order[Ended(d, adds)]]
<1>1. ScanFlux(d).d = Added(bits, adds)
      /\ ScanFlux(d).last = Remembered(d, adds, order, last.flux)
  BY DEF ScanFlux
<1>2. Asked = "Unknown" => last.flux \in KnownEncodings
  BY DEF Remembers
<1>3. PICK n \in Nat \ {0} : DOMAIN order = 1..n /\ Len(order) = n
  BY <1>2, TriesAll
<1>4. \A e : LookedFor(e) => \E i \in 1..n : order[i] = e
  BY <1>2, <1>3, TriesAll
<1>5. Asked = "Unknown" => ScanFlux(d).last \in KnownEncodings
  <2>1. DOMAIN adds = DOMAIN order
    OBVIOUS
  <2> HIDE DEF adds, bits
  <2> QED  BY <1>1, <1>2, <2>1, RemembersKnown
<1> HIDE DEF order
<1>6. DOMAIN adds = 1..n /\ Len(adds) = n /\ \A i \in 1..n : adds[i] = Scanned(order[i], order[i])
  BY <1>3
<1> HIDE DEF adds
<1>7. IsData(d) /\ d.sectors = {} /\ "flux" \in d.flags
  BY DEF Kept
<1>8. /\ IsData(bits) /\ bits.flags = d.flags \cup {"bits"} /\ bits.sectors = {}
      /\ bits.view = order[Ended(d, adds)]
  <2> DEFINE v == order[Ended(d, adds)]
  <2>1. bits = [d EXCEPT !.flags = @ \cup {"bits"}, !.view = v]
    OBVIOUS
  <2> HIDE DEF v, bits
  <2>2. bits = [flags |-> d.flags \cup {"bits"}, normalised |-> d.normalised,
                sectors |-> d.sectors, view |-> v]
    BY <1>7, <2>1, WithBits, Zenon
  <2> QED  BY <1>7, <2>2 DEF IsData, v
<1>9. Ended(bits, adds) = Ended(d, adds)
  BY <1>7, <1>8 DEF Ended, Finds
<1> HIDE DEF bits
<1> DEFINE r == Added(bits, adds)
           end == Ended(d, adds)
<1>10. /\ IsData(r) /\ r.flags = d.flags \cup {"bits", "track"} /\ r.view = order[end]
       /\ r.sectors = UNION {adds[i] : i \in 1..end}
  <2>1. r.flags = bits.flags \cup {"track"} /\ r.view = bits.view /\ IsData(r)
        /\ r.sectors = bits.sectors \cup UNION {adds[i] : i \in 1..end}
    BY <1>8, <1>9, AddedData
  <2> QED  BY <1>8, <2>1
<1>11. /\ end \in 1..n
       /\ \A i \in 1..n : adds[i] # {} => r.sectors # {}
       /\ ~MultiFormat => r.sectors \subseteq adds[end]
  <2> HIDE DEF r
  <2>1. EndsWell(d, adds, n)
    BY <1>6, EndOfScan, Zenon
  <2> QED  BY <1>7, <1>10, <2>1 DEF EndsWell
<1> HIDE DEF r, end
<1>12. Kept(r)
  BY <1>7, <1>10 DEF Kept
<1>13. Found(r)
  <2> SUFFICES ASSUME NEW c \in content, c.good, LookedFor(c.enc)
               PROVE  r.sectors # {}
    BY DEF Found
  <2>1. PICK i \in 1..n : order[i] = c.enc
    BY <1>4
  <2>2. Shows(c.enc, c.enc)
    BY DEF Shows
  <2>3. adds[i] # {}
    BY <1>6, <2>1, <2>2, GoodIsScanned
  <2> QED  BY <1>11, <2>3
<1>14. Showing(r)
  <2> SUFFICES ASSUME r.sectors # {}, ~MultiFormat
               PROVE  \E s \in r.sectors : Shows(r.view, s.enc)
    BY DEF Showing
  <2>1. PICK s \in r.sectors : TRUE
    OBVIOUS
  <2>2. s \in Scanned(order[end], order[end])
    BY <1>6, <1>11, <2>1
  <2> QED  BY <1>10, <2>1, <2>2, ScannedIsShown
<1> QED  BY <1>1, <1>5, <1>12, <1>13, <1>14 DEF GoodData, r

LEMMA BitsScan ==
    ASSUME NEW d, IsData(d), Found(d), Showing(d), Remembers(last),
           source = "flux" => {"flux", "track", "bits"} \subseteq d.flags,
           source = "bits" => "bits" \in d.flags /\ d.view = "any",
           source # "flux" /\ "flux" \in d.flags => "bits" \in d.flags,
           "track" \notin d.flags => d.sectors = {}
    PROVE  GoodData(ScanBitstream(d).d) /\ (Asked = "Unknown" => ScanBitstream(d).last \in KnownEncodings)
<1> DEFINE order == Tried(last.bits)
           adds == [i \in DOMAIN order |-> Scanned(order[i], d.view)]
           stuck == "track" \notin d.flags /\ AddsNothing(order[1], d.view)
<1>1. /\ ScanBitstream(d).d = IF stuck THEN d ELSE Added(d, adds)
      /\ ScanBitstream(d).last = IF stuck THEN last.bits
                                 ELSE Remembered(d, adds, order, last.bits)
  BY DEF ScanBitstream
<1>2. Asked = "Unknown" => last.bits \in KnownEncodings
  BY DEF Remembers
<1>3. PICK n \in Nat \ {0} : DOMAIN order = 1..n /\ Len(order) = n
  BY <1>2, TriesAll
<1>4. \A e : LookedFor(e) => \E i \in 1..n : order[i] = e
  BY <1>2, <1>3, TriesAll
<1>5. Asked = "Unknown" => ScanBitstream(d).last \in KnownEncodings
  <2>1. DOMAIN adds = DOMAIN order
    OBVIOUS
  <2> HIDE DEF adds, stuck
  <2>2. Asked = "Unknown" => Remembered(d, adds, order, last.bits) \in KnownEncodings
    BY <1>2, <2>1, RemembersKnown
  <2> QED  BY <1>1, <1>2, <2>2
<1> HIDE DEF order
<1>6. DOMAIN adds = 1..n /\ Len(adds) = n /\ \A i \in 1..n : adds[i] = Scanned(order[i], d.view)
  BY <1>3
<1> HIDE DEF adds
<1>7. CASE stuck
  <2>1. GoodData(d)
    BY <1>7 DEF GoodData, Kept
  <2> QED  BY <1>1, <1>5, <1>7, <2>1
<1>8. CASE ~stuck
  <2> DEFINE r == Added(d, adds)
             end == Ended(d, adds)
  <2>1. /\ IsData(r) /\ r.flags = d.flags \cup {"track"} /\ r.view = d.view
        /\ r.sectors = d.sectors \cup UNION {adds[i] : i \in 1..end}
    BY AddedData
  <2>2. /\ end \in 1..n
        /\ \A i \in 1..n : adds[i] # {} => r.sectors # {}
    <3> HIDE DEF r
    <3>1. EndsWell(d, adds, n)
      BY <1>6, EndOfScan, Zenon
    <3> QED  BY <2>1, <3>1 DEF EndsWell
  <2> HIDE DEF r, end
  <2>3. Kept(r)
    BY <2>1 DEF Kept
  <2>4. Found(r)
    <3> SUFFICES ASSUME source \in {"bits", "flux"}, NEW c \in content, c.good, LookedFor(c.enc)
                 PROVE  r.sectors # {}
      BY DEF Found
    <3>1. CASE source = "flux"
      <4>1. d.sectors # {}
        BY <3>1 DEF Found
      <4> QED  BY <2>1, <4>1
    <3>2. CASE source = "bits"
      <4>1. PICK i \in 1..n : order[i] = c.enc
        BY <1>4
      <4>2. Shows(d.view, c.enc)
        BY <3>2 DEF Shows
      <4>3. adds[i] # {}
        BY <1>6, <4>1, <4>2, GoodIsScanned
      <4> QED  BY <2>2, <4>3
    <3> QED  BY <3>1, <3>2
  <2>5. Showing(r)
    <3> SUFFICES ASSUME source = "flux", r.sectors # {}, ~MultiFormat
                 PROVE  \E s \in r.sectors : Shows(r.view, s.enc)
      BY DEF Showing
    <3>1. CASE d.sectors # {}
      <4>1. \E s \in d.sectors : Shows(d.view, s.enc)
        BY <3>1 DEF Showing
      <4> QED  BY <2>1, <4>1
    <3>2. CASE d.sectors = {}
      <4>1. PICK s \in r.sectors, i \in 1..end : s \in adds[i]
        BY <2>1, <3>2
      <4>2. i \in 1..n
        BY <2>2
      <4>3. s \in Scanned(order[i], d.view)
        BY <1>6, <4>1, <4>2
      <4> QED  BY <2>1, <4>1, <4>3, ScannedIsShown
    <3> QED  BY <3>1, <3>2
  <2>6. ScanBitstream(d).d = r
    BY <1>1, <1>8 DEF r
  <2> QED  BY <1>5, <2>3, <2>4, <2>5, <2>6 DEF GoodData
<1> QED  BY <1>7, <1>8

\* A bitstream that is generated is that of a track which came as one, or not at all.
LEMMA GeneratedData ==
    ASSUME NEW d, IsData(d), NEW fits \in BOOLEAN, source \notin {"bits", "flux"},
           "flux" \notin d.flags
    PROVE  GoodData(Generated(AddSectors(d, {}), fits))
<1> DEFINE a == AddSectors(d, {})
           g == Generated(a, fits)
<1>1. a = [flags |-> d.flags \cup {"track"}, normalised |-> d.normalised,
           sectors |-> d.sectors, view |-> d.view]
  <2>1. d = [flags |-> d.flags, normalised |-> d.normalised, sectors |-> d.sectors, view |-> d.view]
    BY DEF IsData
  <2>2. a = [d EXCEPT !.flags = @ \cup {"track"}, !.sectors = @]
    BY DEF AddSectors
  <2> HIDE DEF a
  <2> QED  BY <2>1, <2>2
<1>2. IsData(a)
  BY <1>1 DEF IsData
<1> HIDE DEF a
<1>3. g = a \/ g = [a EXCEPT !.flags = @ \cup {"bits"}, !.view = "any"]
  BY DEF Generated
<1>4. [a EXCEPT !.flags = @ \cup {"bits"}, !.view = "any"]
      = [flags |-> a.flags \cup {"bits"}, normalised |-> a.normalised,
         sectors |-> a.sectors, view |-> "any"]
  BY <1>2, WithBits, Zenon
<1> HIDE DEF g
<1>5. IsData(g) /\ "track" \in g.flags /\ "flux" \notin g.flags
  BY <1>1, <1>2, <1>3, <1>4 DEF IsData
<1> QED  BY <1>5 DEF GoodData, Kept, Found, Showing, g, a

\* A scan changes one memory.
LEMMA MemoryOfScan ==
    ASSUME NEW mem, Remembers(mem), NEW e, Asked = "Unknown" => e \in KnownEncodings
    PROVE  Remembers([mem EXCEPT !.flux = e]) /\ Remembers([mem EXCEPT !.bits = e])
<1>1. mem = [bits |-> mem.bits, flux |-> mem.flux]
  BY DEF Remembers, IsMemory
<1>2. /\ [mem EXCEPT !.flux = e] = [bits |-> mem.bits, flux |-> e]
      /\ [mem EXCEPT !.bits = e] = [bits |-> e, flux |-> mem.flux]
  BY <1>1
<1> QED  BY <1>2 DEF Remembers, IsMemory

GoodAnswer(a) == GoodData(a.d) /\ Remembers(a.last)

LEMMA AnswerFields ==
    ASSUME NEW d, NEW mem, NEW problem
    PROVE  /\ Answer(d, mem, problem).d = d /\ Answer(d, mem, problem).last = mem
           /\ Answer(d, mem, problem).problem = problem
BY DEF Answer

\* Whoever has its bits, or came as flux, is not refused them.
LEMMA GoodBitstream ==
    ASSUME DataInv, NEW fits \in BOOLEAN
    PROVE  /\ GoodAnswer(Bitstream(td, fits))
           /\ source = "flux" => {"track", "bits"} \subseteq Bitstream(td, fits).d.flags
           /\ Bitstream(td, fits).problem = "none" => "bits" \in Bitstream(td, fits).d.flags
<1> DEFINE b == Bitstream(td, fits)
           scan == ScanFlux(td)
           generated == Generated(AddSectors(td, {}), fits)
<1>1. CASE "bits" \in td.flags
  <2>1. b = Answer(td, last, "none")
    BY <1>1 DEF Bitstream
  <2> HIDE DEF b
  <2>2. b.d = td /\ b.last = last
    BY <2>1, AnswerFields
  <2> QED  BY <1>1, <2>2 DEF b, GoodAnswer, DataInv, GoodData, Kept
<1>2. CASE "bits" \notin td.flags /\ source = "flux"
  <2>1. "track" \notin td.flags /\ "flux" \in td.flags
    BY <1>2 DEF DataInv, GoodData, Kept
  <2>2. b = Answer(scan.d, [last EXCEPT !.flux = scan.last], "none")
    BY <1>2, <2>1 DEF Bitstream
  <2>3. GoodData(scan.d) /\ (Asked = "Unknown" => scan.last \in KnownEncodings)
    BY <1>2, <2>1, FluxScan DEF DataInv, GoodData
  <2>4. Remembers([last EXCEPT !.flux = scan.last])
    <3> HIDE DEF scan
    <3> QED  BY <2>3, MemoryOfScan DEF DataInv
  <2>5. {"track", "bits"} \subseteq scan.d.flags
    <3> DEFINE adds == [i \in DOMAIN Tried(last.flux) |->
                            Scanned(Tried(last.flux)[i], Tried(last.flux)[i])]
               bits == [td EXCEPT !.flags = @ \cup {"bits"},
                                  !.view = Tried(last.flux)[Ended(td, adds)]]
    <3>1. scan.d = Added(bits, adds)
      BY DEF ScanFlux
    <3>2. IsData(bits) /\ "bits" \in bits.flags
      <4> DEFINE v == Tried(last.flux)[Ended(td, adds)]
      <4>1. bits = [td EXCEPT !.flags = @ \cup {"bits"}, !.view = v]
        OBVIOUS
      <4> HIDE DEF v, bits
      <4>2. bits = [flags |-> td.flags \cup {"bits"}, normalised |-> td.normalised,
                    sectors |-> td.sectors, view |-> v]
        BY <4>1, WithBits, Zenon DEF DataInv, GoodData, Kept
      <4> QED  BY <4>2 DEF IsData
    <3> HIDE DEF scan, adds, bits
    <3>3. Added(bits, adds).flags = bits.flags \cup {"track"}
      BY <3>2, AddedData
    <3> QED  BY <3>1, <3>2, <3>3
  <2> HIDE DEF b, scan
  <2>6. b.d = scan.d /\ b.last = [last EXCEPT !.flux = scan.last]
    BY <2>2, AnswerFields
  <2> QED  BY <2>3, <2>4, <2>5, <2>6 DEF GoodAnswer, b
<1>3. CASE "bits" \notin td.flags /\ source # "flux"
  <2>1. source \notin {"bits", "flux"} /\ "flux" \notin td.flags
    BY <1>3 DEF DataInv, GoodData, Kept
  <2>2. b = Answer(generated, last, IF "bits" \in generated.flags THEN "none" ELSE "refused")
    BY <1>3, <2>1 DEF Bitstream
  <2>3. GoodData(generated)
    BY <2>1, GeneratedData DEF DataInv, GoodData, Kept
  <2> HIDE DEF b, generated
  <2>4. b.d = generated /\ b.last = last
        /\ b.problem = IF "bits" \in generated.flags THEN "none" ELSE "refused"
    BY <2>2, AnswerFields
  <2> QED  BY <1>3, <2>3, <2>4 DEF GoodAnswer, DataInv, b
<1> QED  BY <1>1, <1>2, <1>3

LEMMA GoodTrackOf ==
    ASSUME DataInv, NEW fits \in BOOLEAN
    PROVE  GoodAnswer(TrackOf(td, fits))
<1> DEFINE t == TrackOf(td, fits)
           b == Bitstream(td, fits)
           scan == ScanBitstream(b.d)
<1>1. /\ GoodAnswer(b)
      /\ source = "flux" => {"track", "bits"} \subseteq b.d.flags
  BY GoodBitstream
<1>2. CASE "track" \in td.flags
  <2>1. t = Answer(td, last, "none")
    BY <1>2 DEF TrackOf
  <2> HIDE DEF t
  <2>2. t.d = td /\ t.last = last
    BY <2>1, AnswerFields
  <2> QED  BY <2>2 DEF GoodAnswer, DataInv, t
<1>3. CASE "track" \notin td.flags /\ b.problem # "none"
  <2>1. t = b
    BY <1>3 DEF TrackOf
  <2> QED  BY <1>1, <2>1
<1>4. CASE "track" \notin td.flags /\ b.problem = "none"
  <2>1. t = Answer(scan.d, [b.last EXCEPT !.bits = scan.last],
                   IF scan.stuck THEN "stuck" ELSE "none")
    BY <1>4 DEF TrackOf
  <2>2. GoodData(scan.d) /\ (Asked = "Unknown" => scan.last \in KnownEncodings)
    <3> HIDE DEF b
    <3>1. source = "flux" => {"flux", "track", "bits"} \subseteq b.d.flags
      BY <1>1 DEF GoodAnswer, GoodData, Kept
    <3> QED  BY <1>1, <3>1, BitsScan DEF GoodAnswer, GoodData, Kept, DataInv
  <2>3. Remembers([b.last EXCEPT !.bits = scan.last])
    <3> HIDE DEF scan, b
    <3> QED  BY <1>1, <2>2, MemoryOfScan DEF GoodAnswer
  <2> HIDE DEF t, b, scan
  <2>4. t.d = scan.d /\ t.last = [b.last EXCEPT !.bits = scan.last]
    BY <2>1, AnswerFields
  <2> QED  BY <2>2, <2>3, <2>4 DEF GoodAnswer, t
<1> QED  BY <1>2, <1>3, <1>4

LEMMA GoodFlux ==
    ASSUME DataInv, NEW fits \in BOOLEAN
    PROVE  GoodAnswer(Flux(td, fits))
<1> DEFINE f == Flux(td, fits)
           b == Bitstream(td, fits)
<1>1. GoodAnswer(b) /\ (b.problem = "none" => "bits" \in b.d.flags)
  BY GoodBitstream
<1>2. CASE "flux" \in td.flags
  <2>1. f = Answer(td, last, "none")
    BY <1>2 DEF Flux
  <2> HIDE DEF f
  <2>2. f.d = td /\ f.last = last
    BY <2>1, AnswerFields
  <2> QED  BY <2>2 DEF GoodAnswer, DataInv, f
<1>3. CASE "flux" \notin td.flags /\ b.problem # "none"
  <2>1. f = b
    BY <1>3 DEF Flux
  <2> QED  BY <1>1, <2>1
<1>4. CASE "flux" \notin td.flags /\ b.problem = "none"
  <2>1. f = [b EXCEPT !.d.flags = @ \cup {"flux"}, !.d.normalised = TRUE]
    BY <1>4 DEF Flux
  <2>2. \E d, mem, problem : b = Answer(d, mem, problem)
    BY Zenon DEF Bitstream
  <2>3. b = [d |-> b.d, last |-> b.last, problem |-> b.problem]
    BY <2>2 DEF Answer
  <2> HIDE DEF f, b
  <2>4. f.last = b.last /\ f.d = [b.d EXCEPT !.flags = @ \cup {"flux"}, !.normalised = TRUE]
    BY <2>1, <2>3
  <2>5. b.d = [flags |-> b.d.flags, normalised |-> b.d.normalised, sectors |-> b.d.sectors,
               view |-> b.d.view]
    BY <1>1 DEF GoodAnswer, GoodData, Kept, IsData
  <2>6. f.d = [flags |-> b.d.flags \cup {"flux"}, normalised |-> TRUE, sectors |-> b.d.sectors,
               view |-> b.d.view]
    BY <2>4, <2>5
  <2>7. /\ IsData(f.d) /\ f.d.flags = b.d.flags \cup {"flux"} /\ f.d.sectors = b.d.sectors
        /\ f.d.view = b.d.view
    BY <2>6 DEF IsData
  <2>8. GoodData(f.d)
    BY <1>1, <1>4, <2>7 DEF GoodAnswer, GoodData, Kept, Found, Showing
  <2> QED  BY <1>1, <2>4, <2>8 DEF GoodAnswer, f
<1> QED  BY <1>2, <1>3, <1>4

LEMMA GoodPreferred ==
    ASSUME DataInv, NEW fits \in BOOLEAN
    PROVE  GoodAnswer(Preferred(td, fits))
<1>1. GoodAnswer(Answer(td, last, "none"))
  BY AnswerFields DEF GoodAnswer, DataInv
<1> QED  BY <1>1, GoodBitstream, GoodTrackOf, GoodFlux, Zenon DEF Preferred

(***************************************************************************)
(* The theorems                                                            *)
(***************************************************************************)

LEMMA DataInvInit == DataInit => DataInv
BY KnownOnes DEF DataInit, DataInv, GoodData, Kept, Found, Showing, IsData, NoData, Remembers, IsMemory

\* With the same source and contents, what was good for them stays so.
LEMMA SameSource ==
    ASSUME UNCHANGED <<source, content>>, GoodData(td'), Remembers(last')
    PROVE  DataInv'
BY DEF DataInv, GoodData, Kept, Found, Showing, IsData, Remembers, IsMemory

LEMMA DataStep == DataInv /\ [DataNext]_dataVars => DataInv'
<1> SUFFICES ASSUME DataInv, [DataNext]_dataVars PROVE DataInv'
  OBVIOUS
<1>1. CASE Load
  <2>1. PICK normalised \in BOOLEAN :
            td' = [NoData EXCEPT !.flags = {source'} \ {"none"},
                                 !.sectors = IF source' = "track" THEN content' ELSE {},
                                 !.normalised = source' = "flux" /\ normalised]
    BY <1>1, Zenon DEF Load
  <2> DEFINE s == IF source' = "track" THEN content' ELSE {}
             n == source' = "flux" /\ normalised
             f == {source'} \ {"none"}
  <2>2. td' = [[[NoData EXCEPT !.flags = f] EXCEPT !.sectors = s] EXCEPT !.normalised = n]
    BY <2>1 DEF NoData
  <2>3. td'.flags = f /\ td'.sectors = s /\ td'.view = "any" /\ IsData(td')
    <3> HIDE DEF s, n, f
    <3> QED  BY <2>2 DEF NoData, IsData
  <2>4. source' \in {"none", "track", "bits", "flux"} /\ last' = last
    BY <1>1 DEF Load
  <2>5. Remembers(last)
    BY DEF DataInv
  <2> QED  BY <2>3, <2>4, <2>5 DEF DataInv, GoodData, Kept, Found, Showing, IsData, Remembers, IsMemory
<1>2. ASSUME NEW a, GoodAnswer(a), td' = a.d, last' = a.last, UNCHANGED <<source, content>>
      PROVE  DataInv'
  BY <1>2, SameSource DEF GoodAnswer
<1>3. CASE AskTrack
  <2>1. PICK fits \in BOOLEAN : td' = TrackOf(td, fits).d /\ last' = TrackOf(td, fits).last
    BY <1>3 DEF AskTrack, Ask
  <2> QED  BY <1>2, <1>3, <2>1, GoodTrackOf DEF AskTrack, Ask
<1>4. CASE AskBitstream
  <2>1. PICK fits \in BOOLEAN : td' = Bitstream(td, fits).d /\ last' = Bitstream(td, fits).last
    BY <1>4 DEF AskBitstream, Ask
  <2> QED  BY <1>2, <1>4, <2>1, GoodBitstream DEF AskBitstream, Ask
<1>5. CASE AskFlux
  <2>1. PICK fits \in BOOLEAN : td' = Flux(td, fits).d /\ last' = Flux(td, fits).last
    BY <1>5 DEF AskFlux, Ask
  <2> QED  BY <1>2, <1>5, <2>1, GoodFlux DEF AskFlux, Ask
<1>6. CASE AskPreferred
  <2>1. PICK fits \in BOOLEAN :
            /\ td' = IF Prefer = "Unknown" THEN td ELSE Preferred(td, fits).d
            /\ last' = Preferred(td, fits).last
    BY <1>6 DEF AskPreferred
  <2>2. GoodAnswer(Preferred(td, fits))
    BY GoodPreferred
  <2>3. GoodData(td') /\ Remembers(last') /\ UNCHANGED <<source, content>>
    BY <1>6, <2>1, <2>2 DEF GoodAnswer, DataInv, AskPreferred
  <2> QED  BY <2>3, SameSource
<1>7. CASE UNCHANGED dataVars
  BY <1>7, SameSource DEF dataVars, DataInv
<1> QED  BY <1>1, <1>3, <1>4, <1>5, <1>6, <1>7 DEF DataNext

THEOREM DataInvariant == DataSpec => []DataInv
<1> QED  BY DataInvInit, DataStep, PTL DEF DataSpec

\* Whatever was decoded before and in whatever order the representations of a track
\* are asked for, a good sector on the medium in an encoding that is looked for is
\* found, or the track shows others.
THEOREM TrackDataFound == DataSpec => []FormatsAreFound
<1>1. DataInv => FormatsAreFound
  BY DEF DataInv, GoodData, Found, FormatsAreFound
<1> QED  BY <1>1, DataInvariant, PTL

\* The bits kept of a track that came as flux show one of the sectors it has, unless
\* several formats were asked for.
THEOREM TrackDataShown == DataSpec => []BitsShowTheSectors
<1>1. DataInv => BitsShowTheSectors
  BY DEF DataInv, GoodData, Showing, BitsShowTheSectors
<1> QED  BY <1>1, DataInvariant, PTL

(***************************************************************************)
(* Recursive functions over 0..n                                           *)
(***************************************************************************)

\* What holds at 0 and from each place to the next holds everywhere.
LEMMA UpTo ==
    ASSUME NEW n \in Nat, NEW P, 0 \in P, \A k \in 1..n : k - 1 \in P => k \in P
    PROVE  \A k \in 0..n : k \in P
<1> SUFFICES ASSUME NEW j \in 0..n, j \notin P PROVE FALSE
  OBVIOUS
<1> DEFINE B == {k \in 0..n : k \notin P}
<1>1. Min(B) \in B /\ \A y \in B : Min(B) <= y
  <2>1. B \subseteq Nat /\ B # {}
    OBVIOUS
  <2> HIDE DEF B
  <2> QED  BY <2>1, LeastElement
<1> DEFINE m == Min(B)
<1>2. m \in 1..n /\ m \notin P /\ m - 1 \in 0..n /\ ~(m <= m - 1)
  BY <1>1
<1>3. m - 1 \in P
  BY <1>1, <1>2
<1> HIDE DEF m
<1> QED  BY <1>2, <1>3

\* What a recursion starts in and each step stays in, it stays in.
LEMMA RecursionStays ==
    ASSUME NEW n, n \in Nat, NEW X, NEW h, h[0] \in X, \A k \in 1..n : h[k - 1] \in X => h[k] \in X
    PROVE  \A k \in 0..n : h[k] \in X
<1> DEFINE P == {k \in 0..n : h[k] \in X}
<1>1. \A k \in 1..n : k - 1 \in P => k \in P
  OBVIOUS
<1>2. 0 \in P
  OBVIOUS
<1> HIDE DEF P
<1>3. \A k \in 0..n : k \in P
  BY <1>1, <1>2, UpTo
<1> QED  BY <1>3 DEF P

\* The k-th step leads from X to X.
Leads(st, n, X) == \A k \in 1..n : \A x \in X : st[<<x, k>>] \in X

Walks(g, base, st, n, X) ==
    /\ g = [k \in 0..n |-> IF k = 0 THEN base ELSE st[<<g[k - 1], k>>]]
    /\ \A k \in 0..n : g[k] \in X

\* Steps that stay in a set define a function.
LEMMA RecursionExists ==
    ASSUME NEW n, n \in Nat, NEW X, NEW base, base \in X, NEW st, Leads(st, n, X)
    PROVE  \E g : Walks(g, base, st, n, X)
<1> USE DEF Leads, Walks
<1> DEFINE Good(m, g) == /\ g = [k \in 0..m |-> IF k = 0 THEN base ELSE st[<<g[k - 1], k>>]]
                         /\ \A k \in 0..m : g[k] \in X
<1> DEFINE P == {m \in 0..n : \E g : Good(m, g)}
<1>1. 0 \in P
  <2> DEFINE g == [k \in 0..0 |-> base]
  <2>1. g = [k \in 0..0 |-> IF k = 0 THEN base ELSE st[<<g[k - 1], k>>]]
    OBVIOUS
  <2>2. \A k \in 0..0 : g[k] \in X
    OBVIOUS
  <2>3. Good(0, g)
    BY <2>1, <2>2
  <2> HIDE DEF Good, g
  <2> QED  BY <2>3
<1>2. ASSUME NEW m \in 1..n, m - 1 \in P
      PROVE  m \in P
  <2>1. PICK g : Good(m - 1, g)
    BY <1>2
  <2> DEFINE v == st[<<g[m - 1], m>>]
  <2> DEFINE h == [k \in 0..m |-> IF k = m THEN v ELSE g[k]]
  <2>2. g[m - 1] \in X
    BY <2>1
  <2>3. v \in X
    BY <2>2
  <2>4. ASSUME NEW k \in 0..m
        PROVE  h[k] = (IF k = 0 THEN base ELSE st[<<h[k - 1], k>>]) /\ h[k] \in X
    <3>1. CASE k = m
      <4>1. h[m] = v /\ h[m - 1] = g[m - 1]
        OBVIOUS
      <4> HIDE DEF h
      <4> QED  BY <2>3, <3>1, <4>1
    <3>2. CASE k # m
      <4>1. k \in 0..(m - 1)
        BY <3>2
      <4>2. g[k] = IF k = 0 THEN base ELSE st[<<g[k - 1], k>>]
        BY <2>1, <4>1
      <4>3. g[k] \in X
        BY <2>1, <4>1
      <4>4. h[k] = g[k]
        BY <3>2
      <4>5. k # 0 => h[k - 1] = g[k - 1]
        BY <3>2
      <4> HIDE DEF h
      <4> QED  BY <4>2, <4>3, <4>4, <4>5
    <3> QED  BY <3>1, <3>2
  <2>5. h = [k \in 0..m |-> IF k = 0 THEN base ELSE st[<<h[k - 1], k>>]]
    BY <2>4
  <2>6. Good(m, h)
    BY <2>4, <2>5
  <2> HIDE DEF Good, h
  <2> QED  BY <2>6
<1> HIDE DEF P
<1>3. n \in P
  BY <1>1, <1>2, UpTo
<1> QED  BY <1>3 DEF P

\* Sectors whose offsets are in a set, and tracks of them.
SectorsOn(H, B) == [id : H, off : B, data : Seq(Copies)]

TracksOn(H, B) == {t \in Seq(SectorsOn(H, B)) : Ordered(t)}

(***************************************************************************)
(* Data                                                                    *)
(***************************************************************************)

\* Data are sequences of copies, however they are merged.
LEMMA AddCopyType ==
    ASSUME NEW data \in Seq(Copies), NEW c \in Copies
    PROVE  AddCopy(data, c) \in Seq(Copies)
<1>1. data \in Seq(Copies) /\ <<c>> \in Seq(Copies) /\ Append(data, c) \in Seq(Copies)
  OBVIOUS
<1>2. CASE IsGood(data) \/ c \in Range(data)
  BY <1>1, <1>2 DEF AddCopy
<1>3. CASE ~(IsGood(data) \/ c \in Range(data)) /\ c \in Goods
  BY <1>1, <1>3 DEF AddCopy
<1>4. CASE ~(IsGood(data) \/ c \in Range(data)) /\ c \notin Goods
  BY <1>1, <1>4 DEF AddCopy
<1> QED  BY <1>2, <1>3, <1>4

LEMMA AddRawType ==
    ASSUME NEW data \in Seq(Copies), NEW c \in Copies
    PROVE  AddRaw(data, c) \in Seq(Copies)
BY DEF AddRaw

LEMMA MergeDataType ==
    ASSUME NEW data \in Seq(Copies), NEW more \in Seq(Copies)
    PROVE  MergeData(data, more) \in Seq(Copies)
<1> DEFINE n == Len(more)
           X == Seq(Copies)
           st == [p \in X \X (1..n) |-> AddCopy(p[1], more[p[2]])]
           h == CHOOSE f : f = [k \in 0..n |-> IF k = 0 THEN data ELSE AddCopy(f[k - 1], more[k])]
<1>0. n \in Nat
  OBVIOUS
<1>1. \A k \in 1..n : \A x \in X : st[<<x, k>>] = AddCopy(x, more[k])
  OBVIOUS
<1>2. \A k \in 1..n : \A x \in X : st[<<x, k>>] \in X
  <2>1. \A k \in 1..n : more[k] \in Copies
    OBVIOUS
  <2> HIDE DEF st, n
  <2> QED  BY <1>1, <2>1, AddCopyType, Zenon
<1>3. data \in X
  OBVIOUS
<1>4. MergeData(data, more) = h[n]
  BY DEF MergeData
<1> HIDE DEF st, X, n
<1>5. PICK g : Walks(g, data, st, n, X)
  <2>1. Leads(st, n, X)
    BY <1>2, Zenon DEF Leads
  <2> QED  BY <1>0, <1>3, <2>1, RecursionExists
<1>6. g = [k \in 0..n |-> IF k = 0 THEN data ELSE AddCopy(g[k - 1], more[k])]
  <2>1. \A k \in 0..n : k # 0 => st[<<g[k - 1], k>>] = AddCopy(g[k - 1], more[k])
    BY <1>0, <1>1, <1>5 DEF Walks
  <2> QED  BY <1>5, <2>1, Zenon DEF Walks
<1>7. h = [k \in 0..n |-> IF k = 0 THEN data ELSE AddCopy(h[k - 1], more[k])]
  BY <1>6, Zenon
<1> HIDE DEF h
<1>8. \A k \in 1..n : h[k - 1] \in X => h[k] \in X
  <2> SUFFICES ASSUME NEW k \in 1..n, h[k - 1] \in X
               PROVE  h[k] \in X
    OBVIOUS
  <2>1. h[k] = AddCopy(h[k - 1], more[k])
    BY <1>0, <1>7
  <2>2. AddCopy(h[k - 1], more[k]) \in X
    BY <1>1, <1>2, Zenon
  <2> QED  BY <2>1, <2>2
<1>9. h[0] \in X
  BY <1>0, <1>3, <1>7
<1>10. \A k \in 0..n : h[k] \in X
  BY <1>0, <1>8, <1>9, RecursionStays
<1>11. h[n] \in X
  BY <1>0, <1>10
<1> QED  BY <1>4, <1>11 DEF X

LEMMA MergeRawType ==
    ASSUME NEW data \in Seq(Copies), NEW more \in Seq(Copies)
    PROVE  MergeRaw(data, more) \in Seq(Copies)
<1> DEFINE n == Len(more)
           X == Seq(Copies)
           st == [p \in X \X (1..n) |-> AddRaw(p[1], more[p[2]])]
           h == CHOOSE f : f = [k \in 0..n |-> IF k = 0 THEN data ELSE AddRaw(f[k - 1], more[k])]
<1>0. n \in Nat
  OBVIOUS
<1>1. \A k \in 1..n : \A x \in X : st[<<x, k>>] = AddRaw(x, more[k])
  OBVIOUS
<1>2. \A k \in 1..n : \A x \in X : st[<<x, k>>] \in X
  <2>1. \A k \in 1..n : more[k] \in Copies
    OBVIOUS
  <2> HIDE DEF st, n
  <2> QED  BY <1>1, <2>1, AddRawType, Zenon
<1>3. data \in X
  OBVIOUS
<1>4. MergeRaw(data, more) = h[n]
  BY DEF MergeRaw
<1> HIDE DEF st, X, n
<1>5. PICK g : Walks(g, data, st, n, X)
  <2>1. Leads(st, n, X)
    BY <1>2, Zenon DEF Leads
  <2> QED  BY <1>0, <1>3, <2>1, RecursionExists
<1>6. g = [k \in 0..n |-> IF k = 0 THEN data ELSE AddRaw(g[k - 1], more[k])]
  <2>1. \A k \in 0..n : k # 0 => st[<<g[k - 1], k>>] = AddRaw(g[k - 1], more[k])
    BY <1>0, <1>1, <1>5 DEF Walks
  <2> QED  BY <1>5, <2>1, Zenon DEF Walks
<1>7. h = [k \in 0..n |-> IF k = 0 THEN data ELSE AddRaw(h[k - 1], more[k])]
  BY <1>6, Zenon
<1> HIDE DEF h
<1>8. \A k \in 1..n : h[k - 1] \in X => h[k] \in X
  <2> SUFFICES ASSUME NEW k \in 1..n, h[k - 1] \in X
               PROVE  h[k] \in X
    OBVIOUS
  <2>1. h[k] = AddRaw(h[k - 1], more[k])
    BY <1>0, <1>7
  <2>2. AddRaw(h[k - 1], more[k]) \in X
    BY <1>1, <1>2, Zenon
  <2> QED  BY <2>1, <2>2
<1>9. h[0] \in X
  BY <1>0, <1>3, <1>7
<1>10. \A k \in 0..n : h[k] \in X
  BY <1>0, <1>8, <1>9, RecursionStays
<1>11. h[n] \in X
  BY <1>0, <1>10
<1> QED  BY <1>4, <1>11 DEF X

(***************************************************************************)
(* Single changes                                                          *)
(***************************************************************************)

\* Other data leaves the places alone.
LEMMA WithDataType ==
    ASSUME NEW H, NEW B, NEW t \in Seq(SectorsOn(H, B)), NEW i \in DOMAIN t,
           NEW data \in Seq(Copies)
    PROVE  /\ WithData(t, i, data) \in Seq(SectorsOn(H, B))
           /\ Len(WithData(t, i, data)) = Len(t)
           /\ \A j \in DOMAIN t : WithData(t, i, data)[j].off = t[j].off
           /\ \A j \in DOMAIN t : WithData(t, i, data)[j].id = t[j].id
<1> DEFINE r == [t[i] EXCEPT !.data = data]
           w == [t EXCEPT ![i] = r]
<1>1. t[i] \in SectorsOn(H, B)
  OBVIOUS
<1>2. r \in SectorsOn(H, B) /\ r.off = t[i].off /\ r.id = t[i].id
  BY <1>1 DEF SectorsOn
<1>3. WithData(t, i, data) = w
  BY DEF WithData
<1> HIDE DEF r
<1>4. w \in Seq(SectorsOn(H, B)) /\ Len(w) = Len(t)
  BY <1>2
<1>5. \A j \in DOMAIN t : w[j] = IF j = i THEN r ELSE t[j]
  OBVIOUS
<1> HIDE DEF w
<1> QED  BY <1>2, <1>3, <1>4, <1>5

\* Giving data to a sector moves none.
LEMMA WithDataOrder ==
    ASSUME NEW H, NEW B, NEW t \in TracksOn(H, B), NEW i \in DOMAIN t, NEW data \in Seq(Copies)
    PROVE  WithData(t, i, data) \in TracksOn(H, B)
<1>1. t \in Seq(SectorsOn(H, B)) /\ Ordered(t)
  BY DEF TracksOn
<1> DEFINE w == WithData(t, i, data)
<1>2. w \in Seq(SectorsOn(H, B)) /\ Len(w) = Len(t) /\ \A j \in DOMAIN t : w[j].off = t[j].off
  BY <1>1, WithDataType
<1> HIDE DEF w
<1>3. DOMAIN w = DOMAIN t
  BY <1>1, <1>2
<1>4. Ordered(w)
  BY <1>1, <1>2, <1>3 DEF Ordered
<1> QED  BY <1>2, <1>4 DEF TracksOn, w

\* What the insertion and the removal of an element give, place by place.
LEMMA InsertAtForm ==
    ASSUME NEW S, NEW t \in Seq(S), NEW i \in 1..Len(t) + 1, NEW e \in S
    PROVE  /\ InsertAt(t, i, e) \in Seq(S)
           /\ Len(InsertAt(t, i, e)) = Len(t) + 1
           /\ \A j \in 1..Len(t) + 1 :
                InsertAt(t, i, e)[j] = IF j < i THEN t[j] ELSE IF j = i THEN e ELSE t[j - 1]
<1> DEFINE n == Len(t)
           p == SubSeq(t, 1, i - 1)
           q == SubSeq(t, i, n)
           u == p \o <<e>>
<1>0. n \in Nat /\ i \in Int /\ 1 <= i /\ i <= n + 1
  OBVIOUS
<1>1. p \in Seq(S) /\ Len(p) = i - 1 /\ \A j \in 1..i - 1 : p[j] = t[j]
  OBVIOUS
<1>2. q \in Seq(S) /\ Len(q) = n - i + 1 /\ \A j \in 1..n - i + 1 : q[j] = t[i + j - 1]
  OBVIOUS
<1>3. InsertAt(t, i, e) = u \o q
  BY DEF InsertAt
<1> HIDE DEF n, p, q
<1>4. u \in Seq(S) /\ Len(u) = i /\ \A j \in 1..i : u[j] = IF j < i THEN t[j] ELSE e
  BY <1>0, <1>1
<1> HIDE DEF u
<1>5. u \o q \in Seq(S) /\ Len(u \o q) = n + 1
  <2>1. u \o q \in Seq(S) /\ Len(u \o q) = Len(u) + Len(q)
    BY <1>2, <1>4, ConcatProperties, Zenon
  <2> QED  BY <1>0, <1>2, <1>4, <2>1
<1>6. ASSUME NEW j \in 1..n + 1
      PROVE  (u \o q)[j] = IF j < i THEN t[j] ELSE IF j = i THEN e ELSE t[j - 1]
  <2>1. CASE j <= i
    BY <1>0, <1>2, <1>4, <2>1
  <2>2. CASE j > i
    <3>1. j - i \in 1..n - i + 1 /\ i + (j - i) - 1 = j - 1
      BY <1>0, <2>2
    <3>2. q[j - i] = t[j - 1]
      BY <1>2, <3>1
    <3>3. (u \o q)[j] = q[j - i]
      BY <1>0, <1>2, <1>4, <2>2
    <3> QED  BY <1>0, <2>2, <3>2, <3>3
  <2>3. j <= i \/ j > i
    BY <1>0
  <2>4. j < i \/ j >= i
    BY <1>0
  <2> QED  BY <2>1, <2>2, <2>3, <2>4
<1> QED  BY <1>3, <1>5, <1>6 DEF n

LEMMA RemoveAtForm ==
    ASSUME NEW S, NEW t \in Seq(S), NEW i \in 1..Len(t)
    PROVE  /\ RemoveAt(t, i) \in Seq(S)
           /\ Len(RemoveAt(t, i)) = Len(t) - 1
           /\ \A j \in 1..Len(t) - 1 : RemoveAt(t, i)[j] = IF j < i THEN t[j] ELSE t[j + 1]
<1> DEFINE n == Len(t)
           p == SubSeq(t, 1, i - 1)
           q == SubSeq(t, i + 1, n)
<1>0. n \in Nat /\ i \in Int /\ 1 <= i /\ i <= n
  OBVIOUS
<1>1. p \in Seq(S) /\ Len(p) = i - 1 /\ \A j \in 1..i - 1 : p[j] = t[j]
  OBVIOUS
<1>2. q \in Seq(S) /\ Len(q) = n - i /\ \A j \in 1..n - i : q[j] = t[i + j]
  OBVIOUS
<1>3. RemoveAt(t, i) = p \o q
  BY DEF RemoveAt
<1> HIDE DEF n, p, q
<1>4. p \o q \in Seq(S) /\ Len(p \o q) = n - 1
  <2>1. p \o q \in Seq(S) /\ Len(p \o q) = Len(p) + Len(q)
    BY <1>1, <1>2, ConcatProperties, Zenon
  <2> QED  BY <1>0, <1>1, <1>2, <2>1
<1>5. ASSUME NEW j \in 1..n - 1
      PROVE  (p \o q)[j] = IF j < i THEN t[j] ELSE t[j + 1]
  <2>1. CASE j < i
    BY <1>0, <1>1, <1>2, <2>1
  <2>2. CASE j >= i
    <3>1. j - (i - 1) \in 1..n - i /\ i + (j - (i - 1)) = j + 1
      BY <1>0, <2>2
    <3>2. q[j - (i - 1)] = t[j + 1]
      BY <1>2, <3>1
    <3>3. (p \o q)[j] = q[j - (i - 1)]
      BY <1>0, <1>1, <1>2, <2>2
    <3> QED  BY <1>0, <2>2, <3>2, <3>3
  <2>3. j <= i \/ j > i
    BY <1>0
  <2>4. j < i \/ j >= i
    BY <1>0
  <2> QED  BY <2>1, <2>2, <2>3, <2>4
<1> QED  BY <1>3, <1>4, <1>5 DEF n

\* The first index that passes a test.
LEMMA FirstIndexOf ==
    ASSUME NEW n \in Nat, NEW I \in SUBSET (1..n)
    PROVE  LET i == IF I # {} THEN Min(I) ELSE 0
           IN  /\ i \in 0..n
               /\ i # 0 => i \in I
               /\ i = 0 => I = {}
               /\ \A j \in I : i <= j
<1>1. CASE I = {}
  BY <1>1
<1>2. CASE I # {}
  <2>1. I \subseteq Nat
    OBVIOUS
  <2>2. Min(I) \in I /\ \A y \in I : Min(I) <= y
    BY <1>2, <2>1, LeastElement
  <2> DEFINE m == Min(I)
  <2>3. m \in I /\ m \in 1..n /\ \A y \in I : m <= y
    BY <2>2
  <2> HIDE DEF m
  <2>4. (IF I # {} THEN m ELSE 0) = m
    BY <1>2
  <2> QED  BY <1>2, <2>3, <2>4 DEF m
<1> QED  BY <1>1, <1>2

\* The fields of the sectors of a track.
LEMMA SectorFields ==
    ASSUME NEW H, NEW B, B \subseteq Int, NEW t \in Seq(SectorsOn(H, B))
    PROVE  /\ Len(t) \in Nat /\ DOMAIN t = 1..Len(t)
           /\ \A i \in 1..Len(t) : /\ t[i] \in SectorsOn(H, B)
                                   /\ t[i].off \in Int /\ t[i].off \in B
                                   /\ t[i].data \in Seq(Copies)
<1>1. \A s \in SectorsOn(H, B) : s.off \in B /\ s.data \in Seq(Copies)
  BY DEF SectorsOn
<1>2. Len(t) \in Nat /\ DOMAIN t = 1..Len(t) /\ \A i \in 1..Len(t) : t[i] \in SectorsOn(H, B)
  OBVIOUS
<1> QED  BY <1>1, <1>2

LEMMA OneSector ==
    ASSUME NEW H, NEW B, B \subseteq Int, NEW s \in SectorsOn(H, B)
    PROVE  s.off \in Int /\ s.off \in B /\ s.data \in Seq(Copies) /\ s.id \in H
BY DEF SectorsOn

\* The first sector that passes a test.
LEMMA InsertionPointType ==
    ASSUME NEW H, NEW B, B \subseteq Int, NEW t \in Seq(SectorsOn(H, B)), NEW s \in SectorsOn(H, B)
    PROVE  /\ InsertionPoint(t, s) \in 1..Len(t) + 1
           /\ \A j \in 1..Len(t) : j < InsertionPoint(t, s) => t[j].off <= s.off
           /\ InsertionPoint(t, s) <= Len(t) => s.off < t[InsertionPoint(t, s)].off
<1> DEFINE n == Len(t)
           I == {i \in 1..n : s.off < t[i].off}
           f == IF I # {} THEN Min(I) ELSE 0
           p == IF f = 0 THEN n + 1 ELSE f
<1>1. n \in Nat /\ \A i \in 1..n : t[i].off \in Int
  BY SectorFields
<1>2. s.off \in Int
  BY OneSector
<1>3. InsertionPoint(t, s) = p
  BY DEF InsertionPoint, FirstIndex, SelectInSeq
<1>4. I \in SUBSET (1..n)
  OBVIOUS
<1>5. f \in 0..n /\ (f # 0 => f \in I) /\ (f = 0 => I = {}) /\ \A j \in I : f <= j
  <2> HIDE DEF n, I
  <2> QED  BY <1>1, <1>4, FirstIndexOf
<1> HIDE DEF f
<1>6. \A j \in 1..n : j < p => j \notin I
  BY <1>1, <1>5
<1>7. p \in 1..n + 1 /\ (p <= n => p \in I)
  BY <1>1, <1>5
<1> HIDE DEF p
<1>8. \A j \in 1..n : j < p => t[j].off <= s.off
  <2> SUFFICES ASSUME NEW j \in 1..n, j < p PROVE t[j].off <= s.off
    OBVIOUS
  <2>1. ~(s.off < t[j].off)
    BY <1>6
  <2> QED  BY <1>1, <1>2, <2>1
<1> QED  BY <1>3, <1>7, <1>8

\* The order of a track, by numbers.
LEMMA OrderAround ==
    ASSUME NEW H, NEW B, B \subseteq Int, NEW t \in TracksOn(H, B)
    PROVE  /\ t \in Seq(SectorsOn(H, B)) /\ Len(t) \in Nat
           /\ \A i \in 1..Len(t) : t[i].off \in Int
           /\ \A i, j \in 1..Len(t) : i <= j => t[i].off <= t[j].off
<1>1. t \in Seq(SectorsOn(H, B)) /\ Ordered(t)
  BY DEF TracksOn
<1>2. /\ Len(t) \in Nat /\ DOMAIN t = 1..Len(t)
      /\ \A i \in 1..Len(t) : t[i].off \in Int
  BY <1>1, SectorFields
<1>3. ASSUME NEW i \in 1..Len(t), NEW j \in 1..Len(t), i <= j
      PROVE  t[i].off <= t[j].off
  <2>1. CASE i = j
    BY <1>2, <2>1
  <2>2. CASE i < j
    BY <1>1, <1>2, <2>2 DEF Ordered
  <2>3. i = j \/ i < j
    BY <1>3
  <2> QED  BY <2>1, <2>2, <2>3
<1> QED  BY <1>1, <1>2, <1>3

\* A sector between those before it and those behind it.
LEMMA InsertOrder ==
    ASSUME NEW H, NEW B, B \subseteq Int, NEW t \in TracksOn(H, B), NEW s \in SectorsOn(H, B),
           NEW p \in 1..Len(t) + 1,
           \A j \in 1..Len(t) : j < p => t[j].off <= s.off,
           \A j \in 1..Len(t) : p <= j => s.off <= t[j].off
    PROVE  InsertAt(t, p, s) \in TracksOn(H, B)
<1> DEFINE w == InsertAt(t, p, s)
           n == Len(t)
<1>1. /\ t \in Seq(SectorsOn(H, B)) /\ n \in Nat
      /\ \A i \in 1..n : t[i].off \in Int
      /\ \A i, j \in 1..n : i <= j => t[i].off <= t[j].off
  BY OrderAround
<1>2. /\ w \in Seq(SectorsOn(H, B)) /\ Len(w) = n + 1
      /\ \A j \in 1..n + 1 : w[j] = IF j < p THEN t[j] ELSE IF j = p THEN s ELSE t[j - 1]
  BY <1>1, InsertAtForm
<1>3. s.off \in Int
  BY OneSector
<1>4. DOMAIN w = 1..n + 1
  BY <1>2
<1> HIDE DEF w
<1>5. ASSUME NEW i \in 1..n + 1, NEW j \in 1..n + 1, i < j
      PROVE  w[i].off <= w[j].off
  <2>1. CASE j < p
    <3>1. i < p /\ i \in 1..n /\ j \in 1..n
      BY <1>1, <1>5, <2>1
    <3>2. w[i] = t[i] /\ w[j] = t[j]
      BY <1>2, <2>1, <3>1
    <3> QED  BY <1>1, <1>5, <3>1, <3>2
  <2>2. CASE j = p
    <3>1. i < p /\ i \in 1..n
      BY <1>1, <1>5, <2>2
    <3>2. w[i] = t[i] /\ w[j] = s
      BY <1>2, <2>2, <3>1
    <3> QED  BY <3>1, <3>2
  <2>3. CASE j > p
    <3>1. j - 1 \in 1..n /\ p <= j - 1 /\ w[j] = t[j - 1]
      BY <1>1, <1>2, <1>5, <2>3
    <3>2. s.off <= t[j - 1].off
      BY <3>1
    <3>3. CASE i < p
      <4>1. i \in 1..n /\ w[i] = t[i]
        BY <1>1, <1>2, <1>5, <3>3
      <4> QED  BY <1>1, <1>5, <3>1, <4>1
    <3>4. CASE i = p
      <4>1. w[i] = s
        BY <1>2, <3>4
      <4> QED  BY <3>1, <3>2, <4>1
    <3>5. CASE i > p
      <4>1. i - 1 \in 1..n /\ w[i] = t[i - 1] /\ i - 1 <= j - 1
        BY <1>1, <1>2, <1>5, <3>5
      <4> QED  BY <1>1, <3>1, <4>1
    <3> QED  BY <3>3, <3>4, <3>5
  <2> QED  BY <2>1, <2>2, <2>3
<1>6. Ordered(w)
  BY <1>4, <1>5 DEF Ordered
<1> QED  BY <1>2, <1>6 DEF TracksOn, w

\* A sector can be removed, ...
LEMMA RemoveOrder ==
    ASSUME NEW H, NEW B, B \subseteq Int, NEW t \in TracksOn(H, B), NEW i \in 1..Len(t)
    PROVE  RemoveAt(t, i) \in TracksOn(H, B)
<1> DEFINE w == RemoveAt(t, i)
           n == Len(t)
<1>1. /\ t \in Seq(SectorsOn(H, B)) /\ n \in Nat
      /\ \A k, j \in 1..n : k <= j => t[k].off <= t[j].off
  BY OrderAround
<1>2. /\ w \in Seq(SectorsOn(H, B)) /\ Len(w) = n - 1
      /\ \A j \in 1..n - 1 : w[j] = IF j < i THEN t[j] ELSE t[j + 1]
  BY <1>1, RemoveAtForm
<1>3. DOMAIN w = 1..n - 1
  BY <1>2
<1> HIDE DEF w
<1>4. ASSUME NEW k \in 1..n - 1, NEW j \in 1..n - 1, k < j
      PROVE  w[k].off <= w[j].off
  <2> DEFINE a == IF k < i THEN k ELSE k + 1
             b == IF j < i THEN j ELSE j + 1
  <2>1. a \in 1..n /\ b \in 1..n /\ a <= b
    BY <1>1, <1>4
  <2>2. w[k] = t[a] /\ w[j] = t[b]
    BY <1>2
  <2> HIDE DEF a, b
  <2> QED  BY <1>1, <2>1, <2>2
<1>5. Ordered(w)
  BY <1>3, <1>4 DEF Ordered
<1> QED  BY <1>2, <1>5 DEF TracksOn, w

(***************************************************************************)
(* Adding                                                                  *)
(***************************************************************************)

\* ... merged with one that is at the same place, ...
LEMMA MergeAtType ==
    ASSUME NEW H, NEW B, NEW t \in Seq(SectorsOn(H, B)), NEW i \in DOMAIN t,
           NEW s \in SectorsOn(H, B)
    PROVE  \E d \in Seq(Copies) : MergeAt(t, i, s) = WithData(t, i, d)
<1> DEFINE d == IF s.id = Orphan THEN MergeRaw(t[i].data, s.data) ELSE MergeData(t[i].data, s.data)
           w == WithData(t, i, d)
<1>1. t[i].data \in Seq(Copies) /\ s.data \in Seq(Copies)
  <2>1. t[i] \in SectorsOn(H, B)
    OBVIOUS
  <2> QED  BY <2>1 DEF SectorsOn
<1>2. d \in Seq(Copies)
  BY <1>1, MergeRawType, MergeDataType
<1>3. MergeAt(t, i, s) = IF w # t /\ t[i].id # Orphan /\ DataOverlap(w, i) /\ d # << >>
                         THEN WithData(t, i, <<d[1]>>) ELSE w
  BY DEF MergeAt
<1> HIDE DEF d
<1>4. d # << >> => <<d[1]>> \in Seq(Copies)
  BY <1>2
<1>5. CASE w # t /\ t[i].id # Orphan /\ DataOverlap(w, i) /\ d # << >>
  <2>1. MergeAt(t, i, s) = WithData(t, i, <<d[1]>>)
    BY <1>3, <1>5
  <2> QED  BY <1>4, <1>5, <2>1
<1>6. CASE ~(w # t /\ t[i].id # Orphan /\ DataOverlap(w, i) /\ d # << >>)
  BY <1>2, <1>3, <1>6
<1> QED  BY <1>5, <1>6

\* ... and added (Track::add).
LEMMA AddOnRingType ==
    ASSUME NEW H, NEW B, B \subseteq Int, NEW t \in Seq(SectorsOn(H, B)),
           NEW s \in SectorsOn(H, B), NEW len
    PROVE  /\ AddOnRing(t, s, len) \in Seq(SectorsOn(H, B))
           /\ s.off # 0 /\ Ordered(t) => AddOnRing(t, s, len) \in TracksOn(H, B)
<1> DEFINE n == Len(t)
           I == {i \in 1..n : Same(s, t[i], len)}
           i == IF I # {} THEN Min(I) ELSE 0
           p == InsertionPoint(t, s)
<1>1. n \in Nat /\ DOMAIN t = 1..n /\ \A k \in 1..n : t[k].off \in Int
  BY SectorFields
<1>2. FirstIndex(t, LAMBDA r : Same(s, r, len)) = i
  BY DEF FirstIndex, SelectInSeq
<1>3. i \in 0..n
  <2>1. I \in SUBSET (1..n)
    OBVIOUS
  <2> HIDE DEF n, I
  <2> QED  BY <1>1, <2>1, FirstIndexOf
<1>4. AddOnRing(t, s, len) = CASE s.off = 0 -> Append(t, s)
                               [] s.off # 0 /\ i # 0 -> MergeAt(t, i, s)
                               [] OTHER -> InsertAt(t, p, s)
  BY <1>2 DEF AddOnRing
<1>5. p \in 1..n + 1
  BY InsertionPointType
<1> HIDE DEF i, p
<1>6. CASE s.off = 0
  BY <1>4, <1>6
<1>7. CASE s.off # 0 /\ i # 0
  <2>1. i \in DOMAIN t
    BY <1>1, <1>3, <1>7
  <2>2. PICK d \in Seq(Copies) : MergeAt(t, i, s) = WithData(t, i, d)
    BY <2>1, MergeAtType
  <2>3. AddOnRing(t, s, len) = WithData(t, i, d)
    BY <1>4, <1>7, <2>2
  <2>4. WithData(t, i, d) \in Seq(SectorsOn(H, B))
    BY <2>1, WithDataType
  <2>5. Ordered(t) => WithData(t, i, d) \in TracksOn(H, B)
    BY <2>1, WithDataOrder DEF TracksOn
  <2> QED  BY <2>3, <2>4, <2>5
<1>8. CASE s.off # 0 /\ i = 0
  <2>1. AddOnRing(t, s, len) = InsertAt(t, p, s)
    BY <1>4, <1>8
  <2>2. InsertAt(t, p, s) \in Seq(SectorsOn(H, B))
    BY <1>5, InsertAtForm
  <2>3. ASSUME Ordered(t) PROVE InsertAt(t, p, s) \in TracksOn(H, B)
    <3>1. t \in TracksOn(H, B)
      BY <2>3 DEF TracksOn
    <3>2. /\ \A j \in 1..n : j < p => t[j].off <= s.off
          /\ p <= n => s.off < t[p].off
      BY InsertionPointType DEF p
    <3>3. \A a, b \in 1..n : a <= b => t[a].off <= t[b].off
      BY <3>1, OrderAround
    <3>4. ASSUME NEW j \in 1..n, p <= j PROVE s.off <= t[j].off
      <4>1. p \in 1..n /\ p <= n
        BY <1>1, <1>5, <3>4
      <4>2. s.off < t[p].off /\ t[p].off <= t[j].off
        BY <3>2, <3>3, <3>4, <4>1
      <4>3. s.off \in Int /\ t[p].off \in Int /\ t[j].off \in Int
        BY <1>1, <4>1, OneSector
      <4> QED  BY <4>2, <4>3
    <3> QED  BY <1>5, <3>1, <3>2, <3>4, InsertOrder
  <2> QED  BY <2>1, <2>2, <2>3
<1> QED  BY <1>6, <1>7, <1>8

\* Adding sectors one after the other leaves a list of sectors.
LEMMA AddAllType ==
    ASSUME NEW H, NEW B, B \subseteq Int, NEW t \in Seq(SectorsOn(H, B)),
           NEW ss \in Seq(SectorsOn(H, B)), NEW len
    PROVE  AddAllOnRing(t, ss, len) \in Seq(SectorsOn(H, B))
<1> DEFINE n == Len(ss)
           X == Seq(SectorsOn(H, B))
           st == [p \in X \X (1..n) |-> AddOnRing(p[1], ss[p[2]], len)]
           h == CHOOSE f : f = [k \in 0..n |-> IF k = 0 THEN t ELSE AddOnRing(f[k - 1], ss[k], len)]
<1>0. n \in Nat
  OBVIOUS
<1>1. \A k \in 1..n : \A x \in X : st[<<x, k>>] = AddOnRing(x, ss[k], len)
  OBVIOUS
<1>2. \A k \in 1..n : \A x \in X : st[<<x, k>>] \in X
  <2>1. \A k \in 1..n : ss[k] \in SectorsOn(H, B)
    OBVIOUS
  <2> HIDE DEF st, n, X
  <2>2. \A k \in 1..n : \A x \in X : AddOnRing(x, ss[k], len) \in X
    BY <2>1, AddOnRingType DEF X
  <2> QED  BY <1>1, <2>2, Zenon
<1>3. t \in X
  OBVIOUS
<1>4. AddAllOnRing(t, ss, len) = h[n]
  BY DEF AddAllOnRing
<1> HIDE DEF st, X, n
<1>5. PICK g : Walks(g, t, st, n, X)
  <2>1. Leads(st, n, X)
    BY <1>2, Zenon DEF Leads
  <2> QED  BY <1>0, <1>3, <2>1, RecursionExists
<1>6. g = [k \in 0..n |-> IF k = 0 THEN t ELSE AddOnRing(g[k - 1], ss[k], len)]
  <2>1. \A k \in 0..n : k # 0 => st[<<g[k - 1], k>>] = AddOnRing(g[k - 1], ss[k], len)
    BY <1>0, <1>1, <1>5 DEF Walks
  <2> QED  BY <1>5, <2>1, Zenon DEF Walks
<1>7. h = [k \in 0..n |-> IF k = 0 THEN t ELSE AddOnRing(h[k - 1], ss[k], len)]
  BY <1>6, Zenon
<1> HIDE DEF h
<1>8. \A k \in 1..n : h[k - 1] \in X => h[k] \in X
  <2> SUFFICES ASSUME NEW k \in 1..n, h[k - 1] \in X
               PROVE  h[k] \in X
    OBVIOUS
  <2>1. h[k] = AddOnRing(h[k - 1], ss[k], len)
    BY <1>0, <1>7
  <2>2. AddOnRing(h[k - 1], ss[k], len) \in X
    BY <1>1, <1>2, Zenon
  <2> QED  BY <2>1, <2>2
<1>9. h[0] \in X
  BY <1>0, <1>3, <1>7
<1>10. \A k \in 0..n : h[k] \in X
  BY <1>0, <1>8, <1>9, RecursionStays
<1>11. h[n] \in X
  BY <1>0, <1>10
<1> QED  BY <1>4, <1>11 DEF X

\* Adding sectors whose offsets are known keeps the order.
LEMMA AddAllOrder ==
    ASSUME NEW H, NEW B, B \subseteq Int, NEW t \in TracksOn(H, B),
           NEW ss \in Seq(SectorsOn(H, B)), NEW len,
           \A k \in 1..Len(ss) : ss[k].off # 0
    PROVE  AddAllOnRing(t, ss, len) \in TracksOn(H, B)
<1> DEFINE n == Len(ss)
           X == TracksOn(H, B)
           st == [p \in X \X (1..n) |-> AddOnRing(p[1], ss[p[2]], len)]
           h == CHOOSE f : f = [k \in 0..n |-> IF k = 0 THEN t ELSE AddOnRing(f[k - 1], ss[k], len)]
<1>0. n \in Nat
  OBVIOUS
<1>1. \A k \in 1..n : \A x \in X : st[<<x, k>>] = AddOnRing(x, ss[k], len)
  OBVIOUS
<1>2. \A k \in 1..n : \A x \in X : st[<<x, k>>] \in X
  <2>1. \A k \in 1..n : ss[k] \in SectorsOn(H, B) /\ ss[k].off # 0
    OBVIOUS
  <2>2. \A x \in X : x \in Seq(SectorsOn(H, B)) /\ Ordered(x)
    BY DEF TracksOn
  <2> HIDE DEF st, n, X
  <2>3. \A k \in 1..n : \A x \in X : AddOnRing(x, ss[k], len) \in TracksOn(H, B)
    BY <2>1, <2>2, AddOnRingType
  <2> QED  BY <1>1, <2>3, Zenon DEF X
<1>3. t \in X
  OBVIOUS
<1>4. AddAllOnRing(t, ss, len) = h[n]
  BY DEF AddAllOnRing
<1> HIDE DEF st, X, n
<1>5. PICK g : Walks(g, t, st, n, X)
  <2>1. Leads(st, n, X)
    BY <1>2, Zenon DEF Leads
  <2> QED  BY <1>0, <1>3, <2>1, RecursionExists
<1>6. g = [k \in 0..n |-> IF k = 0 THEN t ELSE AddOnRing(g[k - 1], ss[k], len)]
  <2>1. \A k \in 0..n : k # 0 => st[<<g[k - 1], k>>] = AddOnRing(g[k - 1], ss[k], len)
    BY <1>0, <1>1, <1>5 DEF Walks
  <2> QED  BY <1>5, <2>1, Zenon DEF Walks
<1>7. h = [k \in 0..n |-> IF k = 0 THEN t ELSE AddOnRing(h[k - 1], ss[k], len)]
  BY <1>6, Zenon
<1> HIDE DEF h
<1>8. \A k \in 1..n : h[k - 1] \in X => h[k] \in X
  <2> SUFFICES ASSUME NEW k \in 1..n, h[k - 1] \in X
               PROVE  h[k] \in X
    OBVIOUS
  <2>1. h[k] = AddOnRing(h[k - 1], ss[k], len)
    BY <1>0, <1>7
  <2>2. AddOnRing(h[k - 1], ss[k], len) \in X
    BY <1>1, <1>2, Zenon
  <2> QED  BY <2>1, <2>2
<1>9. h[0] \in X
  BY <1>0, <1>3, <1>7
<1>10. \A k \in 0..n : h[k] \in X
  BY <1>0, <1>8, <1>9, RecursionStays
<1>11. h[n] \in X
  BY <1>0, <1>10
<1> QED  BY <1>4, <1>11 DEF X

\* What is chosen comes from the chosen places.
LEMMA ChosenType ==
    ASSUME NEW T, NEW t \in Seq(T), NEW places,
           NEW S, \A k \in 1..Len(t) : k \in places => t[k] \in S
    PROVE  Chosen(t, places) \in Seq(S)
<1> DEFINE n == Len(t)
           X == Seq(S)
           St(x, k) == IF k \in places THEN Append(x, t[k]) ELSE x
           st == [p \in X \X (1..n) |-> St(p[1], p[2])]
           h == CHOOSE f : f = [k \in 0..n |-> IF k = 0 THEN << >> ELSE St(f[k - 1], k)]
<1>0. n \in Nat
  OBVIOUS
<1>1. \A k \in 1..n : \A x \in X : st[<<x, k>>] = St(x, k)
  OBVIOUS
<1>2. \A k \in 1..n : \A x \in X : st[<<x, k>>] \in X
  <2>1. \A k \in 1..n : k \in places => t[k] \in S
    OBVIOUS
  <2>2. \A x \in X, e \in S : Append(x, e) \in X
    OBVIOUS
  <2> HIDE DEF st, n, X
  <2> QED  BY <1>1, <2>1, <2>2, Zenon
<1>3. << >> \in X
  OBVIOUS
<1>4. Chosen(t, places) = h[n]
  BY DEF Chosen
<1> HIDE DEF st, X, n, St
<1>5. PICK g : Walks(g, << >>, st, n, X)
  <2>1. Leads(st, n, X)
    BY <1>2, Zenon DEF Leads
  <2> QED  BY <1>0, <1>3, <2>1, RecursionExists
<1>6. g = [k \in 0..n |-> IF k = 0 THEN << >> ELSE St(g[k - 1], k)]
  <2>1. \A k \in 0..n : k # 0 => st[<<g[k - 1], k>>] = St(g[k - 1], k)
    BY <1>0, <1>1, <1>5 DEF Walks
  <2> QED  BY <1>5, <2>1, Zenon DEF Walks
<1>7. h = [k \in 0..n |-> IF k = 0 THEN << >> ELSE St(h[k - 1], k)]
  BY <1>6, Zenon
<1> HIDE DEF h
<1>8. \A k \in 1..n : h[k - 1] \in X => h[k] \in X
  <2> SUFFICES ASSUME NEW k \in 1..n, h[k - 1] \in X
               PROVE  h[k] \in X
    OBVIOUS
  <2>1. h[k] = St(h[k - 1], k)
    BY <1>0, <1>7
  <2>2. St(h[k - 1], k) \in X
    BY <1>1, <1>2, Zenon
  <2> QED  BY <2>1, <2>2
<1>9. h[0] \in X
  BY <1>0, <1>3, <1>7
<1>10. \A k \in 0..n : h[k] \in X
  BY <1>0, <1>8, <1>9, RecursionStays
<1>11. h[n] \in X
  BY <1>0, <1>10
<1> QED  BY <1>4, <1>11 DEF X

\* The chosen sectors keep their order.
LEMMA ChosenOrder ==
    ASSUME NEW H, NEW B, B \subseteq Int, NEW t \in TracksOn(H, B), NEW places
    PROVE  Chosen(t, places) \in TracksOn(H, B)
<1> DEFINE n == Len(t)
           X == Seq(SectorsOn(H, B))
           St(x, k) == IF k \in places THEN Append(x, t[k]) ELSE x
           st == [p \in X \X (1..n) |-> St(p[1], p[2])]
           h == CHOOSE f : f = [k \in 0..n |-> IF k = 0 THEN << >> ELSE St(f[k - 1], k)]
<1>t. /\ t \in Seq(SectorsOn(H, B))
      /\ \A i, j \in 1..Len(t) : i <= j => t[i].off <= t[j].off
      /\ \A i \in 1..Len(t) : t[i].off \in Int
  BY OrderAround
<1>0. n \in Nat
  BY <1>t
<1>1. \A k \in 1..n : \A x \in X : st[<<x, k>>] = St(x, k)
  OBVIOUS
<1>2. \A k \in 1..n : \A x \in X : st[<<x, k>>] \in X
  <2>1. \A k \in 1..n : k \in places => t[k] \in SectorsOn(H, B)
    BY <1>t
  <2>2. \A x \in X, e \in SectorsOn(H, B) : Append(x, e) \in X
    OBVIOUS
  <2> HIDE DEF st, n, X
  <2> QED  BY <1>1, <2>1, <2>2, Zenon
<1>3. << >> \in X
  OBVIOUS
<1>4. Chosen(t, places) = h[n]
  BY DEF Chosen
<1> HIDE DEF st, X, n, St
<1>5. PICK g : Walks(g, << >>, st, n, X)
  <2>1. Leads(st, n, X)
    BY <1>2, Zenon DEF Leads
  <2> QED  BY <1>0, <1>3, <2>1, RecursionExists
<1>6. g = [k \in 0..n |-> IF k = 0 THEN << >> ELSE St(g[k - 1], k)]
  <2>1. \A k \in 0..n : k # 0 => st[<<g[k - 1], k>>] = St(g[k - 1], k)
    BY <1>0, <1>1, <1>5 DEF Walks
  <2> QED  BY <1>5, <2>1, Zenon DEF Walks
<1>7. h = [k \in 0..n |-> IF k = 0 THEN << >> ELSE St(h[k - 1], k)]
  BY <1>6, Zenon
<1> HIDE DEF h
<1>8. \A k \in 1..n : h[k - 1] \in X => h[k] \in X
  <2> SUFFICES ASSUME NEW k \in 1..n, h[k - 1] \in X
               PROVE  h[k] \in X
    OBVIOUS
  <2>1. h[k] = St(h[k - 1], k)
    BY <1>0, <1>7
  <2>2. St(h[k - 1], k) \in X
    BY <1>1, <1>2, Zenon
  <2> QED  BY <2>1, <2>2
<1>9. h[0] \in X
  BY <1>0, <1>3, <1>7
<1>10. \A k \in 0..n : h[k] \in X
  BY <1>0, <1>8, <1>9, RecursionStays
<1>11. h[n] \in X
  BY <1>0, <1>10
<1> DEFINE Before(k) == \A i \in DOMAIN h[k] : \A m \in k + 1..n : h[k][i].off <= t[m].off
           P == {k \in 0..n : Ordered(h[k]) /\ Before(k)}
<1>12. 0 \in P
  BY <1>0, <1>7 DEF Ordered
<1>13. ASSUME NEW k \in 1..n, k - 1 \in P
       PROVE  k \in P
  <2> DEFINE w == h[k - 1]
  <2>1. w \in Seq(SectorsOn(H, B)) /\ Ordered(w) /\ Before(k - 1) /\ k - 1 \in 0..n
    BY <1>0, <1>10, <1>13 DEF X
  <2>2. h[k] = IF k \in places THEN Append(w, t[k]) ELSE w
    <3>1. h[k] = St(h[k - 1], k)
      BY <1>0, <1>7
    <3> QED  BY <3>1 DEF St
  <2>3. \A i \in DOMAIN w : \A m \in k..n : w[i].off <= t[m].off
    BY <2>1
  <2>4. \A i, j \in 1..n : i <= j => t[i].off <= t[j].off
    BY <1>t DEF n
  <2> HIDE DEF w
  <2>5. CASE k \notin places
    <3>1. h[k] = w
      BY <2>2, <2>5
    <3>2. \A m \in k + 1..n : m \in k..n
      OBVIOUS
    <3> QED  BY <2>1, <2>3, <3>1, <3>2
  <2>6. CASE k \in places
    <3> DEFINE v == Append(w, t[k])
    <3>1. h[k] = v
      BY <2>2, <2>6
    <3>2. /\ Len(w) \in Nat /\ DOMAIN w = 1..Len(w) /\ DOMAIN v = 1..Len(w) + 1
          /\ \A i \in 1..Len(w) : v[i] = w[i]
          /\ v[Len(w) + 1] = t[k]
      BY <2>1
    <3>3. k \in k..n /\ \A m \in k + 1..n : m \in 1..n /\ k <= m
      BY <1>0
    <3> HIDE DEF v
    <3>4. ASSUME NEW i \in DOMAIN v, NEW j \in DOMAIN v, i < j
          PROVE  v[i].off <= v[j].off
      <4>1. i \in 1..Len(w)
        BY <3>2, <3>4
      <4>2. CASE j \in 1..Len(w)
        BY <2>1, <3>2, <3>4, <4>1, <4>2 DEF Ordered
      <4>3. CASE j = Len(w) + 1
        BY <2>3, <3>2, <3>3, <4>1, <4>3
      <4> QED  BY <3>2, <4>2, <4>3
    <3>5. ASSUME NEW i \in DOMAIN v, NEW m \in k + 1..n
          PROVE  v[i].off <= t[m].off
      <4>1. CASE i \in 1..Len(w)
        <5>1. m \in k..n
          OBVIOUS
        <5> QED  BY <2>3, <3>2, <4>1, <5>1
      <4>2. CASE i = Len(w) + 1
        BY <2>4, <3>2, <3>3, <4>2
      <4> QED  BY <3>2, <4>1, <4>2
    <3> QED  BY <3>1, <3>4, <3>5 DEF Ordered
  <2> QED  BY <2>5, <2>6
<1> HIDE DEF P
<1>14. \A k \in 0..n : k \in P
  BY <1>0, <1>12, <1>13, UpTo
<1>15. n \in P
  BY <1>0, <1>14
<1>16. Ordered(h[n])
  BY <1>15 DEF P
<1> QED  BY <1>4, <1>11, <1>16 DEF X, TracksOn

(***************************************************************************)
(* Moving                                                                  *)
(***************************************************************************)

\* Where a sector comes to stand, its new offset is between those around it.
NewPlace(t, i, off, p) ==
    /\ p \in 1..Len(t)
    /\ \A j \in 1..Len(t) - 1 : j < p => RemoveAt(t, i)[j].off <= off
    /\ \A j \in 1..Len(t) - 1 : p <= j => off <= RemoveAt(t, i)[j].off

\* A moved sector goes to its new place among the others: back, ...
LEMMA MovesBack ==
    ASSUME NEW H, NEW B, B \subseteq Int, NEW t \in TracksOn(H, B), NEW i \in 1..Len(t),
           NEW off \in Int,
           off < t[i].off
    PROVE  NewPlace(t, i, off, NewIndex(t, i, off))
<1> DEFINE n == Len(t)
           u == RemoveAt(t, i)
           I == {j \in 1..i - 1 : t[j].off > off}
           f == IF I # {} THEN Min(I) ELSE 0
           c == IF f = 0 THEN i ELSE f
           Behind == {j \in 1..i-1 : \A k \in j..i-1 : t[k].off > off}
<1>0. /\ t \in Seq(SectorsOn(H, B)) /\ n \in Nat /\ i \in 1..n
      /\ \A j \in 1..n : t[j].off \in Int
      /\ \A j, k \in 1..n : j <= k => t[j].off <= t[k].off
  BY OrderAround
<1>1. /\ t \in Seq(SectorsOn(H, B)) /\ n \in Nat /\ i \in 1..n /\ i - 1 \in Nat
      /\ \A j \in 1..n : t[j].off \in Int
      /\ \A j, k \in 1..n : j <= k => t[j].off <= t[k].off
  <2> HIDE DEF n
  <2> QED  BY <1>0
<1>2. \A j \in 1..n - 1 : u[j] = IF j < i THEN t[j] ELSE t[j + 1]
  BY <1>1, RemoveAtForm
<1>3. f \in 0..i - 1 /\ (f # 0 => f \in I) /\ (f = 0 => I = {}) /\ \A j \in I : f <= j
  <2>1. I \in SUBSET (1..i - 1)
    OBVIOUS
  <2> HIDE DEF I
  <2> QED  BY <1>1, <2>1, FirstIndexOf
<1> HIDE DEF f, u, n
<1>4. c \in 1..i
  BY <1>1, <1>3
<1>5. ASSUME NEW j \in 1..i - 1
      PROVE  t[j].off > off <=> c <= j
  <2>1. j \in 1..n
    BY <1>1
  <2>2. CASE j < c
    <3>1. j \notin I
      BY <1>1, <1>3, <2>2
    <3> QED  BY <1>1, <2>2, <3>1, <1>4
  <2>3. CASE c <= j
    <3>1. c = f /\ c \in I /\ c \in 1..n
      BY <1>1, <1>3, <2>3
    <3>2. t[c].off > off /\ t[c].off <= t[j].off
      BY <1>1, <2>1, <2>3, <3>1
    <3> HIDE DEF c
    <3> QED  BY <1>1, <2>1, <2>3, <3>1, <3>2
  <2>4. j < c \/ c <= j
    BY <1>1, <1>4
  <2> QED  BY <2>2, <2>3, <2>4
<1> HIDE DEF c
<1>6. Behind = c..i - 1
  <2>1. ASSUME NEW j \in Behind PROVE j \in c..i - 1
    <3>1. j \in 1..i - 1 /\ j \in j..i - 1
      BY <1>1
    <3>2. t[j].off > off
      BY <3>1
    <3> QED  BY <1>1, <1>4, <1>5, <3>1, <3>2
  <2>2. ASSUME NEW j \in c..i - 1 PROVE j \in Behind
    <3>1. j \in 1..i - 1
      BY <1>1, <1>4
    <3>2. \A k \in j..i - 1 : k \in 1..i - 1 /\ c <= k
      BY <1>1, <1>4, <3>1
    <3> QED  BY <1>5, <3>1, <3>2
  <2> QED  BY <2>1, <2>2
<1>7. NewIndex(t, i, off) = i - Cardinality(Behind)
  <2>1. t[i].off \in Int
    BY <1>1
  <2> QED  BY <2>1 DEF NewIndex
<1> HIDE DEF Behind
<1>8. Cardinality(c..i - 1) = i - c
  <2>1. c \in Int /\ i - 1 \in Int /\ (c > i - 1 => i - c = 0) /\ (i - 1) - c + 1 = i - c
    BY <1>1, <1>4
  <2>2. Cardinality(c..i - 1) = IF c > i - 1 THEN 0 ELSE (i - 1) - c + 1
    BY <2>1, FS_Interval, Zenon
  <2> QED  BY <2>1, <2>2
<1>9. NewIndex(t, i, off) = c
  BY <1>1, <1>4, <1>6, <1>7, <1>8
<1>10. \A j \in 1..n - 1 : j < c => u[j].off <= off
  <2> SUFFICES ASSUME NEW j \in 1..n - 1, j < c PROVE u[j].off <= off
    OBVIOUS
  <2>1. j \in 1..i - 1 /\ j < i /\ j \in 1..n
    BY <1>1, <1>4
  <2>2. u[j] = t[j] /\ ~(t[j].off > off)
    BY <1>1, <1>2, <1>4, <1>5, <2>1
  <2> QED  BY <1>1, <2>1, <2>2
<1>11. \A j \in 1..n - 1 : c <= j => off <= u[j].off
  <2> SUFFICES ASSUME NEW j \in 1..n - 1, c <= j PROVE off <= u[j].off
    OBVIOUS
  <2>1. CASE j < i
    <3>1. j \in 1..i - 1 /\ u[j] = t[j] /\ j \in 1..n
      BY <1>1, <1>2, <2>1
    <3>2. t[j].off > off
      BY <1>5, <3>1
    <3> QED  BY <1>1, <3>1, <3>2
  <2>2. CASE i <= j
    <3>1. j + 1 \in 1..n /\ u[j] = t[j + 1] /\ i <= j + 1
      BY <1>1, <1>2, <2>2
    <3>2. t[i].off <= t[j + 1].off /\ t[i].off \in Int /\ t[j + 1].off \in Int
      BY <1>1, <3>1
    <3> QED  BY <3>1, <3>2
  <2>3. j < i \/ i <= j
    BY <1>1
  <2> QED  BY <2>1, <2>2, <2>3
<1>12. c \in 1..n
  BY <1>1, <1>4
<1> QED  BY <1>9, <1>10, <1>11, <1>12 DEF NewPlace, u, n

\* ... on, ...
LEMMA MovesOn ==
    ASSUME NEW H, NEW B, B \subseteq Int, NEW t \in TracksOn(H, B), NEW i \in 1..Len(t),
           NEW off \in Int,
           off > t[i].off
    PROVE  NewPlace(t, i, off, NewIndex(t, i, off))
<1> DEFINE n == Len(t)
           u == RemoveAt(t, i)
           I == {j \in 1..n : i < j /\ t[j].off >= off}
           f == IF I # {} THEN Min(I) ELSE 0
           c == IF f = 0 THEN n + 1 ELSE f
           Before == {j \in i+1..Len(t) : \A k \in i+1..j : t[k].off < off}
<1>1. /\ t \in Seq(SectorsOn(H, B)) /\ n \in Nat /\ i \in 1..n
      /\ \A j \in 1..n : t[j].off \in Int
      /\ \A j, k \in 1..n : j <= k => t[j].off <= t[k].off
  BY OrderAround
<1>2. \A j \in 1..n - 1 : u[j] = IF j < i THEN t[j] ELSE t[j + 1]
  BY <1>1, RemoveAtForm
<1>3. f \in 0..n /\ (f # 0 => f \in I) /\ (f = 0 => I = {}) /\ \A j \in I : f <= j
  <2>1. I \in SUBSET (1..n)
    OBVIOUS
  <2> HIDE DEF I, n
  <2> QED  BY <1>1, <2>1, FirstIndexOf
<1>7. NewIndex(t, i, off) = i + Cardinality(Before)
  <2>1. t[i].off \in Int
    BY <1>1
  <2> QED  BY <2>1 DEF NewIndex
<1>b. Before = {j \in i+1..n : \A k \in i+1..j : t[k].off < off}
  OBVIOUS
<1> HIDE DEF f, u, n, Before
<1>4. c \in i + 1..n + 1
  BY <1>1, <1>3
<1>5. ASSUME NEW j \in i + 1..n
      PROVE  t[j].off < off <=> j < c
  <2>1. j \in 1..n /\ i < j
    BY <1>1
  <2>2. CASE j < c
    <3>1. j \notin I
      BY <1>1, <1>3, <2>2, <2>1
    <3> QED  BY <1>1, <2>1, <2>2, <3>1, <1>4
  <2>3. CASE c <= j
    <3>1. c = f /\ c \in I /\ c \in 1..n
      BY <1>1, <1>3, <2>3, <2>1
    <3>2. t[c].off >= off /\ t[c].off <= t[j].off
      BY <1>1, <2>1, <2>3, <3>1
    <3> HIDE DEF c
    <3> QED  BY <1>1, <2>1, <2>3, <3>1, <3>2
  <2>4. j < c \/ c <= j
    BY <1>1, <1>4
  <2> QED  BY <2>2, <2>3, <2>4
<1> HIDE DEF c
<1>6. Before = i + 1..c - 1
  <2>1. ASSUME NEW j \in Before PROVE j \in i + 1..c - 1
    <3>1. j \in i + 1..n /\ j \in i + 1..j
      BY <1>1, <1>b
    <3>2. t[j].off < off
      BY <3>1, <1>b
    <3> QED  BY <1>1, <1>4, <1>5, <3>1, <3>2
  <2>2. ASSUME NEW j \in i + 1..c - 1 PROVE j \in Before
    <3>1. j \in i + 1..n
      BY <1>1, <1>4
    <3>2. \A k \in i + 1..j : k \in i + 1..n /\ k < c
      BY <1>1, <1>4, <3>1
    <3> QED  BY <1>5, <3>1, <3>2, <1>b
  <2> QED  BY <2>1, <2>2
<1>8. Cardinality(i + 1..c - 1) = c - 1 - i
  <2>1. c - 1 \in Int /\ i + 1 \in Int /\ (i + 1 > c - 1 => c - 1 - i = 0)
    BY <1>1, <1>4
  <2> QED  BY <2>1, <1>1, <1>4, FS_Interval
<1>9. NewIndex(t, i, off) = c - 1
  BY <1>1, <1>4, <1>6, <1>7, <1>8
<1>10. \A j \in 1..n - 1 : j < c - 1 => u[j].off <= off
  <2> SUFFICES ASSUME NEW j \in 1..n - 1, j < c - 1 PROVE u[j].off <= off
    OBVIOUS
  <2>1. CASE j < i
    <3>1. j \in 1..n /\ j <= i
      BY <1>1, <2>1
    <3>3. u[j] = t[j]
      BY <1>2, <2>1
    <3>2. t[j].off <= t[i].off /\ t[i].off \in Int /\ t[j].off \in Int
      BY <1>1, <3>1
    <3> QED  BY <3>2, <3>3
  <2>2. CASE i <= j
    <3>1. j + 1 \in i + 1..n /\ u[j] = t[j + 1] /\ j + 1 < c /\ j + 1 \in 1..n
      BY <1>1, <1>2, <1>4, <2>2
    <3>2. t[j + 1].off < off
      BY <1>5, <3>1
    <3> QED  BY <1>1, <3>1, <3>2
  <2>3. j < i \/ i <= j
    BY <1>1
  <2> QED  BY <2>1, <2>2, <2>3
<1>11. \A j \in 1..n - 1 : c - 1 <= j => off <= u[j].off
  <2> SUFFICES ASSUME NEW j \in 1..n - 1, c - 1 <= j PROVE off <= u[j].off
    OBVIOUS
  <2>1. j + 1 \in i + 1..n /\ i <= j /\ ~(j + 1 < c) /\ j + 1 \in 1..n
    BY <1>1, <1>4
  <2>2. u[j] = t[j + 1] /\ ~(t[j + 1].off < off)
    BY <1>1, <1>2, <1>5, <2>1
  <2> QED  BY <1>1, <2>1, <2>2
<1>12. c - 1 \in 1..n
  BY <1>1, <1>4
<1> QED  BY <1>9, <1>10, <1>11, <1>12 DEF NewPlace, u, n

\* ... or nowhere.
LEMMA Stays ==
    ASSUME NEW H, NEW B, B \subseteq Int, NEW t \in TracksOn(H, B), NEW i \in 1..Len(t)
    PROVE  NewPlace(t, i, t[i].off, NewIndex(t, i, t[i].off))
<1> DEFINE n == Len(t)
           u == RemoveAt(t, i)
<1>1. /\ t \in Seq(SectorsOn(H, B)) /\ n \in Nat /\ i \in 1..n
      /\ \A j \in 1..n : t[j].off \in Int
      /\ \A j, k \in 1..n : j <= k => t[j].off <= t[k].off
  BY OrderAround
<1>2. \A j \in 1..n - 1 : u[j] = IF j < i THEN t[j] ELSE t[j + 1]
  BY <1>1, RemoveAtForm
<1>3. NewIndex(t, i, t[i].off) = i
  <2>1. ~(t[i].off < t[i].off) /\ ~(t[i].off > t[i].off)
    BY <1>1
  <2> QED  BY <2>1 DEF NewIndex
<1> HIDE DEF u, n
<1>4. ASSUME NEW j \in 1..n - 1
      PROVE  (j < i => u[j].off <= t[i].off) /\ (i <= j => t[i].off <= u[j].off)
  <2>1. j \in 1..n /\ j + 1 \in 1..n
    BY <1>1
  <2>2. CASE j < i
    BY <1>1, <1>2, <2>1, <2>2
  <2>3. CASE i <= j
    BY <1>1, <1>2, <2>1, <2>3
  <2> QED  BY <1>1, <2>2, <2>3
<1> QED  BY <1>1, <1>3, <1>4 DEF NewPlace, u, n

\* A sector that gets another offset is put where the order wants it.
LEMMA SetOffsetOrder ==
    ASSUME NEW H, NEW B, B \subseteq Int, NEW t \in TracksOn(H, B), NEW i \in 1..Len(t),
           NEW off \in B
    PROVE  /\ SetSectorOffsetAt(t, i, off) \in TracksOn(H, B)
           /\ Len(SetSectorOffsetAt(t, i, off)) = Len(t)
           /\ NewIndex(t, i, off) \in 1..Len(t)
<1> DEFINE n == Len(t)
           u == RemoveAt(t, i)
           p == NewIndex(t, i, off)
           s == [t[i] EXCEPT !.off = off]
<1>1. t \in Seq(SectorsOn(H, B)) /\ n \in Nat /\ \A j \in 1..n : t[j].off \in Int
  BY OrderAround
<1>2. u \in TracksOn(H, B) /\ u \in Seq(SectorsOn(H, B)) /\ Len(u) = n - 1
  BY <1>1, RemoveOrder, RemoveAtForm
<1>3. s \in SectorsOn(H, B) /\ s.off = off
  <2>1. t[i] \in SectorsOn(H, B)
    BY <1>1
  <2> QED  BY <2>1 DEF SectorsOn
<1>4. NewPlace(t, i, off, p)
  <2>1. off \in Int /\ t[i].off \in Int
    BY <1>1
  <2>2. CASE off < t[i].off
    BY <2>1, <2>2, MovesBack
  <2>3. CASE off > t[i].off
    BY <2>1, <2>3, MovesOn
  <2>4. CASE off = t[i].off
    BY <2>4, Stays
  <2> QED  BY <2>1, <2>2, <2>3, <2>4
<1>5. SetSectorOffsetAt(t, i, off) = InsertAt(u, p, s)
  BY DEF SetSectorOffsetAt
<1> HIDE DEF p, s
<1>6. /\ p \in 1..n
      /\ \A j \in 1..n - 1 : j < p => u[j].off <= off
      /\ \A j \in 1..n - 1 : p <= j => off <= u[j].off
  BY <1>4 DEF NewPlace
<1> HIDE DEF u, n
<1>7. p \in 1..Len(u) + 1 /\ Len(u) = n - 1 /\ Len(u) + 1 = n
  BY <1>1, <1>2, <1>6
<1>8. InsertAt(u, p, s) \in TracksOn(H, B)
  BY <1>2, <1>3, <1>6, <1>7, InsertOrder
<1>9. Len(InsertAt(u, p, s)) = n
  <2>1. Len(InsertAt(u, p, s)) = Len(u) + 1
    BY <1>2, <1>3, <1>7, InsertAtForm
  <2> QED  BY <1>7, <2>1
<1> QED  BY <1>5, <1>6, <1>8, <1>9 DEF n, p

(***************************************************************************)
(* Sectors of a track                                                      *)
(***************************************************************************)

\* Tracks with offsets in a set are tracks with offsets in a greater one.
LEMMA SubsetOfOffsets ==
    ASSUME NEW H, NEW B, B \subseteq Int, NEW A, A \subseteq B
    PROVE  /\ SectorsOn(H, A) \subseteq SectorsOn(H, B)
           /\ Seq(SectorsOn(H, A)) \subseteq Seq(SectorsOn(H, B))
           /\ TracksOn(H, A) \subseteq TracksOn(H, B)
<1>1. SectorsOn(H, A) \subseteq SectorsOn(H, B)
  BY DEF SectorsOn
<1>2. Seq(SectorsOn(H, A)) \subseteq Seq(SectorsOn(H, B))
  BY <1>1
<1> QED  BY <1>1, <1>2 DEF TracksOn

LEMMA EmptyTrack ==
    ASSUME NEW H, NEW B
    PROVE  << >> \in TracksOn(H, B) /\ << >> \in Seq(SectorsOn(H, B))
BY DEF TracksOn, Ordered

\* From a sector with header on, a next one is found, at the latest itself.
LEMMA NextWithHeaderIn ==
    ASSUME NEW n \in Nat, NEW t, Len(t) = n, NEW i \in 1..n, t[i].id # Orphan
    PROVE  NextWithHeader(t, i) \in 1..n
<1> DEFINE K == {k \in 1..n : t[((i - 1 + k) % n) + 1].id # Orphan}
           step == Min(K)
<1>1. NextWithHeader(t, i) = ((i - 1 + step) % n) + 1
  BY DEF NextWithHeader
<1>2. (i - 1 + n) % n = i - 1
  OBVIOUS
<1>3. n \in K
  BY <1>2
<1>4. step \in K
  <2>1. K \subseteq 1..n /\ n \in K
    BY <1>3, Zenon
  <2> HIDE DEF K
  <2>2. K \subseteq Nat /\ K # {}
    BY <2>1
  <2> QED  BY <2>2, LeastElement
<1>5. step \in Nat
  BY <1>4
<1> HIDE DEF step
<1> QED  BY <1>1, <1>5

\* An offset of 0 becomes 1.
LEMMA NotZeroType ==
    ASSUME NEW H, NEW s, s \in SectorsOn(H, Nat)
    PROVE  NotZero(s) \in SectorsOn(H, Nat \ {0})
<1>1. s.off \in Nat
  BY DEF SectorsOn
<1>2. CASE s.off = 0
  <2>1. NotZero(s) = [s EXCEPT !.off = 1]
    BY <1>2 DEF NotZero
  <2> QED  BY <2>1 DEF SectorsOn
<1>3. CASE s.off # 0
  <2>1. NotZero(s) = s
    BY <1>3 DEF NotZero
  <2> QED  BY <1>1, <1>3, <2>1 DEF SectorsOn
<1> QED  BY <1>2, <1>3

\* Headers alone lie where the sectors lay.
LEMMA WithoutDataOrder ==
    ASSUME NEW H, NEW B, B \subseteq Int, NEW t \in TracksOn(H, B)
    PROVE  WithoutData(t) \in TracksOn(H, B)
<1> DEFINE w == WithoutData(t)
<1>1. /\ t \in Seq(SectorsOn(H, B)) /\ Len(t) \in Nat /\ DOMAIN t = 1..Len(t)
      /\ \A i \in 1..Len(t) : t[i] \in SectorsOn(H, B)
      /\ Ordered(t)
  BY SectorFields DEF TracksOn
<1>2. \A s \in SectorsOn(H, B) : /\ [s EXCEPT !.data = << >>] \in SectorsOn(H, B)
                              /\ [s EXCEPT !.data = << >>].off = s.off
  <2>1. << >> \in Seq(Copies)
    OBVIOUS
  <2> QED  BY <2>1 DEF SectorsOn
<1>3. w = [i \in 1..Len(t) |-> [t[i] EXCEPT !.data = << >>]]
  BY <1>1 DEF WithoutData
<1> HIDE DEF w
<1>4. \A i \in 1..Len(t) : w[i] \in SectorsOn(H, B) /\ w[i].off = t[i].off
  BY <1>1, <1>2, <1>3
<1>5. w \in Seq(SectorsOn(H, B)) /\ DOMAIN w = DOMAIN t
  BY <1>1, <1>3, <1>4
<1>6. Ordered(w)
  BY <1>1, <1>4, <1>5 DEF Ordered
<1> QED  BY <1>5, <1>6 DEF TracksOn, w

(***************************************************************************)
(* Repeated headers                                                        *)
(***************************************************************************)

\* Of a header seen at two places one sector is kept (MergeRepeatedSectors).
LEMMA MergeDuplicateOrder ==
    ASSUME NEW H, NEW B, B \subseteq Int, NEW t \in TracksOn(H, B), NEW s \in SectorsOn(H, B)
    PROVE  MergeDuplicate(t, s) \in TracksOn(H, B)
<1> DEFINE n == Len(t)
           I == {k \in 1..n : Same(t[k], s, TrackLen)}
           i == IF I # {} THEN Min(I) ELSE 0
           d == MergeData(t[i].data, s.data)
<1>1. t \in Seq(SectorsOn(H, B)) /\ n \in Nat /\ DOMAIN t = 1..n
  <2>1. t \in Seq(SectorsOn(H, B))
    BY OrderAround
  <2> QED  BY <2>1
<1>2. FindToleratedSame(t, s) = i
  BY DEF FindToleratedSame, FirstIndex, SelectInSeq
<1>3. i \in 0..n
  <2>1. I \in SUBSET (1..n)
    OBVIOUS
  <2> HIDE DEF n, I
  <2> QED  BY <1>1, <2>1, FirstIndexOf
<1> HIDE DEF i
<1>4. MergeDuplicate(t, s) = IF i = 0 THEN t ELSE WithData(t, i, d)
  BY <1>2 DEF MergeDuplicate
<1>5. CASE i = 0
  BY <1>4, <1>5
<1>6. CASE i # 0
  <2>1. i \in DOMAIN t /\ i \in 1..n
    BY <1>1, <1>3, <1>6
  <2>2. t[i].data \in Seq(Copies) /\ s.data \in Seq(Copies)
    BY <1>1, <2>1, SectorFields, OneSector
  <2>3. d \in Seq(Copies)
    BY <2>2, MergeDataType
  <2> HIDE DEF d, n
  <2>4. WithData(t, i, d) \in TracksOn(H, B)
    BY <2>1, <2>3, WithDataOrder
  <2> QED  BY <1>4, <1>6, <2>4
<1> QED  BY <1>5, <1>6

LEMMA MergeDuplicatesOrder ==
    ASSUME NEW H, NEW B, B \subseteq Int, NEW t \in TracksOn(H, B), NEW ds \in Seq(SectorsOn(H, B))
    PROVE  MergeByAvoidingRepeatedSectors(t, ds) \in TracksOn(H, B)
<1> DEFINE n == Len(ds)
           X == TracksOn(H, B)
           st == [p \in X \X (1..n) |-> MergeDuplicate(p[1], ds[p[2]])]
           h == CHOOSE f : f = [k \in 0..n |-> IF k = 0 THEN t ELSE MergeDuplicate(f[k - 1], ds[k])]
<1>0. n \in Nat
  OBVIOUS
<1>1. \A k \in 1..n : \A x \in X : st[<<x, k>>] = MergeDuplicate(x, ds[k])
  OBVIOUS
<1>2. \A k \in 1..n : \A x \in X : st[<<x, k>>] \in X
  <2>1. \A k \in 1..n : ds[k] \in SectorsOn(H, B)
    OBVIOUS
  <2> HIDE DEF st, n, X
  <2>2. \A k \in 1..n : \A x \in X : MergeDuplicate(x, ds[k]) \in X
    BY <2>1, MergeDuplicateOrder DEF X
  <2> QED  BY <1>1, <2>2, Zenon
<1>3. t \in X
  OBVIOUS
<1>4. MergeByAvoidingRepeatedSectors(t, ds) = h[n]
  BY DEF MergeByAvoidingRepeatedSectors
<1> HIDE DEF st, X, n
<1>5. PICK g : Walks(g, t, st, n, X)
  <2>1. Leads(st, n, X)
    BY <1>2, Zenon DEF Leads
  <2> QED  BY <1>0, <1>3, <2>1, RecursionExists
<1>6. g = [k \in 0..n |-> IF k = 0 THEN t ELSE MergeDuplicate(g[k - 1], ds[k])]
  <2>1. \A k \in 0..n : k # 0 => st[<<g[k - 1], k>>] = MergeDuplicate(g[k - 1], ds[k])
    BY <1>0, <1>1, <1>5 DEF Walks
  <2> QED  BY <1>5, <2>1, Zenon DEF Walks
<1>7. h = [k \in 0..n |-> IF k = 0 THEN t ELSE MergeDuplicate(h[k - 1], ds[k])]
  BY <1>6, Zenon
<1> HIDE DEF h
<1>8. \A k \in 1..n : h[k - 1] \in X => h[k] \in X
  <2> SUFFICES ASSUME NEW k \in 1..n, h[k - 1] \in X
               PROVE  h[k] \in X
    OBVIOUS
  <2>1. h[k] = MergeDuplicate(h[k - 1], ds[k])
    BY <1>0, <1>7
  <2>2. MergeDuplicate(h[k - 1], ds[k]) \in X
    BY <1>1, <1>2, Zenon
  <2> QED  BY <2>1, <2>2
<1>9. h[0] \in X
  BY <1>0, <1>3, <1>7
<1>10. \A k \in 0..n : h[k] \in X
  BY <1>0, <1>8, <1>9, RecursionStays
<1>11. h[n] \in X
  BY <1>0, <1>10
<1> QED  BY <1>4, <1>11 DEF X

\* Of a repeated header one sector stays where it is.
LEMMA MergeRepeatedOrder ==
    ASSUME NEW H, NEW B, B \subseteq Int, NEW t \in TracksOn(H, B)
    PROVE  MergeRepeatedSectors(t) \in TracksOn(H, B)
<1> DEFINE stay == {i \in DOMAIN t : t[i].id = Orphan \/ Survivor(t, t[i].id) = i}
           c == Chosen(t, stay)
           d == Chosen(t, DOMAIN t \ stay)
           e == AddAll(<< >>, d)
<1>1. MergeRepeatedSectors(t) = IF Len(t) < 2 THEN t ELSE MergeByAvoidingRepeatedSectors(c, e)
  BY DEF MergeRepeatedSectors
<1>2. c \in TracksOn(H, B) /\ d \in TracksOn(H, B)
  BY ChosenOrder
<1>3. e \in Seq(SectorsOn(H, B))
  <2>1. d \in Seq(SectorsOn(H, B)) /\ << >> \in Seq(SectorsOn(H, B))
    BY <1>2 DEF TracksOn
  <2>2. e = AddAllOnRing(<< >>, d, TrackLen)
    BY DEF AddAll
  <2> HIDE DEF d, e
  <2> QED  BY <2>1, <2>2, AddAllType
<1> HIDE DEF c, e
<1>4. MergeByAvoidingRepeatedSectors(c, e) \in TracksOn(H, B)
  BY <1>2, <1>3, MergeDuplicatesOrder
<1> QED  BY <1>1, <1>4

\* Sectors of a neighbour cylinder are dropped.
LEMMA DropNeighborsOrder ==
    ASSUME NEW H, NEW B, B \subseteq Int, NEW t \in TracksOn(H, B)
    PROVE  DropSectorsFromNeighborCyls(t) \in TracksOn(H, B)
BY ChosenOrder DEF DropSectorsFromNeighborCyls

(***************************************************************************)
(* Tuning two readings to each other                                       *)
(***************************************************************************)

\* Two tracks and a place in each.
Walkers(H, B) == [this : TracksOn(H, B), other : TracksOn(H, B), i : Nat \ {0}, j : Nat \ {0}]

\* A step of the tuning of two tracks moves sectors of either, in order.
LEMMA TuneStepType ==
    ASSUME NEW H, NEW B, B \subseteq Int, NEW w \in Walkers(H, B)
    PROVE  TuneStep(w) \in Walkers(H, B)
<1> DEFINE t == w.this
           u == w.other
           s == t[w.i]
           reach == {m \in w.j..Len(u) : \A n \in w.j..m : NearUnwrapped(s.off, u[n].off)}
           match == {m \in reach : u[m].id = s.id}
           m == Min(match)
           low == u[m].off
<1>1. /\ w = [this |-> t, other |-> u, i |-> w.i, j |-> w.j]
      /\ t \in TracksOn(H, B) /\ u \in TracksOn(H, B) /\ w.i \in Nat \ {0} /\ w.j \in Nat \ {0}
  BY DEF Walkers
<1>2. /\ t \in Seq(SectorsOn(H, B)) /\ Len(t) \in Nat /\ u \in Seq(SectorsOn(H, B)) /\ Len(u) \in Nat
      /\ \A k \in 1..Len(t) : t[k].off \in B
      /\ \A k \in 1..Len(u) : u[k].off \in B
  BY <1>1, OrderAround, SectorFields
<1>4. w.i + 1 \in Nat \ {0} /\ w.j + 1 \in Nat \ {0}
  BY <1>1
<1>5. CASE w.i > Len(t) \/ w.j > Len(u)
  BY <1>5, Zenon DEF TuneStep
<1>6. CASE ~(w.i > Len(t) \/ w.j > Len(u)) /\ (~NearUnwrapped(s.off, u[w.j].off) \/ match = {})
  <2>1. \/ TuneStep(w) = [w EXCEPT !.i = @ + 1]
        \/ TuneStep(w) = [w EXCEPT !.j = @ + 1]
    BY <1>6, Zenon DEF TuneStep
  <2> QED  BY <1>1, <1>4, <2>1 DEF Walkers
<1>7. CASE ~(w.i > Len(t) \/ w.j > Len(u)) /\ NearUnwrapped(s.off, u[w.j].off) /\ match # {}
  <2>1. w.i \in 1..Len(t) /\ w.j \in 1..Len(u)
    BY <1>1, <1>2, <1>7
  <2>2. m \in 1..Len(u)
    <3>1. match \subseteq Nat /\ match # {} /\ match \subseteq 1..Len(u)
      BY <1>7, <2>1
    <3> HIDE DEF match
    <3>2. m \in match
      BY <3>1, LeastElement
    <3> QED  BY <3>1, <3>2
  <2>3. TuneStep(w) =
          IF s.off < low
          THEN [w EXCEPT !.other = SetSectorOffsetAt(@, m, s.off), !.i = @ + 1,
                         !.j = NewIndex(w.other, m, s.off) + 1]
          ELSE [w EXCEPT !.this = SetSectorOffsetAt(@, w.i, low), !.j = m + 1,
                         !.i = NewIndex(w.this, w.i, low) + 1]
    BY <1>7, Zenon DEF TuneStep
  <2> HIDE DEF m
  <2>4. s.off \in B /\ low \in B
    BY <1>2, <2>1, <2>2
  <2> HIDE DEF s, low
  <2>5. SetSectorOffsetAt(u, m, s.off) \in TracksOn(H, B) /\ NewIndex(u, m, s.off) \in 1..Len(u)
    BY <1>1, <2>2, <2>4, SetOffsetOrder
  <2>6. SetSectorOffsetAt(t, w.i, low) \in TracksOn(H, B) /\ NewIndex(t, w.i, low) \in 1..Len(t)
    BY <1>1, <2>1, <2>4, SetOffsetOrder
  <2>7. /\ NewIndex(u, m, s.off) + 1 \in Nat \ {0}
        /\ NewIndex(t, w.i, low) + 1 \in Nat \ {0}
        /\ m + 1 \in Nat \ {0}
    BY <1>2, <2>2, <2>5, <2>6
  <2> DEFINE v == SetSectorOffsetAt(u, m, s.off)
             k == w.i + 1
             l == NewIndex(u, m, s.off) + 1
             a == SetSectorOffsetAt(t, w.i, low)
             b == NewIndex(t, w.i, low) + 1
             c == m + 1
  <2>8. TuneStep(w) = IF s.off < low THEN [w EXCEPT !.other = v, !.i = k, !.j = l]
                      ELSE [w EXCEPT !.this = a, !.j = c, !.i = b]
    BY <2>3
  <2>9. /\ v \in TracksOn(H, B) /\ k \in Nat \ {0} /\ l \in Nat \ {0}
        /\ a \in TracksOn(H, B) /\ b \in Nat \ {0} /\ c \in Nat \ {0}
    BY <1>4, <2>5, <2>6, <2>7
  <2> HIDE DEF v, k, l, a, b, c
  <2>10. [w EXCEPT !.other = v, !.i = k, !.j = l] \in Walkers(H, B)
    BY <2>9 DEF Walkers
  <2>11. [w EXCEPT !.this = a, !.j = c, !.i = b] \in Walkers(H, B)
    BY <2>9 DEF Walkers
  <2> QED  BY <2>8, <2>10, <2>11
<1> QED  BY <1>5, <1>6, <1>7

\* Tuning keeps both tracks in order.
LEMMA TuneOrder ==
    ASSUME NEW H, NEW B, B \subseteq Int, NEW t \in TracksOn(H, B), NEW u \in TracksOn(H, B)
    PROVE  TuneOffsetsToEachOtherByMin(t, u) \in Walkers(H, B)
<1> DEFINE n == (Len(t) + 1) * (Len(u) + 1)
           X == Walkers(H, B)
           st == [p \in X \X (1..n) |-> TuneStep(p[1])]
           h == CHOOSE f : f =
               [k \in 0..n |-> IF k = 0 THEN [this |-> t, other |-> u, i |-> 1, j |-> 1]
                           ELSE TuneStep(f[k - 1])]
<1>0. n \in Nat
  <2>1. Len(t) \in Nat /\ Len(u) \in Nat
    BY OrderAround
  <2> QED  BY <2>1
<1>1. \A k \in 1..n : \A x \in X : st[<<x, k>>] = TuneStep(x)
  OBVIOUS
<1>2. \A k \in 1..n : \A x \in X : st[<<x, k>>] \in X
  <2> HIDE DEF st, n, X
  <2>2. \A k \in 1..n : \A x \in X : TuneStep(x) \in X
    BY TuneStepType DEF X
  <2> QED  BY <1>1, <2>2, Zenon
<1>3. [this |-> t, other |-> u, i |-> 1, j |-> 1] \in X
  BY DEF Walkers
<1>4. TuneOffsetsToEachOtherByMin(t, u) = h[n]
  BY DEF TuneOffsetsToEachOtherByMin
<1> HIDE DEF st, X, n
<1>5. PICK g : Walks(g, [this |-> t, other |-> u, i |-> 1, j |-> 1], st, n, X)
  <2>1. Leads(st, n, X)
    BY <1>2, Zenon DEF Leads
  <2> QED  BY <1>0, <1>3, <2>1, RecursionExists
<1>6. g =
          [k \in 0..n |-> IF k = 0 THEN [this |-> t, other |-> u, i |-> 1, j |-> 1]
                      ELSE TuneStep(g[k - 1])]
  <2>1. \A k \in 0..n : k # 0 => st[<<g[k - 1], k>>] = TuneStep(g[k - 1])
    BY <1>0, <1>1, <1>5 DEF Walks
  <2> QED  BY <1>5, <2>1, Zenon DEF Walks
<1>7. h =
          [k \in 0..n |-> IF k = 0 THEN [this |-> t, other |-> u, i |-> 1, j |-> 1]
                      ELSE TuneStep(h[k - 1])]
  BY <1>6, Zenon
<1> HIDE DEF h
<1>8. \A k \in 1..n : h[k - 1] \in X => h[k] \in X
  <2> SUFFICES ASSUME NEW k \in 1..n, h[k - 1] \in X
               PROVE  h[k] \in X
    OBVIOUS
  <2>1. h[k] = TuneStep(h[k - 1])
    BY <1>0, <1>7
  <2>2. TuneStep(h[k - 1]) \in X
    BY <1>1, <1>2, Zenon
  <2> QED  BY <2>1, <2>2
<1>9. h[0] \in X
  BY <1>0, <1>3, <1>7
<1>10. \A k \in 0..n : h[k] \in X
  BY <1>0, <1>8, <1>9, RecursionStays
<1>11. h[n] \in X
  BY <1>0, <1>10
<1> QED  BY <1>4, <1>11 DEF X

(***************************************************************************)
(* Measuring                                                               *)
(***************************************************************************)

\* Where an integer function is greatest on a finite set of places.
LEMMA LargestIn ==
    ASSUME NEW n \in Nat, NEW L, L \subseteq 1..n, L # {}, NEW f, \A i \in L : f[i] \in Int
    PROVE  \E i \in L : \A j \in L : f[j] <= f[i]
<1> DEFINE Top(k, i) == \A j \in L : j <= k => f[j] <= f[i]
           P == {k \in 0..n : (\A j \in L : ~(j <= k)) \/ \E i \in L : Top(k, i)}
<1>0. \A j \in L : j \in 1..n /\ j \in Nat
  OBVIOUS
<1>1. 0 \in P
  BY <1>0
<1>2. ASSUME NEW k \in 1..n, k - 1 \in P
      PROVE  k \in P
  <2>1. k \in 0..n /\ k \in Nat
    OBVIOUS
  <2>2. \A j \in L : j <= k => j = k \/ j <= k - 1
    BY <1>0
  <2>3. CASE k \notin L
    <3>1. \A j \in L : j <= k => j <= k - 1
      BY <2>2, <2>3
    <3>2. \A j \in L : j <= k - 1 => j <= k
      BY <1>0
    <3> QED  BY <1>2, <2>1, <3>1, <3>2
  <2>4. CASE k \in L /\ \A j \in L : ~(j <= k - 1)
    <3>1. Top(k, k)
      BY <2>2, <2>4
    <3> QED  BY <2>1, <2>4, <3>1
  <2>5. CASE k \in L /\ \E i \in L : Top(k - 1, i)
    <3>1. PICK i \in L : Top(k - 1, i)
      BY <2>5
    <3>2. CASE f[k] <= f[i]
      <4>1. Top(k, i)
        BY <2>2, <3>1, <3>2
      <4> HIDE DEF Top
      <4> QED  BY <2>1, <4>1
    <3>3. CASE ~(f[k] <= f[i])
      <4>1. Top(k, k)
        BY <2>2, <2>5, <3>1, <3>3
      <4> HIDE DEF Top
      <4> QED  BY <2>1, <2>5, <4>1
    <3> QED  BY <3>2, <3>3
  <2> QED  BY <1>2, <2>3, <2>4, <2>5
<1> HIDE DEF P
<1>3. n \in P
  BY <1>1, <1>2, UpTo
<1>4. \A j \in L : j <= n
  BY <1>0
<1> QED  BY <1>3, <1>4 DEF P

LEMMA GreatestElement ==
    ASSUME NEW n \in Nat, NEW L, L \subseteq 1..n, L # {}
    PROVE  Max(L) \in L
<1> DEFINE f == [i \in L |-> i]
<1>1. \A i \in L : f[i] \in Int /\ f[i] = i
  OBVIOUS
<1> HIDE DEF f
<1>2. PICK i \in L : \A j \in L : f[j] <= f[i]
  BY <1>1, LargestIn
<1>3. \A j \in L : i >= j
  <2>1. \A j \in L : j \in Int
    OBVIOUS
  <2> QED  BY <1>1, <1>2, <2>1
<1> QED  BY <1>3 DEF Max

\* What an average is kept as.
Measures == [sum : Int, n : Nat, least : Int, ignored : SUBSET Nat, far : SUBSET Nat]

\* An average over the places used that are not far off.
AveragesOf(used) ==
    {info \in Measures : /\ info.far \subseteq used
                         /\ info.n = Cardinality(used \ info.far)
                         /\ info.n # 0}

\* Leaving out distances that deviate, one by one, leaves some of them.
LEMMA TrimType ==
    ASSUME NEW n \in Nat, NEW t,
           NEW used, used \subseteq 1..n, \A i \in used : Single(t, i) \in Int,
           NEW info \in AveragesOf(used)
    PROVE  Trim(t, info, used \ info.far) \in AveragesOf(used)
<1> DEFINE left == used \ info.far
           W == {i \in left : \A j \in left : Deviation(t, info, j) <= Deviation(t, info, i)}
           worst == Max(W)
           sum == info.sum - Single(t, worst)
           m == info.n - 1
           far == info.far \cup {worst}
<1>1. /\ info \in Measures /\ info.far \subseteq used /\ info.n = Cardinality(left) /\ info.n # 0
      /\ info.sum \in Int /\ info.n \in Nat /\ info.far \in SUBSET Nat
  BY DEF AveragesOf, Measures
<1>2. left \subseteq 1..n /\ left \subseteq used
  OBVIOUS
<1>3. IsFiniteSet(left)
  <2>1. IsFiniteSet(1..n)
    BY FS_Interval
  <2> HIDE DEF left
  <2> QED  BY <1>2, <2>1, FS_Subset
<1>4. left # {}
  <2> HIDE DEF left
  <2> QED  BY <1>1, FS_EmptySet
<1> HIDE DEF left
<1>5. W # {}
  <2> DEFINE f == [i \in left |-> Deviation(t, info, i)]
  <2>1. \A i \in left : f[i] = Deviation(t, info, i) /\ f[i] \in Int
    <3>1. \A a, b, c \in Int : Abs(a * b - c) \in Int
      BY DEF Abs
    <3>2. \A i \in left : Single(t, i) \in Int
      BY <1>2
    <3>3. \A i \in left : Deviation(t, info, i) \in Int
      BY <1>1, <3>1, <3>2 DEF Deviation
    <3> QED  BY <3>3
  <2> HIDE DEF f
  <2>2. PICK i \in left : \A j \in left : f[j] <= f[i]
    BY <1>2, <1>4, <2>1, LargestIn
  <2>3. i \in W
    BY <2>1, <2>2
  <2> QED  BY <2>3
<1>6. worst \in left
  <2>1. W \subseteq 1..n /\ W \subseteq left
    BY <1>2
  <2> HIDE DEF W
  <2>2. worst \in W
    BY <1>5, <2>1, GreatestElement
  <2> QED  BY <2>1, <2>2
<1>7. \/ Trim(t, info, left) = info
      \/ Trim(t, info, left) = [info EXCEPT !.sum = sum, !.n = m, !.far = far] /\ info.n # 1
  BY DEF Trim
<1> HIDE DEF worst
<1>8. CASE Trim(t, info, left) = [info EXCEPT !.sum = sum, !.n = m, !.far = far] /\ info.n # 1
  <2>1. sum \in Int /\ m \in Nat /\ m # 0 /\ far \in SUBSET Nat /\ far \subseteq used
    BY <1>1, <1>2, <1>6, <1>8
  <2>2. Cardinality(left \ {worst}) = m
    BY <1>1, <1>3, <1>6, FS_RemoveElement
  <2>3. used \ far = left \ {worst}
    BY DEF left
  <2> HIDE DEF sum, m, far
  <2> DEFINE r == [info EXCEPT !.sum = sum, !.n = m, !.far = far]
  <2>4. r \in Measures /\ r.n = m /\ r.far = far
    BY <1>1, <2>1 DEF Measures
  <2> HIDE DEF r
  <2>5. r \in AveragesOf(used)
    BY <2>1, <2>2, <2>3, <2>4 DEF AveragesOf
  <2> QED  BY <1>8, <2>5 DEF left, r
<1> QED  BY <1>7, <1>8 DEF left

LEMMA TrimmedType ==
    ASSUME NEW t, Len(t) \in Nat,
           NEW used, used \subseteq 1..Len(t), \A i \in used : Single(t, i) \in Int,
           NEW all, all \in AveragesOf(used)
    PROVE  Trimmed(t, all, used) \in AveragesOf(used)
<1> DEFINE n == Len(t)
           X == AveragesOf(used)
           St(x, k) == Trim(t, x, used \ x.far)
           st == [p \in X \X (1..n) |-> St(p[1], p[2])]
           h == CHOOSE f : f = [k \in 0..n |-> IF k = 0 THEN all ELSE St(f[k - 1], k)]
<1>0. n \in Nat
  OBVIOUS
<1>1. \A k \in 1..n : \A x \in X : st[<<x, k>>] = St(x, k)
  OBVIOUS
<1>2. \A k \in 1..n : \A x \in X : st[<<x, k>>] \in X
  <2> HIDE DEF st, n, X
  <2>1. \A x \in X : Trim(t, x, used \ x.far) \in X
    BY TrimType DEF X, n
  <2> QED  BY <1>1, <2>1, Zenon DEF St
<1>3. all \in X
  OBVIOUS
<1>4. Trimmed(t, all, used) = h[n]
  BY DEF Trimmed
<1> HIDE DEF st, X, n, St
<1>5. PICK g : Walks(g, all, st, n, X)
  <2>1. Leads(st, n, X)
    BY <1>2, Zenon DEF Leads
  <2> QED  BY <1>0, <1>3, <2>1, RecursionExists
<1>6. g = [k \in 0..n |-> IF k = 0 THEN all ELSE St(g[k - 1], k)]
  <2>1. \A k \in 0..n : k # 0 => st[<<g[k - 1], k>>] = St(g[k - 1], k)
    BY <1>0, <1>1, <1>5 DEF Walks
  <2> QED  BY <1>5, <2>1, Zenon DEF Walks
<1>7. h = [k \in 0..n |-> IF k = 0 THEN all ELSE St(h[k - 1], k)]
  BY <1>6, Zenon
<1> HIDE DEF h
<1>8. \A k \in 1..n : h[k - 1] \in X => h[k] \in X
  <2> SUFFICES ASSUME NEW k \in 1..n, h[k - 1] \in X
               PROVE  h[k] \in X
    OBVIOUS
  <2>1. h[k] = St(h[k - 1], k)
    BY <1>0, <1>7
  <2>2. St(h[k - 1], k) \in X
    BY <1>1, <1>2, Zenon
  <2> QED  BY <2>1, <2>2
<1>9. h[0] \in X
  BY <1>0, <1>3, <1>7
<1>10. \A k \in 0..n : h[k] \in X
  BY <1>0, <1>8, <1>9, RecursionStays
<1>11. h[n] \in X
  BY <1>0, <1>10
<1> QED  BY <1>4, <1>11 DEF X

\* Sums and averages of integers.
LEMMA SumType ==
    ASSUME NEW t, Len(t) \in Nat, NEW used, \A i \in used : Single(t, i) \in Int
    PROVE  SumOfSingles(t, used) \in Int
<1> DEFINE n == Len(t)
           X == Int
           St(x, k) == x + (IF k \in used THEN Single(t, k) ELSE 0)
           st == [p \in X \X (1..n) |-> St(p[1], p[2])]
           h == CHOOSE f : f = [k \in 0..n |-> IF k = 0 THEN 0 ELSE St(f[k - 1], k)]
<1>0. n \in Nat
  OBVIOUS
<1>1. \A k \in 1..n : \A x \in X : st[<<x, k>>] = St(x, k)
  OBVIOUS
<1>2. \A k \in 1..n : \A x \in X : st[<<x, k>>] \in X
  <2> HIDE DEF st
  <2>1. \A k \in 1..n, x \in X : St(x, k) \in X
    OBVIOUS
  <2> HIDE DEF St
  <2> QED  BY <1>1, <2>1, Zenon
<1>3. 0 \in X
  OBVIOUS
<1>4. SumOfSingles(t, used) = h[n]
  BY DEF SumOfSingles
<1> HIDE DEF st, X, n, St
<1>5. PICK g : Walks(g, 0, st, n, X)
  <2>1. Leads(st, n, X)
    BY <1>2, Zenon DEF Leads
  <2> QED  BY <1>0, <1>3, <2>1, RecursionExists
<1>6. g = [k \in 0..n |-> IF k = 0 THEN 0 ELSE St(g[k - 1], k)]
  <2>1. \A k \in 0..n : k # 0 => st[<<g[k - 1], k>>] = St(g[k - 1], k)
    BY <1>0, <1>1, <1>5 DEF Walks
  <2> QED  BY <1>5, <2>1, Zenon DEF Walks
<1>7. h = [k \in 0..n |-> IF k = 0 THEN 0 ELSE St(h[k - 1], k)]
  BY <1>6, Zenon
<1> HIDE DEF h
<1>8. \A k \in 1..n : h[k - 1] \in X => h[k] \in X
  <2> SUFFICES ASSUME NEW k \in 1..n, h[k - 1] \in X
               PROVE  h[k] \in X
    OBVIOUS
  <2>1. h[k] = St(h[k - 1], k)
    BY <1>0, <1>7
  <2>2. St(h[k - 1], k) \in X
    BY <1>1, <1>2, Zenon
  <2> QED  BY <2>1, <2>2
<1>9. h[0] \in X
  BY <1>0, <1>3, <1>7
<1>10. \A k \in 0..n : h[k] \in X
  BY <1>0, <1>8, <1>9, RecursionStays
<1>11. h[n] \in X
  BY <1>0, <1>10
<1> QED  BY <1>4, <1>11 DEF X

LEMMA AveragedType ==
    ASSUME NEW t, Len(t) \in Nat, NEW used, used \subseteq 1..Len(t), used # {},
           \A i \in used : Single(t, i) \in Nat,
           NEW ignored, ignored \in SUBSET Nat
    PROVE  Averaged(t, used, ignored) \in Measures
<1> DEFINE sum == SumOfSingles(t, used)
           n == Cardinality(used)
           all == [NoInfo EXCEPT !.sum = sum, !.n = n, !.ignored = ignored]
           w == Trimmed(t, all, used)
           S == {Single(t, i) : i \in used \ w.far}
           least == Min(S)
<1>0. \A i \in used : Single(t, i) \in Int
  OBVIOUS
<1>1. sum \in Int
  BY <1>0, SumType
<1>2. n \in Nat /\ n # 0
  <2>1. IsFiniteSet(1..Len(t))
    BY FS_Interval
  <2>2. IsFiniteSet(used)
    BY <2>1, FS_Subset
  <2> QED  BY <2>2, FS_CardinalityType, FS_EmptySet
<1>a. n = Cardinality(used \ {})
  <2>1. used \ {} = used
    OBVIOUS
  <2> QED  BY <2>1
<1> HIDE DEF sum, n
<1>3. all \in Measures /\ all.far = {} /\ all.n = n
  <2>1. NoInfo \in Measures /\ NoInfo.far = {}
    BY DEF NoInfo, Measures
  <2> QED  BY <1>1, <1>2, <2>1 DEF Measures
<1> HIDE DEF all
<1>4. all \in AveragesOf(used)
  BY <1>2, <1>a, <1>3 DEF AveragesOf
<1>5. w \in AveragesOf(used)
  BY <1>0, <1>4, TrimmedType
<1> HIDE DEF w
<1>6. w \in Measures /\ Cardinality(used \ w.far) # 0
  BY <1>5 DEF AveragesOf
<1>7. used \ w.far # {}
  BY <1>6, FS_EmptySet
<1>8. least \in Nat
  <2>1. S \subseteq Nat /\ S # {}
    BY <1>7
  <2> HIDE DEF S
  <2> QED  BY <2>1, LeastElement
<1>9. Averaged(t, used, ignored) = [w EXCEPT !.least = least]
  BY DEF Averaged, WithLeast, w, all, sum, n
<1> HIDE DEF least
<1> QED  BY <1>6, <1>8, <1>9 DEF Measures

(***************************************************************************)
(* The constants                                                           *)
(***************************************************************************)

Lengths == /\ TrackLen \in Nat \ {0}
           /\ NextMin \in Nat \ {0} /\ NextMax \in Nat \ {0}

\* Rounded division.
LEMMA RoundType ==
    ASSUME NEW a, NEW b \in Nat \ {0}
    PROVE  /\ a \in Int => Round(a, b) \in Int
           /\ a \in Nat => Round(a, b) \in Nat
<1>1. a \in Int => Round(a, b) \in Int
  BY DEF Round
<1>2. a \in Nat => Round(a, b) \in Nat
  BY DEF Round
<1> QED  BY <1>1, <1>2

\* Sectors that fit between two, and the distance of two.
LEMMA SectorsBetweenType ==
    ASSUME Lengths, NEW d \in Nat
    PROVE  SectorsBetween(d) \in Nat
<1>1. SectorsBetween(d) = Round(d, NextMin) \/ SectorsBetween(d) = Round(d, NextMax)
  BY DEF SectorsBetween
<1> QED  BY <1>1, RoundType DEF Lengths

LEMMA DistanceType ==
    ASSUME Lengths, NEW s, NEW r, s.off \in Int, r.off \in Int
    PROVE  Distance(s, r, TrackLen) \in Nat
<1> DEFINE d == r.off - s.off
<1>1. d \in Int
  OBVIOUS
<1>2. Distance(s, r, TrackLen) = d % TrackLen
  BY DEF Distance
<1> HIDE DEF d
<1> QED  BY <1>1, <1>2 DEF Lengths

\* What is measured of a track.
LEMMA DetermineType ==
    ASSUME Lengths, NEW H, NEW B, B \subseteq Int, NEW t \in Seq(SectorsOn(H, B)), NEW repeated
    PROVE  DetermineOffsetDistanceMinMaxAverage(t, repeated, NoInfo) \in Measures
<1> DEFINE n == Len(t)
           measured == Measured(t, repeated)
           tooNear == {i \in measured : SectorsBetween(DistanceToNext(t, i)) = 0}
           used == measured \ tooNear
           ignored == NoInfo.ignored \cup tooNear
<1>1. n \in Nat /\ DOMAIN t = 1..n /\ \A i \in 1..n : t[i].off \in Int
  BY SectorFields
<1>2. measured \subseteq 1..n /\ \A i \in measured : t[i].id # Orphan
  BY <1>1 DEF Measured, Measurable
<1>3. ASSUME NEW i \in measured
      PROVE  DistanceToNext(t, i) \in Nat
  <2>1. i \in 1..n /\ t[i].id # Orphan
    BY <1>2
  <2> DEFINE j == NextWithHeader(t, i)
  <2>2. j \in 1..n
    BY <1>1, <2>1, NextWithHeaderIn
  <2>3. DistanceToNext(t, i) = Distance(t[i], t[j], TrackLen)
    BY DEF DistanceToNext
  <2> HIDE DEF j
  <2> QED  BY <1>1, <2>1, <2>2, <2>3, DistanceType
<1>4. DetermineOffsetDistanceMinMaxAverage(t, repeated, NoInfo)
        = IF n < 2 \/ used = {} THEN [NoInfo EXCEPT !.ignored = ignored] ELSE Averaged(t, used, ignored)
  BY DEF DetermineOffsetDistanceMinMaxAverage, IsEmpty, NoInfo
<1> HIDE DEF measured
<1>5. ignored \in SUBSET Nat
  <2>1. tooNear \subseteq 1..n
    BY <1>2
  <2> HIDE DEF tooNear
  <2> QED  BY <2>1 DEF NoInfo
<1>6. \A i \in used : Single(t, i) \in Nat
  <2> SUFFICES ASSUME NEW i \in used PROVE Single(t, i) \in Nat
    OBVIOUS
  <2> DEFINE d == DistanceToNext(t, i)
             b == SectorsBetween(d)
  <2>1. i \in measured /\ b # 0
    OBVIOUS
  <2>2. d \in Nat /\ b \in Nat
    BY <1>3, <2>1, SectorsBetweenType
  <2>3. Single(t, i) = (Unit * d) \div b
    BY DEF Single
  <2> HIDE DEF d, b
  <2> QED  BY <2>1, <2>2, <2>3 DEF Unit
<1>7. used \subseteq 1..n
  BY <1>2
<1> HIDE DEF used, ignored
<1>8. [NoInfo EXCEPT !.ignored = ignored] \in Measures
  BY <1>5 DEF NoInfo, Measures
<1>9. CASE n < 2 \/ used = {}
  BY <1>4, <1>8, <1>9
<1>10. CASE ~(n < 2 \/ used = {})
  <2>1. Averaged(t, used, ignored) \in Measures
    BY <1>1, <1>5, <1>6, <1>7, <1>10, AveragedType
  <2> QED  BY <1>4, <1>10, <2>1
<1> QED  BY <1>9, <1>10

(***************************************************************************)
(* Suspicious offsets                                                      *)
(***************************************************************************)

Adjusters(H, n) == [track : {t \in TracksOn(H, Int) : Len(t) = n}, i : 1..n + 1, before : Int]

\* A step of the adjustment moves a sector within its track.
LEMMA AdjustStepType ==
    ASSUME Lengths, NEW H, NEW n \in Nat, NEW w \in Adjusters(H, n),
           NEW info \in Measures, info.n # 0, NEW balance
    PROVE  AdjustStep(w, info, balance) \in Adjusters(H, n)
<1> DEFINE t == w.track
           j == NextWithHeader(t, w.i)
           d == Distance(t[w.i], t[j], TrackLen)
           more == Round(info.sum - d * info.n * Unit, info.n * Unit)
           before == IF w.before < 0
                     THEN Distance(t[PreviousWithHeader(t, w.i)], t[w.i], TrackLen) ELSE w.before
           place == before >= Round(info.sum + more * info.n * Unit, info.n * Unit)
           one == Round(d * info.n * Unit, info.sum) = 1
           moved == CASE one /\ w.i \in info.far /\ more > 0 /\ place ->
                           SetSectorOffsetAt(t, w.i, t[w.i].off - more)
                      [] one /\ w.i \notin info.far /\ balance ->
                           SetSectorOffsetAt(t, j, t[j].off + more)
                      [] OTHER -> t
<1>1. /\ t \in TracksOn(H, Int) /\ Len(t) = n /\ w.i \in 1..n + 1 /\ w.before \in Int
  BY DEF Adjusters
<1>2. \A k \in 1..n : t[k].off \in Int
  BY <1>1, OrderAround
<1>3. CASE w.i > Len(t)
  BY <1>3 DEF AdjustStep
<1>4. CASE ~(w.i > Len(t)) /\ (t[w.i].id = Orphan \/ w.i \in info.ignored)
  <2>1. AdjustStep(w, info, balance) = [w EXCEPT !.i = w.i + 1]
    BY <1>4 DEF AdjustStep
  <2>2. w.i + 1 \in 1..n + 1
    BY <1>1, <1>4
  <2> QED  BY <2>1, <2>2 DEF Adjusters
<1>5. CASE ~(w.i > Len(t)) /\ ~(t[w.i].id = Orphan \/ w.i \in info.ignored) /\ j <= w.i
  <2>1. AdjustStep(w, info, balance) = [w EXCEPT !.i = n + 1]
    BY <1>1, <1>5 DEF AdjustStep
  <2>2. n + 1 \in 1..n + 1
    OBVIOUS
  <2> QED  BY <2>1, <2>2 DEF Adjusters
<1>6. CASE ~(w.i > Len(t)) /\ ~(t[w.i].id = Orphan \/ w.i \in info.ignored) /\ ~(j <= w.i)
  <2>1. AdjustStep(w, info, balance) = [track |-> moved, i |-> j, before |-> d]
    BY <1>6 DEF AdjustStep
  <2>2. w.i \in 1..n
    BY <1>1, <1>6
  <2>3. j \in 1..n
    BY <1>1, <1>6, <2>2, NextWithHeaderIn
  <2> HIDE DEF j
  <2>4. d \in Nat
    BY <1>2, <2>2, <2>3, DistanceType
  <2> HIDE DEF d
  <2>5. more \in Int
    <3> DEFINE x == info.sum - d * info.n * Unit
               y == info.n * Unit
    <3>1. info.sum \in Int /\ info.n \in Nat \ {0}
      BY DEF Measures
    <3>2. \A a, b, c \in Int : a - b * c * 12 \in Int
      OBVIOUS
    <3>3. x \in Int /\ y \in Nat \ {0}
      BY <2>4, <3>1, <3>2 DEF Unit
    <3> HIDE DEF x, y
    <3>4. Round(x, y) \in Int
      BY <3>3, RoundType
    <3> QED  BY <3>4 DEF x, y
  <2> HIDE DEF more, before
  <2>6. moved \in {t, SetSectorOffsetAt(t, w.i, t[w.i].off - more), SetSectorOffsetAt(t, j, t[j].off + more)}
    <3> HIDE DEF one, place
    <3>1. CASE one /\ w.i \in info.far /\ more > 0 /\ place
      BY <3>1
    <3>2. CASE ~(one /\ w.i \in info.far /\ more > 0 /\ place) /\ one /\ w.i \notin info.far /\ balance
      BY <3>2
    <3>3. CASE ~(one /\ w.i \in info.far /\ more > 0 /\ place) /\ ~(one /\ w.i \notin info.far /\ balance)
      BY <3>3
    <3> QED  BY <3>1, <3>2, <3>3
  <2> HIDE DEF moved
  <2>7. /\ t[w.i].off - more \in Int /\ t[j].off + more \in Int
        /\ w.i \in 1..Len(t) /\ j \in 1..Len(t)
    BY <1>1, <1>2, <2>2, <2>3, <2>5
  <2>8. \A k \in 1..Len(t), off \in Int :
           SetSectorOffsetAt(t, k, off) \in TracksOn(H, Int) /\ Len(SetSectorOffsetAt(t, k, off)) = Len(t)
    <3>1. Int \subseteq Int /\ t \in TracksOn(H, Int)
      BY <1>1
    <3> HIDE DEF t
    <3> QED  BY <3>1, SetOffsetOrder
  <2>9. moved \in TracksOn(H, Int) /\ Len(moved) = n
    BY <1>1, <2>6, <2>7, <2>8
  <2>10. j \in 1..n + 1 /\ d \in Int
    BY <2>3, <2>4
  <2> QED  BY <2>1, <2>9, <2>10 DEF Adjusters
<1> QED  BY <1>3, <1>4, <1>5, <1>6

LEMMA AdjustedType ==
    ASSUME Lengths, NEW H, NEW t \in TracksOn(H, Int), NEW info \in Measures, info.n # 0,
           NEW balance,
           t # << >>
    PROVE  AdjustSuspiciousOffsets(t, info, balance) \in TracksOn(H, Int)
<1> DEFINE n == Len(t)
           X == Adjusters(H, n)
           st == [p \in X \X (1..n) |-> AdjustStep(p[1], info, balance)]
           h == CHOOSE f : f =
               [k \in 0..n |-> IF k = 0 THEN [track |-> t, i |-> 1, before |-> -1]
                           ELSE AdjustStep(f[k - 1], info, balance)]
<1>0. n \in Nat
  BY OrderAround
<1>1. \A k \in 1..n : \A x \in X : st[<<x, k>>] = AdjustStep(x, info, balance)
  OBVIOUS
<1>2. \A k \in 1..n : \A x \in X : st[<<x, k>>] \in X
  <2> HIDE DEF st
  <2>1. \A x \in X : AdjustStep(x, info, balance) \in X
    <3> HIDE DEF n
    <3> QED  BY <1>0, AdjustStepType
  <2> HIDE DEF X, n
  <2> QED  BY <1>1, <2>1, Zenon
<1>3. [track |-> t, i |-> 1, before |-> -1] \in X
  BY <1>0 DEF Adjusters
<1>4. AdjustSuspiciousOffsets(t, info, balance) = h[n].track
  BY DEF AdjustSuspiciousOffsets, IsEmpty
<1> HIDE DEF st, X, n
<1>5. PICK g : Walks(g, [track |-> t, i |-> 1, before |-> -1], st, n, X)
  <2>1. Leads(st, n, X)
    BY <1>2, Zenon DEF Leads
  <2> QED  BY <1>0, <1>3, <2>1, RecursionExists
<1>6. g =
          [k \in 0..n |-> IF k = 0 THEN [track |-> t, i |-> 1, before |-> -1]
                      ELSE AdjustStep(g[k - 1], info, balance)]
  <2>1. \A k \in 0..n : k # 0 => st[<<g[k - 1], k>>] = AdjustStep(g[k - 1], info, balance)
    BY <1>0, <1>1, <1>5 DEF Walks
  <2> QED  BY <1>5, <2>1, Zenon DEF Walks
<1>7. h =
          [k \in 0..n |-> IF k = 0 THEN [track |-> t, i |-> 1, before |-> -1]
                      ELSE AdjustStep(h[k - 1], info, balance)]
  BY <1>6, Zenon
<1> HIDE DEF h
<1>8. \A k \in 1..n : h[k - 1] \in X => h[k] \in X
  <2> SUFFICES ASSUME NEW k \in 1..n, h[k - 1] \in X
               PROVE  h[k] \in X
    OBVIOUS
  <2>1. h[k] = AdjustStep(h[k - 1], info, balance)
    BY <1>0, <1>7
  <2>2. AdjustStep(h[k - 1], info, balance) \in X
    BY <1>1, <1>2, Zenon
  <2> QED  BY <2>1, <2>2
<1>9. h[0] \in X
  BY <1>0, <1>3, <1>7
<1>10. \A k \in 0..n : h[k] \in X
  BY <1>0, <1>8, <1>9, RecursionStays
<1>11. h[n] \in X
  BY <1>0, <1>10
<1> QED  BY <1>4, <1>11 DEF X, Adjusters

\* Moving what is too near the next leaves the track in order.
LEMMA AdjustOrder ==
    ASSUME Lengths, NEW H, NEW t \in TracksOn(H, Int), NEW info \in Measures, NEW balance
    PROVE  AdjustSuspiciousOffsets(t, info, balance) \in TracksOn(H, Int)
<1>1. CASE t = << >> \/ info.n = 0
  BY <1>1 DEF AdjustSuspiciousOffsets, IsEmpty
<1>2. CASE t # << >> /\ info.n # 0
  BY <1>2, AdjustedType
<1> QED  BY <1>1, <1>2

(***************************************************************************)
(* The reading of a reading                                                  *)
(***************************************************************************)

\* Marks of a reading become headers and data at their offsets.
LEMMA MarksType ==
    ASSUME NEW reading \in Seq(Marks), NEW kind, NEW len,
           NEW H, \A m \in Marks : m.kind = kind => m.id \in H
    PROVE  MarksOf(reading, kind, len) \in Seq(SectorsOn(H, Int))
<1> DEFINE S == {m \in Marks : m.id \in H}
           places == {i \in DOMAIN reading : reading[i].kind = kind}
           c == Chosen(reading, places)
           ss == [i \in DOMAIN c |-> At(c[i].id, c[i].off, c[i].data)]
<1>1. c \in Seq(S)
  <2>1. \A k \in 1..Len(reading) : k \in places => reading[k] \in S
    OBVIOUS
  <2> HIDE DEF places, S
  <2> QED  BY <2>1, ChosenType
<1>2. MarksOf(reading, kind, len) = AddAllOnRing(<< >>, ss, 2 * len)
  BY DEF MarksOf
<1> HIDE DEF c
<1>3. \A m \in S : At(m.id, m.off, m.data) \in SectorsOn(H, Int)
  BY DEF At, SectorsOn, Marks
<1>4. Len(c) \in Nat /\ DOMAIN c = 1..Len(c) /\ \A i \in 1..Len(c) : c[i] \in S
  <2> HIDE DEF S
  <2> QED  BY <1>1
<1> HIDE DEF S
<1>5. ss \in Seq(SectorsOn(H, Int))
  <2>1. \A i \in 1..Len(c) : ss[i] \in SectorsOn(H, Int)
    BY <1>3, <1>4
  <2>2. ss = [i \in 1..Len(c) |-> ss[i]]
    BY <1>4
  <2> HIDE DEF ss
  <2> QED  BY <1>4, <2>1, <2>2
<1> HIDE DEF ss
<1>6. << >> \in Seq(SectorsOn(H, Int))
  OBVIOUS
<1> QED  BY <1>2, <1>5, <1>6, AddAllType

\* A reading being walked through.
Placing == [track : Seq(SectorsOn(Ids, Int)), orphans : Seq(SectorsOn(Headers, Int)),
            i : Nat \ {0}, j : Nat \ {0}, open : BOOLEAN]

\* A step that gives data to the header before it (ProcessSectorDataRefs).
LEMMA DataRefStepType ==
    ASSUME NEW w \in Placing, NEW len
    PROVE  DataRefStep(w, len) \in Placing
<1> DEFINE t == w.track
           u == w.orphans
           s == t[w.i]
           o == u[w.j]
           coheres == w.i <= Len(t) /\ Cohere(s.off, o.off, 2 * len)
           nextCoheres == w.i < Len(t) /\ Cohere(t[w.i + 1].off, o.off, 2 * len)
           whole == o.off + DataBits <= len
           i == w.i + 1
           j == w.j + 1
           a == WithData(t, w.i, MergeData(s.data, o.data))
           b == RemoveAt(u, w.j)
           c == WithData(u, w.j, RawData(w, len))
           d == WithData(u, w.j, << >>)
           e == (w.j = Len(u) /\ w.i > Len(t))
<1>1. /\ t \in Seq(SectorsOn(Ids, Int)) /\ u \in Seq(SectorsOn(Headers, Int))
      /\ w.i \in Nat \ {0} /\ w.j \in Nat \ {0}
      /\ Len(t) \in Nat /\ Len(u) \in Nat
  BY DEF Placing
<1>2. i \in Nat \ {0} /\ j \in Nat \ {0} /\ e \in BOOLEAN
  BY <1>1
<1>3. CASE w.j > Len(u)
  BY <1>1, <1>3 DEF DataRefStep
<1>4. CASE ~(w.j > Len(u))
  <2>1. w.j \in 1..Len(u) /\ w.j <= Len(u)
    BY <1>1, <1>4
  <2>2. o.data \in Seq(Copies)
    BY <1>1, <2>1, SectorFields
  <2>3. CASE (coheres /\ nextCoheres) \/ (~coheres /\ w.i <= Len(t))
    <3>1. DataRefStep(w, len) = [w EXCEPT !.i = i]
      BY <1>4, <2>1, <2>3 DEF DataRefStep
    <3> HIDE DEF i
    <3> QED  BY <1>2, <3>1 DEF Placing
  <2>4. CASE coheres /\ ~nextCoheres /\ ~whole
    <3>1. DataRefStep(w, len) = [w EXCEPT !.i = i, !.j = j, !.orphans = d]
      BY <1>4, <2>1, <2>4 DEF DataRefStep
    <3>2. w.j \in DOMAIN u /\ << >> \in Seq(Copies)
      BY <1>1, <2>1
    <3>3. d \in Seq(SectorsOn(Headers, Int))
      BY <1>1, <3>2, WithDataType
    <3> HIDE DEF i, j, d
    <3> QED  BY <1>2, <3>1, <3>3 DEF Placing
  <2>5. CASE coheres /\ ~nextCoheres /\ whole
    <3>1. DataRefStep(w, len) = [w EXCEPT !.i = i, !.track = a, !.orphans = b]
      BY <1>4, <2>1, <2>5 DEF DataRefStep
    <3>2. w.i \in 1..Len(t)
      BY <1>1, <2>5
    <3>3. s.data \in Seq(Copies)
      BY <1>1, <3>2, SectorFields
    <3>4. MergeData(s.data, o.data) \in Seq(Copies)
      BY <2>2, <3>3, MergeDataType
    <3>5. w.i \in DOMAIN t
      BY <1>1, <3>2
    <3>6. a \in Seq(SectorsOn(Ids, Int))
      BY <1>1, <3>4, <3>5, WithDataType
    <3>7. b \in Seq(SectorsOn(Headers, Int))
      BY <1>1, <2>1, RemoveAtForm
    <3> HIDE DEF i, a, b
    <3> QED  BY <1>2, <3>1, <3>6, <3>7 DEF Placing
  <2>6. CASE ~coheres /\ ~(w.i <= Len(t))
    <3>1. DataRefStep(w, len) = [w EXCEPT !.j = j, !.orphans = c, !.open = e]
      BY <1>4, <2>1, <2>6 DEF DataRefStep
    <3>2. RawData(w, len) \in Seq(Copies)
      <4>1. RawData(w, len) \in {<<Short>>, o.data}
        BY DEF RawData
      <4>2. <<Short>> \in Seq(Copies)
        BY DEF Copies
      <4> QED  BY <2>2, <4>1, <4>2
    <3>3. w.j \in DOMAIN u
      BY <1>1, <2>1
    <3>4. c \in Seq(SectorsOn(Headers, Int))
      BY <1>1, <3>2, <3>3, WithDataType
    <3> HIDE DEF j, c, e
    <3> QED  BY <1>2, <3>1, <3>4 DEF Placing
  <2> HIDE DEF coheres, nextCoheres, whole
  <2> QED  BY <2>3, <2>4, <2>5, <2>6
<1> QED  BY <1>3, <1>4

Decoded == [track : Seq(SectorsOn(Ids, Int)), orphans : Seq(SectorsOn(Headers, Int)), open : BOOLEAN]

LEMMA WithoutDataType ==
    ASSUME NEW H, NEW B, B \subseteq Int, NEW t \in Seq(SectorsOn(H, B))
    PROVE  WithoutData(t) \in Seq(SectorsOn(H, B))
<1> DEFINE w == WithoutData(t)
<1>1. /\ Len(t) \in Nat /\ DOMAIN t = 1..Len(t)
      /\ \A i \in 1..Len(t) : t[i] \in SectorsOn(H, B)
  BY SectorFields
<1>2. \A s \in SectorsOn(H, B) : [s EXCEPT !.data = << >>] \in SectorsOn(H, B)
  <2>1. << >> \in Seq(Copies)
    OBVIOUS
  <2> QED  BY <2>1 DEF SectorsOn
<1>3. w = [i \in 1..Len(t) |-> [t[i] EXCEPT !.data = << >>]]
  BY <1>1 DEF WithoutData
<1> HIDE DEF w
<1>4. \A i \in 1..Len(t) : w[i] \in SectorsOn(H, B)
  BY <1>1, <1>2, <1>3
<1> QED  BY <1>1, <1>3, <1>4 DEF w

LEMMA DataRefsType ==
    ASSUME NEW track \in Seq(SectorsOn(Ids, Int)),
           NEW orphans \in Seq(SectorsOn(Headers, Int)), NEW len
    PROVE  ProcessSectorDataRefs(track, orphans, len) \in Decoded
<1> DEFINE n == Len(track) + Len(orphans)
           X == Placing
           first == [track |-> track, orphans |-> orphans, i |-> 1, j |-> 1, open |-> FALSE]
           st == [p \in X \X (1..n) |-> DataRefStep(p[1], len)]
           h == CHOOSE f : f = [k \in 0..n |-> IF k = 0 THEN first ELSE DataRefStep(f[k - 1], len)]
<1>0. n \in Nat
  OBVIOUS
<1>1. \A k \in 1..n : \A x \in X : st[<<x, k>>] = DataRefStep(x, len)
  OBVIOUS
<1>2. \A k \in 1..n : \A x \in X : st[<<x, k>>] \in X
  <2> HIDE DEF st, n, X
  <2>2. \A k \in 1..n : \A x \in X : DataRefStep(x, len) \in X
    BY DataRefStepType DEF X
  <2> QED  BY <1>1, <2>2, Zenon
<1>3. first \in X
  BY DEF Placing
<1>4. ProcessSectorDataRefs(track, orphans, len)
        = IF track = << >> \/ orphans = << >>
          THEN [track |-> track, orphans |-> WithoutData(orphans), open |-> FALSE]
          ELSE [track |-> h[n].track, orphans |-> h[n].orphans, open |-> h[n].open]
  BY DEF ProcessSectorDataRefs
<1> HIDE DEF st, X, n, first
<1>5. PICK g : Walks(g, first, st, n, X)
  <2>1. Leads(st, n, X)
    BY <1>2, Zenon DEF Leads
  <2> QED  BY <1>0, <1>3, <2>1, RecursionExists
<1>6. g = [k \in 0..n |-> IF k = 0 THEN first ELSE DataRefStep(g[k - 1], len)]
  <2>1. \A k \in 0..n : k # 0 => st[<<g[k - 1], k>>] = DataRefStep(g[k - 1], len)
    BY <1>0, <1>1, <1>5 DEF Walks
  <2> QED  BY <1>5, <2>1, Zenon DEF Walks
<1>7. h = [k \in 0..n |-> IF k = 0 THEN first ELSE DataRefStep(h[k - 1], len)]
  BY <1>6, Zenon
<1> HIDE DEF h
<1>8. \A k \in 1..n : h[k - 1] \in X => h[k] \in X
  <2> SUFFICES ASSUME NEW k \in 1..n, h[k - 1] \in X
               PROVE  h[k] \in X
    OBVIOUS
  <2>1. h[k] = DataRefStep(h[k - 1], len)
    BY <1>0, <1>7
  <2>2. DataRefStep(h[k - 1], len) \in X
    BY <1>1, <1>2, Zenon
  <2> QED  BY <2>1, <2>2
<1>9. h[0] \in X
  BY <1>0, <1>3, <1>7
<1>10. \A k \in 0..n : h[k] \in X
  BY <1>0, <1>8, <1>9, RecursionStays
<1>11. h[n] \in X
  BY <1>0, <1>10
<1> QED  
  <2>1. h[n] \in Placing
    BY <1>11 DEF X
  <2>2. [track |-> h[n].track, orphans |-> h[n].orphans, open |-> h[n].open] \in Decoded
    BY <2>1 DEF Placing, Decoded
  <2>3. [track |-> track, orphans |-> WithoutData(orphans), open |-> FALSE] \in Decoded
    BY WithoutDataType DEF Decoded
  <2> QED  BY <1>4, <2>2, <2>3

\* A decoded reading has headers and orphans.
LEMMA DecodeTrackType ==
    ASSUME NEW reading \in Seq(Marks), NEW len
    PROVE  DecodeTrack(reading, len) \in Decoded
<1>1. MarksOf(reading, "id", len) \in Seq(SectorsOn(Ids, Int))
  BY MarksType DEF Marks
<1>2. MarksOf(reading, "data", len) \in Seq(SectorsOn(Headers, Int))
  <2>1. \A m \in Marks : m.kind = "data" => m.id \in Headers
    BY DEF Marks
  <2> QED  BY <2>1, MarksType
<1> QED  BY <1>1, <1>2, DataRefsType DEF DecodeTrack

\* Data cut off at the end of the reading is dropped.
LEMMA DropBrokenType ==
    ASSUME NEW m \in Decoded
    PROVE  DropBrokenLast(m) \in [track : Seq(SectorsOn(Ids, Int)), orphans : Seq(SectorsOn(Headers, Int))]
<1>1. m.track \in Seq(SectorsOn(Ids, Int)) /\ m.orphans \in Seq(SectorsOn(Headers, Int))
  BY DEF Decoded
<1>2. Front(m.orphans) \in Seq(SectorsOn(Headers, Int))
  BY <1>1 DEF Front
<1> QED  BY <1>1, <1>2 DEF DropBrokenLast

(***************************************************************************)
(* One revolution of a reading                                             *)
(***************************************************************************)

\* The sector that matches another one is a sector of the track.
LEMMA FirstOfIn ==
    ASSUME NEW t, Len(t) \in Nat, NEW id
    PROVE  FirstOf(t, id) \in 0..Len(t)
<1> DEFINE n == Len(t)
           I == {k \in 1..n : t[k].id = id}
           i == IF I # {} THEN Min(I) ELSE 0
<1>1. FirstOf(t, id) = i
  BY DEF FirstOf, FirstIndex, SelectInSeq
<1>2. I \in SUBSET (1..n) /\ n \in Nat
  OBVIOUS
<1> HIDE DEF n, I
<1>3. i \in 0..n
  BY <1>2, FirstIndexOf
<1> QED  BY <1>1, <1>3 DEF n

\* Bases of the first track and where they are in the second.
LEMMA MatchingIn ==
    ASSUME NEW t, Len(t) \in Nat, DOMAIN t = 1..Len(t), NEW u, Len(u) \in Nat, NEW repeated
    PROVE  /\ DOMAIN FindMatchingSectors(t, u, repeated) \subseteq 1..Len(t)
           /\ \A i \in DOMAIN FindMatchingSectors(t, u, repeated) :
                FindMatchingSectors(t, u, repeated)[i] \in 1..Len(u)
<1> DEFINE bases == {i \in DOMAIN t : /\ t[i].id # Orphan /\ t[i].id \notin DOMAIN repeated
                                      /\ FirstOf(u, t[i].id) # 0}
           f == FindMatchingSectors(t, u, repeated)
<1>1. f = [i \in bases |-> FirstOf(u, t[i].id)]
  BY DEF FindMatchingSectors
<1>2. \A i \in bases : FirstOf(u, t[i].id) \in 1..Len(u)
  <2> SUFFICES ASSUME NEW i \in bases PROVE FirstOf(u, t[i].id) \in 1..Len(u)
    OBVIOUS
  <2>1. FirstOf(u, t[i].id) \in 0..Len(u) /\ FirstOf(u, t[i].id) # 0
    BY FirstOfIn
  <2> QED  BY <2>1
<1>3. bases \subseteq 1..Len(t)
  OBVIOUS
<1> HIDE DEF f, bases
<1>4. DOMAIN f = bases /\ \A i \in bases : f[i] = FirstOf(u, t[i].id)
  BY <1>1
<1> QED  BY <1>2, <1>3, <1>4 DEF f

\* The sector by which another one is placed is one of the matching ones.
LEMMA BaseIn ==
    ASSUME NEW m, NEW n \in Nat, NEW bases, bases \subseteq 1..n, NEW info, NEW off,
           NEW between, NEW forward
    PROVE  BaseOf(m, bases, info, off, between, forward) \in bases \cup {0}
<1> DEFINE before == {b \in bases : m.track[b].off <= off}
           behind == {b \in bases : m.track[b].off >= off}
           base == IF forward THEN Max(before) ELSE Min(behind)
           none == \/ (IF forward THEN before ELSE behind) = {}
                   \/ between /\ (before = {} \/ behind = {})
                   \/ SectorsApart(off, m.track[base].off, info) > 3
<1>1. BaseOf(m, bases, info, off, between, forward) = IF none THEN 0 ELSE base
  BY DEF BaseOf
<1>2. before \subseteq bases /\ behind \subseteq bases
  OBVIOUS
<1>3. before # {} => Max(before) \in before
  <2>1. before \subseteq 1..n
    BY <1>2
  <2> HIDE DEF before
  <2> QED  BY <2>1, GreatestElement
<1>4. behind # {} => Min(behind) \in behind
  <2>1. behind \subseteq 1..n
    BY <1>2
  <2> HIDE DEF behind
  <2>2. behind \subseteq Nat
    BY <2>1
  <2> QED  BY <2>2, LeastElement
<1>5. ~none => (IF forward THEN before ELSE behind) # {}
  OBVIOUS
<1> HIDE DEF none, before, behind
<1> QED  BY <1>1, <1>2, <1>3, <1>4, <1>5

After0 == Nat \ {0}

Parts(B) == [track : Seq(SectorsOn(Ids, B)), orphans : Seq(SectorsOn(Headers, B))]

\* A sector that goes where its base goes ends in the revolution, not at 0.
LEMMA MovedType ==
    ASSUME Lengths, NEW m \in Parts(Int), NEW ref \in Seq(SectorsOn(Ids, Int)), NEW matching,
           DOMAIN matching \subseteq 1..Len(m.track),
           \A i \in DOMAIN matching : matching[i] \in 1..Len(ref),
           NEW H, NEW s \in SectorsOn(H, Int), NEW base \in DOMAIN matching
    PROVE  Moved(m, ref, matching, s, base) \in SectorsOn(H, After0)
<1> DEFINE d == s.off - (m.track[base].off - ref[matching[base]].off)
           r == [s EXCEPT !.off = d % TrackLen]
<1>1. m.track \in Seq(SectorsOn(Ids, Int))
  BY DEF Parts
<1>2. base \in 1..Len(m.track) /\ matching[base] \in 1..Len(ref)
  OBVIOUS
<1>3. m.track[base].off \in Int /\ ref[matching[base]].off \in Int
  BY <1>1, <1>2, SectorFields
<1>4. s.off \in Int
  BY OneSector
<1>5. d \in Int
  BY <1>3, <1>4
<1>6. Moved(m, ref, matching, s, base) = NotZero(r)
  BY DEF Moved
<1> HIDE DEF d
<1>7. d % TrackLen \in Nat
  BY <1>5 DEF Lengths
<1>8. r \in SectorsOn(H, Nat)
  BY <1>7 DEF SectorsOn
<1> HIDE DEF r
<1> QED  BY <1>6, <1>8, NotZeroType DEF After0

LEMMA ReverseType ==
    ASSUME NEW S, NEW t \in Seq(S)
    PROVE  Reverse(t) \in Seq(S)
BY DEF Reverse

\* A reading of several revolutions ends in one (demultiMode).
LEMMA DemultiedType ==
    ASSUME Lengths, NEW m \in Parts(Int), NEW ref \in Seq(SectorsOn(Ids, Int)), NEW matching,
           DOMAIN matching \subseteq 1..Len(m.track),
           \A i \in DOMAIN matching : matching[i] \in 1..Len(ref), NEW info,
           NEW H, NEW ss \in Seq(SectorsOn(H, Int)), NEW between
    PROVE  Demultied(m, ref, matching, info, ss, between) \in Seq(SectorsOn(H, After0))
<1> DEFINE n == Len(ss)
           before == [k \in 1..n |-> BaseOf(m, DOMAIN matching, info, ss[k].off, between, TRUE)]
           behind == [k \in 1..n |-> BaseOf(m, DOMAIN matching, info, ss[k].off, between, FALSE)]
           places == [k \in 1..n |-> k]
           A == {k \in 1..n : before[k] # 0}
           C == {k \in 1..n : before[k] = 0 /\ behind[k] # 0}
           first == Chosen(places, A)
           others == Reverse(Chosen(places, C))
           p == [k \in DOMAIN first |-> Moved(m, ref, matching, ss[first[k]], before[first[k]])]
           q == [k \in DOMAIN others |-> Moved(m, ref, matching, ss[others[k]], behind[others[k]])]
<1>1. n \in Nat /\ DOMAIN ss = 1..n /\ \A k \in 1..n : ss[k] \in SectorsOn(H, Int)
  OBVIOUS
<1>2. Demultied(m, ref, matching, info, ss, between) = p \o q
  BY <1>1 DEF Demultied
<1>a. Len(m.track) \in Nat
  BY DEF Parts
<1>3. /\ \A k \in A : before[k] \in DOMAIN matching
      /\ \A k \in C : behind[k] \in DOMAIN matching
  <2>1. \A k \in 1..n : before[k] \in DOMAIN matching \cup {0} /\ behind[k] \in DOMAIN matching \cup {0}
    BY <1>a, BaseIn
  <2> HIDE DEF before, behind
  <2> QED  BY <2>1
<1> HIDE DEF n, before, behind
<1>4. \A k \in A : Moved(m, ref, matching, ss[k], before[k]) \in SectorsOn(H, After0)
  BY <1>1, <1>3, MovedType
<1>5. \A k \in C : Moved(m, ref, matching, ss[k], behind[k]) \in SectorsOn(H, After0)
  BY <1>1, <1>3, MovedType
<1>6. places \in Seq(1..n) /\ Len(places) = n /\ \A k \in 1..n : places[k] = k
  BY <1>1
<1>7. A \subseteq 1..n /\ C \subseteq 1..n
  OBVIOUS
<1> HIDE DEF A, C, places
<1>8. first \in Seq(A)
  BY <1>6, ChosenType
<1>9. others \in Seq(C)
  BY <1>6, ChosenType, ReverseType
<1> HIDE DEF first, others
<1>10. p \in Seq(SectorsOn(H, After0))
  <2>1. Len(first) \in Nat /\ DOMAIN first = 1..Len(first) /\ \A k \in 1..Len(first) : first[k] \in A
    BY <1>8
  <2>2. \A k \in 1..Len(first) : p[k] \in SectorsOn(H, After0)
    BY <1>4, <2>1
  <2>3. p = [k \in 1..Len(first) |-> p[k]]
    BY <2>1
  <2> HIDE DEF p
  <2> QED  BY <2>1, <2>2, <2>3
<1>11. q \in Seq(SectorsOn(H, After0))
  <2>1. Len(others) \in Nat /\ DOMAIN others = 1..Len(others) /\ \A k \in 1..Len(others) : others[k] \in C
    BY <1>9
  <2>2. \A k \in 1..Len(others) : q[k] \in SectorsOn(H, After0)
    BY <1>5, <2>1
  <2>3. q = [k \in 1..Len(others) |-> q[k]]
    BY <2>1
  <2> HIDE DEF q
  <2> QED  BY <2>1, <2>2, <2>3
<1> HIDE DEF p, q
<1> QED  BY <1>2, <1>10, <1>11, ConcatProperties

(***************************************************************************)
(* Orphans meet parents                                                    *)
(***************************************************************************)

\* A track with parents in order and orphans that are left.
Families(B, D) == [parents : TracksOn(Ids, B), orphans : Seq(SectorsOn(Headers, D))]

\* Orphans are given to parents without moving them.
LEMMA MergeOrphanType ==
    ASSUME NEW B, B \subseteq Int, NEW D, D \subseteq Int, NEW w \in Families(B, D),
           NEW orphan \in SectorsOn(Headers, D), NEW remove, NEW considered
    PROVE  MergeOrphan(w, orphan, remove, considered) \in Families(B, D)
<1> DEFINE n == Len(w.parents)
           places == [k \in DOMAIN w.parents |-> k]
           I == {k \in 1..Len(places) :
                    /\ w.parents[places[k]].id \in considered
                    /\ SuitableParent(orphan, w.parents[places[k]].off)
                    /\ ~(places[k] < Len(w.parents) /\ SuitableParent(orphan, w.parents[places[k] + 1].off))}
           i == IF I # {} THEN Min(I) ELSE 0
           d == OrphanDataMerged(w.parents[i].data, orphan.data)
           p == IF i = 0 THEN w.parents ELSE WithData(w.parents, i, d)
           o == IF i # 0 /\ remove THEN w.orphans ELSE Append(w.orphans, orphan)
<1>1. w.parents \in TracksOn(Ids, B) /\ w.orphans \in Seq(SectorsOn(Headers, D))
  BY DEF Families
<1>2. w.parents \in Seq(SectorsOn(Ids, B)) /\ n \in Nat /\ DOMAIN w.parents = 1..n
  <2>1. w.parents \in Seq(SectorsOn(Ids, B))
    BY <1>1, OrderAround
  <2> QED  BY <2>1
<1>3. ParentOf(orphan, w.parents, considered) = i
  BY DEF ParentOf, FirstIndex, SelectInSeq
<1>4. i \in 0..n
  <2>1. Len(places) = n
    BY <1>2
  <2>2. I \in SUBSET (1..n)
    BY <2>1
  <2> HIDE DEF n, I
  <2> QED  BY <1>2, <2>2, FirstIndexOf
<1> HIDE DEF i
<1>5. MergeOrphan(w, orphan, remove, considered) = [parents |-> p, orphans |-> o]
  BY <1>3 DEF MergeOrphan
<1>6. p \in TracksOn(Ids, B)
  <2>1. CASE i = 0
    BY <1>1, <2>1
  <2>2. CASE i # 0
    <3>1. i \in DOMAIN w.parents /\ i \in 1..n
      BY <1>2, <1>4, <2>2
    <3>2. w.parents[i].data \in Seq(Copies) /\ orphan.data \in Seq(Copies)
      BY <1>2, <3>1, SectorFields, OneSector
    <3>3. d \in Seq(Copies)
      BY <3>2, MergeDataType DEF OrphanDataMerged
    <3> HIDE DEF d
    <3>4. WithData(w.parents, i, d) \in TracksOn(Ids, B)
      BY <1>1, <3>1, <3>3, WithDataOrder
    <3> QED  BY <2>2, <3>4
  <2> QED  BY <2>1, <2>2
<1>7. o \in Seq(SectorsOn(Headers, D))
  BY <1>1
<1> HIDE DEF p, o
<1> QED  BY <1>5, <1>6, <1>7 DEF Families

LEMMA MergeOrphansType ==
    ASSUME NEW B, B \subseteq Int, NEW D, D \subseteq Int, NEW parents \in TracksOn(Ids, B),
           NEW orphans \in Seq(SectorsOn(Headers, D)), NEW remove, NEW considered
    PROVE  MergeOrphansIntoParents(orphans, parents, remove, considered) \in Families(B, D)
<1> DEFINE n == Len(orphans)
           X == Families(B, D)
           first == [parents |-> parents, orphans |-> << >>]
           st == [p \in X \X (1..n) |-> MergeOrphan(p[1], orphans[p[2]], remove, considered)]
           h == CHOOSE f : f =
               [k \in 0..n |-> IF k = 0 THEN first
                           ELSE MergeOrphan(f[k - 1], orphans[k], remove, considered)]
<1>0. n \in Nat
  OBVIOUS
<1>1. \A k \in 1..n : \A x \in X : st[<<x, k>>] = MergeOrphan(x, orphans[k], remove, considered)
  OBVIOUS
<1>2. \A k \in 1..n : \A x \in X : st[<<x, k>>] \in X
  <2>1. \A k \in 1..n : orphans[k] \in SectorsOn(Headers, D)
    OBVIOUS
  <2> HIDE DEF st, n, X
  <2>2. \A k \in 1..n : \A x \in X : MergeOrphan(x, orphans[k], remove, considered) \in X
    BY <2>1, MergeOrphanType DEF X
  <2> QED  BY <1>1, <2>2, Zenon
<1>3. first \in X
  <2>1. << >> \in Seq(SectorsOn(Headers, D))
    OBVIOUS
  <2> QED  BY <2>1 DEF Families
<1>4. MergeOrphansIntoParents(orphans, parents, remove, considered) = h[n]
  BY DEF MergeOrphansIntoParents
<1> HIDE DEF st, X, n, first
<1>5. PICK g : Walks(g, first, st, n, X)
  <2>1. Leads(st, n, X)
    BY <1>2, Zenon DEF Leads
  <2> QED  BY <1>0, <1>3, <2>1, RecursionExists
<1>6. g =
          [k \in 0..n |-> IF k = 0 THEN first
                      ELSE MergeOrphan(g[k - 1], orphans[k], remove, considered)]
  <2>1. \A k \in 0..n : k # 0 => st[<<g[k - 1], k>>] = MergeOrphan(g[k - 1], orphans[k], remove, considered)
    BY <1>0, <1>1, <1>5 DEF Walks
  <2> QED  BY <1>5, <2>1, Zenon DEF Walks
<1>7. h =
          [k \in 0..n |-> IF k = 0 THEN first
                      ELSE MergeOrphan(h[k - 1], orphans[k], remove, considered)]
  BY <1>6, Zenon
<1> HIDE DEF h
<1>8. \A k \in 1..n : h[k - 1] \in X => h[k] \in X
  <2> SUFFICES ASSUME NEW k \in 1..n, h[k - 1] \in X
               PROVE  h[k] \in X
    OBVIOUS
  <2>1. h[k] = MergeOrphan(h[k - 1], orphans[k], remove, considered)
    BY <1>0, <1>7
  <2>2. MergeOrphan(h[k - 1], orphans[k], remove, considered) \in X
    BY <1>1, <1>2, Zenon
  <2> QED  BY <2>1, <2>2
<1>9. h[0] \in X
  BY <1>0, <1>3, <1>7
<1>10. \A k \in 0..n : h[k] \in X
  BY <1>0, <1>8, <1>9, RecursionStays
<1>11. h[n] \in X
  BY <1>0, <1>10
<1> QED  BY <1>4, <1>11 DEF X

\* The readings in one revolution.
Physicals == [track : TracksOn(Ids, After0), orphans : Seq(SectorsOn(Headers, After0))]

\* Where no offset is 0.
LEMMA NotAtZero ==
    ASSUME NEW H, NEW t \in Seq(SectorsOn(H, After0))
    PROVE  After0 \subseteq Int /\ \A k \in 1..Len(t) : t[k].off # 0
<1>1. After0 \subseteq Int
  BY DEF After0
<1>2. \A k \in 1..Len(t) : t[k].off \in After0
  BY <1>1, SectorFields
<1> QED  BY <1>1, <1>2 DEF After0

\* The readings stay in one revolution when another one joins them.
LEMMA SyncDemultiType ==
    ASSUME Lengths, NEW physical0 \in Physicals, NEW reading \in Decoded,
           NEW ref \in Seq(SectorsOn(Ids, Int)), NEW info, NEW repeated
    PROVE  SyncDemultiMergePhysicalUsingTimed(physical0, reading, ref, info, repeated) \in Physicals
<1> DEFINE m == DropBrokenLast(reading)
           matching == FindMatchingSectors(reading.track, ref, repeated)
           t == Demultied(m, ref, matching, info, m.track, FALSE)
           o == Demultied(m, ref, matching, info, m.orphans, TRUE)
           T == AddAll(physical0.track, t)
           O == AddAll(physical0.orphans, o)
           f == MergeOrphansIntoParents(O, T, TRUE, Ids)
<1>1. m \in Parts(Int) /\ m.track = reading.track
  BY DropBrokenType DEF Parts, DropBrokenLast
<1>2. /\ m.track \in Seq(SectorsOn(Ids, Int)) /\ m.orphans \in Seq(SectorsOn(Headers, Int))
      /\ physical0.track \in TracksOn(Ids, After0) /\ physical0.orphans \in Seq(SectorsOn(Headers, After0))
  BY <1>1 DEF Parts, Physicals
<1>3. /\ DOMAIN matching \subseteq 1..Len(m.track)
      /\ \A i \in DOMAIN matching : matching[i] \in 1..Len(ref)
  <2>1. Len(m.track) \in Nat /\ DOMAIN m.track = 1..Len(m.track) /\ Len(ref) \in Nat
    BY <1>2
  <2>2. matching = FindMatchingSectors(m.track, ref, repeated)
    BY <1>1
  <2> HIDE DEF m, matching
  <2> QED  BY <2>1, <2>2, MatchingIn
<1>4. SyncDemultiMergePhysicalUsingTimed(physical0, reading, ref, info, repeated)
        = IF DOMAIN matching = {} THEN physical0 ELSE AsTrack(f)
  BY DEF SyncDemultiMergePhysicalUsingTimed, MergedDemultied
<1> HIDE DEF m, matching
<1>5. t \in Seq(SectorsOn(Ids, After0)) /\ o \in Seq(SectorsOn(Headers, After0))
  BY <1>1, <1>2, <1>3, DemultiedType
<1> HIDE DEF t, o
<1>6. After0 \subseteq Int
  BY DEF After0
<1>7. T \in TracksOn(Ids, After0)
  <2>1. \A k \in 1..Len(t) : t[k].off # 0
    BY <1>5, NotAtZero
  <2>2. T = AddAllOnRing(physical0.track, t, TrackLen)
    BY DEF AddAll
  <2> HIDE DEF T
  <2> QED  BY <1>2, <1>5, <1>6, <2>1, <2>2, AddAllOrder
<1>8. O \in Seq(SectorsOn(Headers, After0))
  <2>1. O = AddAllOnRing(physical0.orphans, o, TrackLen)
    BY DEF AddAll
  <2> HIDE DEF O
  <2> QED  BY <1>2, <1>5, <1>6, <2>1, AddAllType
<1> HIDE DEF T, O
<1>9. f \in Families(After0, After0)
  BY <1>6, <1>7, <1>8, MergeOrphansType
<1> HIDE DEF f
<1>10. AsTrack(f) \in Physicals
  BY <1>9 DEF AsTrack, Families, Physicals
<1> QED  BY <1>4, <1>10

\* What the readings hold is merged into a track.
LEMMA MergeIntoOrder ==
    ASSUME NEW odc \in Physicals, NEW t \in TracksOn(Ids, Int), NEW considered
    PROVE  MergeInto(odc, t, considered) \in TracksOn(Ids, Int)
<1> DEFINE c == Chosen(odc.track, {i \in DOMAIN odc.track : odc.track[i].id \in considered})
           T == AddAll(t, c)
           f == MergeOrphansIntoParents(odc.orphans, T, FALSE, considered)
<1>1. odc.track \in TracksOn(Ids, After0) /\ odc.orphans \in Seq(SectorsOn(Headers, After0))
  BY DEF Physicals
<1>2. After0 \subseteq Int
  BY DEF After0
<1>3. c \in TracksOn(Ids, After0)
  BY <1>1, <1>2, ChosenOrder
<1>4. MergeInto(odc, t, considered) = f.parents
  BY DEF MergeInto
<1> HIDE DEF c
<1>5. c \in Seq(SectorsOn(Ids, After0)) /\ c \in Seq(SectorsOn(Ids, Int))
  <2>1. c \in Seq(SectorsOn(Ids, After0))
    BY <1>3 DEF TracksOn
  <2>2. Seq(SectorsOn(Ids, After0)) \subseteq Seq(SectorsOn(Ids, Int))
    BY <1>2, SubsetOfOffsets
  <2> QED  BY <2>1, <2>2
<1>6. T \in TracksOn(Ids, Int)
  <2>1. \A k \in 1..Len(c) : c[k].off # 0
    BY <1>5, NotAtZero
  <2>2. T = AddAllOnRing(t, c, TrackLen)
    BY DEF AddAll
  <2>3. Int \subseteq Int
    OBVIOUS
  <2> HIDE DEF T
  <2> QED  BY <1>5, <2>1, <2>2, <2>3, AddAllOrder
<1> HIDE DEF T
<1>7. Int \subseteq Int
  OBVIOUS
<1>8. f \in Families(Int, After0)
  BY <1>1, <1>2, <1>6, <1>7, MergeOrphansType
<1> HIDE DEF f
<1> QED  BY <1>4, <1>8 DEF Families

(***************************************************************************)
(* The steps of the assembly                                               *)
(***************************************************************************)

\* The headers of a scan end in one revolution.
LEMMA DecodeResultType ==
    ASSUME InputsFit, NEW scan \in Scans
    PROVE  DecodeResult(scan) \in TracksOn(Ids, After0)
<1> DEFINE s == [k \in DOMAIN scan |-> NotZero(At(scan[k].id, scan[k].off % TrackLen, << >>))]
<1>1. DecodeResult(scan) = AddAllOnRing(<< >>, s, TrackLen)
  BY DEF DecodeResult, AddAll
<1> DEFINE R == [id : Ids, off : Nat, data : {<< >>}]
<1>2. scan \in Seq(R)
  BY DEF InputsFit
<1>3. Len(scan) \in Nat /\ DOMAIN scan = 1..Len(scan)
  <2> HIDE DEF R
  <2> QED  BY <1>2
<1>4. \A k \in 1..Len(scan) : s[k] \in SectorsOn(Ids, After0)
  <2> SUFFICES ASSUME NEW k \in 1..Len(scan)
               PROVE  s[k] \in SectorsOn(Ids, After0)
    OBVIOUS
  <2> DEFINE o == scan[k].off % TrackLen
  <2>1. s[k] = NotZero(At(scan[k].id, o, << >>))
    BY <1>3
  <2> HIDE DEF s
  <2>2. scan[k] \in R
    <3> HIDE DEF R
    <3> QED  BY <1>2
  <2>3. scan[k].id \in Ids /\ scan[k].off \in Nat
    BY <2>2
  <2>4. o \in Nat
    BY <2>3 DEF InputsFit
  <2> HIDE DEF o
  <2>5. At(scan[k].id, o, << >>) \in SectorsOn(Ids, Nat)
    BY <2>3, <2>4 DEF At, SectorsOn
  <2>6. NotZero(At(scan[k].id, o, << >>)) \in SectorsOn(Ids, Nat \ {0})
    BY <2>5, NotZeroType
  <2> QED  BY <2>1, <2>6 DEF After0
<1>5. s \in Seq(SectorsOn(Ids, After0))
  <2>1. s = [k \in 1..Len(scan) |-> s[k]]
    BY <1>3
  <2> HIDE DEF s
  <2> QED  BY <1>3, <1>4, <2>1
<1> HIDE DEF s
<1>6. << >> \in TracksOn(Ids, After0)
  BY EmptyTrack
<1> QED  BY <1>1, <1>5, <1>6, NotAtZero, AddAllOrder

\* What the controller read changes no place.
LEMMA WithReadOrder ==
    ASSUME InputsFit, NEW t \in TracksOn(Ids, Int), NEW answers
    PROVE  WithRead(t, answers) \in TracksOn(Ids, Int)
<1> DEFINE n == Len(t)
           r == WithRead(t, answers)
<1>1. /\ t \in Seq(SectorsOn(Ids, Int)) /\ n \in Nat /\ DOMAIN t = 1..n
      /\ \A i, j \in 1..n : i <= j => t[i].off <= t[j].off
  <2>1. t \in Seq(SectorsOn(Ids, Int))
    BY OrderAround
  <2>2. \A i, j \in 1..n : i <= j => t[i].off <= t[j].off
    BY OrderAround
  <2> QED  BY <2>1, <2>2
<1>2. r = [i \in 1..n |-> IF i \in answers
                          THEN [t[i] EXCEPT !.data = MergeData(@, <<DataOf(t[i].id)>>)] ELSE t[i]]
  BY <1>1 DEF WithRead
<1>3. \A i \in 1..n : t[i] \in SectorsOn(Ids, Int)
  BY <1>1
<1> HIDE DEF r, n
<1>4. ASSUME NEW i \in 1..n
      PROVE  r[i] \in SectorsOn(Ids, Int) /\ r[i].off = t[i].off
  <2> DEFINE d == MergeData(t[i].data, <<DataOf(t[i].id)>>)
  <2>1. t[i] \in SectorsOn(Ids, Int)
    BY <1>3
  <2>2. t[i].data \in Seq(Copies) /\ <<DataOf(t[i].id)>> \in Seq(Copies)
    <3>1. t[i].id \in Ids /\ t[i].data \in Seq(Copies)
      BY <2>1, OneSector
    <3>2. DataOf(t[i].id) \in Goods
      BY <3>1 DEF InputsFit
    <3>3. DataOf(t[i].id) \in Copies
      BY <3>2 DEF Copies
    <3> QED  BY <3>1, <3>3
  <2>3. d \in Seq(Copies)
    BY <2>2, MergeDataType
  <2>4. r[i] = IF i \in answers THEN [t[i] EXCEPT !.data = d] ELSE t[i]
    BY <1>2
  <2> HIDE DEF d
  <2> QED  BY <2>1, <2>3, <2>4 DEF SectorsOn
<1>5. r \in Seq(SectorsOn(Ids, Int)) /\ DOMAIN r = 1..n
  <2>1. n \in Nat /\ r = [i \in 1..n |-> r[i]]
    BY <1>1, <1>2
  <2> QED  BY <1>4, <2>1
<1>6. Ordered(r)
  BY <1>1, <1>4, <1>5 DEF Ordered
<1> QED  BY <1>5, <1>6 DEF TracksOn, r

\* Nor does what the readings hold.
LEMMA WithPhysicalOrder ==
    ASSUME physical \in Physicals, NEW t \in TracksOn(Ids, Int)
    PROVE  WithPhysical(t) \in TracksOn(Ids, Int)
<1> DEFINE m == MergeInto(physical, t, Ids)
<1>1. WithPhysical(t) = IF IsEmptyTrack(physical) THEN t ELSE MergeRepeatedSectors(m)
  BY DEF WithPhysical
<1>2. m \in TracksOn(Ids, Int)
  BY MergeIntoOrder
<1> HIDE DEF m
<1>3. Int \subseteq Int
  OBVIOUS
<1>4. MergeRepeatedSectors(m) \in TracksOn(Ids, Int)
  BY <1>2, <1>3, MergeRepeatedOrder
<1> QED  BY <1>1, <1>4

(***************************************************************************)
(* The order of the sectors                                                *)
(***************************************************************************)

OrderInv ==
    /\ timed \in TracksOn(Ids, After0)
    /\ middle \in TracksOn(Ids, Int)
    /\ physical \in Physicals
    /\ stage \in {"scan", "read", "finish"} => final \in TracksOn(Ids, Int)

\* Empty tracks are in order.
LEMMA FreshOrder ==
    /\ << >> \in TracksOn(Ids, After0) /\ << >> \in TracksOn(Ids, Int)
    /\ NoTrack \in Physicals
<1>1. << >> \in TracksOn(Ids, After0) /\ << >> \in TracksOn(Ids, Int)
  BY EmptyTrack
<1>2. << >> \in Seq(SectorsOn(Headers, After0))
  OBVIOUS
<1> QED  BY <1>1, <1>2 DEF NoTrack, Physicals

\* The steps: a scan tunes two tracks and adds one to the other.
LEMMA ScanOrder ==
    ASSUME InputsFit, OrderInv, Scan
    PROVE  OrderInv'
<1>1. timed' \in TracksOn(Ids, After0)
  <2>1. CASE timed' = timed
    BY <2>1 DEF OrderInv
  <2>2. ASSUME NEW scan \in Scans,
               timed' = AddAll(TuneOffsetsToEachOtherByMin(timed, DecodeResult(scan)).this,
                               TuneOffsetsToEachOtherByMin(timed, DecodeResult(scan)).other)
        PROVE  timed' \in TracksOn(Ids, After0)
    <3> DEFINE w == TuneOffsetsToEachOtherByMin(timed, DecodeResult(scan))
    <3>1. After0 \subseteq Int
      BY DEF After0
    <3>2. DecodeResult(scan) \in TracksOn(Ids, After0) /\ timed \in TracksOn(Ids, After0)
      BY DecodeResultType DEF OrderInv
    <3>3. w \in Walkers(Ids, After0)
      BY <3>1, <3>2, TuneOrder
    <3>4. timed' = AddAllOnRing(w.this, w.other, TrackLen)
      BY <2>2 DEF AddAll
    <3> HIDE DEF w
    <3>5. w.this \in TracksOn(Ids, After0) /\ w.other \in TracksOn(Ids, After0)
      BY <3>3 DEF Walkers
    <3>6. w.other \in Seq(SectorsOn(Ids, After0))
      BY <3>1, <3>5, OrderAround
    <3>7. \A k \in 1..Len(w.other) : w.other[k].off # 0
      BY <3>6, NotAtZero
    <3> QED  BY <3>1, <3>4, <3>5, <3>6, <3>7, AddAllOrder
  <2> QED  BY <2>1, <2>2 DEF Scan
<1>2. middle' = middle /\ physical' = physical /\ final' = final /\ stage = "scan"
  BY DEF Scan
<1> QED  BY <1>1, <1>2 DEF OrderInv

\* Suspicious offsets are adjusted.
LEMMA PrepareOrder ==
    ASSUME InputsFit, OrderInv, Prepare
    PROVE  OrderInv'
<1> DEFINE dropped == DropSectorsFromNeighborCyls(timed)
           info == DetermineOffsetDistanceMinMaxAverage(dropped, found, NoInfo)
<1>1. /\ middle' = AdjustSuspiciousOffsets(dropped, info, FALSE)
      /\ timed' = timed /\ physical' = physical /\ final' = final /\ stage = "scan"
  BY DEF Prepare
<1>2. After0 \subseteq Int /\ Lengths
  BY DEF After0, InputsFit, Lengths
<1>3. dropped \in TracksOn(Ids, After0)
  BY <1>2, DropNeighborsOrder DEF OrderInv
<1> HIDE DEF dropped
<1>4. dropped \in TracksOn(Ids, Int)
  BY <1>2, <1>3, SubsetOfOffsets
<1>5. dropped \in Seq(SectorsOn(Ids, After0))
  BY <1>2, <1>3, OrderAround
<1>6. info \in Measures
  BY <1>2, <1>5, DetermineType
<1> HIDE DEF info
<1>7. middle' \in TracksOn(Ids, Int)
  BY <1>1, <1>2, <1>4, <1>6, AdjustOrder
<1> QED  BY <1>1, <1>7 DEF OrderInv

\* A reading joins the readings, its headers the middle track.
LEMMA ReadPhysicalOrder ==
    ASSUME InputsFit, OrderInv, ReadPhysical
    PROVE  OrderInv'
<1>1. PICK reading, info, m :
        /\ reading \in Readings /\ m = DecodeTrack(reading, ReadingLen)
        /\ \/ physical' = physical
           \/ physical' = SyncDemultiMergePhysicalUsingTimed(physical, m, middle, info, found)
        /\ \/ middle' = middle
           \/ middle' = MergeRepeatedSectors(AddAll(middle, WithoutData(physical'.track)))
  BY DEF ReadPhysical
<1>2. Int \subseteq Int /\ After0 \subseteq Int /\ Lengths
  BY DEF After0, InputsFit, Lengths
<1>3. middle \in TracksOn(Ids, Int) /\ physical \in Physicals
  BY DEF OrderInv
<1>4. physical' \in Physicals
  <2>1. reading \in Seq(Marks)
    BY <1>1 DEF InputsFit
  <2>2. m \in Decoded
    BY <1>1, <2>1, DecodeTrackType
  <2>3. middle \in Seq(SectorsOn(Ids, Int))
    BY <1>2, <1>3, OrderAround
  <2>4. SyncDemultiMergePhysicalUsingTimed(physical, m, middle, info, found) \in Physicals
    BY <1>2, <1>3, <2>2, <2>3, SyncDemultiType
  <2> QED  BY <1>1, <1>3, <2>4
<1>5. middle' \in TracksOn(Ids, Int)
  <2> DEFINE u == WithoutData(physical'.track)
             a == AddAll(middle, u)
  <2>1. physical'.track \in TracksOn(Ids, After0)
    BY <1>4 DEF Physicals
  <2>2. u \in TracksOn(Ids, After0)
    BY <1>2, <2>1, WithoutDataOrder
  <2>3. a = AddAllOnRing(middle, u, TrackLen)
    BY DEF AddAll
  <2>4. middle' = middle \/ middle' = MergeRepeatedSectors(a)
    BY <1>1
  <2> HIDE DEF u, a
  <2>5. u \in Seq(SectorsOn(Ids, After0))
    BY <1>2, <2>2, OrderAround
  <2>6. \A k \in 1..Len(u) : u[k].off # 0
    BY <2>5, NotAtZero
  <2>7. u \in Seq(SectorsOn(Ids, Int))
    BY <1>2, <2>5, SubsetOfOffsets
  <2>8. a \in TracksOn(Ids, Int)
    BY <1>2, <1>3, <2>3, <2>6, <2>7, AddAllOrder
  <2>9. MergeRepeatedSectors(a) \in TracksOn(Ids, Int)
    BY <1>2, <2>8, MergeRepeatedOrder
  <2> QED  BY <1>3, <2>4, <2>9
<1>6. timed' = timed /\ final' = final /\ stage' = stage
  BY DEF ReadPhysical
<1> QED  BY <1>4, <1>5, <1>6 DEF OrderInv

\* Reading sectors moves none; merging the readings inserts theirs.
LEMMA ReadSectorsOrder ==
    ASSUME InputsFit, OrderInv, ReadSectors
    PROVE  OrderInv'
<1>1. PICK answers : /\ middle' = WithRead(middle, answers)
                     /\ final' = WithPhysical(WithRead(middle, answers))
  BY DEF ReadSectors
<1>2. WithRead(middle, answers) \in TracksOn(Ids, Int)
  BY WithReadOrder DEF OrderInv
<1>3. physical \in Physicals
  BY DEF OrderInv
<1>4. WithPhysical(WithRead(middle, answers)) \in TracksOn(Ids, Int)
  BY <1>2, <1>3, WithPhysicalOrder
<1>5. timed' = timed /\ physical' = physical
  BY DEF ReadSectors
<1> QED  BY <1>1, <1>2, <1>4, <1>5 DEF OrderInv

\* A finished track is not put together any more.
LEMMA FinishOrder ==
    ASSUME OrderInv, Finish
    PROVE  OrderInv'
<1>1. stage' \in {"done", "again", "skipped", "failed"}
  BY DEF Finish, Thrown
<1>2. timed' = timed /\ middle' = middle /\ physical' = physical
  BY DEF Finish
<1> QED  BY <1>1, <1>2 DEF OrderInv

\* A new try starts empty.
LEMMA AgainOrder ==
    ASSUME Again
    PROVE  OrderInv'
BY FreshOrder DEF Again, OrderInv

\* The sectors of the tracks that are put together lie in order ([]InOrder), for any
\* scans, readings, numbers of rounds, lengths and tolerances.
THEOREM SectorsInOrder == InputsFit => (AssemblySpec => []InOrder)
<1> SUFFICES ASSUME InputsFit
             PROVE  AssemblySpec => []InOrder
  OBVIOUS
<1>1. AssemblyInit => OrderInv
  BY FreshOrder DEF AssemblyInit, Fresh, OrderInv
<1>2. OrderInv /\ [AssemblyNext]_assemblyVars => OrderInv'
  <2> SUFFICES ASSUME OrderInv, [AssemblyNext]_assemblyVars
               PROVE  OrderInv'
    OBVIOUS
  <2>1. CASE Scan
    BY <2>1, ScanOrder
  <2>2. CASE Prepare
    BY <2>2, PrepareOrder
  <2>3. CASE ReadPhysical
    BY <2>3, ReadPhysicalOrder
  <2>4. CASE ReadSectors
    BY <2>4, ReadSectorsOrder
  <2>5. CASE Finish
    BY <2>5, FinishOrder
  <2>6. CASE Again
    BY <2>6, AgainOrder
  <2>7. CASE UNCHANGED assemblyVars
    BY <2>7 DEF OrderInv, assemblyVars
  <2> QED  BY <2>1, <2>2, <2>3, <2>4, <2>5, <2>6, <2>7 DEF AssemblyNext
<1>3. OrderInv => InOrder
  <2> SUFFICES ASSUME OrderInv
               PROVE  InOrder
    OBVIOUS
  <2>1. /\ timed \in TracksOn(Ids, After0) /\ physical.track \in TracksOn(Ids, After0)
        /\ middle \in TracksOn(Ids, Int)
        /\ stage \in {"scan", "read", "finish"} => final \in TracksOn(Ids, Int)
    BY DEF OrderInv, Physicals
  <2>2. ASSUME NEW t \in TracksOn(Ids, After0)
        PROVE  PastIndex(t)
    <3>1. After0 \subseteq Int
      BY DEF After0
    <3>2. t \in Seq(SectorsOn(Ids, After0))
      BY <3>1, OrderAround
    <3>3. DOMAIN t = 1..Len(t) /\ \A i \in 1..Len(t) : t[i].off \in After0
      BY <3>1, <3>2, SectorFields
    <3> QED  BY <3>3 DEF PastIndex, After0
  <2>3. \A t, B : t \in TracksOn(Ids, B) => Ordered(t)
    BY DEF TracksOn
  <2> QED  BY <2>1, <2>2, <2>3, Zenon DEF InOrder
<1> QED  BY <1>1, <1>2, <1>3, PTL DEF AssemblySpec
===============================================================================

----------------------------- MODULE BitTracks -----------------------------
(***************************************************************************)
(* A track on its way between sectors, bits and flux: sectors are written  *)
(* as bits (BitEncoders), bits and the flux of a medium are scanned for    *)
(* sectors (BitDecoders), as often as images are converted.  Which         *)
(* representation is asked for when is the matter of module TrackData.     *)
(***************************************************************************)
EXTENDS BitDecoders, BuiltIns

CONSTANTS
    Tracks,          \* tracks of sectors, as other images hold them
    FluxMedia,           \* media: [buf, rate, lost], the views of their flux
    CylHead,         \* where the track is
    MaxGenerations   \* times a track is written as bits

VARIABLES
    from,        \* what the sectors came from: "sectors", "bits", "flux", "medium"
    track,       \* the sectors
    medium,      \* the medium they were read from
    written,     \* the sectors that were written as the bits
    buf,         \* the bits
    overflowed,  \* a counter overflowed when they were made
    generation

bitsVars == <<from, track, medium, written, buf, overflowed, generation>>

\* The length of a track at the first sector's encoding and rate, in bits.
NominalBits(sectors) ==
    Bits(sectors[1].enc, TrackCapacity(sectors[1].enc, sectors[1].rate))

Scanners == {"MFM", "Amiga", "Apple", "GCR", "Ace", "MX", "Agat", "Victor", "Vista"}

(***************************************************************************)
(* Specification                                                           *)
(***************************************************************************)

InitBuiltIn ==
    LET \* A built-in disk has its track as bits, or as the flux of a medium that shows them.
        BitsOf(t) == Buffer(Layout(t.parts), t.sectors[1].rate)
    IN  /\ track = << >>
        /\ \/ \E t \in BuiltInBits :
                from = "bits" /\ written = t.sectors /\ buf = BitsOf(t) /\ medium = NoMedium
           \/ \E t \in BuiltInFlux :
                LET b == BitsOf(t) IN
                /\ from = "medium" /\ written = t.sectors /\ buf = b
                /\ medium = [buf |-> b, rate |-> t.sectors[1].rate, lost |-> {}]

BitsInit ==
    LET InitMedium ==
            /\ from = "medium"
            /\ track = << >>
            /\ medium \in FluxMedia
        InitSectors ==
            /\ from = "sectors"
            /\ track \in Tracks \cup BuiltInTracks
            /\ medium = NoMedium
    IN  /\ \/ (InitSectors \/ InitMedium) /\ written = << >> /\ buf = medium.buf
           \/ InitBuiltIn
        /\ overflowed = FALSE /\ generation = 0

\* generate_bitstream; what it refuses stays without bits.
Encode ==
    /\ track # << >> /\ from # "medium" /\ buf = NoBuffer
    /\ generation < MaxGenerations
    /\ \E b \in Encoded(track, NominalBits(track)) :
        buf' = Buffer(b, track[1].rate) /\ overflowed' = b.overflowed
    /\ written' = track
    /\ generation' = generation + 1
    /\ UNCHANGED <<from, track, medium>>

\* scan_bitstream, with the scanner that finds something.
ScanBits ==
    /\ buf # NoBuffer /\ from # "flux"
    /\ \E enc \in Scanners : track' = Scan(enc, buf, CylHead) /\ track' # << >>
    /\ from' = "bits"
    /\ buf' = NoBuffer
    /\ UNCHANGED <<medium, written, overflowed, generation>>

\* scan_flux of a medium, at the rate found last at first.
ScanMedium ==
    /\ from = "medium"
    /\ \E enc \in Scanners, last \in {250, 500} :
        LET w == ScanFlux(medium, enc, CylHead, last) IN track' = w.track /\ track' # << >>
    /\ from' = "flux"
    /\ buf' = NoBuffer
    /\ UNCHANGED <<medium, written, overflowed, generation>>

BitsNext == Encode \/ ScanBits \/ ScanMedium

BitsSpec == BitsInit /\ [][BitsNext]_bitsVars

(***************************************************************************)
(* Properties                                                              *)
(***************************************************************************)

\* Good data was written for the header it is found with: the tracks hold data number n,
\* or n more than a multiple of 50 in another generation, for sector n.
DataMeetsHeader ==
    \A i \in DOMAIN track : HasGoodData(track[i]) => (track[i].data.is - track[i].header.sector) % 50 = 0

\* Nothing but sectors of an ordinary size that no protection is recognised by.
IsProtected(t) ==
    \/ IsKBI19Track(t) \/ IsSpectrumSpeedlockTrack(t) \/ IsCpcSpeedlockTrack(t) \/ IsRainbowArtsTrack(t)
    \/ IsKBIWeakSectorTrack(t) \/ IsLogoProfTrack(t) \/ IsOperaSoftTrack(t) \/ Is8KSectorTrack(t)
    \/ Is11SectorTrack(t)

\* The sectors have no offsets, or the first lies behind the start that is written, and
\* they are no closer to each other than they are long.
Apart(t) ==
    \/ \A i \in DOMAIN t : t[i].offset = 0
    \/ /\ t[1].offset >= Bits(t[1].enc, TrackOverhead(t[1].enc) + 15)
       /\ \A i \in 2..Len(t) :
            t[i].offset - t[i - 1].offset >= Bits(t[i].enc, SectorOverhead(t[i].enc) + Length(t[i - 1]))

Ordinary(t) ==
    /\ ~IsProtected(t) /\ Apart(t)
    /\ \A i \in DOMAIN t : t[i].enc \in {"MFM", "FM"} /\ t[i].header.size < 6 /\ ~HasGapData(t[i])

Kept(s) == [header |-> s.header, good |-> HasGoodData(s), is |-> IF HasGoodData(s) THEN s.data.is ELSE 0]
KeptOf(t) == {Kept(t[i]) : i \in {k \in DOMAIN t : ~t[k].badId}}

\* The weak sector of a protection, 0 if there is none.
WeakOf(t) ==
    CASE IsSpectrumSpeedlockTrack(t) -> 2
      [] IsCpcSpeedlockTrack(t) -> 8
      [] IsRainbowArtsTrack(t) -> 2
      [] IsKBIWeakSectorTrack(t) -> Len(t)
      [] OTHER -> 0

\* Written as bits and read again, an ordinary track has the headers it had, good data
\* where it had good data and nowhere else, and the weak sector of a protection is there
\* twice, bad, with different data (BitstreamEncoder.cpp:119, BitstreamDecoder.cpp:143).
RoundTrip ==
    from \in {"bits", "flux"} /\ track # << >> /\ written # << >> /\ ~overflowed =>
        /\ Ordinary(written) => KeptOf(written) = KeptOf(track)
        /\ WeakOf(written) # 0 =>
            \E i, j \in DOMAIN track :
                /\ \A s \in {track[i], track[j]} :
                    s.header = written[WeakOf(written)].header /\ HasData(s) /\ s.bad
                /\ track[i].data.is # track[j].data.is

\* The sectors with a valid checksum that a track has at places up to a tolerance.
ValidIn(t) == {t[i].header : i \in {k \in DOMAIN t : HasData(t[k]) /\ ~t[k].bad}}

\* Unless a scan of flux ends with everything it found good, no view of the medium at its
\* rate shows a sector with valid data that is not valid in the result
\* (BitstreamDecoder.cpp:1458, :1125).
ViewsAddUp ==
    from = "flux" /\ ~AllGood(track) =>
        \A enc \in {"MFM", "Amiga"} :
            \A n \in DOMAIN ViewsTried(enc, medium.rate) :
                ValidIn(Scan(enc, View(medium, ViewsTried(enc, medium.rate)[n]), CylHead)) \subseteq ValidIn(track)

=============================================================================

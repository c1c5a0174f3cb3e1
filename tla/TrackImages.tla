---------------------------- MODULE TrackImages ----------------------------
(***************************************************************************)
(* Disks saved as images that hold tracks, and such images opened: the     *)
(* readers and writers of DskFiles, SectorFiles and FluxFiles as the       *)
(* operations of a program run (src/src/Image.cpp calls them by type).     *)
(*                                                                         *)
(* A disk in memory holds sectors, bits or flux. Of the images of flux a   *)
(* track is decoded when it is asked for, and kept or given up.            *)
(***************************************************************************)
EXTENDS DskFiles, SectorFiles, FluxFiles

CONSTANTS
    Disks,        \* disks to be saved: [kind, cyls, heads, tracks]
    ForeignFiles, \* files of other programs: [type, file, medium]
    Ways,         \* the options disks are saved with
    ReadWays      \* and images are read with

VARIABLES
    held,      \* the disk in memory, or NoDiskHeld
    image,     \* the file there is: [type, file, made], made with the options of then
    origin,    \* what the file was made of: the saved disk, or the medium
    outcome,   \* what the last operation said
    way,       \* the options
    given      \* of each track of flux, what its loads gave, in their order

imageVars == <<held, image, origin, outcome, way, given>>

NoDiskHeld == [kind |-> "none"]
NoImage == [type |-> "none"]
NoWay == [asked |-> FALSE]

\* The tracks by address that a reader of tracks gives, and all of them in order.
Addressed(d) ==
    [i \in DOMAIN d.tracks |->
        [at |-> <<(i - 1) \div d.heads, (i - 1) % d.heads>>, track |-> d.tracks[i]]]

InOrder(list, cyls, heads) ==
    [i \in 1 .. cyls * heads |->
        LET here == {k \in DOMAIN list : list[k].at = <<(i - 1) \div heads, (i - 1) % heads>>}
        IN  IF here = {} THEN Blank ELSE list[CHOOSE k \in here : TRUE].track]

Sectored(list) ==
    LET cyls == {list[k].at[1] : k \in DOMAIN list}
        heads == {list[k].at[2] : k \in DOMAIN list}
        n == IF cyls = {} THEN 0 ELSE 1 + CHOOSE c \in cyls : \A d \in cyls : d <= c
        sides == IF 1 \in heads THEN 2 ELSE 1
    IN  [kind |-> "sectors", cyls |-> n, heads |-> sides, tracks |-> InOrder(list, n, sides)]

-----------------------------------------------------------------------------
VersionOf(type) == IF type = "rdsk" THEN 2 ELSE 1

Saved(d, type, w, stale) ==
    CASE type \in {"dsk", "rdsk"} -> WriteDsk(d.tracks, d.cyls, d.heads, VersionOf(type), w)
      [] type \in {"d88", "1dd"} -> WriteD88(Addressed(d), d.cyls, d.heads, type, stale)
      [] type = "hfe" -> WriteHFE(d.tracks, d.heads)
      [] type = "mfi" -> WriteMFI(d.tracks, d.cyls, d.heads, stale)

\* The reader of a type. What it gives is a disk of sectors, of bytes or bits, or
\* of flux that is decoded now or later.
Opened(type, f, w) ==
    CASE type \in {"dsk", "rdsk"} -> ReadDsk(f, VersionOf(type), w)
      [] type \in {"d88", "1dd"} -> ReadD88(f)
      [] type = "td0" -> ReadTD0(f, w)
      [] type = "imd" -> ReadIMD(f)
      [] type = "fdi" -> ReadFDI(f)
      [] type = "sdf" -> ReadSDF(f)
      [] type = "dsc" -> ReadDSC(f)
      [] type = "cqm" -> ReadCQM(f)
      [] type = "pdi" -> ReadPDI(f)
      [] type = "dmk" -> ReadDMK(f)
      [] type = "udi" -> ReadUDI(f)
      [] type = "hfe" -> ReadHFE(f)
      [] type = "mfi" -> ReadMFI(f)
      [] type = "scp" -> ReadSCP(f, w)
      [] type = "stream" -> ReadSTREAM(f)
      [] type = "dfi" -> ReadDFI(f)
      [] type = "a2r" -> ReadA2R(f)
      [] type = "woz" -> ReadWOZ(f)
      [] type = "cwtool" -> ReadCWTOOL(f)
      [] type = "ipf" -> ReadIPF(f, w)

\* The types whose tracks are decoded when asked for, and those that give up what
\* the track was decoded from.
Later == {"mfi", "scp", "dfi", "a2r"}
GivenUp == {"dfi", "a2r"}

DiskOf(type, f, result) ==
    LET KindOf ==
            CASE type \in {"dsk", "rdsk"} -> "sectors"
              [] type \in {"d88", "1dd", "td0", "imd", "fdi", "sdf", "dsc"} -> "by address"
              [] type \in Later -> "flux"
              [] OTHER -> "other"
    IN  CASE KindOf = "sectors" ->
                [kind |-> "sectors", cyls |-> f.cyls, heads |-> f.heads, tracks |-> result.tracks]
          [] KindOf = "by address" -> Sectored(result.tracks)
          [] KindOf = "flux" ->
                [kind |-> "flux", tracks |-> result.tracks,
                 tick |-> IF type = "dfi" THEN result.tick ELSE 0]
          [] OTHER -> [kind |-> "other", tracks |-> result.tracks]

-----------------------------------------------------------------------------
ImagesInit ==
    /\ held = NoDiskHeld /\ image = NoImage /\ origin = NoDiskHeld
    /\ outcome = "nothing" /\ given = << >> /\ way = NoWay

\* A disk was read, and is saved as an image of some type; a writer that fails
\* leaves no image. What the MFI writer stores behind its times is undefined, and
\* so is what the D88 writer reads of a sector without data: it crashes, finds no
\* bytes or finds stale ones.
HoldADisk ==
    /\ outcome = "nothing"
    /\ \E d \in Disks : held' = d
    /\ \E w \in Ways : way' = w
    /\ outcome' = "held"
    /\ UNCHANGED <<image, origin, given>>

WithoutDataToo(d) ==
    \E i \in DOMAIN d.tracks : \E k \in DOMAIN d.tracks[i].sectors :
        d.tracks[i].sectors[k].copies = << >>

Stale(type) ==
    CASE type = "mfi" -> {0, 7}
      [] type \in {"d88", "1dd"} /\ WithoutDataToo(held) -> {"zeros", "other bytes"}
      [] OTHER -> {"zeros"}

Undefined(type) ==
    IF type \in {"d88", "1dd"} /\ WithoutDataToo(held) THEN {[said |-> "crashes"], Fails} ELSE {}

SaveTracks(type) ==
    /\ \E result \in {Saved(held, type, way, stale) : stale \in Stale(type)} \cup Undefined(type) :
        /\ outcome' = IF result.said = "yes" THEN "saved" ELSE result.said
        /\ image' = IF result.said = "yes" THEN [type |-> type, file |-> result.file, made |-> way]
                    ELSE NoImage
        /\ origin' = IF result.said = "yes" THEN held ELSE NoDiskHeld
    /\ held' = NoDiskHeld
    /\ UNCHANGED <<way, given>>

SaveAsTracks ==
    LET \* The writers of a disk as it is; another kind is converted before (TrackData).
        TypesFor(kind) ==
            CASE kind = "sectors" -> {"dsk", "rdsk", "d88", "1dd"}
              [] kind = "bits" -> {"hfe"}
              [] kind = "flux" -> {"mfi"}
    IN  outcome = "held" /\ \E type \in TypesFor(held.kind) : SaveTracks(type)

\* A file of another program is met.
MeetAFile ==
    /\ outcome = "nothing"
    /\ \E f \in ForeignFiles :
        /\ image' = [type |-> f.type, file |-> f.file, made |-> way]
        /\ origin' = f.medium
    /\ outcome' = "saved"
    /\ UNCHANGED <<held, way, given>>

\* The image is opened, perhaps with other options.
OpenTracks ==
    /\ outcome = "saved"
    /\ \E w \in ReadWays :
       \E result \in {Opened(image.type, image.file, w)} :
        /\ way' = w
        /\ outcome' = IF result.said = "yes" THEN "read" ELSE result.said
        /\ held' = IF result.said = "yes" THEN DiskOf(image.type, image.file, result)
                   ELSE NoDiskHeld
        /\ given' = IF result.said = "yes" /\ image.type \in Later
                    THEN [i \in DOMAIN result.tracks |-> << >>] ELSE << >>
    /\ UNCHANGED <<image, origin>>

\* A track of flux is asked for, for the first time or again (MaxLoads times).
MaxLoads == 2

LoadTrack ==
    LET \* DemandDisk asks for a track: load of the type.
        LoadOf(type, t, tick) ==
            CASE type = "mfi" -> LoadMFI(t)
              [] type = "scp" -> LoadSCP(t)
              [] type = "dfi" -> LoadDFI(t, tick)
              [] type = "a2r" -> LoadA2R(t)
    IN  /\ outcome = "read" /\ held.kind = "flux"
        /\ \E i \in DOMAIN given : \E result \in {LoadOf(image.type, held.tracks[i], held.tick)} :
            /\ Len(given[i]) < MaxLoads
            /\ IF result.said = "yes"
               THEN /\ given' = [given EXCEPT ![i] = Append(@, result.track.revs)]
                    /\ held' = IF image.type \in GivenUp
                               THEN [held EXCEPT !.tracks[i].revs = << << >> >>] ELSE held
                    /\ UNCHANGED outcome
               ELSE outcome' = "throws" /\ UNCHANGED <<held, given>>
        /\ UNCHANGED <<image, origin, way>>

ImagesSpec ==
    LET ImagesNext == HoldADisk \/ SaveAsTracks \/ MeetAFile \/ OpenTracks \/ LoadTrack
    IN  ImagesInit /\ [][ImagesNext]_imageVars

-----------------------------------------------------------------------------
\* The image is one this program saved, and was read again.
ReadAgain(types) == outcome = "read" /\ image.type \in types /\ origin.kind # "medium"

\* A sector as it was: where it is, whether its header and data are good, which
\* mark it has, and no data but its own.
AsItWas(r, s) ==
    /\ r.id = s.id /\ r.size = s.size /\ r.badId = s.badId /\ r.enc = s.enc
    /\ r.rate = s.rate \/ s.rate = "300K"
    /\ r.copies # << >> =>
          /\ r.bad = s.bad /\ r.dam = s.dam
          /\ \A c \in ToSet(r.copies) : c.len = 0 \/ \E d \in ToSet(s.copies) : c.data = d.data

\* Two tracks the format of EDSK and RDSK cannot tell: a track whose last copy
\* ends where the track must end is saved with other data in that copy, and more
\* than 64K of copies are too many for the size of a sector.
LastCopyIsLost(t, version) ==
    LET put == PutTrack(t, Passes(t.sectors[1].rate, FALSE)[1], TRUE, TrackBytesOf(version))
    IN  t.sectors # << >> /\ put.bytes = TrackBytesOf(version)

CopiesAreLost(t) ==
    \E k \in DOMAIN t.sectors :
        Len(t.sectors[k].copies) * DataLen(t.sectors[k]) >= 65536
          \/ Len(t.sectors[k].copies) * SizeOf(t.sectors[k]) >= 65536

IsKept(t, type) == ~LastCopyIsLost(t, VersionOf(type)) /\ ~CopiesAreLost(t)

\* The track is small enough to be saved as it is.
FitsAtOnce(t, type) ==
    t.sectors # << >> =>
        PutTrack(t, Passes(t.sectors[1].rate, FALSE)[1], FALSE, TrackBytesOf(VersionOf(type))).bytes
            <= TrackBytesOf(VersionOf(type))

\* Every track of a saved disk comes back with its sectors in their order, with
\* the flags and the data they had; sectors with a mark the format knows have
\* data if and only if they had some, good data is as long as it was, and of a
\* track that is small enough all copies of bad data are there. Offsets are kept to
\* 16 bits, when there are any.
DskReturns ==
    \A i \in DOMAIN origin.tracks : IsKept(origin.tracks[i], image.type) =>
        LET sectors == origin.tracks[i].sectors
            now == held.tracks[i].sectors
        IN  /\ Len(now) = Len(sectors)
            /\ \A k \in DOMAIN sectors :
                LET s == Markable(sectors[k]) IN
                /\ AsItWas(now[k], s)
                /\ image.file.offsets # << >> => now[k].offset \in s.offset - 15 .. s.offset + 16
                /\ ((s.copies # << >> /\ ~s.badId) <=> now[k].copies # << >>)
                /\ (GoodData(s) /\ ~s.badId /\ ~image.made.legacy) =>
                       GoodData(now[k]) /\ DataLen(now[k]) >= DataLen(s)
                /\ (FitsAtOnce(origin.tracks[i], image.type) /\ s.bad /\ ~s.badId
                      /\ DataLen(s) <= Capacity(s.rate, s.enc)
                      /\ ~image.made.legacy /\ way.maxcopies >= Len(s.copies)) =>
                       Len(now[k].copies) = Len(s.copies)

\* What is held of a track by its address.
HeldAt(cyl, head) ==
    IF cyl < held.cyls /\ head < held.heads THEN held.tracks[cyl * held.heads + head + 1] ELSE Blank

\* D88 keeps one copy of each sector. The data of a sector without any is not
\* passed over when it is read, so the sectors behind it in its track are lost.
ReturnsD88 ==
    \A i \in DOMAIN origin.tracks : (i - 1) \div origin.heads < D88Cyls =>
        LET sectors == origin.tracks[i].sectors
            now == HeldAt((i - 1) \div origin.heads, (i - 1) % origin.heads).sectors
        IN  /\ (\A k \in DOMAIN sectors : sectors[k].copies # << >>) =>
                   Len(now) = Len(sectors)
            /\ \A k \in DOMAIN now : AsItWas(now[k], sectors[k])

ReturnsHfe ==
    \A i \in DOMAIN origin.tracks :
        /\ held.tracks[i].data = origin.tracks[i].data
        /\ held.tracks[i].len = origin.tracks[i].len

\* The times of a track in an MFI file are the whole, perhaps with a word behind
\* them for which the track is refused.
ReturnsMfi ==
    /\ \A i \in DOMAIN origin.tracks :
        LET was == origin.tracks[i].revs[1]
            now == image.file.tracks[i].revs[1]
            scaled == [k \in DOMAIN was |-> (MfiWhole * was[k]) \div TimeIn(was)]
        IN  /\ Len(now) = Len(was) + 1 /\ SubSeq(now, 1, Len(was)) = scaled
            /\ MfiWhole \in {TimeIn(now), TimeIn(scaled)}
    /\ \A i \in DOMAIN given : \A n \in DOMAIN given[i] : TimeIn(given[i][n][1]) = MfiWhole

TracksReturn ==
    /\ ReadAgain({"dsk", "rdsk"}) => DskReturns
    /\ ReadAgain({"d88", "1dd"}) => ReturnsD88
    /\ ReadAgain({"hfe"}) => ReturnsHfe
    /\ image.type = "mfi" /\ origin.kind # "medium" => ReturnsMfi

\* A disk read from an image and saved again with the same options makes the same
\* image, but for offsets next to the index: what the format cannot keep was lost
\* at the first time.
SameImage(again) ==
    again.said = "yes" /\ again.file = [image.file EXCEPT !.offsets = again.file.offsets]

SavedAgain ==
    ReadAgain({"dsk", "rdsk"}) /\ way = image.made
      /\ (\A i \in DOMAIN origin.tracks : IsKept(origin.tracks[i], image.type)) =>
        SameImage(Saved(held, image.type, way, 0))

-----------------------------------------------------------------------------
\* What a medium has and an image of another program tells of it is what is read:
\* the sectors with their flags and data, the marks in the bytes, the bits, or
\* the times between reversals, as they are after the fixes that are asked for. A
\* file that is not whole is refused.
Bare(t) ==
    [i \in DOMAIN t.sectors |->
        [t.sectors[i] EXCEPT !.offset = 0, !.gap3 = 0,
            !.copies = IF Len(@) > way.maxcopies THEN SubSeq(@, 1, way.maxcopies) ELSE @]]

\* With paranoia, what is stored in excess of a good sector is taken for further
\* copies of it.
ExcessIn(t) == \E k \in DOMAIN t.sectors : ~t.sectors[k].bad /\ DataLen(t.sectors[k]) > SizeOf(t.sectors[k])

SectorsOfMedium ==
    LET tracks == IF way.fix THEN origin.fixed ELSE origin.tracks
    IN  /\ held.cyls = origin.cyls /\ held.heads = origin.heads
        /\ \A i \in DOMAIN tracks : ~(way.paranoia /\ ExcessIn(origin.tracks[i])) =>
               Bare(held.tracks[i]) = Bare(tracks[i])

\* A track asked for again gives the same, or nothing if it was given up. From an
\* A2R come the bytes of a header, too, in the place of as many at the end.
FluxOfMedium ==
    \A i \in DOMAIN given : \A n \in DOMAIN given[i] :
        CASE n > 1 /\ image.type \in GivenUp -> given[i][n] = << >>
          [] image.type = "a2r" ->
                LET was == FlattenSeq(origin.tracks[i])
                    now == FlattenSeq(given[i][n])
                IN  \E k \in 0 .. A2rHeader : k < Len(now) /\
                        \A j \in k + 1 .. Len(now) - 1 : now[j] = was[j - k]
          [] OTHER -> given[i][n] = origin.tracks[i]

MediaAreRead ==
    origin.kind = "medium" =>
        /\ outcome \in {"throws", "no"} => ~origin.whole
        /\ outcome = "read" /\ held.kind = "sectors" => origin.whole /\ SectorsOfMedium
        /\ outcome = "read" /\ held.kind = "flux" => FluxOfMedium
        /\ outcome = "read" /\ held.kind = "other" =>
               origin.whole /\ held.tracks = IF way.fix THEN origin.fixed ELSE origin.tracks
=============================================================================

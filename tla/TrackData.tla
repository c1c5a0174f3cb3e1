----------------------------- MODULE TrackData -----------------------------
(***************************************************************************)
(* One track in up to three representations, made from each other when     *)
(* they are asked for (src/src/TrackData.cpp): decoded sectors ("track"),  *)
(* a bitstream ("bits") and flux reversals ("flux").  Decoding tries the   *)
(* known encodings one after the other, beginning with the one that was    *)
(* found last (scan_flux and scan_bitstream of src/src/BitstreamDecoder.   *)
(* cpp, both with a memory of their own); encoding is refused for some     *)
(* sectors (src/src/BitstreamEncoder.cpp).                                 *)
(*                                                                         *)
(* What is on the medium is a set of [enc, good]: the encodings in which   *)
(* sectors can be found, with good data or not.  A bitstream decoded from  *)
(* flux fits the bit cells of one encoding ("view").                       *)
(***************************************************************************)
EXTENDS Integers, Sequences, SequencesExt, FiniteSets

CONSTANTS
    Contents,      \* what a track can hold
    Asked,         \* --encoding, "Unknown" when not given
    MultiFormat,   \* --multi-format
    NoTTB,         \* --no-ttb
    Prefer,        \* --prefer
    MaxTracks

VARIABLES
    source,      \* what the track was loaded as
    content,     \* what is on the medium
    td,          \* the track data
    last,        \* the encodings found last, by a bitstream scan and by a flux scan
    outcome,     \* how the last request ended
    tracks       \* tracks loaded

dataVars == <<source, content, td, last, outcome, tracks>>

Encodings == <<"MFM", "Amiga", "GCR", "Victor", "Apple">>

NoData == [flags |-> {}, normalised |-> FALSE, sectors |-> {}, view |-> "any"]

\* Does a bitstream of this view show sectors of the encoding?  Amiga and double
\* density MFM share the bit cells.
Shows(view, e) == view \in {"any", e} \/ {view, e} = {"MFM", "Amiga"}

\* Mutant: only the encoding found last is tried.
Tried_Recent(recent) == IF Asked # "Unknown" THEN <<Asked>> ELSE <<recent>>

\* The encodings tried, the one found last moved to the front.
Tried(recent) ==
    LET place == CHOOSE p \in DOMAIN Encodings : Encodings[p] = recent
    IN  IF Asked # "Unknown" THEN <<Asked>>
        ELSE [i \in DOMAIN Encodings |->
                 IF i = 1 THEN recent ELSE Encodings[IF i <= place THEN i - 1 ELSE i]]

(***************************************************************************)
(* Scanning                                                                *)
(***************************************************************************)

AddSectors(d, sectors) ==
    [d EXCEPT !.flags = @ \cup {"track"}, !.sectors = @ \cup sectors]

Shown(e, view) == {c \in content : c.enc = e /\ Shows(view, e)}

\* The scanner of Victor adds no track when it finds no good data.
AddsNothing(e, view) == e = "Victor" /\ \A c \in Shown(e, view) : ~c.good

\* What one scanner adds to the sectors.
Scanned(e, view) == IF AddsNothing(e, view) THEN {} ELSE Shown(e, view)

\* The encodings tried at which the track has sectors, when each adds what it scans.
Finds(d, adds) == {i \in DOMAIN adds : d.sectors # {} \/ adds[i] # {}}

\* Mutant: the scan goes on after sectors were found.
Ended_GoesOn(d, adds) == Len(adds)

\* The last encoding tried.
Ended(d, adds) == IF MultiFormat \/ Finds(d, adds) = {} THEN Len(adds) ELSE Min(Finds(d, adds))

Added(d, adds) == AddSectors(d, UNION {adds[i] : i \in 1..Ended(d, adds)})

\* The encoding that made the scan end.
Remembered(d, adds, order, recent) ==
    IF MultiFormat \/ Finds(d, adds) = {} THEN recent ELSE order[Ended(d, adds)]

\* The question whether something was found asks for the track: when there is none
\* yet it scans the same bitstream again, which asks again.
ScanBitstream(d) ==
    LET order == Tried(last.bits)
        adds == [i \in DOMAIN order |-> Scanned(order[i], d.view)]
        stuck == "track" \notin d.flags /\ AddsNothing(order[1], d.view)
    IN  [d |-> IF stuck THEN d ELSE Added(d, adds), stuck |-> stuck,
         last |-> IF stuck THEN last.bits ELSE Remembered(d, adds, order, last.bits)]

\* The track is there, empty, before anything is scanned.  Each scanner decodes the
\* flux to a bitstream of its own, which replaces the last.
ScanFlux(d) ==
    LET order == Tried(last.flux)
        adds == [i \in DOMAIN order |-> Scanned(order[i], order[i])]
        bits == [d EXCEPT !.flags = @ \cup {"bits"}, !.view = order[Ended(d, adds)]]
    IN  [d |-> Added(bits, adds), last |-> Remembered(d, adds, order, last.flux)]

(***************************************************************************)
(* Generating                                                              *)
(***************************************************************************)

\* An empty track is a special format, which is always generated; otherwise a
\* bitstream is made of PC and Amiga sectors when they fit.
Generated(d, fits) ==
    IF \/ d.sectors = {}
       \/ ~NoTTB /\ fits /\ \A s \in d.sectors : s.enc \in {"MFM", "Amiga"}
    THEN [d EXCEPT !.flags = @ \cup {"bits"}, !.view = "any"]
    ELSE d

(***************************************************************************)
(* Asking for a representation                                             *)
(***************************************************************************)

\* The answer: the track data, the memory of the scans, and what went wrong.
Answer(d, mem, problem) == [d |-> d, last |-> mem, problem |-> problem]

Bitstream(d, fits) ==
    LET scan == ScanFlux(d)
        generated == Generated(AddSectors(d, {}), fits)
    IN  CASE "bits" \in d.flags -> Answer(d, last, "none")
          [] "bits" \notin d.flags /\ "track" \notin d.flags /\ "flux" \in d.flags ->
                Answer(scan.d, [last EXCEPT !.flux = scan.last], "none")
          [] OTHER -> Answer(generated, last,
                             IF "bits" \in generated.flags THEN "none" ELSE "refused")

\* A track that came from flux is already there when its bitstream is scanned too.
TrackOf(d, fits) ==
    LET bits == Bitstream(d, fits)
        scan == ScanBitstream(bits.d)
    IN  CASE "track" \in d.flags -> Answer(d, last, "none")
          [] "track" \notin d.flags /\ bits.problem # "none" -> bits
          [] OTHER -> Answer(scan.d, [bits.last EXCEPT !.bits = scan.last],
                             IF scan.stuck THEN "stuck" ELSE "none")

Flux(d, fits) ==
    LET bits == Bitstream(d, fits)
    IN  CASE "flux" \in d.flags -> Answer(d, last, "none")
          [] "flux" \notin d.flags /\ bits.problem # "none" -> bits
          [] OTHER -> [bits EXCEPT !.d.flags = @ \cup {"flux"}, !.d.normalised = TRUE]

\* What a writer of images gets: a copy.  Raw flux is left out unless it is asked for.
Preferred(d, fits) ==
    CASE \/ Prefer = "track"
         \/ Prefer = "Unknown" /\ "flux" \in d.flags /\ ~d.normalised -> TrackOf(d, fits)
      [] Prefer = "bits" -> Bitstream(d, fits)
      [] Prefer = "flux" -> Flux(d, fits)
      [] OTHER -> Answer(d, last, "none")

(***************************************************************************)
(* Requests                                                                *)
(***************************************************************************)

DataInit ==
    /\ source = "none" /\ content = {} /\ td = NoData
    /\ last = [bits |-> "MFM", flux |-> "MFM"]
    /\ outcome = "none" /\ tracks = 0

Load ==
    /\ tracks < MaxTracks /\ outcome # "stuck"
    /\ source' \in {"none", "track", "bits", "flux"}
    /\ content' \in Contents
    /\ \E normalised \in BOOLEAN :
        td' = [NoData EXCEPT !.flags = {source'} \ {"none"},
                             !.sectors = IF source' = "track" THEN content' ELSE {},
                             !.normalised = source' = "flux" /\ normalised]
    /\ outcome' = "none" /\ tracks' = tracks + 1
    /\ UNCHANGED last

Ask(Request(_, _)) ==
    /\ tracks > 0 /\ outcome # "stuck"
    /\ \E fits \in BOOLEAN :
        \E answer \in {Request(td, fits)} :
            td' = answer.d /\ last' = answer.last /\ outcome' = answer.problem
    /\ UNCHANGED <<source, content, tracks>>

AskTrack == Ask(TrackOf)
AskBitstream == Ask(Bitstream)
AskFlux == Ask(Flux)

\* The representation that is preferred is made in the original, the raw flux only
\* replaced in the copy.
AskPreferred ==
    /\ tracks > 0 /\ outcome # "stuck"
    /\ \E fits \in BOOLEAN :
        \E answer \in {Preferred(td, fits)} :
            /\ td' = IF Prefer = "Unknown" THEN td ELSE answer.d
            /\ last' = answer.last
            /\ outcome' = answer.problem
    /\ UNCHANGED <<source, content, tracks>>

DataNext == Load \/ AskTrack \/ AskBitstream \/ AskFlux \/ AskPreferred

DataSpec == DataInit /\ [][DataNext]_dataVars

(***************************************************************************)
(* Properties                                                              *)
(***************************************************************************)

\* Is it looked for?
LookedFor(e) == IF Asked = "Unknown" THEN e \in ToSet(Encodings) ELSE e = Asked

\* What is on the medium is found whatever was decoded before it: the memory of
\* the last encoding changes the order of the scans only (scan_flux, scan_bitstream).
FormatsAreFound ==
    "track" \in td.flags /\ source \in {"bits", "flux"} =>
        \A c \in content : c.good /\ LookedFor(c.enc) => td.sectors # {}

\* The bitstream kept of a flux track is one that shows the sectors found in it,
\* not that of an encoding that was tried in vain (scan_flux, TrackData::bitstream).
BitsShowTheSectors ==
    source = "flux" /\ {"track", "bits"} \subseteq td.flags /\ td.sectors # {} /\ ~MultiFormat =>
        \E s \in td.sectors : Shows(td.view, s.enc)

\* "Scan for formats, starting with the last successful encoding"
\* (BitstreamDecoder.cpp:155): a scan comes to its end.
ScansEnd == outcome # "stuck"
=============================================================================

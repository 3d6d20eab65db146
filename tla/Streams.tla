------------------------------ MODULE Streams -------------------------------
(***************************************************************************)
(* What internal/transcoder reads from a file's streams, which of them it  *)
(* maps into the output, and what becomes of them there.                   *)
(*                                                                         *)
(* A video stream is [codec, dovi]: its codec name, "none" when ffprobe    *)
(* has no name, and whether it carries a Dolby Vision record.  An audio    *)
(* stream is [lang, title]: its language tag, "none" without one, and the  *)
(* languages its title names.  A subtitle stream is [lang, codec].         *)
(***************************************************************************)
EXTENDS Integers, Sequences, FiniteSets

ImageCodecs == {"mjpeg", "png"}

IsVideoCodec(codec) == codec \notin {"none", "unknown"} \cup ImageCodecs

\* The scanner's probe looks at the first video stream only ...
ProbeCodec(video) ==
    IF video = <<>> \/ Head(video).codec = "none" THEN "unknown" ELSE Head(video).codec

\* ... the transcoder's at the first one that has a codec name.
Named(video) == {i \in DOMAIN video : video[i].codec # "none"}

FirstNamed(video) == CHOOSE i \in Named(video) : \A k \in Named(video) : i <= k

Probe(file) ==
    [VideoCodec |-> IF Named(file.video) = {} THEN "unknown"
                    ELSE file.video[FirstNamed(file.video)].codec,
     DolbyVision |-> \E i \in DOMAIN file.video : file.video[i].dovi,
     BitrateBps |-> file.rate]

-----------------------------------------------------------------------------
(* Languages.                                                                *)

\* Some of the aliases; the rest behave alike.
normalizeLang(l) ==
    CASE l \in {"en", "english"} -> "eng"
      [] l \in {"ja", "japanese"} -> "jpn"
      [] l \in {"none", "unknown"} -> "und"
      [] OTHER -> l

\* A nil list and an empty one ask for the same: everything.
normalizeLangs(langs) == UNION {{normalizeLang(l) : l \in langs[i]} : i \in DOMAIN langs}

-----------------------------------------------------------------------------
(* Selection: the positions of the streams that are kept.                    *)

Tagged(tracks, want) == {i \in DOMAIN tracks : normalizeLang(tracks[i].lang) \in want}

Titled(tracks, want) == {i \in DOMAIN tracks : tracks[i].title \cap want # {}}

\* Slip: tracks nobody recognises are dropped.
SelectAudioOrNothing(tracks, langs) ==
    LET want == normalizeLangs(langs)
    IN  IF want = {} THEN DOMAIN tracks
        ELSE IF Tagged(tracks, want) # {} THEN Tagged(tracks, want)
        ELSE Titled(tracks, want)

\* Tags first, titles when no tag matches, everything when neither does.
SelectAudio(tracks, langs) ==
    LET want == normalizeLangs(langs)
    IN  IF want = {} THEN DOMAIN tracks
        ELSE IF Tagged(tracks, want) # {} THEN Tagged(tracks, want)
        ELSE IF Titled(tracks, want) # {} THEN Titled(tracks, want)
        ELSE DOMAIN tracks

subtitleAllowedIn(codec, container) ==
    container = "mp4" => codec \in {"subrip", "mov_text", "ass"}

\* Slip: only the codecs matroska cannot store are thought of.
needsTextConvertInMkv(codec, container) == container = "mkv" /\ codec = "mov_text"

needsTextConvert(codec, container) ==
    IF container = "mp4" THEN codec # "mov_text" ELSE codec = "mov_text"

SelectSubtitles(tracks, langs, container) ==
    LET want == normalizeLangs(langs)
    IN  {i \in DOMAIN tracks :
            /\ want = {} \/ normalizeLang(tracks[i].lang) \in want
            /\ subtitleAllowedIn(tracks[i].codec, container)}

\* One -c:s for all of them: a single track that needs it has them all converted.
ConvertsSubtitles(tracks, kept, container) ==
    \E i \in kept : needsTextConvert(tracks[i].codec, container)

SubtitleCodecArg(container) == IF container = "mp4" THEN "mov_text" ELSE "subrip"

-----------------------------------------------------------------------------
(* The output of the command line that args renders.                         *)

Increasing(q) == \A m, n \in DOMAIN q : m < n => q[m] < q[n]

\* The positions that are kept, in the order of the source.
Ordered(positions) ==
    CHOOSE q \in [1..Cardinality(positions) -> positions] : Increasing(q)

\* The tracks at these positions.
At(s, positions) == [n \in 1..Cardinality(positions) |-> s[Ordered(positions)[n]]]

\* ffmpeg cannot turn a bitmap into text.
CanConvert(tracks, kept) == \A i \in kept : tracks[i].codec # "hdmv_pgs_subtitle"

\* The first video stream in the new codec, with the Dolby Vision label it
\* had; the audio tracks with their tags and titles; the subtitles, converted
\* together or copied together.
Output(file, target, prof, size, rate) ==
    LET audio == SelectAudio(file.audio, prof.audio_languages)
        subs == SelectSubtitles(file.subs, prof.subtitle_languages, prof.container)
        convert == ConvertsSubtitles(file.subs, subs, prof.container)
    IN  [file EXCEPT
            !.video = << [codec |-> target, dovi |-> Head(file.video).dovi] >>,
            !.size = size,
            !.rate = rate,
            !.container = prof.container,
            !.audio = At(file.audio, audio),
            !.subs = [n \in DOMAIN At(file.subs, subs) |->
                        [At(file.subs, subs)[n] EXCEPT
                            !.codec = IF convert THEN SubtitleCodecArg(prof.container) ELSE @]]]

\* Does ffmpeg accept the command?
Muxable(file, prof) ==
    LET subs == SelectSubtitles(file.subs, prof.subtitle_languages, prof.container)
    IN  ConvertsSubtitles(file.subs, subs, prof.container) => CanConvert(file.subs, subs)
=============================================================================

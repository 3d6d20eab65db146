----------------------------- MODULE Conversion -----------------------------
(***************************************************************************)
(* One movie on its way through the program, again and again: the scanner  *)
(* walks the libraries that hold it and queues it, users queue it, a       *)
(* worker skips it or encodes it, and the output, which may have another   *)
(* extension and so another path, is what the next scan finds.             *)
(*                                                                         *)
(* This module is about the rules, applied to their own results; how jobs  *)
(* race and how the file is replaced safely are in JobQueue and FileSwap,  *)
(* so that a job here is one at a time and replaces the file in one step.  *)
(***************************************************************************)
EXTENDS Profiles, Streams

CONSTANTS
    Configs,        \* the loaded configurations to look at
    Dir,            \* the directory the movie is in
    Codecs,         \* names of video codecs, and "none"
    Files,          \* the movies a release can bring
    Containers,     \* extensions: "mkv", "mp4" and those only sources have
    AllowHardlinked \* worker.allow_hardlinked

ASSUME ConversionAssumption ==
    /\ \A c \in Configs :
          /\ Validate(c)
          /\ c.libraries \in Seq([name : STRING, path : Seq(STRING), profile : STRING,
                                  enabled : BOOLEAN])
    /\ {"hevc", "av1"} \subseteq Codecs
    /\ IsFiniteSet(Containers) /\ {"mkv", "mp4"} \subseteq Containers
    /\ Files \subseteq
          [video : Seq([codec : Codecs, dovi : BOOLEAN]), size : Nat, rate : Nat,
           container : Containers, audio : Seq([lang : STRING, title : SUBSET STRING]),
           subs : Seq([lang : STRING, codec : STRING]), links : Nat]
    /\ AllowHardlinked \in BOOLEAN

VARIABLES
    config,     \* one of Configs; never changes
    file,       \* the movie as it is now; its container is its extension
    made,       \* the library whose encode it is, 0 if it came from outside
    rows,       \* for each path (extension) the library of its job row, 0 if none
    stage       \* the job of the current path: "idle", "queued", "encoding"

vars == <<config, file, made, rows, stage>>

Libraries == DOMAIN config.libraries

TypeOK ==
    /\ config \in Configs
    /\ file.container \in Containers
    /\ file.size \in Nat /\ file.rate \in Nat
    /\ file.video \in Seq([codec : Codecs, dovi : BOOLEAN])
    /\ made \in Libraries \cup {0}
    /\ rows \in [Containers -> Libraries \cup {0}]
    /\ stage \in {"idle", "queued", "encoding"}

Init ==
    /\ config \in Configs
    /\ file \in Files
    /\ made = 0
    /\ rows = [c \in Containers |-> 0]
    /\ stage = "idle"

\* The library of the job, by its name in the row; the row's profile column is
\* that library's profile.
Filed == rows[file.container]

TargetOf(i) == TargetCodec(config, ProfileFor(config, i))

Seeding == file.links > 1 /\ ~ AllowHardlinked

-----------------------------------------------------------------------------
(* The scanner.                                                              *)

\* Slip: only rows of unfinished jobs are known.
KnownIfLive == Filed # 0 /\ stage # "idle"

\* KnownPaths: every row counts, whatever its status.
Known == Filed # 0

\* Slip: the scanner compares with encoder.codec, whatever the profile says.
WantedByEncoder(i) ==
    LET codec == ProbeCodec(file.video)
    IN  IsVideoCodec(codec) /\ NeedsWork(codec, file.size, config.encoder, ProfileFor(config, i))

Wanted(i) ==
    LET codec == ProbeCodec(file.video)
    IN  IsVideoCodec(codec) /\ NeedsWork(codec, file.size, TargetOf(i), ProfileFor(config, i))

\* The walk of library i comes to the movie.  Walks follow the order of the
\* configuration, but a file can become Eligible (old enough), or a probe fail,
\* between two of them: any library may be the first to judge it.
Examine(i) ==
    /\ config.libraries[i].enabled
    /\ i \in Holding(config, Dir)
    /\ ~ Known
    /\ ~ Seeding
    /\ Wanted(i)
    /\ rows' = [rows EXCEPT ![file.container] = i]
    /\ stage' = "queued"
    /\ UNCHANGED <<config, file, made>>

-----------------------------------------------------------------------------
(* Users.                                                                    *)

\* enqueue: a row that exists keeps its library and is queued again, unless it
\* is active.
Enqueue(i) ==
    /\ Holding(config, Dir) # {}
    /\ stage = "idle"
    /\ rows' = IF Known THEN rows ELSE [rows EXCEPT ![file.container] = i]
    /\ stage' = "queued"
    /\ UNCHANGED <<config, file, made>>

\* POST /api/jobs with a library name, which need not be one that holds the path.
AddNamed == \E i \in Libraries : Enqueue(i)

\* The same without a name, and the webhook of Sonarr and Radarr.
AddUnnamed == \E i \in Libraries : IsLibraryFor(config, Dir, i) /\ Enqueue(i)

\* DELETE of a row that is not active.
DeleteRow(c) ==
    /\ rows[c] # 0
    /\ ~ (c = file.container /\ stage = "encoding")
    /\ rows' = [rows EXCEPT ![c] = 0]
    /\ stage' = IF c = file.container THEN "idle" ELSE stage
    /\ UNCHANGED <<config, file, made>>

-----------------------------------------------------------------------------
(* The outside world.                                                        *)

\* The library manager imports another release, perhaps under another
\* extension; a job that waits for the old path will not find it.
Import(f) ==
    /\ stage # "encoding"
    /\ file' = f
    /\ made' = 0
    /\ stage' = IF f.container = file.container THEN stage ELSE "idle"
    /\ UNCHANGED <<config, rows>>

\* The torrent client drops its link.
StopSeeding ==
    /\ file.links > 1
    /\ file' = [file EXCEPT !.links = 1]
    /\ UNCHANGED <<config, made, rows, stage>>

-----------------------------------------------------------------------------
(* Transcode.                                                                *)

\* Slip: Dolby Vision is not looked for.
ReasonBlindToDolby(i) ==
    skipReason([Probe(file) EXCEPT !.DolbyVision = FALSE], file.size, TargetOf(i), ProfileFor(config, i))

Reason(i) == skipReason(Probe(file), file.size, TargetOf(i), ProfileFor(config, i))

\* Slip: what is in the queue is encoded.
AcceptedUnjudged == ~ Seeding /\ IsVideoCodec(Probe(file).VideoCodec)

Accepted == ~ Seeding /\ IsVideoCodec(Probe(file).VideoCodec) /\ Reason(Filed) = "none"

Skip ==
    /\ stage = "queued"
    /\ ~ Accepted
    /\ stage' = "idle"
    /\ UNCHANGED <<config, file, made, rows>>

Start ==
    /\ stage = "queued"
    /\ Accepted
    /\ stage' = "encoding"
    /\ UNCHANGED <<config, file, made, rows>>

\* An error before or in ffmpeg, the output is no smaller, or the move fails:
\* the original stays.
KeepOriginal ==
    /\ stage = "encoding"
    /\ stage' = "idle"
    /\ UNCHANGED <<config, file, made, rows>>

\* The output replaces the original.  Its size is some smaller one; its bit
\* rate may come out as anything.  It is a file of its own: nothing links to it.
Install(size, rate) ==
    /\ stage = "encoding"
    /\ Muxable(file, ProfileFor(config, Filed))
    /\ Head(file.video).codec # "none"
    /\ size < file.size
    /\ file' = [Output(file, TargetOf(Filed), ProfileFor(config, Filed), size, rate)
                   EXCEPT !.links = 1]
    /\ made' = Filed
    /\ UNCHANGED <<config, rows>>

Replace(size, rate) == Install(size, rate) /\ stage' = "idle"

\* The worker is shut down: the row is interrupted, and queued again.
Shutdown ==
    /\ stage = "encoding"
    /\ stage' = "queued"
    /\ UNCHANGED <<config, file, made, rows>>

\* The same during the swap, which goes on: the job will be run again on its
\* own output, or, after a change of container, on a path without a file.
ReplaceUnrecorded(size, rate) ==
    /\ Install(size, rate)
    /\ stage' = IF file'.container = file.container THEN "queued" ELSE "idle"

-----------------------------------------------------------------------------

JobStep ==
    \/ Skip \/ Start \/ KeepOriginal
    \/ \E size \in 0..(file.size - 1), rate \in 0..file.rate : Replace(size, rate)

ScanStep == \E i \in Libraries : Examine(i)

UserStep ==
    \/ AddNamed \/ AddUnnamed
    \/ \E c \in Containers : DeleteRow(c)

WorldStep ==
    \/ \E f \in Files : Import(f)
    \/ StopSeeding
    \/ Shutdown
    \/ \E size \in 0..(file.size - 1), rate \in 0..file.rate : ReplaceUnrecorded(size, rate)

Next == JobStep \/ ScanStep \/ UserStep \/ WorldStep

Spec == Init /\ [][Next]_vars

\* Queued jobs are taken up and end; nothing makes a scan or a user act.
FairSpec == Spec /\ WF_vars(JobStep)

-----------------------------------------------------------------------------
(* Properties.                                                               *)

\* The scanner and the transcoder judge alike.  What the scanner wants is not
\* skipped later except for what only the transcoder looks at, Dolby Vision
\* and the bit rate; what it leaves would have been skipped, unless its
\* probe could not name the first video stream.
RulesAgree ==
    \A i \in Libraries :
        IF Wanted(i)
        THEN Reason(i) \in {"none", "dolby vision", "low bit rate"}
        ELSE \/ Reason(i) # "none"
             \/ ~ IsVideoCodec(Probe(file).VideoCodec)
             \/ Head(file.video).codec = "none"

\* The scanner does not want what an encode for the same library has made,
\* though it may be at a path that no job knows, unless it is still too big.
OwnWorkIsLeft ==
    made # 0 /\ Wanted(made) => Oversized(ProfileFor(config, made), file.size)

\* No library encodes its own output again unless it is still too big, even if
\* a user asks for it or a shutdown has left the finished job in the queue.
NoEncodeIsRepeated ==
    stage = "encoding" /\ made # 0 /\ Filed = made =>
        Oversized(ProfileFor(config, made), file.size)

\* README: a Dolby Vision source is skipped: no output claims Dolby Vision
\* unless its profile allows that, whichever libraries the file went through.
NoFalseDolbyVision ==
    made # 0 /\ Head(file.video).dovi => ProfileFor(config, made).allow_dolby_vision

\* The wanted languages that a file's audio is tagged with, and those that the
\* titles of its tracks name.
Heard(f, want) == {normalizeLang(f.audio[n].lang) : n \in DOMAIN f.audio} \cap want
Announced(f, want) == {l \in want : \E n \in DOMAIN f.audio : l \in f.audio[n].title}

\* What an encode may drop of the sound: no wanted language that a tag names;
\* if no tag names one, no wanted language that a title names; and if nothing
\* says that a wanted language is there, not a single track.  Nor does a library
\* that encodes its own output once more drop any more of it.  (A track that only
\* its title identifies is dropped beside one that is tagged, and unidentified
\* tracks are dropped beside one that has such a title.)
WantedAudioSurvives ==
    [][made' # 0 /\ file'.size < file.size =>
          LET want == normalizeLangs(ProfileFor(config, made').audio_languages)
          IN  /\ Heard(file, want) \subseteq Heard(file', want)
              /\ Heard(file, want) = {} => Announced(file, want) \subseteq Announced(file', want)
              /\ Heard(file, want) \cup Announced(file, want) = {} \/ made' = made =>
                    Len(file'.audio) = Len(file.audio)]_vars

\* Every subtitle in an output is one that its container can store, though
\* one codec argument serves all the tracks.
SubtitlesFit ==
    made # 0 =>
        \A n \in DOMAIN file.subs :
            (file.subs[n].codec = "mov_text") = (file.container = "mp4")

\* The scans and job steps that can follow with no user and no release between
\* them: a row, its start and its end for each path that no job knows, and
\* those of the job there is.
WorkLeft ==
    3 * Cardinality({c \in Containers : rows[c] = 0}) +
    (CASE stage = "queued" -> 2 [] stage = "encoding" -> 1 [] OTHER -> 0)

\* Every scan that queues the movie and every step of its job uses some of that
\* work up, whatever the output is called and whoever wants it next: two
\* libraries cannot hand a file to and fro for ever.
WorkRunsOut == [][ScanStep \/ JobStep => WorkLeft' < WorkLeft]_vars

\* When users and releases leave the movie alone, scans and jobs stop working
\* on it, even if two libraries want to turn it into different things.
ScansSettle == <>[][ScanStep \/ JobStep]_vars => <>[](stage = "idle")
=============================================================================

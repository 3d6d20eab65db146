------------------------------ MODULE Profiles ------------------------------
(***************************************************************************)
(* Profiles and libraries of internal/config, and the two places that      *)
(* decide with them whether a file is worth encoding: NeedsWork in the     *)
(* scanner, before there is a job, and skipReason in Transcode.            *)
(*                                                                         *)
(* A path is a sequence of components.  A list-valued setting is <<>> when *)
(* it is absent (nil) and <<S>> when it is given, S being the set of its   *)
(* values; a codec or a container that is not given is "none".  Sizes are  *)
(* in units of size_limit_gb, bit rates in units of skip_below_kbps, both  *)
(* 0 when unknown.  Settings that change only how an output looks and      *)
(* sounds (quality, speed, tune, bit rates) are left out.                  *)
(***************************************************************************)
EXTENDS Integers, SequencesExt

\* A profile none of whose settings is given.
ZeroProfile ==
    [codec |-> "none", size_limit_gb |-> 0, skip_below_kbps |-> 0,
     allow_dolby_vision |-> FALSE, skip_codecs |-> <<>>,
     audio_languages |-> <<>>, subtitle_languages |-> <<>>, container |-> "none"]

\* The built-in profile, with the size limit lowered to 2 units.
DefaultProfile ==
    [codec |-> "none", size_limit_gb |-> 2, skip_below_kbps |-> 0,
     allow_dolby_vision |-> FALSE, skip_codecs |-> << {"av1"} >>,
     audio_languages |-> << {"eng"} >>, subtitle_languages |-> << {"eng", "und"} >>,
     container |-> "mkv"]

\* A setting of over counts when it differs from its zero value.
mergeProfile(base, over) ==
    [s \in DOMAIN base |-> IF over[s] = ZeroProfile[s] THEN base[s] ELSE over[s]]

\* Load: every profile is layered over "default", and that over the built-in.
fillProfiles(given) ==
    LET base == IF "default" \in DOMAIN given
                THEN mergeProfile(DefaultProfile, given["default"])
                ELSE DefaultProfile
    IN  [n \in DOMAIN given \cup {"default"} |->
            IF n = "default" THEN base ELSE mergeProfile(base, given[n])]

\* The constraints Load enforces on what is modelled of a configuration.
Validate(c) ==
    /\ c.encoder \in {"hevc", "av1"}
    /\ c.libraries # <<>>
    /\ \A i, k \in DOMAIN c.libraries :
          c.libraries[i].name = c.libraries[k].name => i = k
    /\ \A i \in DOMAIN c.libraries : c.libraries[i].profile \in DOMAIN c.profiles
    /\ \A n \in DOMAIN c.profiles :
          /\ c.profiles[n].codec \in {"none", "hevc", "av1"}
          /\ c.profiles[n].container \in {"mkv", "mp4"}

\* The libraries whose tree holds a path, enabled or not.
Holding(c, path) == {i \in DOMAIN c.libraries : IsPrefix(c.libraries[i].path, path)}

\* The innermost of them, the first one configured if a path is there twice.
IsLibraryFor(c, path, i) ==
    /\ i \in Holding(c, path)
    /\ \A k \in Holding(c, path) :
          \/ Len(c.libraries[k].path) < Len(c.libraries[i].path)
          \/ Len(c.libraries[k].path) = Len(c.libraries[i].path) /\ i <= k

ProfileFor(c, i) ==
    IF c.libraries[i].profile \in DOMAIN c.profiles
    THEN c.profiles[c.libraries[i].profile]
    ELSE c.profiles["default"]

TargetCodec(c, prof) == IF prof.codec # "none" THEN prof.codec ELSE c.encoder

SkipsCodec(prof, codec) == \E i \in DOMAIN prof.skip_codecs : codec \in prof.skip_codecs[i]

Oversized(prof, size) == prof.size_limit_gb > 0 /\ size > prof.size_limit_gb

\* Slip: a file at the limit counts as oversized.
NeedsWorkAtLimit(codec, size, target, prof) ==
    IF codec = target
    THEN prof.size_limit_gb > 0 /\ size >= prof.size_limit_gb
    ELSE ~ SkipsCodec(prof, codec)

\* The scanner's rule.
NeedsWork(codec, size, target, prof) ==
    IF codec = target THEN Oversized(prof, size) ELSE ~ SkipsCodec(prof, codec)

LowBitrate(mi, prof) ==
    /\ prof.skip_below_kbps > 0
    /\ mi.BitrateBps > 0
    /\ mi.BitrateBps < prof.skip_below_kbps

\* The transcoder's rule: the first reason to keep the original, or "none".
skipReason(mi, size, target, prof) ==
    CASE mi.DolbyVision /\ ~ prof.allow_dolby_vision -> "dolby vision"
      [] OTHER ->
         IF mi.VideoCodec = target /\ ~ Oversized(prof, size) THEN "under size limit"
         ELSE IF mi.VideoCodec # target /\ SkipsCodec(prof, mi.VideoCodec) THEN "skip_codecs"
         ELSE IF LowBitrate(mi, prof) THEN "low bit rate"
         ELSE "none"
=============================================================================

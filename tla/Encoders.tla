------------------------------ MODULE Encoders ------------------------------
(***************************************************************************)
(* The table of encoder back ends (internal/encoder): which encoder of     *)
(* ffmpeg each one uses for a codec, what its probe tests, and which back  *)
(* end New picks.  Flags, presets and bit rates are data and left out.     *)
(***************************************************************************)
EXTENDS Integers, Sequences

Software == "software"

\* The preference of "auto".
Order == <<"nvenc", "qsv", "vaapi", "videotoolbox", Software>>

Backends == {Order[n] : n \in DOMAIN Order}

\* ffmpeg's encoders by back end and codec, in the order of preference.
Candidates(backend, codec) ==
    CASE codec = "hevc" /\ backend = Software -> <<"libx265">>
      [] codec = "av1" /\ backend = Software -> <<"libsvtav1", "libaom-av1">>
      [] codec = "hevc" /\ backend = "nvenc" -> <<"hevc_nvenc">>
      [] codec = "av1" /\ backend = "nvenc" -> <<"av1_nvenc">>
      [] codec = "hevc" /\ backend = "qsv" -> <<"hevc_qsv">>
      [] codec = "av1" /\ backend = "qsv" -> <<"av1_qsv">>
      [] codec = "hevc" /\ backend = "vaapi" -> <<"hevc_vaapi">>
      [] codec = "av1" /\ backend = "vaapi" -> <<"av1_vaapi">>
      [] codec = "hevc" /\ backend = "videotoolbox" -> <<"hevc_videotoolbox">>
      [] OTHER -> <<>>

NoEncoder == "no encoder"

\* The first candidate that this ffmpeg is compiled with.
EncoderName(compiled, backend, codec) ==
    LET names == SelectSeq(Candidates(backend, codec), LAMBDA e : e \in compiled)
    IN  IF names = <<>> THEN NoEncoder ELSE names[1]

Supports(compiled, backend, codec) == EncoderName(compiled, backend, codec) # NoEncoder

\* A probe encodes HEVC where the back end can, whatever codec is configured.
ProbedCodec(compiled, backend) ==
    IF backend = "videotoolbox" \/ Supports(compiled, backend, "hevc") THEN "hevc" ELSE "av1"

\* These back ends get frames from main memory through an upload filter, which
\* needs a device that InputArgs or FallbackInputArgs set up.
NeedsUpload == {"qsv", "vaapi"}

\* probeEncode gives ffmpeg the filter but neither kind of input arguments.
ProbeHasDevice(backend) == backend \notin NeedsUpload
=============================================================================

---------------------------- MODULE MCConversion -----------------------------
(* Small instances of Conversion for TLC.                                    *)
EXTENDS Conversion, TLC

Given(settings) == settings @@ ZeroProfile

\* A library of AV1 in mp4 that is inside one of HEVC in mkv.  Each profile
\* would redo what the other has made; the inner one takes Dolby Vision.
Outer == [name |-> "films", path |-> <<"media">>, profile |-> "default", enabled |-> TRUE]
Inner == [name |-> "kids", path |-> <<"media", "kids">>, profile |-> "small", enabled |-> TRUE]

Small == Given([codec |-> "av1", skip_codecs |-> << {} >>, container |-> "mp4",
                audio_languages |-> << {"ja", "en"} >>, subtitle_languages |-> << {} >>,
                allow_dolby_vision |-> TRUE, skip_below_kbps |-> 2])
Everything == Given([skip_codecs |-> << {} >>, size_limit_gb |-> 1])

\* Only the built-in profile; two libraries, in either order, the outer one
\* perhaps not enabled.
Plain == [encoder |-> "hevc", profiles |-> fillProfiles(<<>>), libraries |-> <<Outer>>]
Nested(libs) ==
    [encoder |-> "hevc", libraries |-> libs,
     profiles |-> fillProfiles(("default" :> Everything) @@ ("small" :> Small))]

AllConfigs ==
    {Plain, Nested(<<Outer, Inner>>), Nested(<<Inner, Outer>>),
     Nested(<<[Outer EXCEPT !.enabled = FALSE], Inner>>)}

InnerDir == <<"media", "kids", "film">>

V(codec) == [codec |-> codec, dovi |-> FALSE]
Dolby(codec) == [codec |-> codec, dovi |-> TRUE]
A(lang, title) == [lang |-> lang, title |-> title]
S(lang, codec) == [lang |-> lang, codec |-> codec]

\* Pictures: with cover art, without a picture, a first stream nobody knows.
Videos == {<<V("h264")>>, <<V("hevc")>>, <<V("av1")>>, <<Dolby("hevc")>>, <<V("mjpeg"), V("h264")>>,
           <<V("h264"), V("mjpeg")>>, <<>>, <<V("none"), V("h264")>>}
Sounds == {<<>>, <<A("en", {}), A("jpn", {})>>, <<A("none", {"eng"}), A("fre", {})>>,
           <<A("ger", {}), A("fre", {})>>, <<A("eng", {}), A("none", {"jpn"})>>}
Texts(container) ==
    {<<>>} \cup
    IF container = "mkv"
    THEN {<<S("eng", "subrip"), S("fre", "ass")>>, <<S("und", "hdmv_pgs_subtitle")>>}
    ELSE {<<S("eng", "mov_text"), S("und", "ass")>>,
          <<S("eng", "mov_text"), S("eng", "hdmv_pgs_subtitle")>>}

Movie(video, size, rate, container, audio, subs, links) ==
    [video |-> video, size |-> size, rate |-> rate, container |-> container,
     audio |-> audio, subs |-> subs, links |-> links]

\* Every picture at every size, every combination of tracks, a movie of a low bit
\* rate and one that is seeded.
AllFiles ==
    {Movie(v, s, 2, c, <<A("en", {})>>, <<>>, 1) :
        v \in Videos, s \in 1..3, c \in {"mkv", "avi"}} \cup
    UNION {{Movie(<<V("h264")>>, 3, 0, c, a, t, 1) : a \in Sounds, t \in Texts(c)} :
              c \in {"mkv", "mp4"}} \cup
    {Movie(<<V("h264")>>, 2, 1, "mkv", <<A("en", {})>>, <<>>, links) : links \in 1..2}

AllCodecs == {"none", "h264", "hevc", "av1", "mjpeg"}
AllContainers == {"mkv", "mp4", "avi"}
=============================================================================

-------------------------- MODULE ConversionProofs --------------------------
(***************************************************************************)
(* What Conversion's rules guarantee for every configuration, every movie  *)
(* and every history of scans, jobs, imports and users.                    *)
(*                                                                         *)
(* The scanner and the transcoder agree on any file whose streams are a    *)
(* sequence.  That an output is left alone and makes no false claim needs  *)
(* to know what it is: Produced says it of the file, and Judged says that  *)
(* the job which is being encoded was accepted, for the file it replaces.  *)
(***************************************************************************)
EXTENDS Conversion, FiniteSetTheorems, WellFoundedInduction, TLAPS

Video == [codec : Codecs, dovi : BOOLEAN]
Audio == [lang : STRING, title : SUBSET STRING]

\* A subtitle has the codec of its source or one of the two encodes write.
Text == [lang : STRING, codec : STRING \cup {"mov_text", "subrip"}]

\* The fields of a movie, which no step adds to or takes from.
Fields == {"video", "size", "rate", "container", "audio", "subs", "links"}

\* The file that an encode has made has one video stream, in the codec its
\* library asks for, and the Dolby Vision label only where that is allowed.
Produced ==
    made # 0 =>
        /\ file.video # <<>>
        /\ file.video[1].codec = TargetOf(made)
        /\ file.video[1].dovi => ProfileFor(config, made).allow_dolby_vision

\* An encode under way was accepted, and the movie is still the same.
Judged ==
    stage = "encoding" =>
        /\ Filed # 0
        /\ Reason(Filed) = "none"
        /\ IsVideoCodec(Probe(file).VideoCodec)

\* The sound of such a file is what its library would select from it.
Selected ==
    made # 0 =>
        SelectAudio(file.audio, ProfileFor(config, made).audio_languages) = DOMAIN file.audio

IInv ==
    /\ TypeOK
    /\ DOMAIN file = Fields
    /\ file.audio \in Seq(Audio) /\ file.subs \in Seq(Text)
    /\ stage # "idle" => Filed # 0
    /\ Judged
    /\ Produced
    /\ Selected
    /\ SubtitlesFit

-----------------------------------------------------------------------------
(* Sequences of tracks.                                                      *)

\* A set of naturals that is not empty has a least element.
LEMMA LeastNatural ==
    ASSUME NEW T, T \subseteq Nat, T # {}
    PROVE  \E x \in T : \A y \in T : x <= y
<1> DEFINE R == OpToRel(<, Nat)
<1>1. ASSUME NEW x \in Nat, NEW y \in Nat, x < y
      PROVE  <<x, y>> \in R
  BY <1>1 DEF OpToRel
<1>2. IsWellFoundedOn(R, Nat)
  BY NatLessThanWellFounded
<1> HIDE DEF R
<1>3. PICK x \in T : \A y \in T : ~ (<<y, x>> \in R)
  BY <1>2, WFMin
<1>4. ASSUME NEW y \in T PROVE x <= y
  <2>1. ~ (y < x)
    BY <1>1, <1>3, Zenon
  <2> QED
    BY <2>1
<1> QED
  BY <1>4

\* An enumeration of T in increasing order.
Enumerates(q, T) == q \in [1..Cardinality(T) -> T] /\ Increasing(q)

\* Putting a number below all of T in front of an enumeration of T.
LEMMA ExtendEnumeration ==
    ASSUME NEW T, T \subseteq Nat, IsFiniteSet(T), NEW a \in T, \A y \in T : a <= y,
           NEW r, Enumerates(r, T \ {a})
    PROVE  \E q : Enumerates(q, T)
<1> DEFINE n == Cardinality(T)
           q == [i \in 1..n |-> IF i = 1 THEN a ELSE r[i - 1]]
<1>1. n \in Nat /\ n # 0 /\ Cardinality(T \ {a}) = n - 1
  BY FS_CardinalityType, FS_RemoveElement, FS_EmptySet
<1>2. r \in [1..(n - 1) -> T \ {a}] /\ Increasing(r)
  BY <1>1 DEF Enumerates
<1> HIDE DEF n
<1>3. \A i \in 1..n : i # 1 => i - 1 \in 1..(n - 1)
  BY <1>1
<1>4. \A i \in 1..n : i # 1 => q[i] = r[i - 1] /\ r[i - 1] \in T \ {a}
  BY <1>2, <1>3
<1>5. q \in [1..n -> T]
  BY <1>4
<1>6. ASSUME NEW i \in 1..n, NEW k \in 1..n, i < k PROVE q[i] < q[k]
  <2>1. k # 1 /\ q[k] = r[k - 1] /\ r[k - 1] \in T \ {a}
    BY <1>1, <1>4, <1>6
  <2>2. CASE i = 1
    <3>1. q[i] = a
      BY <2>2
    <3>2. q[k] \in Nat /\ a \in Nat /\ a <= q[k] /\ a # q[k]
      BY <2>1
    <3> HIDE DEF q
    <3> QED
      BY <3>1, <3>2
  <2>3. CASE i # 1
    <3>1. q[i] = r[i - 1] /\ i - 1 \in DOMAIN r /\ k - 1 \in DOMAIN r /\ i - 1 < k - 1
      BY <1>1, <1>2, <1>3, <1>4, <1>6, <2>1, <2>3
    <3> QED
      BY <1>2, <2>1, <3>1 DEF Increasing
  <2> QED
    BY <2>2, <2>3
<1>7. Increasing(q)
  BY <1>5, <1>6 DEF Increasing
<1> QED
  BY <1>5, <1>7 DEF Enumerates, n

\* Every finite set of naturals can be enumerated in increasing order: a
\* smallest one that cannot would do without its least element.
LEMMA EnumerationExists ==
    ASSUME NEW S, S \subseteq Nat, IsFiniteSet(S)
    PROVE  \E q : Enumerates(q, S)
<1> DEFINE Bad(T) == T \subseteq Nat /\ IsFiniteSet(T) /\ ~ \E q : Enumerates(q, T)
           Sizes == {Cardinality(T) : T \in {U \in SUBSET Nat : Bad(U)}}
<1>1. SUFFICES ASSUME Bad(S) PROVE FALSE
  OBVIOUS
<1>2. Sizes \subseteq Nat /\ Sizes # {}
  BY <1>1, FS_CardinalityType
<1>3. PICK m \in Sizes : \A k \in Sizes : m <= k
  BY <1>2, LeastNatural
<1>4. PICK T \in SUBSET Nat : Bad(T) /\ Cardinality(T) = m
  BY <1>3
<1>5. T # {}
  <2>1. SUFFICES ASSUME T = {} PROVE FALSE
    OBVIOUS
  <2>2. Cardinality(T) = 0
    BY <2>1, FS_EmptySet
  <2>3. [i \in 1..0 |-> 0] \in [1..Cardinality(T) -> T] /\ Increasing([i \in 1..0 |-> 0])
    BY <2>2 DEF Increasing
  <2> QED
    BY <1>4, <2>3 DEF Enumerates
<1>6. PICK a \in T : \A y \in T : a <= y
  BY <1>4, <1>5, LeastNatural
<1>7. /\ T \ {a} \subseteq Nat
      /\ IsFiniteSet(T \ {a})
      /\ Cardinality(T \ {a}) = m - 1
      /\ m \in Nat
  BY <1>4, <1>6, FS_RemoveElement, FS_CardinalityType
<1>8. ~ Bad(T \ {a})
  <2>1. SUFFICES ASSUME Bad(T \ {a}) PROVE m - 1 \in Sizes
    BY <1>3, <1>7
  <2> QED
    BY <1>7, <2>1
<1>9. PICK r : Enumerates(r, T \ {a})
  BY <1>7, <1>8
<1> QED
  BY <1>4, <1>6, <1>9, ExtendEnumeration

\* What is picked from a sequence at a set of positions: elements that are
\* there, and all of those.
LEMMA PickedTracks ==
    ASSUME NEW E, NEW s \in Seq(E), NEW P, P \subseteq DOMAIN s
    PROVE  /\ At(s, P) \in Seq(E)
           /\ \A n \in DOMAIN At(s, P) : \E i \in P : At(s, P)[n] = s[i]
           /\ \A i \in P : \E n \in DOMAIN At(s, P) : At(s, P)[n] = s[i]
<1> DEFINE c == Cardinality(P)
           q == Ordered(P)
<1>1. Len(s) \in Nat /\ DOMAIN s = 1..Len(s)
  OBVIOUS
<1>2. IsFiniteSet(P) /\ P \subseteq Nat
  <2>1. IsFiniteSet(1..Len(s))
    BY <1>1, FS_Interval
  <2> QED
    BY <1>1, <2>1, FS_Subset
<1>3. c \in Nat
  BY <1>2, FS_CardinalityType
<1>4. q \in [1..c -> P] /\ Increasing(q)
  <2>1. \E p \in [1..c -> P] : Increasing(p)
    BY <1>2, EnumerationExists DEF Enumerates
  <2> QED
    BY <2>1, Zenon DEF Ordered
<1>5. q \in Surjection(1..c, P)
  <2>1. \A m, n \in 1..c : m # n => q[m] # q[n]
    <3>1. \A m, n \in 1..c : m < n => q[m] < q[n]
      BY <1>4 DEF Increasing
    <3>2. \A m \in 1..c : q[m] \in Nat
      BY <1>2, <1>4
    <3> HIDE DEF q
    <3> QED
      BY <1>3, <3>1, <3>2
  <2>2. q \in Injection(1..c, P)
    BY <1>4, <2>1 DEF Injection, IsInjective
  <2>3. Cardinality(1..c) = c
    BY <1>3, FS_Interval
  <2> QED
    BY <1>2, <2>2, <2>3, FS_Injection
<1>6. \A i \in P : \E n \in 1..c : q[n] = i
  BY <1>5 DEF Surjection
<1>7. At(s, P) = [n \in 1..c |-> s[q[n]]]
  BY DEF At
<1> HIDE DEF q, c
<1>8. \A n \in 1..c : q[n] \in DOMAIN s /\ s[q[n]] \in E
  BY <1>4
<1>9. At(s, P) \in Seq(E)
  BY <1>3, <1>7, <1>8
<1>10. \A n \in 1..c : q[n] \in P /\ At(s, P)[n] = s[q[n]]
  BY <1>4, <1>7
<1>11. DOMAIN At(s, P) = 1..c
  BY <1>7
<1> QED
  BY <1>6, <1>9, <1>10, <1>11

-----------------------------------------------------------------------------
(* Probing and judging.                                                      *)

\* If the first video stream has a codec name, it is the first that has one.
LEMMA FirstIsNamed ==
    ASSUME NEW v \in Seq(Video), v # <<>>, Head(v).codec # "none"
    PROVE  /\ Named(v) # {}
           /\ FirstNamed(v) = 1
<1>1. 1 \in DOMAIN v /\ Head(v) = v[1]
  OBVIOUS
<1>2. 1 \in Named(v) /\ \A k \in Named(v) : k \in Nat /\ 1 <= k
  BY <1>1 DEF Named
<1>3. FirstNamed(v) \in Named(v) /\ \A k \in Named(v) : FirstNamed(v) <= k
  BY <1>2, Zenon DEF FirstNamed
<1>4. FirstNamed(v) \in Nat /\ 1 <= FirstNamed(v) /\ FirstNamed(v) <= 1
  BY <1>2, <1>3
<1> QED
  BY <1>2, <1>4

\* The codec the scanner sees is then the one the transcoder sees.
LEMMA ProbesAgree ==
    ASSUME NEW f, f.video \in Seq(Video), f.video # <<>>, Head(f.video).codec # "none"
    PROVE  Probe(f).VideoCodec = ProbeCodec(f.video)
<1>1. Named(f.video) # {} /\ FirstNamed(f.video) = 1
  BY FirstIsNamed
<1>2. Head(f.video) = f.video[1]
  OBVIOUS
<1> QED
  BY <1>1, <1>2 DEF Probe, ProbeCodec

\* skipReason for the same codec gives one of the scanner's reasons exactly
\* when NeedsWork is false, unless it looks at something else first.
LEMMA ReasonsAgree ==
    ASSUME NEW mi, NEW size \in Nat, NEW target, NEW prof
    PROVE  IF NeedsWork(mi.VideoCodec, size, target, prof)
           THEN skipReason(mi, size, target, prof) \in {"none", "dolby vision", "low bit rate"}
           ELSE skipReason(mi, size, target, prof) # "none"
<1> DEFINE R == IF mi.VideoCodec = target /\ ~ Oversized(prof, size) THEN "under size limit"
                ELSE IF mi.VideoCodec # target /\ SkipsCodec(prof, mi.VideoCodec) THEN "skip_codecs"
                ELSE IF LowBitrate(mi, prof) THEN "low bit rate"
                ELSE "none"
           D == mi.DolbyVision /\ ~ prof.allow_dolby_vision
<1>1. skipReason(mi, size, target, prof) = IF D THEN "dolby vision" ELSE R
  BY DEF skipReason
<1>2. IF NeedsWork(mi.VideoCodec, size, target, prof)
      THEN R \in {"none", "low bit rate"}
      ELSE R # "none"
  BY DEF NeedsWork
<1> QED
  BY <1>1, <1>2

-----------------------------------------------------------------------------

\* In every state whose video streams are a sequence, what the scanner wants
\* is skipped only for what it does not look at, and what it leaves would
\* have been skipped.
LEMMA TypesMakeRulesAgree == TypeOK => RulesAgree
<1> SUFFICES ASSUME TypeOK, NEW i \in Libraries
    PROVE  IF Wanted(i)
           THEN Reason(i) \in {"none", "dolby vision", "low bit rate"}
           ELSE \/ Reason(i) # "none"
                \/ ~ IsVideoCodec(Probe(file).VideoCodec)
                \/ Head(file.video).codec = "none"
  BY DEF RulesAgree
<1> DEFINE named == file.video # <<>> /\ Head(file.video).codec # "none"
<1>1. file.video \in Seq(Video) /\ file.size \in Nat
  BY DEF TypeOK, Video
<1>2. CASE named
  <2>1. Probe(file).VideoCodec = ProbeCodec(file.video)
    BY <1>1, <1>2, ProbesAgree
  <2>2. IF NeedsWork(ProbeCodec(file.video), file.size, TargetOf(i), ProfileFor(config, i))
        THEN Reason(i) \in {"none", "dolby vision", "low bit rate"}
        ELSE Reason(i) # "none"
    BY <1>1, <2>1, ReasonsAgree DEF Reason
  <2> QED
    BY <2>1, <2>2 DEF Wanted
<1>3. CASE ~ named
  <2>1. ~ Wanted(i)
    BY <1>3 DEF Wanted, ProbeCodec, IsVideoCodec
  <2>2. CASE file.video = <<>>
    <3>1. Named(file.video) = {}
      BY <2>2 DEF Named
    <3> QED
      BY <2>1, <3>1 DEF Probe, IsVideoCodec
  <2> QED
    BY <1>3, <2>1, <2>2
<1> QED
  BY <1>2, <1>3

\* Libraries are numbered from one: zero stands for none of them.
LEMMA NumberedFromOne == config \in Configs => 0 \notin Libraries
  BY ConversionAssumption DEF Libraries

\* The container of every loaded profile is an extension of the model.
LEMMA ContainersKnown ==
    ASSUME config \in Configs, NEW i \in Libraries
    PROVE  /\ ProfileFor(config, i).container \in {"mkv", "mp4"}
           /\ ProfileFor(config, i).container \in Containers
  BY ConversionAssumption DEF Validate, ProfileFor, Libraries

\* Its target is one of the codecs there are.
LEMMA TargetsKnown ==
    ASSUME config \in Configs, NEW i \in Libraries
    PROVE  TargetOf(i) \in {"hevc", "av1"}
<1>1. config.encoder \in {"hevc", "av1"}
  BY ConversionAssumption DEF Validate
<1>2. ProfileFor(config, i).codec \in {"none", "hevc", "av1"}
  BY ConversionAssumption DEF Validate, ProfileFor, Libraries
<1> QED
  BY <1>1, <1>2 DEF TargetOf, TargetCodec

LEMMA WiderSeq ==
    ASSUME NEW S, NEW T, S \subseteq T, NEW q \in Seq(S)
    PROVE  q \in Seq(T)
  OBVIOUS

\* A release brings a movie of the fields and tracks that are spoken of here.
LEMMA FilesAreMovies ==
    ASSUME NEW f \in Files
    PROVE  /\ DOMAIN f = Fields
           /\ f.container \in Containers /\ f.size \in Nat /\ f.rate \in Nat
           /\ f.video \in Seq([codec : Codecs, dovi : BOOLEAN])
           /\ f.audio \in Seq(Audio) /\ f.subs \in Seq(Text)
<1> DEFINE Brought == [lang : STRING, codec : STRING]
<1>1. /\ DOMAIN f = Fields
      /\ f.container \in Containers /\ f.size \in Nat /\ f.rate \in Nat
      /\ f.video \in Seq([codec : Codecs, dovi : BOOLEAN])
      /\ f.audio \in Seq(Audio)
      /\ f.subs \in Seq(Brought)
  BY ConversionAssumption DEF Fields, Audio
<1>2. Brought \subseteq Text
  BY DEF Text
<1> HIDE DEF Brought
<1>3. f.subs \in Seq(Text)
  BY <1>1, <1>2, WiderSeq
<1> QED
  BY <1>1, <1>3

LEMMA InitIInv == Init => IInv
  BY FilesAreMovies DEF Init, IInv, TypeOK, Judged, Produced, Selected, SubtitlesFit, Filed, Libraries

\* The output of an encode is a movie with one video stream.
LEMMA OutputShape ==
    ASSUME NEW f, DOMAIN f = Fields, NEW target, NEW prof, NEW size, NEW rate
    PROVE  LET out == [Output(f, target, prof, size, rate) EXCEPT !.links = 1]
           IN  /\ DOMAIN out = Fields
               /\ out.video = << [codec |-> target, dovi |-> Head(f.video).dovi] >>
               /\ out.size = size
               /\ out.rate = rate
               /\ out.container = prof.container
  BY DEF Output, Fields

\* The tracks of an output are tracks, and its container can store all its
\* subtitles: either one of them had to be converted, and all were, or none had
\* to be.
LEMMA OutputTracks ==
    ASSUME NEW f, DOMAIN f = Fields, f.audio \in Seq(Audio), f.subs \in Seq(Text),
           NEW target, NEW prof, prof.container \in {"mkv", "mp4"}, NEW size, NEW rate
    PROVE  LET out == [Output(f, target, prof, size, rate) EXCEPT !.links = 1]
           IN  /\ out.audio = At(f.audio, SelectAudio(f.audio, prof.audio_languages))
               /\ out.audio \in Seq(Audio)
               /\ out.subs \in Seq(Text)
               /\ \A n \in DOMAIN out.subs :
                     (out.subs[n].codec = "mov_text") = (prof.container = "mp4")
<1> DEFINE out == [Output(f, target, prof, size, rate) EXCEPT !.links = 1]
           audio == SelectAudio(f.audio, prof.audio_languages)
           subs == SelectSubtitles(f.subs, prof.subtitle_languages, prof.container)
           convert == ConvertsSubtitles(f.subs, subs, prof.container)
           kept == At(f.subs, subs)
           new == [n \in DOMAIN kept |->
                      [kept[n] EXCEPT
                          !.codec = IF convert THEN SubtitleCodecArg(prof.container) ELSE @]]
<1>1. out.audio = At(f.audio, audio) /\ out.subs = new
  BY DEF Output, Fields
<1>2. audio \subseteq DOMAIN f.audio
  BY DEF SelectAudio, Tagged, Titled
<1>3. At(f.audio, audio) \in Seq(Audio)
  BY <1>2, PickedTracks
<1>4. subs \subseteq DOMAIN f.subs
  BY DEF SelectSubtitles
<1>5. /\ kept \in Seq(Text)
      /\ \A n \in DOMAIN kept : \E i \in subs : kept[n] = f.subs[i]
  BY <1>4, PickedTracks
<1> HIDE DEF kept
<1>6. /\ DOMAIN new = DOMAIN kept
      /\ \A n \in DOMAIN kept :
            /\ kept[n] \in Text
            /\ new[n] \in Text
            /\ new[n].codec = IF convert THEN SubtitleCodecArg(prof.container) ELSE kept[n].codec
  <2>1. DOMAIN kept = 1..Len(kept)
    BY <1>5
  <2>2. \A n \in DOMAIN kept : kept[n] \in Text
    BY <1>5, <2>1
  <2>3. SubtitleCodecArg(prof.container) \in {"mov_text", "subrip"}
    BY DEF SubtitleCodecArg
  <2> QED
    BY <2>2, <2>3 DEF Text
<1>7. new \in Seq(Text)
  <2>1. Len(kept) \in Nat /\ DOMAIN kept = 1..Len(kept)
    BY <1>5
  <2>2. new \in [1..Len(kept) -> Text]
    BY <1>6, <2>1
  <2> HIDE DEF new
  <2> QED
    BY <2>1, <2>2
<1> HIDE DEF new
<1>8. ASSUME NEW n \in DOMAIN new
      PROVE  (new[n].codec = "mov_text") = (prof.container = "mp4")
  <2>1. PICK i \in subs : kept[n] = f.subs[i]
    BY <1>5, <1>6, <1>8
  <2>2. CASE convert
    BY <1>6, <1>8, <2>2 DEF SubtitleCodecArg
  <2>3. CASE ~ convert
    <3>1. ~ needsTextConvert(f.subs[i].codec, prof.container)
      BY <2>3 DEF ConvertsSubtitles
    <3> QED
      BY <1>6, <1>8, <2>1, <2>3, <3>1 DEF needsTextConvert
  <2> QED
    BY <2>2, <2>3
<1> QED
  BY <1>1, <1>3, <1>7, <1>8

\* Taking every track leaves as many.
LEMMA AllTracks ==
    ASSUME NEW E, NEW s \in Seq(E)
    PROVE  Len(At(s, DOMAIN s)) = Len(s)
<1>1. Len(s) \in Nat /\ DOMAIN s = 1..Len(s)
  OBVIOUS
<1>2. Cardinality(DOMAIN s) = Len(s)
  BY <1>1, FS_Interval
<1> QED
  BY <1>1, <1>2 DEF At

\* What is kept of the audio has every wanted language that a tag names; if none
\* does, every one that a title names; and if none does either, all the tracks.
\* Selecting once more takes nothing away.
LEMMA SelectionHears ==
    ASSUME NEW f, f.audio \in Seq(Audio), NEW langs, NEW g,
           g.audio = At(f.audio, SelectAudio(f.audio, langs))
    PROVE  LET want == normalizeLangs(langs)
           IN  /\ Heard(f, want) \subseteq Heard(g, want)
               /\ Heard(f, want) = {} => Announced(f, want) \subseteq Announced(g, want)
               /\ Heard(f, want) \cup Announced(f, want) = {} => Len(g.audio) = Len(f.audio)
               /\ SelectAudio(g.audio, langs) = DOMAIN g.audio
<1> DEFINE want == normalizeLangs(langs)
           kept == SelectAudio(f.audio, langs)
<1>1. kept \subseteq DOMAIN f.audio
  BY DEF SelectAudio, Tagged, Titled
<1>2. /\ \A i \in kept : \E n \in DOMAIN g.audio : g.audio[n] = f.audio[i]
      /\ \A n \in DOMAIN g.audio : \E i \in kept : g.audio[n] = f.audio[i]
  BY <1>1, PickedTracks
<1>3. Heard(f, want) = {} <=> Tagged(f.audio, want) = {}
  BY DEF Heard, Tagged
<1>4. Announced(f, want) = {} <=> Titled(f.audio, want) = {}
  BY DEF Announced, Titled
<1>5. ASSUME NEW l \in Heard(f, want) PROVE l \in Heard(g, want)
  <2>1. PICK i \in DOMAIN f.audio : l = normalizeLang(f.audio[i].lang) /\ l \in want
    BY DEF Heard
  <2>2. i \in kept
    BY <2>1 DEF SelectAudio, Tagged
  <2> QED
    BY <1>2, <2>1, <2>2 DEF Heard
<1>6. ASSUME Heard(f, want) = {}, NEW l \in Announced(f, want) PROVE l \in Announced(g, want)
  <2>1. PICK i \in DOMAIN f.audio : l \in f.audio[i].title /\ l \in want
    BY DEF Announced
  <2>2. i \in kept
    BY <1>3, <1>6, <2>1 DEF SelectAudio, Titled
  <2> QED
    BY <1>2, <2>1, <2>2 DEF Announced
<1>7. ASSUME Heard(f, want) \cup Announced(f, want) = {} PROVE Len(g.audio) = Len(f.audio)
  <2>1. kept = DOMAIN f.audio
    BY <1>3, <1>4, <1>7 DEF SelectAudio
  <2> QED
    BY <2>1, AllTracks
<1>8. SelectAudio(g.audio, langs) = DOMAIN g.audio
  <2>1. CASE want = {}
    BY <2>1 DEF SelectAudio
  <2>2. CASE want # {} /\ Tagged(f.audio, want) # {}
    <3>1. kept = Tagged(f.audio, want)
      BY <2>2 DEF SelectAudio
    <3>2. Tagged(g.audio, want) = DOMAIN g.audio
      BY <1>2, <3>1 DEF Tagged
    <3> QED
      BY <3>2 DEF SelectAudio, Titled
  <2>3. CASE want # {} /\ Tagged(f.audio, want) = {} /\ Titled(f.audio, want) # {}
    <3>1. kept = Titled(f.audio, want)
      BY <2>3 DEF SelectAudio
    <3>2. Tagged(g.audio, want) = {}
      BY <1>1, <1>2, <2>3 DEF Tagged
    <3>3. Titled(g.audio, want) = DOMAIN g.audio
      BY <1>2, <3>1 DEF Titled
    <3> QED
      BY <3>2, <3>3 DEF SelectAudio
  <2>4. CASE Tagged(f.audio, want) = {} /\ Titled(f.audio, want) = {}
    <3>1. Tagged(g.audio, want) = {} /\ Titled(g.audio, want) = {}
      BY <1>1, <1>2, <2>4 DEF Tagged, Titled
    <3> QED
      BY <3>1 DEF SelectAudio
  <2> QED
    BY <2>1, <2>2, <2>3, <2>4
<1> QED
  BY <1>5, <1>6, <1>7, <1>8

\* An accepted source that claims Dolby Vision is one whose profile allows it.
LEMMA AcceptedDolby ==
    ASSUME NEW i, Reason(i) = "none", file.video \in Seq(Video), file.video # <<>>,
           Head(file.video).dovi
    PROVE  ProfileFor(config, i).allow_dolby_vision
<1>1. 1 \in DOMAIN file.video /\ Head(file.video) = file.video[1]
  OBVIOUS
<1>2. Probe(file).DolbyVision
  BY <1>1 DEF Probe
<1> QED
  BY <1>2 DEF Reason, skipReason

LEMMA StepIInv == IInv /\ [Next]_vars => IInv'
<1> SUFFICES ASSUME IInv, [Next]_vars
    PROVE  IInv'
  OBVIOUS
<1> USE DEF IInv, Filed, SubtitlesFit, Selected
<1>1. CASE Skip
  BY <1>1 DEF Skip, TypeOK, Judged, Produced, TargetOf, Libraries
<1>2. CASE Start
  BY <1>2 DEF Start, Accepted, TypeOK, Judged, Produced, TargetOf, Reason, Probe, Libraries
<1>3. CASE KeepOriginal
  BY <1>3 DEF KeepOriginal, TypeOK, Judged, Produced, TargetOf, Libraries
<1>4. CASE \E size \in 0..(file.size - 1), rate \in 0..file.rate :
               Replace(size, rate) \/ ReplaceUnrecorded(size, rate)
  <2>1. PICK size \in 0..(file.size - 1), rate \in 0..file.rate :
               Replace(size, rate) \/ ReplaceUnrecorded(size, rate)
    BY <1>4
  <2>0. stage' = "idle" \/ (stage' = "queued" /\ file'.container = file.container)
    BY <2>1 DEF Replace, ReplaceUnrecorded
  <2> DEFINE prof == ProfileFor(config, Filed)
  <2>2. /\ stage = "encoding"
        /\ Head(file.video).codec # "none"
        /\ config' = config /\ rows' = rows
        /\ made' = Filed
        /\ file' = [Output(file, TargetOf(Filed), prof, size, rate) EXCEPT !.links = 1]
    <3>1. Install(size, rate)
      BY <2>1 DEF Replace, ReplaceUnrecorded
    <3> QED
      BY <3>1 DEF Install
  <2>3. /\ DOMAIN file' = Fields
        /\ file'.video = << [codec |-> TargetOf(Filed), dovi |-> Head(file.video).dovi] >>
        /\ file'.size = size /\ file'.rate = rate
        /\ file'.container = prof.container
    BY <2>2, OutputShape
  <2>4. Filed \in Libraries /\ Reason(Filed) = "none" /\ IsVideoCodec(Probe(file).VideoCodec)
    BY <2>2 DEF TypeOK, Judged
  <2>5. file.video \in Seq(Video) /\ file.video # <<>>
    <3>1. file.video = <<>> => Named(file.video) = {}
      BY DEF Named
    <3> QED
      BY <2>4, <3>1 DEF TypeOK, Video, Probe, IsVideoCodec
  <2>6. Head(file.video).dovi \in BOOLEAN
    <3>1. Head(file.video) \in Video
      BY <2>5
    <3> QED
      BY <3>1 DEF Video
  <2>7. TargetOf(Filed) \in Codecs
    BY <2>4, TargetsKnown, ConversionAssumption DEF TypeOK
  <2>8. prof.container \in {"mkv", "mp4"} /\ prof.container \in Containers
    BY <2>4, ContainersKnown DEF TypeOK
  <2>9. TypeOK'
    <3>1. file'.video \in Seq([codec : Codecs, dovi : BOOLEAN])
      BY <2>3, <2>6, <2>7
    <3>2. size \in Nat /\ rate \in Nat
      BY DEF TypeOK
    <3> QED
      BY <2>0, <2>2, <2>3, <2>4, <2>8, <3>1, <3>2 DEF TypeOK, Libraries
  <2>10. Judged'
    BY <2>0 DEF Judged
  <2>14. Selected'
    <3>1. file'.audio = At(file.audio, SelectAudio(file.audio, prof.audio_languages))
      <4>1. DOMAIN file = Fields /\ file.audio \in Seq(Audio) /\ file.subs \in Seq(Text)
        OBVIOUS
      <4> HIDE DEF prof, IInv, Filed
      <4> QED
        BY <2>2, <2>8, <4>1, OutputTracks
    <3>2. SelectAudio(file'.audio, prof.audio_languages) = DOMAIN file'.audio
      BY <3>1, SelectionHears
    <3> QED
      BY <2>2, <3>2
  <2>11. Produced'
    <3>1. /\ file'.video # <<>>
          /\ file'.video[1].codec = TargetOf(Filed)
          /\ file'.video[1].dovi = Head(file.video).dovi
      BY <2>3
    <3>2. Head(file.video).dovi => prof.allow_dolby_vision
      BY <2>4, <2>5, AcceptedDolby
    <3> QED
      BY <2>2, <3>1, <3>2 DEF Produced, TargetOf
  <2>12. (stage # "idle" => Filed # 0)'
    BY <2>2, <2>4, <2>0, NumberedFromOne DEF TypeOK
  <2>13. /\ file'.audio \in Seq(Audio) /\ file'.subs \in Seq(Text)
         /\ SubtitlesFit'
    BY <2>2, <2>3, <2>8, OutputTracks DEF SubtitlesFit
  <2> QED
    BY <2>3, <2>9, <2>10, <2>11, <2>12, <2>13, <2>14
<1>5. CASE ScanStep
  <2>1. PICK i \in Libraries : Examine(i)
    BY <1>5 DEF ScanStep
  <2>2. i # 0
    BY NumberedFromOne DEF TypeOK
  <2> QED
    BY <2>1, <2>2 DEF Examine, Known, TypeOK, Judged, Produced, TargetOf, Libraries
<1>6. CASE AddNamed \/ AddUnnamed
  <2>1. PICK i \in Libraries : Enqueue(i)
    BY <1>6 DEF AddNamed, AddUnnamed
  <2>2. i # 0
    BY NumberedFromOne DEF TypeOK
  <2> QED
    BY <2>1, <2>2 DEF Enqueue, Known, TypeOK, Judged, Produced, TargetOf, Libraries
<1>7. CASE \E c \in Containers : DeleteRow(c)
  <2>1. PICK c \in Containers : DeleteRow(c)
    BY <1>7
  <2> QED
    BY <2>1 DEF DeleteRow, TypeOK, Judged, Produced, TargetOf, Reason, Probe, Libraries
<1>8. CASE \E f \in Files : Import(f)
  BY <1>8, FilesAreMovies DEF Import, TypeOK, Judged, Produced, Libraries
<1>9. CASE StopSeeding
  BY <1>9 DEF StopSeeding, TypeOK, Fields, Judged, Produced, TargetOf, Reason, Probe, Libraries
<1>10. CASE Shutdown
  BY <1>10 DEF Shutdown, TypeOK, Judged, Produced, TargetOf, Libraries
<1>11. CASE UNCHANGED vars
  BY <1>11 DEF vars, TypeOK, Judged, Produced, TargetOf, Reason, Probe, Libraries
<1> QED
  BY <1>1, <1>2, <1>3, <1>4, <1>5, <1>6, <1>7, <1>8, <1>9, <1>10, <1>11
     DEF Next, JobStep, UserStep, WorldStep

\* The invariant the theorems below rest on.
THEOREM ConversionInvHolds == Spec => []IInv
  BY InitIInv, StepIInv, PTL DEF Spec

\* The scanner's rule and the transcoder's never contradict each other, for any
\* configuration that loads and any movie, however often it was converted.
THEOREM ScannerAndTranscoderAgree == Spec => []RulesAgree
<1>1. IInv => RulesAgree
  BY TypesMakeRulesAgree DEF IInv
<1> QED
  BY <1>1, ConversionInvHolds, PTL

\* No library's encodes are work for the same library again, unless too big.
THEOREM OutputsAreLeft == Spec => []OwnWorkIsLeft
<1>1. IInv => OwnWorkIsLeft
  <2> SUFFICES ASSUME IInv, made # 0, Wanted(made)
      PROVE  Oversized(ProfileFor(config, made), file.size)
    BY DEF OwnWorkIsLeft
  <2>1. file.video # <<>> /\ Head(file.video) = file.video[1]
    BY DEF IInv, TypeOK, Produced
  <2>2. ProbeCodec(file.video) \in {TargetOf(made), "unknown"}
    BY <2>1 DEF IInv, Produced, ProbeCodec
  <2> QED
    BY <2>2 DEF Wanted, NeedsWork, IsVideoCodec
<1> QED
  BY <1>1, ConversionInvHolds, PTL

\* Neither users nor shutdowns make a library encode its own output again,
\* unless that is too big.
THEOREM EncodesAreNotRepeated == Spec => []NoEncodeIsRepeated
<1>1. IInv => NoEncodeIsRepeated
  <2> SUFFICES ASSUME IInv, stage = "encoding", made # 0, Filed = made
      PROVE  Oversized(ProfileFor(config, made), file.size)
    BY DEF NoEncodeIsRepeated
  <2>1. /\ file.video \in Seq(Video) /\ file.video # <<>>
        /\ Head(file.video).codec = TargetOf(made)
    BY DEF IInv, TypeOK, Produced, Video
  <2>2. TargetOf(made) # "none"
    BY TargetsKnown DEF IInv, TypeOK
  <2>3. Probe(file).VideoCodec = TargetOf(made)
    BY <2>1, <2>2, ProbesAgree, FirstIsNamed DEF ProbeCodec
  <2>4. Reason(made) = "none"
    BY DEF IInv, Judged
  <2> QED
    BY <2>3, <2>4 DEF Reason, skipReason
<1> QED
  BY <1>1, ConversionInvHolds, PTL

\* Whichever libraries convert a movie, in whichever order, what they make
\* claims Dolby Vision only where the profile allows re-encoding it.
THEOREM DolbyVisionIsNotFaked == Spec => []NoFalseDolbyVision
<1>1. IInv => NoFalseDolbyVision
  BY DEF IInv, TypeOK, Produced, NoFalseDolbyVision
<1> QED
  BY <1>1, ConversionInvHolds, PTL

\* Every subtitle of a file the program made is one its container stores,
\* though one codec argument serves all the tracks.
THEOREM SubtitlesAlwaysFit == Spec => []SubtitlesFit
<1>1. IInv => SubtitlesFit
  BY DEF IInv
<1> QED
  BY <1>1, ConversionInvHolds, PTL

\* No encode, of any file for any profile, loses a wanted language that a tag
\* names; where no tag names one it loses none that a title names, and where
\* no title does either it loses no track.  Selection takes all it drops the first
\* time: a library that encodes its own output drops nothing more.  (Nothing is
\* proved of tracks that only a title identifies, beside one with a wanted tag.)
THEOREM WantedAudioAlwaysSurvives == Spec => WantedAudioSurvives
<1> DEFINE Survives ==
      made' # 0 /\ file'.size < file.size =>
          LET want == normalizeLangs(ProfileFor(config, made').audio_languages)
          IN  /\ Heard(file, want) \subseteq Heard(file', want)
              /\ Heard(file, want) = {} => Announced(file, want) \subseteq Announced(file', want)
              /\ Heard(file, want) \cup Announced(file, want) = {} \/ made' = made =>
                    Len(file'.audio) = Len(file.audio)
<1>1. ASSUME IInv, [Next]_vars PROVE [Survives]_vars
  <2> SUFFICES ASSUME made' # 0, file'.size < file.size, Next PROVE Survives
    BY <1>1 DEF vars
  <2>0. file.size \in Nat
    BY <1>1 DEF IInv, TypeOK
  <2>1. PICK size \in 0..(file.size - 1), rate \in 0..file.rate : Install(size, rate)
    <3>1. ~ StopSeeding
      BY <1>1, <2>0 DEF IInv, Fields, StopSeeding
    <3>2. file' # file
      BY <2>0
    <3> QED
      BY <3>1, <3>2 DEF Next, JobStep, ScanStep, UserStep, WorldStep, Examine, AddNamed, AddUnnamed,
            Enqueue, DeleteRow, Import, Skip, Start, KeepOriginal, Shutdown, Replace,
            ReplaceUnrecorded
  <2> DEFINE prof == ProfileFor(config, Filed)
             want == normalizeLangs(prof.audio_languages)
  <2>2. /\ made' = Filed
        /\ file' = [Output(file, TargetOf(Filed), prof, size, rate) EXCEPT !.links = 1]
    BY <2>1 DEF Install
  <2>3. Filed \in Libraries /\ prof.container \in {"mkv", "mp4"}
    BY <1>1, <2>1, ContainersKnown DEF IInv, TypeOK, Install, Filed, Judged
  <2>4. file'.audio = At(file.audio, SelectAudio(file.audio, prof.audio_languages))
    BY <1>1, <2>2, <2>3, OutputTracks DEF IInv
  <2>5. /\ Heard(file, want) \subseteq Heard(file', want)
        /\ Heard(file, want) = {} => Announced(file, want) \subseteq Announced(file', want)
        /\ Heard(file, want) \cup Announced(file, want) = {} => Len(file'.audio) = Len(file.audio)
    BY <1>1, <2>4, SelectionHears DEF IInv
  <2>6. made' = made => Len(file'.audio) = Len(file.audio)
    <3>1. SUFFICES ASSUME made' = made
          PROVE Len(file'.audio) = Len(file.audio)
      OBVIOUS
    <3>2. SelectAudio(file.audio, prof.audio_languages) = DOMAIN file.audio
      BY <1>1, <2>2, <3>1 DEF IInv, Selected
    <3>3. file.audio \in Seq(Audio)
      BY <1>1 DEF IInv
    <3>4. Len(At(file.audio, DOMAIN file.audio)) = Len(file.audio)
      BY <3>3, AllTracks
    <3> QED
      BY <2>4, <3>2, <3>4
  <2>7. ProfileFor(config, made') = prof
    BY <2>2
  <2> QED
    BY <2>5, <2>6, <2>7
<1> QED
  BY <1>1, ConversionInvHolds, PTL DEF Spec, WantedAudioSurvives

\* A scan adds a row, for a path without one, and changes no other.
LEMMA NewRowKnows ==
    ASSUME IInv, NEW i \in Libraries, Examine(i)
    PROVE  Cardinality({c \in Containers : rows'[c] = 0}) + 1
              = Cardinality({c \in Containers : rows[c] = 0})
<1> DEFINE Free == {c \in Containers : rows[c] = 0}
<1>1. file.container \in Free
  BY DEF IInv, TypeOK, Examine, Known, Filed
<1>2. {c \in Containers : rows'[c] = 0} = Free \ {file.container}
  BY NumberedFromOne DEF IInv, TypeOK, Examine
<1>3. IsFiniteSet(Free)
  BY ConversionAssumption, FS_Subset
<1>4. Cardinality(Free) \in Nat /\ Cardinality(Free \ {file.container}) = Cardinality(Free) - 1
  BY <1>1, <1>3, FS_RemoveElement, FS_CardinalityType
<1> HIDE DEF Free
<1>5. Cardinality({c \in Containers : rows'[c] = 0}) = Cardinality(Free) - 1
  BY <1>2, <1>4
<1> QED
  BY <1>4, <1>5 DEF Free

\* However many libraries want the movie, left alone it is worked on at most
\* three times as often as it has paths: once per path it is queued, started
\* and ended.
THEOREM WorkAlwaysRunsOut == Spec => WorkRunsOut
<1> DEFINE Free == {c \in Containers : rows[c] = 0}
<1>1. ASSUME IInv, Next PROVE ScanStep \/ JobStep => WorkLeft' < WorkLeft
  <2>1. Cardinality(Free) \in Nat
    BY ConversionAssumption, FS_Subset, FS_CardinalityType
  <2>2. CASE ScanStep
    <3>1. PICK i \in Libraries : Examine(i)
      BY <2>2 DEF ScanStep
    <3>2. Cardinality(Free') + 1 = Cardinality(Free)
      BY <1>1, <3>1, NewRowKnows
    <3>3. stage = "idle" /\ stage' = "queued"
      BY <1>1, <3>1 DEF IInv, TypeOK, Examine, Known
    <3>4. Cardinality(Free') \in Nat
      BY ConversionAssumption, FS_Subset, FS_CardinalityType
    <3> QED
      BY <2>1, <3>2, <3>3, <3>4 DEF WorkLeft
  <2>3. CASE JobStep
    <3>1. \/ stage = "queued" /\ stage' \in {"idle", "encoding"}
          \/ stage = "encoding" /\ stage' = "idle"
      BY <2>3 DEF JobStep, Skip, Start, KeepOriginal, Replace, Install
    <3>2. rows' = rows
      BY <2>3 DEF JobStep, Skip, Start, KeepOriginal, Replace, Install
    <3> QED
      BY <2>1, <3>1, <3>2 DEF WorkLeft
  <2> QED
    BY <2>2, <2>3
<1>2. IInv /\ [Next]_vars => [ScanStep \/ JobStep => WorkLeft' < WorkLeft]_vars
  BY <1>1
<1> QED
  BY <1>2, ConversionInvHolds, PTL DEF Spec, WorkRunsOut

-----------------------------------------------------------------------------
(* Which library a path belongs to.                                          *)

\* A set of naturals with a bound has a greatest element: its least bound
\* cannot be lowered.
LEMMA GreatestNatural ==
    ASSUME NEW T, T \subseteq Nat, T # {}, NEW b \in Nat, \A y \in T : y <= b
    PROVE  \E x \in T : \A y \in T : y <= x
<1> DEFINE Bounds == {m \in Nat : \A y \in T : y <= m}
<1>1. Bounds \subseteq Nat /\ Bounds # {}
  OBVIOUS
<1>2. PICK m \in Bounds : \A k \in Bounds : m <= k
  BY <1>1, LeastNatural
<1>3. m \in T
  <2>1. SUFFICES ASSUME m \notin T PROVE FALSE
    OBVIOUS
  <2>2. \A y \in T : y \in Nat /\ y <= m /\ y # m
    BY <1>2, <2>1
  <2>3. PICK y \in T : TRUE
    OBVIOUS
  <2>4. m \in Nat /\ m # 0
    BY <1>2, <2>2, <2>3
  <2>5. \A z \in T : z <= m - 1
    BY <2>2, <2>4
  <2>6. m - 1 \in Bounds
    BY <2>4, <2>5
  <2> QED
    BY <1>2, <2>4, <2>6
<1> QED
  BY <1>2, <1>3

\* A path that some library holds belongs to exactly one, in every loaded
\* configuration: to the innermost, and of two for the same directory to the
\* first.
THEOREM LibraryIsDetermined ==
    ASSUME NEW c \in Configs, NEW path \in Seq(STRING), Holding(c, path) # {}
    PROVE  \E i \in DOMAIN c.libraries :
              \A k \in DOMAIN c.libraries : IsLibraryFor(c, path, k) <=> k = i
<1> DEFINE H == Holding(c, path)
           Depth(i) == Len(c.libraries[i].path)
           Depths == {Depth(i) : i \in H}
<1>1. H \subseteq DOMAIN c.libraries /\ DOMAIN c.libraries \subseteq Nat
  BY ConversionAssumption DEF Holding
<1>2. \A i \in H : Depth(i) \in Nat /\ Depth(i) <= Len(path)
  <2> TAKE i \in H
  <2> DEFINE Library == [name : STRING, path : Seq(STRING), profile : STRING, enabled : BOOLEAN]
  <2>1. i \in DOMAIN c.libraries /\ c.libraries \in Seq(Library)
    BY <1>1, ConversionAssumption
  <2>2. c.libraries[i] \in Library
    <3> HIDE DEF Library
    <3> QED
      BY <2>1
  <2>3. c.libraries[i].path \in Seq(STRING)
    BY <2>2
  <2>4. Depth(i) <= Len(path)
    BY DEF Holding, IsPrefix
  <2> QED
    BY <2>3, <2>4
<1>3. Len(path) \in Nat
  OBVIOUS
<1>4. Depths \subseteq Nat /\ Depths # {} /\ \A d \in Depths : d <= Len(path)
  BY <1>2
<1>5. PICK deepest \in Depths : \A d \in Depths : d <= deepest
  BY <1>3, <1>4, GreatestNatural
<1> DEFINE Inner == {i \in H : Depth(i) = deepest}
<1>6. Inner \subseteq Nat /\ Inner # {}
  BY <1>1
<1>7. PICK i \in Inner : \A k \in Inner : i <= k
  BY <1>6, LeastNatural
<1> HIDE DEF H
<1>8. i \in H /\ Depth(i) = deepest /\ \A k \in H : Depth(k) \in Nat /\ Depth(k) <= Depth(i)
  BY <1>2, <1>5
<1>9. \A k \in H : Depth(k) = Depth(i) => i <= k
  BY <1>7
<1>10. \A k \in H : k \in Nat
  BY <1>1
<1>11. IsLibraryFor(c, path, i)
  <2>1. \A k \in H : Depth(k) < Depth(i) \/ (Depth(k) = Depth(i) /\ i <= k)
    <3> HIDE DEF Depth
    <3> QED
      BY <1>8, <1>9
  <2> QED
    BY <1>8, <2>1 DEF IsLibraryFor, H
<1>12. ASSUME NEW k \in DOMAIN c.libraries, IsLibraryFor(c, path, k) PROVE k = i
  <2>1. k \in H /\ (Depth(i) < Depth(k) \/ (Depth(i) = Depth(k) /\ k <= i))
    BY <1>8, <1>12 DEF IsLibraryFor, H
  <2> HIDE DEF Depth
  <2>2. Depth(i) = Depth(k) /\ k <= i /\ i <= k
    BY <1>8, <1>9, <2>1
  <2> QED
    BY <1>8, <1>10, <2>1, <2>2
<1> QED
  BY <1>1, <1>8, <1>11, <1>12 DEF H

-----------------------------------------------------------------------------
(* The layers of a profile.                                                  *)

\* What the lower layer sets stays set: a layer can give a setting another
\* value, but cannot take it back to the zero value.
LEMMA LayerKeepsSettings ==
    ASSUME NEW base, NEW over, NEW s \in DOMAIN base, base[s] # ZeroProfile[s]
    PROVE  mergeProfile(base, over)[s] # ZeroProfile[s]
BY DEF mergeProfile

\* "fillProfiles ensures every profile has complete values" (config.go:371): for
\* every configuration given, each profile sets whatever the built-in profile or
\* "default" sets.  So the rules always have a list of codecs to skip and a
\* container; and no file can say `size_limit_gb: 0`, though the example
\* configuration offers it as "never" (config.example.yaml:63).
THEOREM ProfilesAreComplete ==
    ASSUME NEW given, NEW n \in DOMAIN fillProfiles(given), NEW s \in DOMAIN DefaultProfile,
           \/ DefaultProfile[s] # ZeroProfile[s]
           \/ fillProfiles(given)["default"][s] # ZeroProfile[s]
    PROVE  fillProfiles(given)[n][s] # ZeroProfile[s]
<1> DEFINE base == IF "default" \in DOMAIN given
                   THEN mergeProfile(DefaultProfile, given["default"])
                   ELSE DefaultProfile
<1>1. DOMAIN base = DOMAIN DefaultProfile
  BY DEF mergeProfile
<1>2. fillProfiles(given) = [m \in DOMAIN given \cup {"default"} |->
                                IF m = "default" THEN base ELSE mergeProfile(base, given[m])]
  BY DEF fillProfiles
<1>3. fillProfiles(given)["default"] = base
  BY <1>2
<1>4. DefaultProfile[s] # ZeroProfile[s] => base[s] # ZeroProfile[s]
  BY LayerKeepsSettings
<1>5. base[s] # ZeroProfile[s]
  BY <1>3, <1>4
<1> HIDE DEF base
<1>6. mergeProfile(base, given[n])[s] # ZeroProfile[s]
  BY <1>1, <1>5, LayerKeepsSettings
<1> QED
  BY <1>2, <1>5, <1>6
=============================================================================

------------------------------- MODULE FileSwap ------------------------------
(***************************************************************************)
(* What Transcode (internal/transcoder) does to the files of one job:      *)
(* encode to a temp file, check the result, rename the source to .backup,  *)
(* move the output into place and retire the original, with a process that *)
(* may die between any two steps and a job that is then run again.         *)
(*                                                                         *)
(* MoveFile is a rename within a file system and otherwise a copy, during  *)
(* which a partial file is at the destination.  A file is abstracted to    *)
(* its size, whether it holds the whole movie, the duration its header     *)
(* gives, and whether its mtime is older than trash_retention.             *)
(* Asked for the duration of an output, ffprobe may fail to answer.        *)
(***************************************************************************)
EXTENDS Integers, FiniteSetsExt

CONSTANTS
    Run,             \* executions of Transcode for the job's file
    MaxSize,         \* size of the original
    HardwareDecode,  \* is a failed encode retried with software decoding?
    Setups           \* the configurations considered

\* output: does the output reach the library by rename or by copy?
\* container: does the profile's container change the file's extension?
\* trash: no trash_dir, or one on the library's file system or on another.
\* dry: is dry_run set?
\* overlap: may several runs for the file be under way at once?
AllSetups == [output    : {"rename", "copy"},
              container : BOOLEAN,
              trash     : {"none", "rename", "copy"},
              dry       : BOOLEAN,
              overlap   : BOOLEAN]

ASSUME SwapAssumption ==
    /\ MaxSize \in Nat \ {0}
    /\ HardwareDecode \in BOOLEAN
    /\ Setups \subseteq AllSetups

VARIABLES
    setup,   \* the configuration; never changes
    at,      \* what is at each path of the library
    temp,    \* what is at each run's temp path
    trash,   \* what is in the trash directory
    kept,    \* history: trashed files that have been there for trash_retention
    pc,      \* where each run is in Transcode
    seen,    \* the source as each run measured it
    input,   \* the file each run's ffmpeg has open
    judged   \* history: was each accepted output compared with its source?

vars == <<setup, at, temp, trash, kept, pc, seen, input, judged>>

Content == [size  : 1..MaxSize,
            whole : BOOLEAN,                          \* the entire movie?
            shows : {"full", "short", "unknown"},     \* duration in the header
            mtime : {"old", "new"}]

Nothing == [size |-> 0, whole |-> FALSE, shows |-> "unknown", mtime |-> "new"]

\* The source's path, the path with the new extension, and source.backup.
Path == {"src", "dst", "bak"}

Final == IF setup.container THEN "dst" ELSE "src"

Exists(p) == at[p] # Nothing

\* What a copy of c may look like while it is being made.
PartsOf(c) == {d \in Content : /\ d.size <= c.size
                               /\ ~ d.whole
                               /\ d.shows \in {c.shows, "unknown"}
                               /\ d.mtime = "new"}

\* Slip: a copy is given the times of its source.
CopyWithTimes(c) == c

CopyOf(c) == [c EXCEPT !.mtime = "new"]

\* What a copy of c that fails may leave: MoveFile ignores a failing removal of
\* a part, and fails when it cannot remove c after a complete copy.
LeftoversOf(c) == PartsOf(c) \cup {CopyOf(c)}

\* Outputs ffmpeg may leave, exiting with 0, when it has read c: whole, or cut
\* short, as it is when the input is.
OutputsOf(c) == {d \in Content : /\ d.whole => c.whole
                                 /\ d.shows = IF d.whole THEN "full" ELSE "short"
                                 /\ d.mtime = "new"}

Swapping == {"moving", "copying"}
Retiring == {"retiring", "trashing"}
Stage == {"idle", "probed", "encoding", "software", "encoded", "accepted"}
            \cup Swapping \cup Retiring

TypeOK ==
    /\ setup \in Setups
    /\ at \in [Path -> Content \cup {Nothing}]
    /\ temp \in [Run -> Content \cup {Nothing}]
    /\ trash \subseteq Content
    /\ kept \subseteq trash
    /\ pc \in [Run -> Stage]
    /\ seen \in [Run -> Content \cup {Nothing}]
    /\ input \in [Run -> Content \cup {Nothing}]
    /\ judged \in BOOLEAN

\* The original is whole; its header may give no duration.
Originals == {c \in Content : c.size = MaxSize /\ c.whole /\ c.shows # "short"}

Init ==
    /\ setup \in Setups
    /\ \E original \in Originals :
          at = [p \in Path |-> IF p = "src" THEN original ELSE Nothing]
    /\ temp = [r \in Run |-> Nothing]
    /\ trash = {}
    /\ kept = {}
    /\ pc = [r \in Run |-> "idle"]
    /\ seen = [r \in Run |-> Nothing]
    /\ input = [r \in Run |-> Nothing]
    /\ judged = TRUE

-----------------------------------------------------------------------------
(* Encoding and checking.                                                    *)

\* Transcode returns and removes its temp file, if it can.
Return(r, files) ==
    /\ at' = files
    /\ temp' \in {temp, [temp EXCEPT ![r] = Nothing]}
    /\ pc' = [pc EXCEPT ![r] = "idle"]
    /\ seen' = [seen EXCEPT ![r] = Nothing]
    /\ input' = [input EXCEPT ![r] = Nothing]
    /\ UNCHANGED <<setup, judged>>

\* Stat and probe the source.  A file that is missing, cannot be probed or is
\* skipped ends the run here without any effect.
Begin(r) ==
    /\ pc[r] = "idle"
    /\ setup.overlap \/ \A q \in Run : pc[q] = "idle"
    /\ Exists("src")
    /\ pc' = [pc EXCEPT ![r] = "probed"]
    /\ seen' = [seen EXCEPT ![r] = at["src"]]
    /\ UNCHANGED <<setup, at, temp, trash, kept, input, judged>>

\* Whatever is left at the temp path is removed and ffmpeg opens the source.
OpenSource(r, stage) ==
    /\ Exists("src")
    /\ temp' = [temp EXCEPT ![r] = Nothing]
    /\ pc' = [pc EXCEPT ![r] = stage]
    /\ input' = [input EXCEPT ![r] = at["src"]]
    /\ UNCHANGED <<setup, at, trash, kept, seen, judged>>

StartEncode(r) == pc[r] = "probed" /\ OpenSource(r, "encoding")

\* A hardware-decoding ffmpeg fails and is run again in software.
RetryInSoftware(r) == pc[r] = "encoding" /\ HardwareDecode /\ OpenSource(r, "software")

\* The source could not be opened, or ffmpeg failed for good or was cancelled.
EncodeFails(r) ==
    /\ pc[r] \in {"probed", "encoding", "software"}
    /\ Return(r, at)
    /\ UNCHANGED <<trash, kept>>

EncodeSucceeds(r) ==
    /\ pc[r] \in {"encoding", "software"}
    /\ \E out \in OutputsOf(input[r]) : temp' = [temp EXCEPT ![r] = out]
    /\ pc' = [pc EXCEPT ![r] = "encoded"]
    /\ UNCHANGED <<setup, at, trash, kept, seen, input, judged>>

\* The never-grow rule.
Smaller(r) == temp[r].size < seen[r].size

\* What ffprobe says of an output: nothing when it fails, takes too long, or is
\* cancelled with the job's context.
Answers(c) == {c.shows, "unknown"}

\* The truncation guard compares two durations, if it knows both.
Truncated(r, answer) == seen[r].shows = "full" /\ answer = "short"

Unjudged(r, answer) == "unknown" \in {seen[r].shows, answer}

\* Slip: outputs are not compared with the duration of the source.
AcceptTruncated(r) ==
    /\ pc[r] = "encoded"
    /\ Smaller(r)
    /\ ~ setup.dry
    /\ \E answer \in Answers(temp[r]) : judged' = (judged /\ ~ Unjudged(r, answer))
    /\ pc' = [pc EXCEPT ![r] = "accepted"]
    /\ UNCHANGED <<setup, at, temp, trash, kept, seen, input>>

Accept(r) ==
    /\ pc[r] = "encoded"
    /\ Smaller(r)
    /\ ~ setup.dry
    /\ \E answer \in Answers(temp[r]) :
          /\ ~ Truncated(r, answer)
          /\ judged' = (judged /\ ~ Unjudged(r, answer))
    /\ pc' = [pc EXCEPT ![r] = "accepted"]
    /\ UNCHANGED <<setup, at, temp, trash, kept, seen, input>>

\* Not smaller, truncated, or a dry run: the source is left alone.
Reject(r) ==
    /\ pc[r] = "encoded"
    /\ \/ ~ Smaller(r)
       \/ \E answer \in Answers(temp[r]) : Truncated(r, answer)
       \/ setup.dry
    /\ Return(r, at)
    /\ UNCHANGED <<trash, kept>>

-----------------------------------------------------------------------------
(* Installing.                                                               *)

\* Slip: the source is removed to make room for the output.
BackUpByRemoving(r) ==
    /\ pc[r] = "accepted"
    /\ Exists("src")
    /\ at' = [at EXCEPT !["src"] = Nothing]
    /\ pc' = [pc EXCEPT ![r] = "moving"]
    /\ UNCHANGED <<setup, temp, trash, kept, seen, input, judged>>

\* source -> source.backup.  An earlier .backup is overwritten.
BackUp(r) ==
    /\ pc[r] = "accepted"
    /\ Exists("src")
    /\ at' = [at EXCEPT !["src"] = Nothing, !["bak"] = at["src"]]
    /\ pc' = [pc EXCEPT ![r] = "moving"]
    /\ UNCHANGED <<setup, temp, trash, kept, seen, input, judged>>

BackUpFails(r) ==
    /\ pc[r] = "accepted"
    /\ Return(r, at)
    /\ UNCHANGED <<trash, kept>>

\* The output is renamed to its final path.
InstallByRename(r) ==
    /\ pc[r] = "moving"
    /\ setup.output = "rename"
    /\ at' = [at EXCEPT ![Final] = temp[r]]
    /\ temp' = [temp EXCEPT ![r] = Nothing]
    /\ pc' = [pc EXCEPT ![r] = "retiring"]
    /\ UNCHANGED <<setup, trash, kept, seen, input, judged>>

\* The output is copied; the destination is partial until it is synced.
StartCopy(r) ==
    /\ pc[r] = "moving"
    /\ setup.output = "copy"
    /\ \E part \in PartsOf(temp[r]) : at' = [at EXCEPT ![Final] = part]
    /\ pc' = [pc EXCEPT ![r] = "copying"]
    /\ UNCHANGED <<setup, temp, trash, kept, seen, input, judged>>

EndCopy(r) ==
    /\ pc[r] = "copying"
    /\ at' = [at EXCEPT ![Final] = CopyOf(temp[r])]
    /\ temp' = [temp EXCEPT ![r] = Nothing]
    /\ pc' = [pc EXCEPT ![r] = "retiring"]
    /\ UNCHANGED <<setup, trash, kept, seen, input, judged>>

\* source.backup -> source, if there is one.
Restored(files) ==
    IF files["bak"] = Nothing
    THEN files
    ELSE [files EXCEPT !["src"] = files["bak"], !["bak"] = Nothing]

\* What a failed move leaves at the final path: a part it could not remove, or
\* a complete copy of an output that it could not remove.
AfterFailedMove(r) ==
    IF pc[r] = "moving"
    THEN {at}
    ELSE {[at EXCEPT ![Final] = c] : c \in LeftoversOf(temp[r]) \cup {Nothing}}

\* Slip: the original is put back before the partial destination is removed.
InstallFailsInWrongOrder(r) ==
    /\ pc[r] \in Swapping
    /\ LET files == Restored(at)
       IN  Return(r, IF pc[r] = "copying" THEN [files EXCEPT ![Final] = Nothing] ELSE files)
    /\ UNCHANGED <<trash, kept>>

\* The move fails and the original is put back, unless that fails as well.
InstallFails(r) ==
    /\ pc[r] \in Swapping
    /\ \E files \in AfterFailedMove(r) : Return(r, Restored(files)) \/ Return(r, files)
    /\ UNCHANGED <<trash, kept>>

-----------------------------------------------------------------------------
(* Retiring the original.                                                    *)

\* Without a trash directory the backup is deleted.
DeleteBackup(r) ==
    /\ pc[r] = "retiring"
    /\ setup.trash = "none"
    /\ Return(r, [at EXCEPT !["bak"] = Nothing])
    /\ UNCHANGED <<trash, kept>>

\* The backup goes to a free name in the trash directory.
TrashByRename(r) ==
    /\ pc[r] = "retiring"
    /\ setup.trash = "rename"
    /\ Exists("bak")
    /\ trash' = trash \cup {at["bak"]}
    /\ Return(r, [at EXCEPT !["bak"] = Nothing])
    /\ kept' = kept \ {at["bak"]}

StartTrashCopy(r) ==
    /\ pc[r] = "retiring"
    /\ setup.trash = "copy"
    /\ Exists("bak")
    /\ pc' = [pc EXCEPT ![r] = "trashing"]
    /\ UNCHANGED <<setup, at, temp, trash, kept, seen, input, judged>>

EndTrashCopy(r) ==
    /\ pc[r] = "trashing"
    /\ Exists("bak")
    /\ trash' = trash \cup {CopyOf(at["bak"])}
    /\ Return(r, [at EXCEPT !["bak"] = Nothing])
    /\ kept' = kept \ {CopyOf(at["bak"])}

\* The backup cannot be removed or moved: it stays, and the job is completed.
RetireFails(r) ==
    /\ pc[r] \in Retiring
    /\ Return(r, at)
    /\ UNCHANGED <<trash, kept>>

\* A copy to the trash that fails, or that cannot remove the backup, may leave
\* its copy there.
LeaveInTrash(r) ==
    /\ pc[r] = "trashing"
    /\ Exists("bak")
    /\ \E c \in LeftoversOf(at["bak"]) : trash' = trash \cup {c} /\ kept' = kept \ {c}

TrashCopyFails(r) == LeaveInTrash(r) /\ Return(r, at)

-----------------------------------------------------------------------------
(* The process, and maintenance.                                             *)

\* The process dies.  Temp files survive unless temp_dir is memory; a copy to
\* the trash that was under way may leave what it has written.
Crash ==
    /\ \E r \in Run : pc[r] # "idle"
    /\ temp' \in {temp, [r \in Run |-> Nothing]}
    /\ UNCHANGED <<trash, kept>> \/ \E r \in Run : LeaveInTrash(r)
    /\ pc' = [r \in Run |-> "idle"]
    /\ seen' = [r \in Run |-> Nothing]
    /\ input' = [r \in Run |-> Nothing]
    /\ UNCHANGED <<setup, at, judged>>

\* runMaintenance removes a temp file that has not been written for a day.
CleanTemp(r) ==
    /\ pc[r] = "idle"
    /\ temp[r] # Nothing
    /\ temp' = [temp EXCEPT ![r] = Nothing]
    /\ UNCHANGED <<setup, at, trash, kept, pc, seen, input, judged>>

Aged(c) == IF c = Nothing THEN c ELSE [c EXCEPT !.mtime = "old"]

\* trash_retention passes between two runs.
TimePasses ==
    /\ \A r \in Run : pc[r] = "idle"
    /\ trash # kept
    /\ at' = [p \in Path |-> Aged(at[p])]
    /\ trash' = {Aged(c) : c \in trash}
    /\ kept' = trash'
    /\ UNCHANGED <<setup, temp, pc, seen, input, judged>>

\* runMaintenance deletes what looks older than trash_retention.
PruneTrash ==
    /\ \E c \in trash : c.mtime = "old"
    /\ trash' = {c \in trash : c.mtime # "old"}
    /\ kept' = kept \cap trash'
    /\ UNCHANGED <<setup, at, temp, pc, seen, input, judged>>

-----------------------------------------------------------------------------

RunStep(r) ==
    \/ Begin(r) \/ StartEncode(r) \/ RetryInSoftware(r)
    \/ EncodeFails(r) \/ EncodeSucceeds(r) \/ Accept(r) \/ Reject(r)
    \/ BackUp(r) \/ BackUpFails(r)
    \/ InstallByRename(r) \/ StartCopy(r) \/ EndCopy(r) \/ InstallFails(r)
    \/ DeleteBackup(r) \/ TrashByRename(r) \/ StartTrashCopy(r) \/ EndTrashCopy(r)
    \/ RetireFails(r) \/ TrashCopyFails(r)

Next ==
    \/ \E r \in Run : RunStep(r) \/ CleanTemp(r)
    \/ Crash \/ TimePasses \/ PruneTrash

Spec == Init /\ [][Next]_vars

-----------------------------------------------------------------------------
(* Properties.                                                               *)

\* README: output is moved into place "with a .backup of the original held
\* until the move succeeds": while a run moves its output, a copy is under
\* .backup, a complete one unless an output was accepted unjudged.
BackupHeld ==
    \A r \in Run :
        pc[r] \in Swapping => Exists("bak") /\ (judged => at["bak"].whole)

\* A run that has installed its output has replaced the file it measured and
\* encoded by a smaller one, and by a complete one unless an output was
\* accepted unjudged.
InstalledIsSound ==
    \A r \in Run :
        pc[r] \in Retiring =>
            /\ at["bak"] = seen[r]
            /\ at["bak"] = input[r]
            /\ Exists(Final)
            /\ at[Final].size < at["bak"].size
            /\ judged => at[Final].whole

WholeSize(p) == IF at[p].whole THEN at[p].size ELSE 0

\* The size of the best complete copy there is, under .backup or where a user
\* would play it; 0 when there is none at all.
Movie == Max({WholeSize(p) : p \in Path})

\* Crashes, failed moves and reruns included, the run's many steps look like
\* one atomic replacement of a complete copy by a smaller one, which is
\* complete too for as long as every accepted output was judged.
Library == INSTANCE Replacement WITH movie <- Movie
ReplacesAtomically == Library!Spec

\* README: replaced originals in the trash directory "are pruned after
\* trash_retention": a complete file leaves the trash only after that time.
TrashIsKept ==
    [][\A c \in trash : c.whole /\ c \notin kept => c \in trash' \/ Aged(c) \in kept']_vars

\* That promise is kept where no original is renamed into the trash: a copy is
\* as old as its stay there, so that pruning by age is pruning by stay.
CopiedTrashIsKept ==
    [][setup.trash # "rename" =>
          \A c \in trash : c.whole /\ c \notin kept => c \in trash' \/ Aged(c) \in kept']_vars
=============================================================================

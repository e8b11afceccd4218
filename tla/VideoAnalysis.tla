---------------------------- MODULE VideoAnalysis ----------------------------
(***************************************************************************)
(* The analysis of a video: VideoJobProcessor._process_video, with         *)
(* frame_extraction_service.py and moderate_frame_batch.  VideoPipeline    *)
(* has all of it up to the finalization as one step ("analyse"); here it   *)
(* is taken apart, with the temporary directory that runs share.           *)
(*                                                                         *)
(* A run is one call of _process_video in one worker process; the workers  *)
(* of a host share its file system.  The directory is named after the job, *)
(* so another run of the job, or of a job whose id differs only in / and   *)
(* _, removes and rewrites the same files.  A worker handles one message   *)
(* at a time, so nobody contends for the semaphore of its GPU service.     *)
(***************************************************************************)
EXTENDS ModerationPolicy

CONSTANTS
    Runs,            \* calls of _process_video
    Dirs,            \* directories under video_temp_root
    Sources,         \* source_video_uri
    DirOf,           \* the directory of a run's job
    SourceOf,        \* the source of a run's job
    Contents,        \* what may be behind each source
    FrameBatchSize,  \* frame_batch_size
    GpuMaxAttempts,  \* gpu_max_attempts
    Nobody,          \* no run
    MaxFaults        \* bound: failing calls, bad replies and crashes

\* What the model can say of a frame.
Outputs == {out \in [top : Categories, scores : [Categories -> Severities]] :
                ValidOutput(out)}

ASSUME AnalysisAssumption ==
    /\ DirOf \in [Runs -> Dirs]
    /\ SourceOf \in [Runs -> Sources]
    /\ \A s \in Sources : \A c \in Contents[s] :
           /\ c.kind \in {"video", "empty", "large", "noStream"}
           /\ c.looks \in Seq(Outputs)
           /\ (c.kind = "video") = (c.looks # <<>>)
    /\ FrameBatchSize \in Nat \ {0}
    /\ GpuMaxAttempts \in Nat \ {0}
    /\ Nobody \notin Runs
    /\ MaxFaults \in Nat

VARIABLES
    content,  \* what each source serves; one output per second of a video
    file,     \* source.mp4 of a directory: who opened it last, and whether
              \* that run has written all of it
    frames,   \* frame files of a directory: <<number, source it shows>>
    there,    \* directories that exist
    pc,       \* where a run is
    shot,     \* frames its ffmpeg has yet to write
    todo,     \* numbers of the listed frames not yet judged
    results,  \* frame_results
    tries,    \* GPU attempts for the current batch that failed
    verdict,  \* final_result
    outcome,  \* how the run ended, or is about to
    met,      \* runs that were in their directory with another one, or with
              \* files of an earlier one that could not be removed
    faults

dirVars == <<file, frames, there>>
judgeVars == <<todo, results, tries, verdict>>
vars == <<content, dirVars, pc, shot, judgeVars, outcome, met, faults>>

PcValues == {"new", "fetch", "open", "write", "probe", "extract", "ffmpeg", "list",
             "judge", "finalize", "cleanup", "ended", "littered", "crashed"}

NoFile == [opener |-> Nobody, whole |-> FALSE]
NoVerdict == [frames |-> 0]

Frames == Nat \X Sources

AnalysisTypeOK ==
    /\ \A s \in Sources : content[s] \in Contents[s]
    /\ \A d \in Dirs : file[d] = NoFile
                       \/ file[d] \in [opener : Runs, whole : BOOLEAN]
    /\ frames \in [Dirs -> SUBSET Frames]
    /\ there \subseteq Dirs
    /\ pc \in [Runs -> PcValues]
    /\ shot \in [Runs -> SUBSET Frames]
    /\ todo \in [Runs -> Seq(Nat)]
    /\ results \in [Runs -> Seq(Outputs)]
    /\ tries \in [Runs -> 0..GpuMaxAttempts]
    /\ outcome \in [Runs -> {"none", "classified", "retry", "terminal"}]
    /\ met \subseteq Runs
    /\ faults \in 0..MaxFaults

Init ==
    /\ content \in {c \in [Sources -> UNION {Contents[s] : s \in Sources}] :
                       \A s \in Sources : c[s] \in Contents[s]}
    /\ file = [d \in Dirs |-> NoFile]
    /\ frames = [d \in Dirs |-> {}]
    /\ there = {}
    /\ pc = [r \in Runs |-> "new"]
    /\ shot = [r \in Runs |-> {}]
    /\ todo = [r \in Runs |-> <<>>]
    /\ results = [r \in Runs |-> <<>>]
    /\ tries = [r \in Runs |-> 0]
    /\ verdict = [r \in Runs |-> NoVerdict]
    /\ outcome = [r \in Runs |-> "none"]
    /\ met = {}
    /\ faults = 0

-----------------------------------------------------------------------------

At(r, label) == pc[r] = label
Jump(r, label) == pc' = [pc EXCEPT ![r] = label]

\* Runs at work.  A run that is not has yet to begin, or ended, with some of
\* its directory left or none, or died with its worker.
Live == {r \in Runs : pc[r] \notin {"new", "ended", "littered", "crashed"}}
Neighbours(r) == {x \in Live \ {r} : DirOf[x] = DirOf[r]}

Fault ==
    /\ faults < MaxFaults
    /\ faults' = faults + 1

\* Mutant of Raise: the directory is left behind when a step raises.
RaiseWithoutFinally(r, how) ==
    /\ Jump(r, "ended")
    /\ outcome' = [outcome EXCEPT ![r] = how]

\* An exception inside the try; how _is_retryable takes it.
Raise(r, how) ==
    /\ Jump(r, "cleanup")
    /\ outcome' = [outcome EXCEPT ![r] = how]

RaiseOnFault(r, how) == Fault /\ Raise(r, how)

Go(r, label) == Jump(r, label) /\ UNCHANGED <<outcome, faults>>

\* What cleanup_dir does to the files of a directory: they are gone; or some
\* cannot be removed, which it tells nobody (ignore_errors).
RemoveFiles(d) ==
    /\ file' = [file EXCEPT ![d] = NoFile]
    /\ frames' = [frames EXCEPT ![d] = {}]

KeepSome(d) ==
    /\ file' \in {file, [file EXCEPT ![d] = NoFile]}
    /\ \E kept \in SUBSET frames[d] : frames' = [frames EXCEPT ![d] = kept]

-----------------------------------------------------------------------------
(* The directory and the source.                                           *)

Join(r) == IF Neighbours(r) = {} THEN met ELSE met \cup Neighbours(r) \cup {r}

\* Mutant of Prepare: what an earlier run left stays.
PrepareKeepsFiles(r) ==
    /\ At(r, "new")
    /\ there' = there \cup {DirOf[r]}
    /\ met' = Join(r)
    /\ Go(r, "fetch")
    /\ UNCHANGED <<content, file, frames, shot, judgeVars>>

\* prepare_job_dir, before the try: the directory is removed and made anew.
\* The removal may fail, and so may mkdir, which ends the run at once, with
\* or without a directory.
Prepare(r) ==
    LET d == DirOf[r]
    IN /\ At(r, "new")
       /\ \/ /\ RemoveFiles(d)
             /\ there' = there \cup {d}
             /\ met' = Join(r)
             /\ Go(r, "fetch")
          \/ /\ Fault
             /\ KeepSome(d)
             /\ there' = there \cup {d}
             /\ met' = Join(r) \cup {r}
             /\ Jump(r, "fetch") /\ UNCHANGED outcome
          \/ /\ Fault
             /\ \/ RemoveFiles(d) /\ there' = there \ {d}
                \/ KeepSome(d) /\ there' = there \cup {d}
             /\ met' = Join(r) \cup {r}
             /\ Jump(r, "littered")
             /\ outcome' = [outcome EXCEPT ![r] = "retry"]
       /\ UNCHANGED <<content, shot, judgeVars>>

\* download_video up to the request: mkdir.
Fetch(r) ==
    /\ At(r, "fetch")
    /\ there' \in {there, there \cup {DirOf[r]}}
    /\ \/ DirOf[r] \in there' /\ Go(r, "open")
       \/ RaiseOnFault(r, "retry")
    /\ UNCHANGED <<content, file, frames, shot, judgeVars, met>>

\* The response: it fails, with a status other than 408, 429 and 5xx for good,
\* or source.mp4 is opened, if the directory is still there.  A file that two
\* jobs write at once counts as that of the last to open it: nothing is said
\* of runs that have met.
Open(r) ==
    LET d == DirOf[r]
    IN /\ At(r, "open")
       /\ \/ /\ d \in there
             /\ file' = [file EXCEPT ![d] = [opener |-> r, whole |-> FALSE]]
             /\ Go(r, "write")
          \/ /\ d \notin there
             /\ Raise(r, "retry")
             /\ UNCHANGED <<file, faults>>
          \/ /\ \E how \in {"retry", "terminal"} : RaiseOnFault(r, how)
             /\ UNCHANGED file
       /\ UNCHANGED <<content, frames, there, shot, judgeVars, met>>

\* Mutant of Written: a connection that breaks counts as the end of the body.
WrittenShort(r) ==
    /\ At(r, "write")
    /\ \/ /\ content[SourceOf[r]].kind \in {"empty", "large"}
          /\ Raise(r, "terminal")
          /\ UNCHANGED <<file, faults>>
       \/ /\ content[SourceOf[r]].kind \in {"video", "noStream"}
          /\ Go(r, "probe")
          /\ file' = [file EXCEPT ![DirOf[r]].whole = @ \/ file[DirOf[r]].opener = r]
       \/ /\ Fault
          /\ Jump(r, "probe")
          /\ UNCHANGED <<file, outcome>>
    /\ UNCHANGED <<content, frames, there, shot, judgeVars, met>>

\* The rest of download_video: the body, with its limits, or a broken
\* connection.  The handle may be of a file that is gone or reopened by now.
Written(r) ==
    /\ At(r, "write")
    /\ \/ /\ content[SourceOf[r]].kind \in {"empty", "large"}
          /\ Raise(r, "terminal")
          /\ UNCHANGED <<file, faults>>
       \/ /\ content[SourceOf[r]].kind \in {"video", "noStream"}
          /\ Go(r, "probe")
          /\ file' = [file EXCEPT ![DirOf[r]].whole = @ \/ file[DirOf[r]].opener = r]
       \/ RaiseOnFault(r, "retry") /\ UNCHANGED file
    /\ UNCHANGED <<content, frames, there, shot, judgeVars, met>>

-----------------------------------------------------------------------------
(* ffprobe and ffmpeg.  Their failures and timeouts are terminal; a failure *)
(* to start them is an OSError, which is tried again.                      *)

\* What the file at source.mp4 shows, from the first second on.
Shown(d) == content[SourceOf[file[d].opener]].looks

\* parse_ffprobe_metadata finds a video stream.
HasStream(d) == Shown(d) # <<>>

\* probe: a file that is not whole may pass.
Probe(r) ==
    LET d == DirOf[r]
    IN /\ At(r, "probe")
       /\ \/ /\ file[d] # NoFile
             /\ file[d].whole => HasStream(d)
             /\ Go(r, "extract")
          \/ /\ file[d].whole => ~HasStream(d)
             /\ Raise(r, "terminal")
             /\ UNCHANGED faults
          \/ \E how \in {"retry", "terminal"} : RaiseOnFault(r, how)
       /\ UNCHANGED <<content, dirVars, shot, judgeVars, met>>

\* extract_frames up to ffmpeg's opening its input: all of a whole file will
\* be written out, and some of another one.
Extract(r) ==
    LET d == DirOf[r]
    IN /\ At(r, "extract")
       /\ there' \in {there, there \cup {d}}
       /\ \/ /\ d \in there' /\ file[d] # NoFile
             /\ \E n \in 0..Len(Shown(d)) :
                    /\ file[d].whole => n = Len(Shown(d))
                    /\ shot' = [shot EXCEPT ![r] =
                                   {<<k, SourceOf[file[d].opener]>> : k \in 1..n}]
             /\ Go(r, "ffmpeg")
          \/ /\ d \in there' /\ file[d] = NoFile
             /\ Raise(r, "terminal")
             /\ UNCHANGED <<shot, faults>>
          \/ RaiseOnFault(r, "retry") /\ UNCHANGED shot
       /\ UNCHANGED <<content, file, frames, judgeVars, met>>

\* ffmpeg writes the next frame over what is there, or has no directory to
\* write to, or ends; or it fails, or its time is up and it is killed.
Ffmpeg(r) ==
    LET d == DirOf[r]
        next == CHOOSE f \in shot[r] : \A g \in shot[r] : f[1] <= g[1]
    IN /\ At(r, "ffmpeg")
       /\ \/ /\ shot[r] # {} /\ d \in there
             /\ frames' = [frames EXCEPT ![d] =
                              {f \in @ : f[1] # next[1]} \cup {next}]
             /\ shot' = [shot EXCEPT ![r] = @ \ {next}]
             /\ Go(r, "ffmpeg")
          \/ /\ shot[r] # {} /\ d \notin there
             /\ Raise(r, "terminal")
             /\ shot' = [shot EXCEPT ![r] = {}]
             /\ UNCHANGED <<frames, faults>>
          \/ /\ shot[r] = {}
             /\ Go(r, "list")
             /\ UNCHANGED <<frames, shot>>
          \/ /\ RaiseOnFault(r, "terminal")
             /\ shot' = [shot EXCEPT ![r] = {}]
             /\ UNCHANGED frames
       /\ UNCHANGED <<content, file, there, judgeVars, met>>

\* frames_from_paths: the frame files in the order of their names.
Sorted(S) == [i \in 1..Cardinality(S) |->
                 CHOOSE k \in S : Cardinality({m \in S : m <= k}) = i]

\* The end of extract_frames.
List(r) ==
    LET found == {f[1] : f \in frames[DirOf[r]]}
    IN /\ At(r, "list")
       /\ \/ /\ found = {}
             /\ Raise(r, "terminal")
             /\ UNCHANGED <<todo, faults>>
          \/ /\ found # {}
             /\ todo' = [todo EXCEPT ![r] = Sorted(found)]
             /\ Go(r, "judge")
       /\ UNCHANGED <<content, dirVars, shot, results, tries, verdict, met>>

-----------------------------------------------------------------------------
(* Moderation, batch after batch, and the verdict.                         *)

\* frame_batches: the next frames of those left.
Batch(left) ==
    SubSeq(left, 1, IF Len(left) < FrameBatchSize THEN Len(left) ELSE FrameBatchSize)

\* A top category that the scores contradict.
Contradict(out) == [out EXCEPT !.top = IF @ = "safe" THEN "porn" ELSE "safe"]

\* What a model that sees the outputs outs may reply: the outputs, or no
\* JSON, an item too few, the items in another order, an item that
\* contradicts itself.
Replies(outs) ==
    LET items == [i \in DOMAIN outs |-> [index |-> i, out |-> outs[i]]]
        last == Len(items)
    IN {[shape |-> "list", items |-> items],
        [shape |-> "other", items |-> <<>>],
        [shape |-> "list", items |-> SubSeq(items, 1, last - 1)],
        [shape |-> "list", items |-> [i \in DOMAIN items |-> items[last + 1 - i]]],
        [shape |-> "list",
         items |-> [items EXCEPT ![last].out = Contradict(@)]]}

\* Mutants of AttemptFails: failed attempts are not counted, or not limited.
AttemptFailsUncounted(r) == UNCHANGED <<tries, pc, outcome>>

AttemptFailsUnlimited(r) ==
    tries' = [tries EXCEPT ![r] = @ + 1] /\ UNCHANGED <<pc, outcome>>

\* The except of moderate_frame_batch: the next attempt, or the last error,
\* which is a 502 or a 503.
AttemptFails(r) ==
    IF tries[r] + 1 < GpuMaxAttempts
    THEN tries' = [tries EXCEPT ![r] = @ + 1] /\ UNCHANGED <<pc, outcome>>
    ELSE tries' = [tries EXCEPT ![r] = 0] /\ Raise(r, "retry")

\* moderate_images: the client reads the frame files again for every attempt.
FrameFile(r, k) == {f \in frames[DirOf[r]] : f[1] = k}

Sees(r, batch) ==
    [i \in DOMAIN batch |->
        LET shows == (CHOOSE f \in FrameFile(r, batch[i]) : TRUE)[2]
        IN content[shows].looks[batch[i]]]

\* One attempt of moderate_frame_batch.
Judge(r) ==
    LET batch == Batch(todo[r])
    IN /\ At(r, "judge") /\ batch # <<>>
       /\ IF \E i \in DOMAIN batch : FrameFile(r, batch[i]) = {}
          THEN AttemptFails(r) /\ UNCHANGED <<todo, results, faults>>
          ELSE \/ \E reply \in Replies(Sees(r, batch)) :
                      /\ BatchParses(reply, Len(batch))
                      /\ results' = [results EXCEPT ![r] = @ \o
                             [i \in DOMAIN reply.items |-> reply.items[i].out]]
                      /\ todo' = [todo EXCEPT ![r] =
                             SubSeq(@, Len(batch) + 1, Len(@))]
                      /\ tries' = [tries EXCEPT ![r] = 0]
                      /\ UNCHANGED <<pc, outcome, faults>>
               \* a reply that does not parse, or a client that raises
               \/ /\ AttemptFails(r) /\ Fault
                  /\ UNCHANGED <<todo, results>>
       /\ UNCHANGED <<content, dirVars, shot, verdict, met>>

\* aggregate, when no batch is left.
Aggregate(r) ==
    /\ At(r, "judge") /\ Batch(todo[r]) = <<>>
    /\ verdict' = [verdict EXCEPT ![r] = Verdict(results[r])]
    /\ Go(r, "finalize")
    /\ UNCHANGED <<content, dirVars, shot, todo, results, tries, met>>

\* finalize_classification and update_status, which VideoPipeline models:
\* they return, or one of their calls raises.
Finalize(r) ==
    /\ At(r, "finalize")
    /\ \/ Raise(r, "classified") /\ UNCHANGED faults
       \/ RaiseOnFault(r, "retry")
    /\ UNCHANGED <<content, dirVars, shot, judgeVars, met>>

-----------------------------------------------------------------------------
(* The end of a run.                                                       *)

\* finally: cleanup_dir.
Cleanup(r) ==
    LET d == DirOf[r]
    IN /\ At(r, "cleanup")
       /\ \/ /\ RemoveFiles(d)
             /\ there' = there \ {d}
             /\ Go(r, "ended")
          \/ /\ Fault
             /\ KeepSome(d)
             /\ Jump(r, "littered") /\ UNCHANGED <<there, outcome>>
       /\ UNCHANGED <<content, shot, judgeVars, met>>

\* The worker dies; its files stay.
Crash(r) ==
    /\ r \in Live
    /\ Fault
    /\ Jump(r, "crashed")
    /\ UNCHANGED <<content, dirVars, shot, judgeVars, outcome, met>>

Step(r) ==
    \/ Fetch(r) \/ Open(r) \/ Written(r) \/ Probe(r) \/ Extract(r) \/ Ffmpeg(r)
    \/ List(r) \/ Judge(r) \/ Aggregate(r) \/ Finalize(r) \/ Cleanup(r)

Next == \E r \in Runs : Prepare(r) \/ Step(r) \/ Crash(r)

Spec == Init /\ [][Next]_vars

\* A worker that has begun keeps going: subprocesses, downloads and calls all
\* have timeouts.
FairSpec == Spec /\ \A r \in Runs : WF_vars(Step(r))

-----------------------------------------------------------------------------
(* Properties.                                                             *)

\* A run that kept its directory to itself judges every second of its own
\* video in order, whatever earlier runs left in the directory, if it could be
\* removed, and whatever failed and was retried: only then does it reach the
\* finalization (frame_batches, moderate_frame_batch, prepare_job_dir).
WholeVideoJudged ==
    \A r \in Runs \ met :
        pc[r] = "finalize" \/ outcome[r] = "classified" =>
            /\ content[SourceOf[r]].kind = "video"
            /\ results[r] = content[SourceOf[r]].looks
            /\ verdict[r] = Verdict(content[SourceOf[r]].looks)

\* The same of every run: one frame per second of the video is judged, also
\* when another worker handles a message of the job.
EverySecondJudged ==
    \A r \in Runs :
        outcome[r] = "classified" => verdict[r].frames = Len(content[SourceOf[r]].looks)

\* A directory is there only while a run that uses it is at work, or after a
\* worker died in it or its removal failed (ignore_errors): nothing else that
\* succeeds or fails leaves files behind.
NothingLeftBehind ==
    \A d \in there : \E r \in Runs : DirOf[r] = d /\ pc[r] \notin {"new", "ended"}

\* A flagged video is moved, except one whose frames reach severity 3 and no
\* more: sexual_minor_content blocks at 3 and the move needs 4.
FlaggedIsMoved ==
    \A r \in Runs :
        LET v == verdict[r]
        IN v.frames > 0 /\ v.nsfw /\ ~v.move => v.severity = 3

\* The labels of the legacy row say nothing that the verdict denies: likely
\* gore is flagged and moved, and an explicit video that is moved is flagged.
LabelsAgree ==
    \A r \in Runs :
        LET v == verdict[r]
        IN v.frames > 0 =>
               /\ v.gore \in {"LIKELY", "VERY_LIKELY"} => v.nsfw /\ v.move
               /\ v.ec = "explicit" /\ v.move => v.nsfw

\* Every run ends, whatever happens to its directory meanwhile: GPU attempts
\* on frames that another worker removed run out.
EveryRunEnds ==
    \A r \in Runs : pc[r] = "fetch" ~> pc[r] \in {"ended", "littered", "crashed"}
=============================================================================

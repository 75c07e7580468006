-------------------------- MODULE EpisodeFinalizer --------------------------
(***************************************************************************)
(* tools/finalize_qgf_episode.py: a staged capture becomes an episode of   *)
(* the data set.  Each process that finalizes validates the capture,       *)
(* converts it inside the staging directory, and then, under the lock of   *)
(* the data set, allocates an index, writes the metadata, renames the      *)
(* directory and rebuilds the manifest and the summary from what it finds  *)
(* on disk.  A process may be killed between any two steps, and a          *)
(* deliberate deletion of an episode takes no lock.                        *)
(***************************************************************************)
EXTENDS Naturals, FiniteSets, FiniteSetsExt, Functions

CONSTANTS
  Finalizers,   \* processes that run the finalizer
  Captures,     \* recorded attempts
  None          \* absence of a process, a capture, a label

Labels == {"success", "failure"}
Outcomes == Labels \union {"discard"}

ASSUME FinalizerAssumption ==
  /\ None \notin Finalizers /\ None \notin Captures /\ None \notin Outcomes
  /\ IsFiniteSet(Captures)

VARIABLES
  capture,    \* the staging directory of each capture
  episodes,   \* the episode directories: index -> content
  manifest,   \* episodes.jsonl: index -> label
  summary,    \* dataset_summary.json
  lock,       \* holder of .episode_index.lock
  job,        \* what each finalizer process is doing
  interrupted \* history: indices whose finalizer was killed after the rename
              \* and before the summary, while no later one has finished

storeVars == <<capture, episodes, manifest, summary, lock, job, interrupted>>

(* A staging directory: whether validate_capture accepts what the recorder
   left in it, the label the reward column of transitions.parquet was written
   with, and the label of episode_metadata.json. *)
Staging == [state : {"absent", "unusable", "usable"},
            reward : Labels \union {None}, label : Labels \union {None}]
Absent == [state |-> "absent", reward |-> None, label |-> None]

Steps == {"idle", "convert", "wait", "annotate", "rename", "list", "publish",
          "summarise", "saved", "discarded", "failed"}
Locked == {"annotate", "rename", "list", "publish", "summarise"}
Idle == [step |-> "idle", capture |-> None, outcome |-> None, index |-> 0,
         listing |-> << >>]

Count(listing) == [l \in Labels |->
                     Cardinality({i \in DOMAIN listing : listing[i] = l})]

StoreInit(staged) ==
  /\ capture = staged
  /\ episodes = << >>
  /\ manifest = << >>
  /\ summary = Count(<< >>)
  /\ lock = None
  /\ job = [p \in Finalizers |-> Idle]
  /\ interrupted = {}

-----------------------------------------------------------------------------

At(p, step) == job[p].step = step
Goto(p, step) == job' = [job EXCEPT ![p].step = step]

(* finalize() is called; a discard only removes the staging directory. *)
Begin(p, c, outcome) ==
  /\ job[p].step \in {"idle", "saved", "discarded", "failed"}
  /\ job' = [job EXCEPT ![p] =
               [Idle EXCEPT !.step = IF outcome = "discard" THEN "discarded"
                                                            ELSE "convert",
                            !.capture = c, !.outcome = outcome]]
  /\ capture' = IF outcome = "discard" THEN [capture EXCEPT ![c] = Absent]
                                       ELSE capture
  /\ UNCHANGED <<episodes, manifest, summary, lock, interrupted>>

(* validate_capture raises before anything is written.  The transitions carry
   the label in their reward column; they replace those of an earlier try. *)
Convert(p) ==
  /\ At(p, "convert")
  /\ IF capture[job[p].capture].state = "usable"
     THEN /\ capture' = [capture EXCEPT ![job[p].capture].reward = job[p].outcome]
          /\ Goto(p, "wait")
     ELSE Goto(p, "failed") /\ UNCHANGED capture
  /\ UNCHANGED <<episodes, manifest, summary, lock, interrupted>>

\* Fault: the gap of a deleted episode is filled.
Bug_NextIndex == Min((0..Cardinality(DOMAIN episodes)) \ DOMAIN episodes)

\* existing_indices, next_monotonic_index
NextIndex == IF DOMAIN episodes = {} THEN 0 ELSE Max(DOMAIN episodes) + 1

\* Fault: the finalizers do not lock the data set.
Bug_LockIsFree == TRUE

\* exclusive_file_lock
LockIsFree == lock = None

Allocate(p) ==
  /\ At(p, "wait")
  /\ LockIsFree
  /\ lock' = p
  /\ job' = [job EXCEPT ![p].step = "annotate", ![p].index = NextIndex]
  /\ UNCHANGED <<capture, episodes, manifest, summary, interrupted>>

Annotate(p) ==
  /\ At(p, "annotate")
  /\ capture' = [capture EXCEPT ![job[p].capture].label = job[p].outcome]
  /\ Goto(p, "rename")
  /\ UNCHANGED <<episodes, manifest, summary, lock, interrupted>>

(* os.replace of one directory by another fails if the destination is there. *)
Rename(p) ==
  LET c == job[p].capture
      i == job[p].index
  IN /\ At(p, "rename")
     /\ IF i \in DOMAIN episodes
        THEN /\ Goto(p, "failed")
             /\ lock' = None
             /\ UNCHANGED <<capture, episodes>>
        ELSE /\ episodes' = [j \in DOMAIN episodes \union {i} |->
                               IF j = i THEN [capture |-> c,
                                              reward |-> capture[c].reward,
                                              label |-> capture[c].label]
                                        ELSE episodes[j]]
             /\ capture' = [capture EXCEPT ![c] = Absent]
             /\ Goto(p, "list")
             /\ UNCHANGED lock
     /\ UNCHANGED <<manifest, summary, interrupted>>

(* Every directory with a metadata file is listed, whoever put it there. *)
ListEpisodes(p) ==
  /\ At(p, "list")
  /\ job' = [job EXCEPT ![p].step = "publish",
                        ![p].listing = [i \in DOMAIN episodes |-> episodes[i].label]]
  /\ UNCHANGED <<capture, episodes, manifest, summary, lock, interrupted>>

\* manifest_tmp and os.replace: readers see the old manifest or the new one
Publish(p) ==
  /\ At(p, "publish")
  /\ manifest' = job[p].listing
  /\ Goto(p, "summarise")
  /\ UNCHANGED <<capture, episodes, summary, lock, interrupted>>

Summarise(p) ==
  /\ At(p, "summarise")
  /\ summary' = Count(job[p].listing)
  /\ lock' = None
  /\ job' = [job EXCEPT ![p].step = "saved", ![p].listing = << >>]
  /\ interrupted' = {}
  /\ UNCHANGED <<capture, episodes, manifest>>

FinalizerStep(p) ==
  \/ Convert(p) \/ Allocate(p) \/ Annotate(p) \/ Rename(p)
  \/ ListEpisodes(p) \/ Publish(p) \/ Summarise(p)

\* Fault: the lock outlives its process.
Bug_Killed(p) ==
  /\ job' = [job EXCEPT ![p].step = "failed", ![p].listing = << >>]
  /\ interrupted' = IF job[p].step \in {"list", "publish", "summarise"}
                    THEN interrupted \union {job[p].index} ELSE interrupted
  /\ UNCHANGED lock

(* A signal ends the process; the kernel drops its lock, the files stay. *)
Killed(p) ==
  /\ job' = [job EXCEPT ![p].step = "failed", ![p].listing = << >>]
  /\ lock' = IF lock = p THEN None ELSE lock
  /\ interrupted' = IF job[p].step \in {"list", "publish", "summarise"}
                    THEN interrupted \union {job[p].index} ELSE interrupted

KillFinalizer(p) ==
  /\ job[p].step \in {"convert", "wait"} \union Locked
  /\ Killed(p)
  /\ UNCHANGED <<capture, episodes, manifest, summary>>

\* "Episode directories may be deliberately discarded after collection."
DeleteEpisode(i) ==
  /\ i \in DOMAIN episodes
  /\ episodes' = Restrict(episodes, DOMAIN episodes \ {i})
  /\ UNCHANGED <<capture, manifest, summary, lock, job, interrupted>>

-----------------------------------------------------------------------------

StoreTypeOK ==
  /\ capture \in [Captures -> Staging]
  /\ \A i \in DOMAIN episodes :
       episodes[i] \in [capture : Captures, reward : Labels, label : Labels]
  /\ \A i \in DOMAIN manifest : manifest[i] \in Labels
  /\ summary \in [Labels -> 0..Cardinality(Captures)]
  /\ lock \in Finalizers \union {None}
  /\ \A p \in Finalizers :
       /\ job[p].step \in Steps
       /\ job[p].capture \in Captures \union {None}
       /\ job[p].outcome \in Outcomes \union {None}
       /\ (lock = p) = (job[p].step \in Locked)

(* Indices that a finalizer has renamed to and not yet summarised, or that one
   left behind when it was killed. *)
Unsettled ==
  interrupted \union {job[p].index : p \in {q \in Finalizers :
                        job[q].step \in {"list", "publish", "summarise"}}}

(* Whatever processes finalize side by side, are killed and run again, and
   whatever is deleted meanwhile: every episode on disk carries the same label
   in its rewards, its metadata and, once a finalization has ended after it,
   in the manifest; then the summary counts that manifest. *)
CatalogueIsFaithful ==
  /\ \A i \in DOMAIN episodes :
       /\ episodes[i].reward = episodes[i].label
       /\ i \notin Unsettled =>
            i \in DOMAIN manifest /\ manifest[i] = episodes[i].label
  /\ Unsettled = {} => summary = Count(manifest)

(* An episode once saved is never replaced, and a new one comes after all that
   are on disk: the index is a chronological identifier of what is there. *)
EpisodesOnlyAppended ==
  [][\A i \in DOMAIN episodes' :
       IF i \in DOMAIN episodes THEN episodes'[i] = episodes[i]
       ELSE \A j \in DOMAIN episodes : j < i]_storeVars
=============================================================================

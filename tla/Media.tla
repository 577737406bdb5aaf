-------------------------------- MODULE Media --------------------------------
(***************************************************************************)
(* The media runtime (src/src/media/runtime.rs): what the terminal shows   *)
(* of images and profile photographs, kept in a memory cache with a weight *)
(* limit, and the spawned jobs that fetch, verify, prune and decode files  *)
(* of a disk cache.  The interface's thread asks while it draws and polls  *)
(* the completed jobs on its tick; jobs run beside it and are never        *)
(* cancelled: a generation tells the completions that still count.         *)
(***************************************************************************)
EXTENDS Naturals, FiniteSets

CONSTANTS
  MediaScopes,       \* communities with their identity
  NoScope,
  Keys,         \* a picture at a width; what the memory cache is indexed by
  Avatars,      \* those of them that are profile photographs
  FileOf,       \* the file of a key: two widths of an image share one
  SizeOf,       \* of a file, on disk
  Broken,       \* files that cannot be decoded
  WeightOf,     \* of a key, in memory
  MemoryLimit, DiskLimit,
  MaxInFlight,  \* 64 in the code
  Jobs,         \* a bound on the jobs that exist at a time
  NoJob

Files == {FileOf[k] : k \in Keys}
Job == [key : Keys, scope : MediaScopes, current : BOOLEAN, online : BOOLEAN,
        stage : {"fetch", "prune", "decode", "ready", "failed"}]

ASSUME MediaAssumption ==
  /\ Avatars \subseteq Keys /\ NoScope \notin MediaScopes
  /\ Jobs # {} /\ NoJob \notin Job
  /\ FileOf \in [Keys -> Files]
  /\ \A k \in Avatars, i \in Keys \ Avatars : FileOf[k] # FileOf[i]
  /\ SizeOf \in [Files -> Nat] /\ WeightOf \in [Keys -> Nat]
  /\ MemoryLimit \in Nat /\ DiskLimit \in Nat /\ MaxInFlight \in Nat

VARIABLES
  bound,      \* community_id and identity_id
  mediaClient,     \* "none", "live", or "locked": there, with a signer that is locked
  states,     \* what is shown of a key, or "none"
  from,       \* history: the scope whose job made it so
  inFlight, weighed,   \* in_flight; the keys of weights
  recent,     \* last_used: for each key it has, those used before it
  job,
  disk        \* files of both caches, <<scope, file>>: those modified before each

mediaMemory == <<states, from, inFlight, weighed, recent>>
mediaVars == <<bound, mediaClient, mediaMemory, job, disk>>

Images == Keys \ Avatars
Path(s, k) == <<s, FileOf[k]>>
OnDisk(p) == p \in DOMAIN disk

\* Orders: each member has the set of those that come before it.
Nothing == [x \in {} |-> {}]
Without(order, S) == [x \in DOMAIN order \ S |-> order[x] \ S]
MovedToEnd(order, x) ==
  [y \in DOMAIN order \cup {x} |-> (IF y = x THEN DOMAIN order ELSE order[y]) \ {x}]

MediaInit ==
  /\ bound = NoScope /\ mediaClient = "none"
  /\ states = [k \in Keys |-> "none"]
  /\ from = [k \in Keys |-> NoScope]
  /\ inFlight = {} /\ weighed = {} /\ recent = Nothing
  /\ job = [j \in Jobs |-> NoJob]
  /\ disk = Nothing

-----------------------------------------------------------------------------
(* Binding to a community.  A new generation: jobs that run go on, for     *)
(* nothing.                                                                *)

\* Mutant: the jobs of the community that is left still count.
KeepGeneration == UNCHANGED job

NextGeneration ==
  job' = [j \in Jobs |-> IF job[j] = NoJob THEN NoJob
                         ELSE [job[j] EXCEPT !.current = FALSE]]

ClearMemoryState ==
  /\ states' = [k \in Keys |-> "none"]
  /\ from' = [k \in Keys |-> NoScope]
  /\ inFlight' = {} /\ weighed' = {} /\ recent' = Nothing

\* The application binds only when it starts or changes the community.
Bind(s) ==
  /\ s # bound
  /\ NextGeneration /\ ClearMemoryState
  /\ bound' = s /\ mediaClient' = "live"
  /\ UNCHANGED disk

SelectCached(s) ==
  /\ s # bound
  /\ NextGeneration /\ ClearMemoryState
  /\ bound' = s /\ mediaClient' = "none"
  /\ UNCHANGED disk

\* :media reload, and once when the terminal is entered.
InitializeTerminal ==
  /\ NextGeneration /\ ClearMemoryState
  /\ UNCHANGED <<bound, mediaClient, disk>>

\* :lock locks the signer, which the client of the runtime shares.
Lock ==
  /\ mediaClient = "live" /\ mediaClient' = "locked"
  /\ UNCHANGED <<bound, mediaMemory, job, disk>>

-----------------------------------------------------------------------------
(* Asking for a picture, at every drawing of what shows it.                *)

Spawn(j, k) ==
  job' = [job EXCEPT ![j] = [key |-> k, scope |-> bound, current |-> TRUE,
                             online |-> mediaClient # "none", stage |-> "fetch"]]

Show(k, what, scope) ==
  /\ states' = [states EXCEPT ![k] = what]
  /\ from' = [from EXCEPT ![k] = scope]

CanAskAvatar == bound # NoScope /\ mediaClient # "none"
CanAsk(k) == bound # NoScope /\ (k \in Avatars => CanAskAvatar)

\* Known keys are only touched.
RequestKnown(k) ==
  /\ CanAsk(k) /\ states[k] # "none"
  /\ recent' = MovedToEnd(recent, k)
  /\ UNCHANGED <<bound, mediaClient, states, from, inFlight, weighed, job, disk>>

Admissible(k) ==
  /\ CanAsk(k) /\ states[k] = "none"
  /\ Cardinality(inFlight) < MaxInFlight /\ k \notin inFlight

NeedsNetwork(k) == k \in Images /\ ~OnDisk(Path(bound, k)) /\ mediaClient = "none"

Request(j, k) ==
  /\ Admissible(k) /\ ~NeedsNetwork(k) /\ job[j] = NoJob
  /\ Show(k, "loading", bound)
  /\ inFlight' = inFlight \cup {k}
  /\ Spawn(j, k)
  /\ UNCHANGED <<bound, mediaClient, weighed, recent, disk>>

RequestOffline(k) ==
  /\ Admissible(k) /\ NeedsNetwork(k)
  /\ Show(k, "failed", bound)
  /\ UNCHANGED <<bound, mediaClient, inFlight, weighed, recent, job, disk>>

\* r in the preview forgets every width of the picture, loading or not; the
\* next drawing asks again, beside the job that may still run.
RetryImage(k) ==
  LET them == {i \in Images : FileOf[i] = FileOf[k]} IN
  /\ k \in Images
  /\ states' = [i \in Keys |-> IF i \in them THEN "none" ELSE states[i]]
  /\ inFlight' = inFlight \ them
  /\ weighed' = weighed \ them
  /\ recent' = Without(recent, them)
  /\ UNCHANGED <<bound, mediaClient, from, job, disk>>

-----------------------------------------------------------------------------
(* A job: fetch or verify the file, make room on disk, decode, report.     *)

Mine(j) == Path(job[j].scope, job[j].key)
Ephemeral(k) == DiskLimit = 0 \/ SizeOf[FileOf[k]] > DiskLimit
GoTo(j, stage) == job' = [job EXCEPT ![j].stage = stage]

\* An image or a poster is fetched with a token of the signer, a photograph
\* from anywhere.  The client a job took along is that of its own scope.
DownloadImage(j) == job[j].online /\ (job[j].scope = bound => mediaClient # "locked")
DownloadAvatar(j) == job[j].online
Download(j) == IF job[j].key \in Avatars THEN DownloadAvatar(j) ELSE DownloadImage(j)

\* A file appears whole, by a rename, or not at all; one that is there is
\* verified, and one that was fetched twice replaces itself.
Fetched(j) ==
  /\ job[j] # NoJob /\ job[j].stage = "fetch"
  /\ OnDisk(Mine(j)) \/ Download(j)
  /\ disk' = IF OnDisk(Mine(j)) THEN disk ELSE MovedToEnd(disk, Mine(j))
  /\ GoTo(j, IF job[j].key \in Avatars THEN "decode" ELSE "prune")
  /\ UNCHANGED <<bound, mediaClient, mediaMemory>>

\* On an error a photograph's file is removed, whoever else decodes it.
FetchFails(j) ==
  /\ job[j] # NoJob /\ job[j].stage = "fetch" /\ ~OnDisk(Mine(j))
  /\ GoTo(j, "failed")
  /\ UNCHANGED <<bound, mediaClient, mediaMemory, disk>>

IsPhotograph(p) == \E k \in Avatars : p[2] = FileOf[k]
Total(paths) == Cardinality(UNION {{p} \X (1..SizeOf[p[2]]) : p \in paths})

\* prune_cache: in the order of modification a file goes, except the job's
\* own, if without all before it there are still too many bytes.
PrunedFiles(order, keep) ==
  LET files == {p \in DOMAIN order : ~IsPhotograph(p)} IN
  IF DiskLimit = 0 THEN order
  ELSE Without(order, {p \in files \ {keep} : Total(files \ order[p]) > DiskLimit})

Prune(j) ==
  /\ job[j] # NoJob /\ job[j].stage = "prune"
  /\ IF OnDisk(Mine(j))
     THEN /\ disk' = PrunedFiles(MovedToEnd(disk, Mine(j)), Mine(j))
          /\ GoTo(j, "decode")
     ELSE GoTo(j, "failed") /\ UNCHANGED disk
  /\ UNCHANGED <<bound, mediaClient, mediaMemory>>

\* What another job has removed meanwhile cannot be opened.
Decode(j) ==
  LET good == /\ OnDisk(Mine(j)) /\ FileOf[job[j].key] \notin Broken
              /\ MemoryLimit # 0 /\ WeightOf[job[j].key] <= MemoryLimit
      gone == IF good THEN job[j].key \in Images /\ Ephemeral(job[j].key)
              ELSE job[j].key \in Avatars IN
  /\ job[j] # NoJob /\ job[j].stage = "decode"
  /\ GoTo(j, IF good THEN "ready" ELSE "failed")
  /\ disk' = IF gone THEN Without(disk, {Mine(j)}) ELSE disk
  /\ UNCHANGED <<bound, mediaClient, mediaMemory>>

-----------------------------------------------------------------------------
(* poll, on every tick: the completions of jobs, those that still count.   *)

Weight(keys) == Cardinality(UNION {{k} \X (1..WeightOf[k]) : k \in keys})

\* trim_memory_cache: in the order of use an entry goes, except the new one,
\* if without all before it the rest is still too heavy.
Evicted(keep, used) ==
  LET all == weighed \cup {keep} IN
  {k \in all \ {keep} : Weight(all \ used[k]) > MemoryLimit}

Reported(j, stage) == job[j] # NoJob /\ job[j].stage = stage /\ job[j].current
Finished(j) == job' = [job EXCEPT ![j] = NoJob]

PollReady(j) ==
  LET k == job[j].key
      used == MovedToEnd(recent, k)
      gone == Evicted(k, used) IN
  /\ Reported(j, "ready")
  /\ inFlight' = inFlight \ {k}
  /\ weighed' = (weighed \cup {k}) \ gone
  /\ recent' = Without(used, gone)
  /\ states' = [i \in Keys |-> IF i = k THEN "ready"
                               ELSE IF i \in gone THEN "none" ELSE states[i]]
  /\ from' = [from EXCEPT ![k] = job[j].scope]
  /\ Finished(j)
  /\ UNCHANGED <<bound, mediaClient, disk>>

\* A failure is shown instead of what another job of the key may have made.
PollFailed(j) ==
  LET k == job[j].key IN
  /\ Reported(j, "failed")
  /\ inFlight' = inFlight \ {k}
  /\ Show(k, "failed", job[j].scope)
  /\ Finished(j)
  /\ UNCHANGED <<bound, mediaClient, weighed, recent, disk>>

\* What a job of an earlier generation reports is dropped.
PollStale(j) ==
  /\ job[j] # NoJob /\ job[j].stage \in {"ready", "failed"} /\ ~job[j].current
  /\ Finished(j)
  /\ UNCHANGED <<bound, mediaClient, mediaMemory, disk>>

JobStep(j) == Fetched(j) \/ FetchFails(j) \/ Prune(j) \/ Decode(j)
Poll(j) == PollReady(j) \/ PollFailed(j) \/ PollStale(j)

MediaNext ==
  \/ \E s \in MediaScopes : Bind(s) \/ SelectCached(s)
  \/ InitializeTerminal \/ Lock
  \/ \E k \in Keys : RequestKnown(k) \/ RequestOffline(k) \/ RetryImage(k)
  \/ \E j \in Jobs, k \in Keys : Request(j, k)
  \/ \E j \in Jobs : JobStep(j) \/ Poll(j)

MediaSpec == MediaInit /\ [][MediaNext]_mediaVars

-----------------------------------------------------------------------------
(* What is promised.                                                       *)

\* What is shown of a picture comes from a job of the community and identity
\* that are bound: a fetch that outlives a change of community or a reset of
\* the terminal never fills the new memory cache.
ShownIsOwn == \A k \in Keys : states[k] # "none" => from[k] = bound

\* The in-flight marks are exactly the pictures shown as loading, and each
\* has a job that still counts: no retry, however it overlaps with a running
\* job, leaves a picture loading with nobody to finish it.
LoadingHasJob ==
  /\ inFlight = {k \in Keys : states[k] = "loading"}
  /\ Cardinality(inFlight) <= MaxInFlight
  /\ \A k \in inFlight : \E j \in Jobs :
       job[j] # NoJob /\ job[j].key = k /\ job[j].current

\* The memory cache keeps to its limit: what is evicted for a new picture is
\* enough, and one that does not fit alone has been refused by its job.
MemoryBounded == Weight(weighed) <= MemoryLimit

\* With no job under way the files of pictures that fit the disk cache keep
\* to its limit together, whichever jobs fetched, pruned and decoded beside
\* each other; a larger one is not to be kept at all.
DurableKept == {p \in DOMAIN disk : ~IsPhotograph(p) /\ SizeOf[p[2]] <= DiskLimit}
DiskBounded ==
  DiskLimit > 0 /\ (\A j \in Jobs : job[j] = NoJob) => Total(DurableKept) <= DiskLimit

CachesBounded == MemoryBounded /\ DiskBounded

\* The caches are this community's, complete and bounded, however the jobs of
\* before and of now overlap (media/runtime.rs, poll and retry).
MediaSound == ShownIsOwn /\ LoadingHasJob /\ CachesBounded
-----------------------------------------------------------------------------
(* Refuted: what is said or expected and the code does not do; in no run.    *)

\* "They are not shown or fetched while locked" (src/docs/media.md:143).
NoAvatarsWhileLocked ==
  mediaClient = "locked" => \A k \in Avatars : states[k] \notin {"loading", "ready"}
=============================================================================

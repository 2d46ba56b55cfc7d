---------------------------- MODULE SnapshotStore ----------------------------
(***************************************************************************)
(* Durable retained images (eufy_event_gateway/src/storage/                *)
(* snapshot-store.ts): a still and an event image of each camera, an index *)
(* file for each shelf, and one queue that serializes all writes.  Each    *)
(* file is replaced by a rename, so between two steps the process may      *)
(* crash or the operation may fail, and the disk keeps what was renamed.   *)
(*                                                                         *)
(* Images are numbered in the order of the calls that write them; 0 stands *)
(* for a missing file.  An empty image is refused like a failed write.     *)
(***************************************************************************)
EXTENDS Naturals, Sequences

CONSTANTS
  Cameras,
  Readers,     \* HTTP requests that read an image
  MaxWrites    \* bound on write calls in a behaviour

ASSUME BoundAssumption == MaxWrites \in Nat

Shelves == {"still", "event"}

VARIABLES
  writes,      \* every write so far: its camera and whether it is live
  done,        \* how many of them have settled
  stage,       \* what write done + 1 does next, "idle" before it began
  shelf,       \* on which shelf
  phase,       \* of initialize(), "down" while no process runs
  changed,     \* initialize() has an index to rewrite
  files,       \* disk: image of each shelf and camera
  damaged,     \* disk: cameras whose image has the old fixed header
  index,       \* disk: the two index files
  records,     \* memory: #records and #eventRecords
  reading,     \* what each reader read from the records
  returned     \* still revisions that write and writeEvent have returned

svars == <<writes, done, stage, shelf, phase, changed, files, damaged, index,
           records, reading, returned>>
bootVars == <<phase, changed>>
runVars == <<writes, done, stage, shelf, reading, returned>>

Calls == [camera : Cameras, kind : {"live", "event"}]
Images == 0..MaxWrites
Info == [image : Images, revision : Nat]
Absent == [image |-> 0, revision |-> 0]
Phases == {"down", "repair", "repairEvents", "migrate", "ready"}

Kind(i) == writes[i].kind
Running == phase = "ready" /\ done < Len(writes)
Cam == writes[done + 1].camera

QueueTypeOK ==
  /\ writes \in Seq(Calls)
  /\ Len(writes) \in Images /\ done \in 0..Len(writes)
  /\ stage \in {"idle", "image", "record", "index"}
  /\ shelf \in Shelves

ImageTypeOK ==
  /\ files \in [Shelves -> [Cameras -> 0..Len(writes)]]
  /\ damaged \in [Shelves -> SUBSET Cameras]
  /\ index \in [Shelves -> [Cameras -> Info]]
  /\ records \in [Shelves -> [Cameras -> Info]]

\* Every variable keeps its type, whatever fails or crashes.
STypeOK ==
  /\ QueueTypeOK /\ ImageTypeOK
  /\ phase \in Phases /\ changed \in BOOLEAN
  /\ reading \in [Readers -> [shelf : Shelves, camera : Cameras, image : Images]]
  /\ returned \subseteq [camera : Cameras, revision : Nat, image : Images]

\* The directory is empty, or an earlier version left an event image as a
\* camera's still, perhaps with its old header and without an event index.
Init ==
  /\ stage = "idle" /\ shelf = "still" /\ phase = "down" /\ changed = FALSE
  /\ records = [s \in Shelves |-> [c \in Cameras |-> Absent]]
  /\ \E c \in Cameras :
       reading = [r \in Readers |-> [shelf |-> "still", camera |-> c, image |-> 0]]
  /\ returned = {}
  /\ \/ /\ writes = <<>> /\ done = 0
        /\ files = [s \in Shelves |-> [c \in Cameras |-> 0]]
        /\ damaged = [s \in Shelves |-> {}]
        /\ index = records
     \/ \E legacy \in Cameras, kept \in {{"still"}, Shelves}, old \in SUBSET Shelves :
          /\ old \subseteq kept /\ MaxWrites > 0
          /\ writes = <<[camera |-> legacy, kind |-> "event"]>> /\ done = 1
          /\ files = [s \in Shelves |-> [c \in Cameras |->
                        IF s \in kept /\ c = legacy THEN 1 ELSE 0]]
          /\ damaged = [s \in Shelves |-> IF s \in old THEN {legacy} ELSE {}]
          /\ index = [s \in Shelves |-> [c \in Cameras |->
                        IF s \in kept /\ c = legacy
                        THEN [image |-> 1, revision |-> 1] ELSE Absent]]

-----------------------------------------------------------------------------
(* write and writeEvent *)

\* A call joins the queue.
Write(c, kind) ==
  /\ phase = "ready" /\ Len(writes) < MaxWrites
  /\ writes' = Append(writes, [camera |-> c, kind |-> kind])
  /\ UNCHANGED <<done, stage, shelf, bootVars, files, damaged, index, records,
                 reading, returned>>

\* A bug of BeginWrite: the record is set before its image is written.
BeginWriteRecordFirst ==
  /\ Running /\ stage = "idle"
  /\ stage' = "image"
  /\ shelf' = IF Kind(done + 1) = "live" THEN "still" ELSE "event"
  /\ records' = [records EXCEPT ![shelf'][Cam].image = done + 1,
                               ![shelf'][Cam].revision = @ + 1]
  /\ UNCHANGED <<writes, done, bootVars, files, damaged, index, reading, returned>>

\* A bug of BeginWrite: the queue keeps the rejection of the last write.
BeginWriteAfterSuccess ==
  /\ Running /\ stage = "idle"
  /\ done > 0 => \E s \in Shelves : records[s][writes[done].camera].image = done
  /\ stage' = "image"
  /\ shelf' = IF Kind(done + 1) = "live" THEN "still" ELSE "event"
  /\ UNCHANGED <<writes, done, bootVars, files, damaged, index, records,
                 reading, returned>>

\* The queue reaches the next write.
BeginWrite ==
  /\ Running /\ stage = "idle"
  /\ stage' = "image"
  /\ shelf' = IF Kind(done + 1) = "live" THEN "still" ELSE "event"
  /\ UNCHANGED <<writes, done, bootVars, files, damaged, index, records,
                 reading, returned>>

\* atomicWrite of the image.
RenameImage ==
  /\ Running /\ stage = "image"
  /\ files' = [files EXCEPT ![shelf][Cam] = done + 1]
  /\ damaged' = [damaged EXCEPT ![shelf] = @ \ {Cam}]
  /\ stage' = "record"
  /\ UNCHANGED <<writes, done, shelf, bootVars, index, records, reading, returned>>

\* A bug of SetRecord: the call returns before the index is written.
SetRecordReturns ==
  /\ Running /\ stage = "record"
  /\ records' = [records EXCEPT ![shelf][Cam] =
                   [image |-> done + 1, revision |-> @.revision + 1]]
  /\ stage' = "index"
  /\ returned' = IF shelf = "event" THEN returned
                 ELSE returned \cup {[camera |-> Cam, image |-> done + 1,
                                     revision |-> records'[shelf][Cam].revision]}
  /\ UNCHANGED <<writes, done, shelf, bootVars, files, damaged, index, reading>>

\* The record in memory, with the next revision.
SetRecord ==
  /\ Running /\ stage = "record"
  /\ records' = [records EXCEPT ![shelf][Cam] =
                   [image |-> done + 1, revision |-> @.revision + 1]]
  /\ stage' = "index"
  /\ UNCHANGED <<writes, done, shelf, bootVars, files, damaged, index, reading,
                 returned>>

\* A bug of Settle: the queue skips the next write.
SettleTwice(result) ==
  done' = done + 2 /\ stage' = "idle" /\ shelf' = shelf /\ returned' = result

\* The call returns, or rejects, and the next write has its turn.
Settle(result) ==
  done' = done + 1 /\ stage' = "idle" /\ shelf' = shelf /\ returned' = result

\* A bug of RenameIndex: every event image goes on to the still.
RenameIndexAlways ==
  /\ Running /\ stage = "index"
  /\ index' = [index EXCEPT ![shelf] = records[shelf]]
  /\ LET still == records["still"][Cam]
     IN  IF shelf = "still"
         THEN Settle(returned \cup {[camera |-> Cam, revision |-> still.revision,
                                     image |-> still.image]})
         ELSE shelf' = "still" /\ stage' = "image" /\ UNCHANGED <<done, returned>>
  /\ UNCHANGED <<writes, bootVars, files, damaged, records, reading>>

\* #writeIndex or #writeEventIndex.  An event image goes on to the still unless
\* that one is live.
RenameIndex ==
  /\ Running /\ stage = "index"
  /\ index' = [index EXCEPT ![shelf] = records[shelf]]
  /\ LET still == records["still"][Cam]
     IN  IF shelf = "still"
         THEN Settle(returned \cup {[camera |-> Cam, revision |-> still.revision,
                                     image |-> still.image]})
         ELSE IF still # Absent /\ Kind(still.image) = "live"
         THEN Settle(returned)
         ELSE shelf' = "still" /\ stage' = "image" /\ UNCHANGED <<done, returned>>
  /\ UNCHANGED <<writes, bootVars, files, damaged, records, reading>>

\* A file operation fails: the call rejects, and the queue goes on.
FailWrite ==
  /\ Running /\ stage \in {"image", "index"}
  /\ Settle(returned)
  /\ UNCHANGED <<writes, bootVars, files, damaged, index, records, reading>>

-----------------------------------------------------------------------------
(* read and readEvent *)

\* The record is looked up at once, the file is read later: whatever is on
\* disk from now until the reader's next call may be returned.
Read(r, s, c) ==
  /\ phase = "ready" /\ records[s][c] # Absent
  /\ reading' = [reading EXCEPT ![r] =
                   [shelf |-> s, camera |-> c, image |-> records[s][c].image]]
  /\ UNCHANGED <<writes, done, stage, shelf, bootVars, files, damaged, index,
                 records, returned>>

-----------------------------------------------------------------------------
(* Crash, restart and initialize *)

\* The process dies; queued writes and readers die with it.
Crash ==
  /\ phase # "down" /\ phase' = "down"
  /\ done' = Len(writes) /\ stage' = "idle" /\ changed' = FALSE
  /\ records' = [s \in Shelves |-> [c \in Cameras |-> Absent]]
  /\ reading' = [r \in Readers |-> [shelf |-> reading[r].shelf,
                                     camera |-> reading[r].camera, image |-> 0]]
  /\ UNCHANGED <<writes, shelf, files, damaged, index, returned>>

\* #loadIndex, twice: entries without an image are dropped.
Load ==
  /\ phase = "down" /\ phase' = "repair"
  /\ records' = [s \in Shelves |-> [c \in Cameras |->
                   IF files[s][c] = 0 THEN Absent ELSE index[s][c]]]
  /\ UNCHANGED <<changed, files, damaged, index, runVars>>

IsEvent(info) == info # Absent /\ Kind(info.image) = "event"

\* #repairEventHeaders: each old header is replaced under a new revision, and
\* the index is rewritten at the end.
Repair(s, c) ==
  /\ phase = (IF s = "still" THEN "repair" ELSE "repairEvents")
  /\ c \in damaged[s] /\ IsEvent(records[s][c])
  /\ damaged' = [damaged EXCEPT ![s] = @ \ {c}]
  /\ records' = [records EXCEPT ![s][c].revision = @ + 1]
  /\ changed' = TRUE
  /\ UNCHANGED <<phase, files, index, runVars>>

Repaired(s) ==
  /\ phase = (IF s = "still" THEN "repair" ELSE "repairEvents")
  /\ \A c \in damaged[s] : ~IsEvent(records[s][c])
  /\ phase' = IF s = "still" THEN "repairEvents" ELSE "migrate"
  /\ changed' = FALSE
  /\ index' = IF changed THEN [index EXCEPT ![s] = records[s]] ELSE index
  /\ UNCHANGED <<files, damaged, records, runVars>>

\* #migrateRetainedEventImages: a still that is an event image becomes the
\* camera's event image as well.
ToMigrate(c) == IsEvent(records["still"][c]) /\ records["event"][c] = Absent

Migrate(c) ==
  /\ phase = "migrate" /\ ToMigrate(c)
  /\ files' = [files EXCEPT !["event"][c] = files["still"][c]]
  /\ records' = [records EXCEPT !["event"][c] = records["still"][c]]
  /\ changed' = TRUE
  /\ UNCHANGED <<phase, damaged, index, runVars>>

\* A bug of Migrated: the event index is left to the next event image.
MigratedLazily ==
  /\ phase = "migrate" /\ \A c \in Cameras : ~ToMigrate(c)
  /\ phase' = "ready" /\ changed' = FALSE
  /\ UNCHANGED <<index, files, damaged, records, runVars>>

Migrated ==
  /\ phase = "migrate" /\ \A c \in Cameras : ~ToMigrate(c)
  /\ phase' = "ready" /\ changed' = FALSE
  /\ index' = IF changed THEN [index EXCEPT !["event"] = records["event"]] ELSE index
  /\ UNCHANGED <<files, damaged, records, runVars>>

-----------------------------------------------------------------------------
Work == BeginWrite \/ RenameImage \/ SetRecord \/ RenameIndex

Next ==
  \/ \E c \in Cameras, kind \in {"live", "event"} : Write(c, kind)
  \/ Work \/ FailWrite
  \/ \E r \in Readers, s \in Shelves, c \in Cameras : Read(r, s, c)
  \/ Crash \/ Load
  \/ \E s \in Shelves, c \in Cameras : Repair(s, c)
  \/ \E s \in Shelves : Repaired(s)
  \/ \E c \in Cameras : Migrate(c)
  \/ Migrated

Spec == Init /\ [][Next]_svars

\* File operations end, one way or the other.
FairSpec == Spec /\ WF_svars(Work \/ FailWrite)

-----------------------------------------------------------------------------
\* A reader never gets an image older than the metadata it is returned with,
\* though it may get a newer one: the file is replaced before the record (read,
\* write, writeEvent).
ReadNotOlder ==
  \A r \in Readers : reading[r].image <= files[reading[r].shelf][reading[r].camera]

\* A still revision that a write has returned stands for that image for good,
\* also after a crash: write returns only after the index has been replaced.
ReturnedRevisionsAreUnique ==
  \A a, b \in returned : a.camera = b.camera /\ a.revision = b.revision => a = b

\* Once the index says that a still is live, no event image replaces it, not
\* even after crashes and failed writes (writeEvent, #loadIndex).
DurableLiveKept ==
  [][\A c \in Cameras :
       index["still"][c] # Absent /\ Kind(index["still"][c].image) = "live"
         => writes'[files'["still"][c]].kind = "live"]_svars

\* The event shelf never holds a live image, although it may be copied from the
\* still: a still whose record is behind its file has an event record already
\* (#migrateRetainedEventImages, writeEvent).
EventShelfHoldsEvents ==
  \A c \in Cameras : files["event"][c] # 0 => Kind(files["event"][c]) = "event"

\* Every write settles, also behind one that failed (#writeQueue).
EveryWriteSettles ==
  \A i \in 1..MaxWrites : Len(writes) >= i ~> done >= i

\* A write replaces the image and advances its revision as one ("Atomically
\* replace a camera image and advance its revision number", write): between
\* writes every record describes the image on disk.
ReplacementIsAtomic ==
  phase = "ready" /\ stage = "idle" =>
    \A s \in Shelves, c \in Cameras :
      records[s][c] # Absent => records[s][c].image = files[s][c]
=============================================================================

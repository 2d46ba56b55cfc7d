------------------------ MODULE SnapshotStoreProofs ------------------------
(***************************************************************************)
(* Safety of SnapshotStore for every set of cameras and readers and every  *)
(* number of writes.  Four inductive invariants over the disk, the index   *)
(* files and the records in memory: their order, what is live, what the    *)
(* event shelf holds, and the revisions.                                   *)
(***************************************************************************)
EXTENDS SnapshotStore, SequenceTheorems, TLAPS

\* A record of a live image.
IsLive(info) == info # Absent /\ Kind(info.image) = "live"

\* initialize() is between loading the indexes and its end.
Booting == phase \in {"repair", "repairEvents", "migrate"}

\* Records and index lag behind the files, and the files behind the queue; what
\* the index knows, memory knows too once it is loaded.
SlotInv(s, c) ==
  /\ records[s][c].image <= files[s][c]
  /\ index[s][c].image <= files[s][c]
  /\ files[s][c] <= IF stage = "idle" THEN done ELSE done + 1
  /\ records[s][c].image = 0 => records[s][c] = Absent
  /\ index[s][c].image = 0 => index[s][c] = Absent
  /\ phase # "down" /\ index[s][c] # Absent => records[s][c] # Absent

OrderInv ==
  /\ \A s \in Shelves, c \in Cameras : SlotInv(s, c)
  /\ stage # "idle" => phase = "ready" /\ done < Len(writes)
  /\ stage \in {"record", "index"} => files[shelf][Cam] = done + 1
  /\ stage = "index" => records[shelf][Cam].image = done + 1
  /\ stage # "idle" /\ Kind(done + 1) = "live" => shelf = "still"
  /\ phase # "ready" => \A r \in Readers : reading[r].image = 0
  /\ ReadNotOlder

\* What the index calls live is live in memory and on disk.
LiveInv ==
  /\ \A c \in Cameras :
       /\ IsLive(index["still"][c]) => Kind(files["still"][c]) = "live"
       /\ phase # "down" /\ IsLive(index["still"][c]) => IsLive(records["still"][c])
       /\ phase # "down" /\ IsLive(records["still"][c]) => Kind(files["still"][c]) = "live"
  /\ stage \in {"image", "record"} /\ shelf = "still" /\ Kind(done + 1) = "event"
       => ~IsLive(records["still"][Cam])

\* An event still has an event record: on disk unless the file agrees with the
\* index, in memory once migration is over.
ShelfInv ==
  /\ EventShelfHoldsEvents
  /\ \A c \in Cameras :
       /\ IsEvent(index["still"][c]) /\ Kind(files["still"][c]) = "live"
            => index["event"][c] # Absent
       /\ phase = "ready" /\ (IsEvent(records["still"][c]) \/ IsEvent(index["still"][c]))
            => index["event"][c] # Absent
       /\ Booting => index["still"][c].image = records["still"][c].image
       /\ Booting /\ ~(phase = "migrate" /\ changed) /\ records["event"][c] # Absent
            => index["event"][c] # Absent
  /\ stage \in {"image", "record"} /\ shelf = "still" /\ Kind(done + 1) = "event"
       => index["event"][Cam] # Absent

\* Returned revisions are behind the index, and the index behind the records.
RevisionInv ==
  /\ ReturnedRevisionsAreUnique
  /\ \A a \in returned :
       /\ a.revision <= index["still"][a.camera].revision
       /\ a.revision = index["still"][a.camera].revision
            => a.image = index["still"][a.camera].image
  /\ phase # "down" => \A c \in Cameras :
       /\ index["still"][c].revision <= records["still"][c].revision
       /\ index["still"][c].revision = records["still"][c].revision
            => index["still"][c].image = records["still"][c].image

-----------------------------------------------------------------------------
(* Types *)

\* The queue's next write is one of its calls.
LEMMA NextWrite ==
  ASSUME QueueTypeOK, Running
  PROVE  done + 1 \in 1..Len(writes) /\ writes[done + 1] \in Calls /\ Cam \in Cameras
<1>1. done + 1 \in 1..Len(writes)
  BY DEF QueueTypeOK, Running
<1>2. writes[done + 1] \in Calls
  BY <1>1, ElementOfSeq DEF QueueTypeOK
<1>3. QED BY <1>1, <1>2 DEF Cam, Calls

\* A call joins the queue without disturbing those before it.
LEMMA Queued ==
  ASSUME QueueTypeOK, BoundAssumption, NEW c \in Cameras, NEW kind \in {"live", "event"},
         Write(c, kind)
  PROVE  /\ QueueTypeOK'
         /\ Len(writes') = Len(writes) + 1
         /\ \A i \in 1..Len(writes) : writes'[i] = writes[i]
<1>1. [camera |-> c, kind |-> kind] \in Calls
  BY DEF Calls
<1>2. /\ writes' \in Seq(Calls) /\ Len(writes') = Len(writes) + 1
      /\ \A i \in 1..Len(writes) : writes'[i] = writes[i]
  BY <1>1, AppendProperties DEF Write, QueueTypeOK
<1>3. Len(writes) \in Nat /\ Len(writes) < MaxWrites
  BY DEF Write, QueueTypeOK, Images
<1>4. QED BY <1>2, <1>3, BoundAssumption DEF Write, QueueTypeOK, Images

\* A new revision changes nothing else (#repairEventHeaders).
LEMMA Revised ==
  ASSUME NEW f \in [Shelves -> [Cameras -> Info]], NEW s \in Shelves, NEW c \in Cameras,
         NEW g, g = [f EXCEPT ![s][c].revision = @ + 1]
  PROVE  /\ g \in [Shelves -> [Cameras -> Info]]
         /\ \A s2 \in Shelves, c2 \in Cameras :
              /\ g[s2][c2].image = f[s2][c2].image
              /\ g[s2][c2].revision = IF s2 = s /\ c2 = c THEN f[s2][c2].revision + 1
                                     ELSE f[s2][c2].revision
<1> DEFINE new == [f[s][c] EXCEPT !.revision = @ + 1]
<1>1. f[s][c] \in Info /\ f[s] \in [Cameras -> Info]
  OBVIOUS
<1>2. new \in Info /\ new.image = f[s][c].image /\ new.revision = f[s][c].revision + 1
  BY <1>1 DEF Info
<1>3. g = [f EXCEPT ![s] = [f[s] EXCEPT ![c] = new]]
  OBVIOUS
<1> HIDE DEF new
<1>4. QED BY <1>2, <1>3

\* What an earlier version leaves behind has its type as well.
LEMMA InitTypes ==
  ASSUME BoundAssumption, Init
  PROVE  STypeOK
<1>0. reading \in [Readers -> [shelf : Shelves, camera : Cameras, image : Images]]
  <2>1. PICK c \in Cameras :
          reading = [r \in Readers |-> [shelf |-> "still", camera |-> c, image |-> 0]]
    BY DEF Init
  <2>2. QED BY <2>1, BoundAssumption DEF Shelves, Images
<1>1. CASE writes = <<>> /\ done = 0 /\ index = records
           /\ files = [s \in Shelves |-> [c \in Cameras |-> 0]]
           /\ damaged = [s \in Shelves |-> {}]
  <2>1. QueueTypeOK
    BY <1>1, BoundAssumption DEF Init, QueueTypeOK, Images, Shelves
  <2>2. ImageTypeOK
    BY <1>1, BoundAssumption DEF Init, ImageTypeOK, Images, Info, Absent
  <2>3. QED
    BY <2>1, <2>2, <1>0 DEF Init, STypeOK, Phases
<1>2. ASSUME NEW legacy \in Cameras, NEW kept \in {{"still"}, Shelves},
             NEW old \in SUBSET Shelves,
             MaxWrites > 0, done = 1,
             writes = <<[camera |-> legacy, kind |-> "event"]>>,
             files = [s \in Shelves |-> [c \in Cameras |->
                        IF s \in kept /\ c = legacy THEN 1 ELSE 0]],
             damaged = [s \in Shelves |-> IF s \in old THEN {legacy} ELSE {}],
             index = [s \in Shelves |-> [c \in Cameras |->
                        IF s \in kept /\ c = legacy
                        THEN [image |-> 1, revision |-> 1] ELSE Absent]]
      PROVE  STypeOK
  <2>1. [camera |-> legacy, kind |-> "event"] \in Calls
    BY DEF Calls
  <2>2. QueueTypeOK
    BY <1>2, <2>1, BoundAssumption DEF Init, QueueTypeOK, Images, Shelves
  <2>3. Len(writes) = 1 /\ 1 \in Images /\ 0 \in Images
    BY <1>2, BoundAssumption DEF Images
  <2>4. ImageTypeOK
    <3>1. files \in [Shelves -> [Cameras -> 0..Len(writes)]]
      BY <1>2, <2>3
    <3>2. damaged \in [Shelves -> SUBSET Cameras]
      BY <1>2
    <3>3. Absent \in Info /\ [image |-> 1, revision |-> 1] \in Info
      BY <2>3 DEF Info, Absent
    <3>4. index \in [Shelves -> [Cameras -> Info]]
      BY <1>2, <3>3
    <3>5. records \in [Shelves -> [Cameras -> Info]]
      BY <3>3 DEF Init
    <3>6. QED BY <3>1, <3>2, <3>4, <3>5 DEF ImageTypeOK
  <2>5. QED
    BY <2>2, <2>4, <1>0 DEF Init, STypeOK, Phases
<1>3. CASE writes = <<>>
  <2>1. \A c \in Cameras, k \in {"event"} : <<[camera |-> c, kind |-> k]>> # <<>>
    OBVIOUS
  <2>2. QED BY <1>3, <2>1, <1>1 DEF Init
<1>4. CASE writes # <<>>
  <2>1. PICK legacy \in Cameras, kept \in {{"still"}, Shelves}, old \in SUBSET Shelves :
          /\ MaxWrites > 0 /\ done = 1
          /\ writes = <<[camera |-> legacy, kind |-> "event"]>>
          /\ files = [s \in Shelves |-> [c \in Cameras |->
                       IF s \in kept /\ c = legacy THEN 1 ELSE 0]]
          /\ damaged = [s \in Shelves |-> IF s \in old THEN {legacy} ELSE {}]
          /\ index = [s \in Shelves |-> [c \in Cameras |->
                       IF s \in kept /\ c = legacy
                       THEN [image |-> 1, revision |-> 1] ELSE Absent]]
    BY <1>4, Zenon DEF Init
  <2>2. QED BY <2>1, <1>2
<1>5. QED BY <1>3, <1>4

\* Every step keeps the types.
LEMMA StepTypes ==
  ASSUME BoundAssumption, STypeOK, Next
  PROVE  STypeOK'
<1> USE BoundAssumption DEF STypeOK, Phases, bootVars, runVars
<1>1. ASSUME NEW c \in Cameras, NEW kind \in {"live", "event"}, Write(c, kind)
      PROVE STypeOK'
  <2>1. QueueTypeOK' /\ Len(writes) \in Nat /\ Len(writes') = Len(writes) + 1
    BY <1>1, Queued DEF QueueTypeOK, Images
  <2>2. ImageTypeOK'
    BY <1>1, <2>1 DEF Write, ImageTypeOK
  <2>3. QED BY <1>1, <2>1, <2>2 DEF Write
<1>2. CASE BeginWrite
  BY <1>2 DEF BeginWrite, QueueTypeOK, ImageTypeOK, Shelves
<1>3. CASE RenameImage
  <2>1. done + 1 \in 0..Len(writes) /\ Cam \in Cameras /\ shelf \in Shelves
    BY <1>3, NextWrite DEF RenameImage, QueueTypeOK
  <2>2. ImageTypeOK'
    BY <1>3, <2>1 DEF RenameImage, ImageTypeOK
  <2>3. QED BY <1>3, <2>2 DEF RenameImage, QueueTypeOK
<1>4. CASE SetRecord
  <2>1. done + 1 \in Images /\ Cam \in Cameras /\ shelf \in Shelves
    BY <1>4, NextWrite DEF SetRecord, QueueTypeOK, Images
  <2>2. ImageTypeOK'
    BY <1>4, <2>1 DEF SetRecord, ImageTypeOK, Info
  <2>3. QED BY <1>4, <2>2 DEF SetRecord, QueueTypeOK
<1>5. CASE RenameIndex
  <2>1. done + 1 \in 0..Len(writes) /\ Cam \in Cameras /\ shelf \in Shelves
    BY <1>5, NextWrite DEF RenameIndex, QueueTypeOK
  <2>2. ImageTypeOK'
    BY <1>5, <2>1 DEF RenameIndex, ImageTypeOK
  <2>3. records["still"][Cam] \in Info
    BY <2>1 DEF ImageTypeOK, Shelves
  <2>4. /\ done' \in {done, done + 1} /\ stage' \in {"idle", "image"}
        /\ shelf' \in {shelf, "still"}
    BY <1>5 DEF RenameIndex, Settle
  <2>5. QueueTypeOK'
    BY <1>5, <2>1, <2>4 DEF RenameIndex, QueueTypeOK, Shelves
  <2>6. returned' \subseteq [camera : Cameras, revision : Nat, image : Images]
    BY <1>5, <2>1, <2>3 DEF RenameIndex, Settle, Info
  <2>7. QED BY <1>5, <2>2, <2>5, <2>6 DEF RenameIndex
<1>6. CASE FailWrite
  <2>1. done + 1 \in 0..Len(writes)
    BY <1>6, NextWrite DEF FailWrite
  <2>2. QED BY <1>6, <2>1 DEF FailWrite, Settle, QueueTypeOK, ImageTypeOK
<1>7. ASSUME NEW r \in Readers, NEW s \in Shelves, NEW c \in Cameras, Read(r, s, c)
      PROVE STypeOK'
  <2>1. records[s][c] \in Info
    BY DEF ImageTypeOK
  <2>2. reading' \in [Readers -> [shelf : Shelves, camera : Cameras, image : Images]]
    BY <1>7, <2>1 DEF Read, Info
  <2>3. QED BY <1>7, <2>2 DEF Read, QueueTypeOK, ImageTypeOK
<1>8. CASE Crash
  <2>1. QueueTypeOK'
    BY <1>8 DEF Crash, QueueTypeOK, Images
  <2>2. ImageTypeOK'
    BY <1>8 DEF Crash, ImageTypeOK, Info, Absent, Images
  <2>3. reading' \in [Readers -> [shelf : Shelves, camera : Cameras, image : Images]]
    BY <1>8 DEF Crash, Images
  <2>4. QED BY <1>8, <2>1, <2>2, <2>3 DEF Crash
<1>9. CASE Load
  <2>1. ImageTypeOK'
    BY <1>9 DEF Load, ImageTypeOK, Info, Absent, Images
  <2>2. QED BY <1>9, <2>1 DEF Load, QueueTypeOK
<1>10. ASSUME NEW s \in Shelves, NEW c \in Cameras, Repair(s, c) PROVE STypeOK'
  <2>1. records' \in [Shelves -> [Cameras -> Info]]
    <3>1. records \in [Shelves -> [Cameras -> Info]]
      BY DEF ImageTypeOK
    <3>2. records' = [records EXCEPT ![s][c].revision = @ + 1]
      BY <1>10 DEF Repair
    <3>3. QED BY <3>1, <3>2, Revised
  <2>2. damaged' \in [Shelves -> SUBSET Cameras]
    BY <1>10 DEF Repair, ImageTypeOK
  <2>3. QED BY <1>10, <2>1, <2>2 DEF Repair, QueueTypeOK, ImageTypeOK
<1>11. ASSUME NEW s \in Shelves, Repaired(s) PROVE STypeOK'
  <2>1. ImageTypeOK'
    BY <1>11 DEF Repaired, ImageTypeOK
  <2>2. QED BY <1>11, <2>1 DEF Repaired, QueueTypeOK
<1>12. ASSUME NEW c \in Cameras, Migrate(c) PROVE STypeOK'
  <2>1. ImageTypeOK'
    BY <1>12 DEF Migrate, ImageTypeOK, Shelves
  <2>2. QED BY <1>12, <2>1 DEF Migrate, QueueTypeOK
<1>13. CASE Migrated
  <2>1. ImageTypeOK'
    BY <1>13 DEF Migrated, ImageTypeOK, Shelves
  <2>2. QED BY <1>13, <2>1 DEF Migrated, QueueTypeOK
<1>14. QED
  BY <1>1, <1>2, <1>3, <1>4, <1>5, <1>6, <1>7, <1>8, <1>9, <1>10, <1>11,
     <1>12, <1>13 DEF Next, Work

\* Every variable keeps its type, whatever fails or crashes.
THEOREM SnapshotTypesCorrect == Spec => []STypeOK
<1>1. Init => STypeOK
  BY BoundAssumption, InitTypes
<1>2. STypeOK /\ [Next]_svars => STypeOK'
  <2>1. STypeOK /\ UNCHANGED svars => STypeOK'
    BY DEF STypeOK, QueueTypeOK, ImageTypeOK, svars
  <2>2. QED BY <2>1, BoundAssumption, StepTypes
<1>3. QED BY <1>1, <1>2, PTL DEF Spec

-----------------------------------------------------------------------------
(* The order of image, record and index *)

\* The initial states are in order.
LEMMA InitOrder ==
  ASSUME BoundAssumption, Init
  PROVE  OrderInv
<1>1. PICK c \in Cameras :
        reading = [r \in Readers |-> [shelf |-> "still", camera |-> c, image |-> 0]]
  BY DEF Init
<1>2. /\ stage = "idle" /\ done \in Nat
      /\ \A r \in Readers : reading[r].image = 0
      /\ \A r \in Readers : files[reading[r].shelf][reading[r].camera] \in Nat
  BY <1>1, InitTypes DEF Init, STypeOK, QueueTypeOK, ImageTypeOK, Shelves
<1>3. \A s \in Shelves, k \in Cameras : SlotInv(s, k)
  BY DEF Init, SlotInv, Absent
<1>4. QED BY <1>2, <1>3 DEF OrderInv, ReadNotOlder

\* A write keeps the order at each of its steps, and when it fails (write,
\* writeEvent).
LEMMA QueueOrder ==
  ASSUME BoundAssumption, STypeOK, OrderInv, Work \/ FailWrite
  PROVE  OrderInv'
<1> USE DEF bootVars
<1>1. /\ done + 1 \in 1..Len(writes) /\ Cam \in Cameras /\ shelf \in Shelves
      /\ done \in Nat /\ phase = "ready" /\ phase' = phase /\ writes' = writes
      /\ reading' = reading
  BY NextWrite DEF Work, BeginWrite, RenameImage, SetRecord, RenameIndex, FailWrite,
       STypeOK, QueueTypeOK, Running
<1>2. \A s \in Shelves, c \in Cameras :
        /\ files[s][c] \in Nat /\ records[s][c] \in Info /\ index[s][c] \in Info
        /\ SlotInv(s, c)
  BY <1>1 DEF STypeOK, ImageTypeOK, OrderInv
<1>3. \A r \in Readers : reading[r].shelf \in Shelves /\ reading[r].camera \in Cameras
                         /\ reading[r].image \in Nat
  BY DEF STypeOK, Images
<1>4. CASE BeginWrite
  <2>1. \A s \in Shelves, c \in Cameras : SlotInv(s, c)'
    BY <1>1, <1>2, <1>4 DEF BeginWrite, SlotInv
  <2>2. QED BY <1>1, <1>4, <2>1 DEF BeginWrite, OrderInv, ReadNotOlder, Kind
<1>5. CASE RenameImage
  <2>1. \A s \in Shelves, c \in Cameras :
          files'[s][c] = IF s = shelf /\ c = Cam THEN done + 1 ELSE files[s][c]
    BY <1>1, <1>5 DEF RenameImage, STypeOK, ImageTypeOK
  <2>2. stage = "image" /\ stage' = "record" /\ done' = done /\ shelf' = shelf
        /\ index' = index /\ records' = records
    BY <1>5 DEF RenameImage
  <2>3. \A s \in Shelves, c \in Cameras : SlotInv(s, c)' /\ files[s][c] <= files'[s][c]
    <3> SUFFICES ASSUME NEW s \in Shelves, NEW c \in Cameras
                 PROVE  SlotInv(s, c)' /\ files[s][c] <= files'[s][c]
      OBVIOUS
    <3>1. /\ files[s][c] \in Nat /\ files[s][c] <= done + 1
          /\ records[s][c].image \in Nat /\ index[s][c].image \in Nat
          /\ records[s][c].image <= files[s][c] /\ index[s][c].image <= files[s][c]
      BY <1>2, <2>2 DEF SlotInv, Info, Images
    <3>2. files'[s][c] \in {done + 1, files[s][c]}
      BY <2>1
    <3>3. files'[s][c] <= done + 1 /\ files[s][c] <= files'[s][c]
      BY <3>1, <3>2, <1>1
    <3>4. QED BY <1>1, <1>2, <2>2, <3>1, <3>2, <3>3 DEF SlotInv
  <2>4. ReadNotOlder'
    BY <1>1, <1>2, <1>3, <2>1, <2>3 DEF OrderInv, ReadNotOlder
  <2>5. files'[shelf'][Cam'] = done' + 1
    BY <1>1, <2>1, <2>2 DEF Cam
  <2>6. QED BY <1>1, <2>2, <2>3, <2>4, <2>5 DEF OrderInv, Kind
<1>6. CASE SetRecord
  <2>1. /\ records'[shelf][Cam].image = done + 1
        /\ \A s \in Shelves, c \in Cameras :
             ~(s = shelf /\ c = Cam) => records'[s][c] = records[s][c]
    BY <1>1, <1>6 DEF SetRecord, STypeOK, ImageTypeOK
  <2>2. stage = "record" /\ stage' = "index" /\ done' = done /\ shelf' = shelf
        /\ index' = index /\ files' = files
    BY <1>6 DEF SetRecord
  <2>3. files[shelf][Cam] = done + 1
    BY <2>2 DEF OrderInv
  <2>4. \A s \in Shelves, c \in Cameras : SlotInv(s, c)'
    <3> SUFFICES ASSUME NEW s \in Shelves, NEW c \in Cameras PROVE SlotInv(s, c)'
      OBVIOUS
    <3>1. /\ files'[s][c] = files[s][c] /\ index'[s][c] = index[s][c]
          /\ files[s][c] <= done + 1 /\ index[s][c].image <= files[s][c]
          /\ index[s][c].image = 0 => index[s][c] = Absent
      BY <1>2, <2>2 DEF SlotInv
    <3>2. CASE s = shelf /\ c = Cam
      <4>1. records'[s][c].image = done + 1 /\ done + 1 # 0
        BY <1>1, <2>1, <3>2
      <4>2. records'[s][c] # Absent
        BY <4>1 DEF Absent
      <4>3. QED BY <1>1, <2>2, <2>3, <3>1, <3>2, <4>1, <4>2 DEF SlotInv
    <3>3. CASE ~(s = shelf /\ c = Cam)
      <4>1. records'[s][c] = records[s][c]
        BY <2>1, <3>3
      <4>2. QED BY <1>1, <1>2, <2>2, <3>1, <4>1 DEF SlotInv
    <3>4. QED BY <3>2, <3>3
  <2>5. Cam' = Cam /\ Kind(done + 1)' = Kind(done + 1)
    BY <1>1, <2>2 DEF Cam, Kind
  <2>6. records'[shelf'][Cam'].image = done' + 1 /\ files'[shelf'][Cam'] = done' + 1
    BY <1>1, <2>1, <2>2, <2>3, <2>5
  <2>7. QED BY <1>1, <2>2, <2>4, <2>5, <2>6 DEF OrderInv, ReadNotOlder
<1>7. CASE RenameIndex
  <2>1. \A s \in Shelves, c \in Cameras :
          index'[s][c] = IF s = shelf THEN records[s][c] ELSE index[s][c]
    BY <1>7 DEF RenameIndex, STypeOK, ImageTypeOK
  <2>2. /\ stage = "index" /\ files' = files /\ records' = records
        /\ \/ stage' = "idle" /\ done' = done + 1
           \/ stage' = "image" /\ done' = done /\ shelf' = "still"
    BY <1>7 DEF RenameIndex, Settle
  <2>3. \A s \in Shelves, c \in Cameras : SlotInv(s, c)'
    BY <1>1, <1>2, <2>1, <2>2 DEF SlotInv
  <2>4. QED BY <1>1, <2>2, <2>3 DEF OrderInv, ReadNotOlder
<1>8. CASE FailWrite
  <2>1. stage # "idle" /\ stage' = "idle" /\ done' = done + 1 /\ files' = files
        /\ index' = index /\ records' = records
    BY <1>8 DEF FailWrite, Settle
  <2>2. \A s \in Shelves, c \in Cameras : SlotInv(s, c)'
    BY <1>1, <1>2, <2>1 DEF SlotInv
  <2>3. QED BY <1>1, <2>1, <2>2 DEF OrderInv, ReadNotOlder
<1>9. QED BY <1>4, <1>5, <1>6, <1>7, <1>8 DEF Work

\* Crash, restart, initialize and the calls keep the order too.
LEMMA StepOrder ==
  ASSUME BoundAssumption, STypeOK, OrderInv, [Next]_svars
  PROVE  OrderInv'
<1> USE DEF bootVars, runVars
<1>1. /\ done \in Nat /\ Len(writes) \in Nat /\ done <= Len(writes)
      /\ \A s \in Shelves, c \in Cameras :
           /\ files[s][c] \in Nat /\ files[s][c] <= Len(writes)
           /\ records[s][c] \in Info /\ index[s][c] \in Info
           /\ SlotInv(s, c)
      /\ \A r \in Readers : reading[r].shelf \in Shelves /\ reading[r].camera \in Cameras
                            /\ reading[r].image \in Nat
  BY DEF STypeOK, QueueTypeOK, ImageTypeOK, OrderInv, Images
<1>2. ASSUME NEW c \in Cameras, NEW kind \in {"live", "event"}, Write(c, kind)
      PROVE OrderInv'
  <2>1. /\ Len(writes') = Len(writes) + 1
        /\ \A i \in 1..Len(writes) : writes'[i] = writes[i]
    BY <1>2, Queued DEF STypeOK
  <2>2. stage # "idle" => Cam' = Cam /\ Kind(done + 1)' = Kind(done + 1)
    <3>1. stage # "idle" => done + 1 \in 1..Len(writes) /\ done' = done
      BY <1>1, <1>2 DEF Write, OrderInv
    <3>2. QED BY <2>1, <3>1 DEF Cam, Kind
  <2>3. \A s \in Shelves, k \in Cameras : SlotInv(s, k)'
    BY <1>1, <1>2 DEF Write, SlotInv
  <2>4. QED BY <1>1, <1>2, <2>1, <2>2, <2>3 DEF Write, OrderInv, ReadNotOlder
<1>3. ASSUME NEW r \in Readers, NEW s \in Shelves, NEW c \in Cameras, Read(r, s, c)
      PROVE OrderInv'
  <2>1. \A t \in Shelves, k \in Cameras : SlotInv(t, k)'
    BY <1>1, <1>3 DEF Read, SlotInv
  <2>2. ReadNotOlder'
    <3>1. \A q \in Readers : reading'[q] = IF q = r
            THEN [shelf |-> s, camera |-> c, image |-> records[s][c].image]
            ELSE reading[q]
      BY <1>3 DEF Read, STypeOK
    <3>2. records[s][c].image <= files[s][c] /\ files' = files
      BY <1>1, <1>3 DEF Read, SlotInv
    <3>3. QED BY <3>1, <3>2 DEF OrderInv, ReadNotOlder
  <2>3. QED BY <1>3, <2>1, <2>2 DEF Read, OrderInv, Cam, Kind
<1>4. CASE Crash
  <2>1. /\ \A r \in Readers : reading'[r].image = 0 /\ reading'[r].shelf = reading[r].shelf
                              /\ reading'[r].camera = reading[r].camera
        /\ \A s \in Shelves, c \in Cameras : records'[s][c] = Absent
        /\ stage' = "idle" /\ done' = Len(writes) /\ files' = files /\ index' = index
        /\ phase' = "down"
    BY <1>4 DEF Crash
  <2>2. \A s \in Shelves, c \in Cameras : SlotInv(s, c)'
    BY <1>1, <2>1 DEF SlotInv, Absent
  <2>3. ReadNotOlder'
    BY <1>1, <2>1 DEF ReadNotOlder
  <2>4. QED BY <2>1, <2>2, <2>3 DEF OrderInv
<1>5. ASSUME Load \/ (\E s \in Shelves, c \in Cameras : Repair(s, c))
             \/ (\E s \in Shelves : Repaired(s)) \/ (\E c \in Cameras : Migrate(c)) \/ Migrated
      PROVE OrderInv'
  <2>1. phase # "ready" /\ UNCHANGED runVars
    BY <1>5 DEF Load, Repair, Repaired, Migrate, Migrated
  <2>2. stage = "idle" /\ \A r \in Readers : reading[r].image = 0
    BY <2>1 DEF OrderInv
  <2>3. ASSUME \A s \in Shelves, c \in Cameras : SlotInv(s, c)' /\ files'[s][c] \in Nat
        PROVE  OrderInv'
    BY <1>1, <2>1, <2>2, <2>3 DEF OrderInv, ReadNotOlder
  <2>4. CASE Load
    <3>1. \A s \in Shelves, c \in Cameras : records'[s][c] \in {Absent, index[s][c]}
      BY <2>4 DEF Load
    <3>2. ASSUME NEW s \in Shelves, NEW c \in Cameras PROVE SlotInv(s, c)'
      <4>1. /\ files' = files /\ index' = index /\ stage' = stage /\ done' = done
            /\ records'[s][c] \in {Absent, index[s][c]}
        BY <2>4, <3>1 DEF Load
      <4>2. index[s][c] # Absent => files[s][c] # 0
        BY <1>1 DEF SlotInv, Info, Images
      <4>3. index[s][c] # Absent => records'[s][c] = index[s][c]
        BY <2>4, <4>2 DEF Load
      <4>4. QED BY <1>1, <4>1, <4>3 DEF SlotInv, Absent
    <3>3. QED BY <1>1, <2>3, <2>4, <3>2 DEF Load
  <2>5. ASSUME NEW s \in Shelves, NEW c \in Cameras, Repair(s, c) PROVE OrderInv'
    <3>1. records \in [Shelves -> [Cameras -> Info]]
          /\ records' = [records EXCEPT ![s][c].revision = @ + 1]
      BY <2>5 DEF Repair, STypeOK, ImageTypeOK
    <3>2. \A t \in Shelves, k \in Cameras :
            /\ records'[t][k].image = records[t][k].image
            /\ ~(t = s /\ k = c) => records'[t][k] = records[t][k]
      <4>1. \A t \in Shelves, k \in Cameras : records'[t][k].image = records[t][k].image
        BY <3>1, Revised
      <4>2. \A t \in Shelves, k \in Cameras :
              ~(t = s /\ k = c) => records'[t][k] = records[t][k]
        BY <3>1
      <4>3. QED BY <4>1, <4>2
    <3>3. records[s][c].image # 0
      BY <1>1, <2>5 DEF Repair, IsEvent, SlotInv
    <3>4. ASSUME NEW t \in Shelves, NEW k \in Cameras PROVE SlotInv(t, k)'
      <4>1. /\ files' = files /\ index' = index /\ stage' = stage /\ done' = done
            /\ phase # "down" /\ SlotInv(t, k)
        BY <1>1, <2>5 DEF Repair
      <4>2. CASE t = s /\ k = c
        <5>1. records'[t][k].image = records[t][k].image /\ records[t][k].image # 0
          BY <3>2, <3>3, <4>2
        <5>2. records'[t][k] # Absent
          BY <5>1 DEF Absent
        <5>3. QED BY <4>1, <5>1, <5>2 DEF SlotInv
      <4>3. CASE ~(t = s /\ k = c)
        BY <3>2, <4>1, <4>3 DEF SlotInv
      <4>4. QED BY <4>2, <4>3
    <3>5. QED BY <1>1, <2>3, <2>5, <3>4 DEF Repair
  <2>6. ASSUME NEW s \in Shelves, Repaired(s) PROVE OrderInv'
    <3>1. \A t \in Shelves, k \in Cameras : index'[t][k] \in {index[t][k], records[t][k]}
      BY <2>6 DEF Repaired, STypeOK, ImageTypeOK
    <3>2. \A t \in Shelves, k \in Cameras : SlotInv(t, k)'
      BY <1>1, <2>1, <2>2, <2>6, <3>1 DEF Repaired, SlotInv
    <3>3. QED BY <1>1, <2>3, <2>6, <3>2 DEF Repaired
  <2>7. ASSUME NEW c \in Cameras, Migrate(c) PROVE OrderInv'
    \* The copy may be older than an event image whose index was never written.
    <3>1. /\ files'["event"][c] = files["still"][c]
          /\ records'["event"][c] = records["still"][c]
          /\ \A s \in Shelves, k \in Cameras : ~(s = "event" /\ k = c) =>
               files'[s][k] = files[s][k] /\ records'[s][k] = records[s][k]
          /\ index' = index
      BY <2>7 DEF Migrate, STypeOK, ImageTypeOK, Shelves
    <3>2. index["event"][c] = Absent /\ index["event"][c].image = 0
          /\ phase # "down" /\ phase' = phase
      BY <1>1, <2>7 DEF Migrate, ToMigrate, SlotInv, Absent, Shelves
    <3>3. SlotInv("event", c)'
      BY <1>1, <2>1, <2>2, <3>1, <3>2 DEF SlotInv, Shelves
    <3>4. \A s \in Shelves, k \in Cameras : SlotInv(s, k)' /\ files'[s][k] \in Nat
      BY <1>1, <2>1, <2>2, <3>1, <3>2, <3>3 DEF SlotInv, Shelves
    <3>5. QED BY <2>3, <3>4
  <2>8. CASE Migrated
    <3>1. \A t \in Shelves, k \in Cameras : index'[t][k] \in {index[t][k], records[t][k]}
      BY <2>8 DEF Migrated, STypeOK, ImageTypeOK
    <3>2. \A t \in Shelves, k \in Cameras : SlotInv(t, k)'
      BY <1>1, <2>1, <2>2, <2>8, <3>1 DEF Migrated, SlotInv
    <3>3. QED BY <1>1, <2>3, <2>8, <3>2 DEF Migrated
  <2>9. QED BY <1>5, <2>4, <2>5, <2>6, <2>7, <2>8
<1>6. CASE UNCHANGED svars
  BY <1>6 DEF svars, OrderInv, SlotInv, ReadNotOlder, Cam, Kind
<1>7. QED
  BY <1>2, <1>3, <1>4, <1>5, <1>6, QueueOrder DEF Next

\* A reader never gets an image older than its metadata (read, readEvent).
THEOREM ReadersCorrect == Spec => []ReadNotOlder
<1>1. Init => OrderInv
  BY BoundAssumption, InitOrder
<1>2. STypeOK /\ OrderInv /\ [Next]_svars => OrderInv'
  BY BoundAssumption, StepOrder
<1>3. OrderInv => ReadNotOlder
  BY DEF OrderInv
<1>4. QED BY <1>1, <1>2, <1>3, SnapshotTypesCorrect, PTL DEF Spec

-----------------------------------------------------------------------------
(* Live stills *)

\* Every image in a slot was written by a call before now, and later calls do not
\* change what it was.
LEMMA KindsStay ==
  ASSUME BoundAssumption, STypeOK, OrderInv, [Next]_svars
  PROVE  /\ \A i \in 1..Len(writes) : writes'[i] = writes[i]
         /\ \A s \in Shelves, c \in Cameras :
              /\ records[s][c] # Absent => records[s][c].image \in 1..Len(writes)
              /\ index[s][c] # Absent => index[s][c].image \in 1..Len(writes)
              /\ records[s][c] # Absent => files[s][c] \in 1..Len(writes)
              /\ index[s][c] # Absent => files[s][c] \in 1..Len(writes)
              /\ files[s][c] \in 0..Len(writes)
<1>1. \A i \in 1..Len(writes) : writes'[i] = writes[i]
  <2>1. CASE \E c \in Cameras, kind \in {"live", "event"} : Write(c, kind)
    BY <2>1, Queued DEF STypeOK
  <2>2. CASE ~\E c \in Cameras, kind \in {"live", "event"} : Write(c, kind)
    <3>1. writes' = writes
      BY <2>2 DEF Next, Work, BeginWrite, RenameImage, SetRecord, RenameIndex, FailWrite,
           Read, Crash, Load, Repair, Repaired, Migrate, Migrated, runVars, svars
    <3>2. QED BY <3>1
  <2>3. QED BY <2>1, <2>2
<1>2. ASSUME NEW s \in Shelves, NEW c \in Cameras
      PROVE /\ records[s][c] # Absent => records[s][c].image \in 1..Len(writes)
            /\ index[s][c] # Absent => index[s][c].image \in 1..Len(writes)
            /\ records[s][c] # Absent => files[s][c] \in 1..Len(writes)
            /\ index[s][c] # Absent => files[s][c] \in 1..Len(writes)
            /\ files[s][c] \in 0..Len(writes)
  <2>1. /\ Len(writes) \in Nat /\ files[s][c] \in 0..Len(writes)
        /\ records[s][c].image \in Nat /\ index[s][c].image \in Nat
    BY DEF STypeOK, QueueTypeOK, ImageTypeOK, Info, Images
  <2>2. SlotInv(s, c)
    BY DEF OrderInv
  <2>3. QED BY <2>1, <2>2 DEF SlotInv
<1>3. QED BY <1>1, <1>2

\* The queue never replaces a still that memory or index calls live by an event.
LEMMA QueueLive ==
  ASSUME BoundAssumption, STypeOK, OrderInv, LiveInv, Work \/ FailWrite
  PROVE  LiveInv'
<1> USE DEF bootVars
<1>1. /\ done + 1 \in 1..Len(writes) /\ Cam \in Cameras /\ shelf \in Shelves
      /\ done \in Nat /\ phase = "ready" /\ phase' = phase /\ writes' = writes
      /\ Kind(done + 1) \in {"live", "event"}
  BY NextWrite DEF Work, BeginWrite, RenameImage, SetRecord, RenameIndex, FailWrite,
       STypeOK, QueueTypeOK, Running, Kind, Calls
<1>2. \A c \in Cameras :
        /\ IsLive(index["still"][c]) => Kind(files["still"][c]) = "live"
        /\ IsLive(index["still"][c]) => IsLive(records["still"][c])
        /\ IsLive(records["still"][c]) => Kind(files["still"][c]) = "live"
  BY <1>1 DEF LiveInv
<1>3. CASE BeginWrite
  BY <1>1, <1>2, <1>3 DEF BeginWrite, LiveInv, IsLive, Kind
<1>4. CASE RenameImage
  <2>1. /\ files'[shelf][Cam] = done + 1
        /\ \A c \in Cameras : ~(shelf = "still" /\ c = Cam) =>
             files'["still"][c] = files["still"][c]
    BY <1>1, <1>4 DEF RenameImage, STypeOK, ImageTypeOK, Shelves
  <2>2. /\ stage = "image" /\ stage' = "record" /\ done' = done /\ shelf' = shelf
        /\ index' = index /\ records' = records
    BY <1>4 DEF RenameImage
  <2>3. shelf = "still" /\ Kind(done + 1) = "event" => ~IsLive(records["still"][Cam])
    BY <2>2 DEF LiveInv
  <2>4. \A c \in Cameras : IsLive(records["still"][c]) => Kind(files'["still"][c]) = "live"
    BY <1>1, <1>2, <2>1, <2>3
  <2>5. QED BY <1>1, <1>2, <2>2, <2>3, <2>4 DEF LiveInv, IsLive, Kind, Cam
<1>5. CASE SetRecord
  <2>1. /\ records'[shelf][Cam].image = done + 1
        /\ \A s \in Shelves, c \in Cameras :
             ~(s = shelf /\ c = Cam) => records'[s][c] = records[s][c]
    BY <1>1, <1>5 DEF SetRecord, STypeOK, ImageTypeOK
  <2>2. /\ stage = "record" /\ stage' = "index" /\ done' = done /\ shelf' = shelf
        /\ index' = index /\ files' = files
    BY <1>5 DEF SetRecord
  <2>3. files[shelf][Cam] = done + 1
    BY <2>2 DEF OrderInv
  <2>4. ASSUME NEW c \in Cameras
        PROVE  /\ IsLive(index["still"][c]) => IsLive(records'["still"][c])
               /\ IsLive(records'["still"][c]) => Kind(files["still"][c]) = "live"
    <3>1. CASE shelf = "still" /\ c = Cam
      <4>1. records'["still"][c] # Absent /\ records'["still"][c].image = files["still"][c]
        BY <1>1, <2>1, <2>3, <3>1 DEF Absent
      <4>2. IsLive(records'["still"][c]) <=> Kind(files["still"][c]) = "live"
        BY <4>1 DEF IsLive
      <4>3. QED BY <1>2, <4>2
    <3>2. CASE ~(shelf = "still" /\ c = Cam)
      BY <1>2, <2>1, <3>2 DEF Shelves
    <3>3. QED BY <3>1, <3>2
  <2>5. QED BY <1>1, <1>2, <2>2, <2>4 DEF LiveInv, IsLive, Kind
<1>6. CASE RenameIndex
  <2>1. \A c \in Cameras :
          index'["still"][c] = IF shelf = "still" THEN records["still"][c]
                               ELSE index["still"][c]
    BY <1>6 DEF RenameIndex, STypeOK, ImageTypeOK, Shelves
  <2>2. stage = "index" /\ files' = files /\ records' = records
    BY <1>6 DEF RenameIndex
  <2>3. \/ stage' = "idle"
        \/ /\ stage' = "image" /\ done' = done /\ ~IsLive(records["still"][Cam])
    BY <1>6 DEF RenameIndex, Settle, IsLive
  <2>4. QED BY <1>1, <1>2, <2>1, <2>2, <2>3 DEF LiveInv, IsLive, Kind, Cam
<1>7. CASE FailWrite
  BY <1>1, <1>2, <1>7 DEF FailWrite, Settle, LiveInv, IsLive, Kind
<1>8. QED BY <1>3, <1>4, <1>5, <1>6, <1>7 DEF Work

\* Nor does anything else (#loadIndex, #repairEventHeaders and the migration).
LEMMA StepLive ==
  ASSUME BoundAssumption, STypeOK, OrderInv, LiveInv, [Next]_svars
  PROVE  LiveInv'
<1> USE DEF bootVars, runVars
<1>1. /\ \A i \in 1..Len(writes) : writes'[i] = writes[i]
      /\ \A c \in Cameras :
           /\ records["still"][c] # Absent => records["still"][c].image \in 1..Len(writes)
           /\ index["still"][c] # Absent => index["still"][c].image \in 1..Len(writes)
           /\ records["still"][c] # Absent => files["still"][c] \in 1..Len(writes)
           /\ index["still"][c] # Absent => files["still"][c] \in 1..Len(writes)
  BY KindsStay DEF Shelves
<1>2. ASSUME NEW c \in Cameras, NEW kind \in {"live", "event"}, Write(c, kind)
      PROVE LiveInv'
  <2>1. /\ UNCHANGED <<done, stage, shelf, phase, files, index, records>>
    BY <1>2 DEF Write
  <2>2. stage # "idle" => Cam' = Cam /\ Kind(done + 1)' = Kind(done + 1)
    <3>1. stage # "idle" => done + 1 \in 1..Len(writes)
      BY DEF OrderInv, STypeOK, QueueTypeOK, Images
    <3>2. QED BY <1>1, <2>1, <3>1 DEF Cam, Kind
  <2>3. \A k \in Cameras :
          /\ IsLive(index["still"][k])' <=> IsLive(index["still"][k])
          /\ IsLive(records["still"][k])' <=> IsLive(records["still"][k])
          /\ IsLive(index["still"][k]) => Kind(files["still"][k])' = Kind(files["still"][k])
          /\ IsLive(records["still"][k]) => Kind(files["still"][k])' = Kind(files["still"][k])
    BY <1>1, <2>1 DEF IsLive, Kind
  <2>4. stage # "idle" => Cam \in Cameras
    BY NextWrite DEF OrderInv, STypeOK, Running
  <2>5. stage # "idle" =>
          (IsLive(records["still"][Cam])' <=> IsLive(records["still"][Cam]))
    BY <2>1, <2>2, <2>3, <2>4
  <2>6. QED BY <2>1, <2>2, <2>3, <2>5 DEF LiveInv
<1>3. ASSUME NEW r \in Readers, NEW s \in Shelves, NEW c \in Cameras, Read(r, s, c)
      PROVE LiveInv'
  BY <1>3 DEF Read, LiveInv, IsLive, Kind, Cam
<1>4. CASE Crash
  BY <1>4 DEF Crash, LiveInv, IsLive, Kind
<1>5. phase \in {"down", "repair", "repairEvents", "migrate"} => stage = "idle"
  BY DEF OrderInv
<1>6. CASE Load
  <2>1. \A c \in Cameras : index["still"][c] # Absent => files["still"][c] # 0
    BY <1>1
  <2>2. \A c \in Cameras : records'["still"][c] = index["still"][c]
    BY <1>6, <2>1 DEF Load, Shelves
  <2>3. QED BY <1>5, <1>6, <2>2 DEF Load, LiveInv, IsLive, Kind
<1>7. ASSUME NEW s \in Shelves, NEW c \in Cameras, Repair(s, c) PROVE LiveInv'
  <2>1. /\ records \in [Shelves -> [Cameras -> Info]]
        /\ records' = [records EXCEPT ![s][c].revision = @ + 1]
        /\ UNCHANGED <<writes, files, index, phase, stage>> /\ phase # "down"
        /\ stage = "idle" /\ IsEvent(records[s][c])
    BY <1>5, <1>7 DEF Repair, STypeOK, ImageTypeOK
  <2>2. \A k \in Cameras : ~(s = "still" /\ k = c) => records'["still"][k] = records["still"][k]
    BY <2>1 DEF Shelves
  <2>3. \A k \in Cameras : records'["still"][k].image = records["still"][k].image
    BY <2>1, Revised DEF Shelves
  <2>4. \A k \in Cameras : IsLive(records'["still"][k]) <=> IsLive(records["still"][k])
    <3>1. \A k \in Cameras : ~(s = "still" /\ k = c) =>
            (IsLive(records'["still"][k]) <=> IsLive(records["still"][k]))
      BY <2>2
    <3>2. s = "still" => ~IsLive(records["still"][c]) /\ ~IsLive(records'["still"][c])
      BY <2>1, <2>3 DEF IsEvent, IsLive
    <3>3. QED BY <3>1, <3>2
  <2>5. QED BY <2>1, <2>4 DEF LiveInv, IsLive, Kind
<1>8. ASSUME NEW s \in Shelves, Repaired(s) PROVE LiveInv'
  <2>1. \A c \in Cameras : index'["still"][c] \in {index["still"][c], records["still"][c]}
    BY <1>8 DEF Repaired, STypeOK, ImageTypeOK, Shelves
  <2>2. phase # "down" /\ stage = "idle" /\ UNCHANGED <<writes, files, records, stage>>
    BY <1>5, <1>8 DEF Repaired
  <2>3. QED BY <2>1, <2>2 DEF LiveInv, IsLive, Kind
<1>9. ASSUME NEW c \in Cameras, Migrate(c) PROVE LiveInv'
  <2>1. files'["still"] = files["still"] /\ records'["still"] = records["still"]
    BY <1>9 DEF Migrate, STypeOK, ImageTypeOK, Shelves
  <2>2. stage = "idle" /\ UNCHANGED <<writes, index, stage, phase>>
    BY <1>5, <1>9 DEF Migrate
  <2>3. QED BY <2>1, <2>2 DEF LiveInv, IsLive, Kind
<1>10. CASE Migrated
  <2>1. index'["still"] = index["still"]
    BY <1>10 DEF Migrated, STypeOK, ImageTypeOK, Shelves
  <2>2. phase # "down" /\ stage = "idle" /\ UNCHANGED <<writes, files, records, stage>>
    BY <1>5, <1>10 DEF Migrated
  <2>3. QED BY <2>1, <2>2 DEF LiveInv, IsLive, Kind
<1>11. CASE UNCHANGED svars
  BY <1>11 DEF svars, LiveInv, IsLive, Kind, Cam
<1>12. QED
  BY <1>2, <1>3, <1>4, <1>6, <1>7, <1>8, <1>9, <1>10, <1>11, QueueLive DEF Next

\* Nothing from an earlier version is live.
LEMMA InitLive ==
  ASSUME Init
  PROVE  LiveInv
<1>1. \A c \in Cameras : index["still"][c] # Absent => Kind(index["still"][c].image) = "event"
  BY DEF Init, Absent, Kind, Shelves
<1>2. \A c \in Cameras : ~IsLive(index["still"][c])
  BY <1>1 DEF IsLive
<1>3. QED BY <1>2 DEF Init, LiveInv

\* A still that the index calls live is never replaced by an event image
\* (writeEvent, #loadIndex).
THEOREM LiveStillCorrect == Spec => DurableLiveKept
<1>1. Init => OrderInv /\ LiveInv
  BY BoundAssumption, InitOrder, InitLive
<1>2. STypeOK /\ OrderInv /\ LiveInv /\ [Next]_svars => OrderInv' /\ LiveInv'
  BY BoundAssumption, StepOrder, StepLive
<1> DEFINE Kept ==
      \A c \in Cameras :
        index["still"][c] # Absent /\ Kind(index["still"][c].image) = "live"
          => writes'[files'["still"][c]].kind = "live"
<1>3. ASSUME STypeOK, OrderInv, LiveInv, [Next]_svars
      PROVE  Kept
  <2> SUFFICES ASSUME NEW c \in Cameras, IsLive(index["still"][c])
               PROVE  Kind(files["still"][c])' = "live"
    BY DEF IsLive, Kind
  <2>1. LiveInv'
    BY <1>3, BoundAssumption, StepLive
  <2>2. \/ index'["still"][c] = index["still"][c]
        \/ phase # "down" /\ index'["still"][c] = records["still"][c]
    <3>1. CASE index' = index
      BY <3>1
    <3>2. CASE RenameIndex \/ (\E s \in Shelves : Repaired(s)) \/ Migrated
      BY <1>3, <3>2 DEF RenameIndex, Running, Repaired, Migrated, STypeOK, ImageTypeOK,
           Shelves
    <3>3. QED
      BY <1>3, <3>1, <3>2 DEF Next, Work, Write, BeginWrite, RenameImage, SetRecord,
           FailWrite, Read, Crash, Load, Repair, Migrate, svars
  <2>3. IsLive(index'["still"][c])
    BY <1>3, <2>2 DEF LiveInv
  <2>4. index'["still"][c].image \in 1..Len(writes)
    BY <1>3, <2>2, <2>3, BoundAssumption, KindsStay DEF Shelves, IsLive
  <2>5. IsLive(index["still"][c])'
    BY <1>3, <2>3, <2>4, BoundAssumption, KindsStay DEF IsLive, Kind
  <2>6. QED BY <2>1, <2>5 DEF LiveInv
<1>4. QED
  BY <1>1, <1>2, <1>3, SnapshotTypesCorrect, PTL DEF Spec, DurableLiveKept

-----------------------------------------------------------------------------
(* The event shelf *)

\* The queue puts only event images there, and gives an event still its event
\* record first.
LEMMA QueueShelf ==
  ASSUME BoundAssumption, STypeOK, OrderInv, ShelfInv, Work \/ FailWrite
  PROVE  ShelfInv'
<1> USE DEF bootVars
<1>1. /\ done + 1 \in 1..Len(writes) /\ Cam \in Cameras /\ shelf \in Shelves
      /\ done \in Nat /\ phase = "ready" /\ phase' = phase /\ writes' = writes
      /\ changed' = changed /\ Kind(done + 1) \in {"live", "event"}
  BY NextWrite DEF Work, BeginWrite, RenameImage, SetRecord, RenameIndex, FailWrite,
       STypeOK, QueueTypeOK, Running, Kind, Calls
<1>2. /\ EventShelfHoldsEvents
      /\ \A c \in Cameras : IsEvent(records["still"][c]) \/ IsEvent(index["still"][c])
           => index["event"][c] # Absent
  BY <1>1 DEF ShelfInv
<1>3. ASSUME /\ EventShelfHoldsEvents'
             /\ \A c \in Cameras :
                  IsEvent(records'["still"][c]) \/ IsEvent(index'["still"][c])
                    => index'["event"][c] # Absent
             /\ stage' \in {"image", "record"} /\ shelf' = "still"
                  /\ Kind(done + 1)' = "event" => index'["event"][Cam'] # Absent
      PROVE  ShelfInv'
  <2>1. ASSUME NEW c \in Cameras, IsEvent(index["still"][c])'
        PROVE  IsEvent(index'["still"][c])
    BY <1>1, <2>1 DEF IsEvent, Kind
  <2>2. ASSUME NEW c \in Cameras, IsEvent(records["still"][c])'
        PROVE  IsEvent(records'["still"][c])
    BY <1>1, <2>2 DEF IsEvent, Kind
  <2>3. QED BY <1>1, <1>3, <2>1, <2>2 DEF ShelfInv, Booting
<1>4. CASE BeginWrite
  <2>1. UNCHANGED <<done, files, index, records>> /\ stage' = "image"
        /\ (Kind(done + 1) = "event" => shelf' = "event")
    BY <1>4 DEF BeginWrite
  <2>2. QED BY <1>1, <1>2, <1>3, <2>1 DEF EventShelfHoldsEvents, Kind
<1>5. CASE RenameImage
  <2>1. /\ files'[shelf][Cam] = done + 1
        /\ \A c \in Cameras : ~(shelf = "event" /\ c = Cam) =>
             files'["event"][c] = files["event"][c]
    BY <1>1, <1>5 DEF RenameImage, STypeOK, ImageTypeOK, Shelves
  <2>2. /\ stage = "image" /\ stage' = "record" /\ done' = done /\ shelf' = shelf
        /\ index' = index /\ records' = records
    BY <1>5 DEF RenameImage
  <2>3. shelf = "event" => Kind(done + 1) = "event"
    BY <1>1, <2>2 DEF OrderInv
  <2>4. EventShelfHoldsEvents'
    BY <1>1, <1>2, <2>1, <2>3 DEF EventShelfHoldsEvents, Kind
  <2>5. QED BY <1>1, <1>2, <1>3, <2>2, <2>4 DEF ShelfInv, Kind, Cam
<1>6. CASE SetRecord
  <2>1. /\ records'[shelf][Cam].image = done + 1
        /\ \A s \in Shelves, c \in Cameras :
             ~(s = shelf /\ c = Cam) => records'[s][c] = records[s][c]
    BY <1>1, <1>6 DEF SetRecord, STypeOK, ImageTypeOK
  <2>2. /\ stage = "record" /\ stage' = "index" /\ done' = done /\ shelf' = shelf
        /\ index' = index /\ files' = files
    BY <1>6 DEF SetRecord
  <2>3. ASSUME NEW c \in Cameras, IsEvent(records'["still"][c])
        PROVE  index["event"][c] # Absent
    <3>1. CASE shelf = "still" /\ c = Cam
      BY <2>1, <2>2, <2>3, <3>1 DEF IsEvent, ShelfInv
    <3>2. CASE ~(shelf = "still" /\ c = Cam)
      BY <1>2, <2>1, <2>3, <3>2 DEF Shelves
    <3>3. QED BY <3>1, <3>2
  <2>4. QED BY <1>1, <1>2, <1>3, <2>2, <2>3 DEF EventShelfHoldsEvents, Kind
<1>7. CASE RenameIndex
  <2>1. \A s \in Shelves, c \in Cameras :
          index'[s][c] = IF s = shelf THEN records[s][c] ELSE index[s][c]
    BY <1>7 DEF RenameIndex, STypeOK, ImageTypeOK
  <2>2. stage = "index" /\ files' = files /\ records' = records
    BY <1>7 DEF RenameIndex
  <2>3. \A c \in Cameras : index["event"][c] # Absent => index'["event"][c] # Absent
    BY <1>1, <2>1 DEF OrderInv, SlotInv, Shelves
  <2>4. \A c \in Cameras : IsEvent(records'["still"][c]) \/ IsEvent(index'["still"][c])
          => index'["event"][c] # Absent
    BY <1>2, <2>1, <2>2, <2>3 DEF Shelves
  <2>5. \/ stage' = "idle"
        \/ shelf = "event" /\ done' = done
    BY <1>1, <1>7 DEF RenameIndex, Settle, Shelves
  <2>6. records[shelf][Cam] # Absent
    BY <1>1, <2>2 DEF OrderInv, Absent
  <2>7. stage' # "idle" => index'["event"][Cam'] # Absent
    BY <1>1, <2>1, <2>5, <2>6 DEF Cam
  <2>8. EventShelfHoldsEvents'
    BY <1>1, <1>2, <2>2 DEF EventShelfHoldsEvents, Kind
  <2>9. QED BY <1>3, <2>4, <2>7, <2>8
<1>8. CASE FailWrite
  <2>1. UNCHANGED <<files, index, records>> /\ stage' = "idle"
    BY <1>8 DEF FailWrite, Settle
  <2>2. QED BY <1>1, <1>2, <1>3, <2>1 DEF EventShelfHoldsEvents, Kind
<1>9. QED BY <1>4, <1>5, <1>6, <1>7, <1>8 DEF Work

\* Restarts and the migration keep the shelf (initialize).
LEMMA StepShelf ==
  ASSUME BoundAssumption, STypeOK, OrderInv, ShelfInv, [Next]_svars
  PROVE  ShelfInv'
<1> USE DEF bootVars, runVars
<1>1. /\ \A i \in 1..Len(writes) : writes'[i] = writes[i]
      /\ \A s \in Shelves, c \in Cameras :
           /\ records[s][c] # Absent => records[s][c].image \in 1..Len(writes)
           /\ index[s][c] # Absent => index[s][c].image \in 1..Len(writes)
           /\ index[s][c] # Absent => files[s][c] \in 1..Len(writes)
           /\ files[s][c] \in 0..Len(writes)
  BY KindsStay
<1>2. ASSUME NEW c \in Cameras, NEW kind \in {"live", "event"}, Write(c, kind)
      PROVE ShelfInv'
  <2>1. /\ UNCHANGED <<done, stage, shelf, phase, changed, files, index, records>>
        /\ phase = "ready"
    BY <1>2 DEF Write
  <2>2. stage # "idle" => Cam' = Cam /\ Kind(done + 1)' = Kind(done + 1)
    <3>1. stage # "idle" => done + 1 \in 1..Len(writes)
      BY DEF OrderInv, STypeOK, QueueTypeOK, Images
    <3>2. QED BY <1>1, <2>1, <3>1 DEF Cam, Kind
  <2>3. \A k \in Cameras :
          /\ IsEvent(index["still"][k])' <=> IsEvent(index["still"][k])
          /\ IsEvent(records["still"][k])' <=> IsEvent(records["still"][k])
          /\ files["event"][k] # 0 => Kind(files["event"][k])' = Kind(files["event"][k])
    BY <1>1, <2>1 DEF IsEvent, Kind, Shelves
  <2>4. QED BY <2>1, <2>2, <2>3 DEF ShelfInv, EventShelfHoldsEvents, Booting
<1>3. ASSUME NEW r \in Readers, NEW s \in Shelves, NEW c \in Cameras, Read(r, s, c)
      PROVE ShelfInv'
  BY <1>3 DEF Read, ShelfInv, EventShelfHoldsEvents, IsEvent, Kind, Cam, Booting
<1>4. CASE Crash
  BY <1>4 DEF Crash, ShelfInv, EventShelfHoldsEvents, IsEvent, Kind, Booting
<1>5. phase # "ready" => stage = "idle"
  BY DEF OrderInv
<1>6. CASE Load
  <2>1. \A s \in Shelves, c \in Cameras : index[s][c] # Absent => files[s][c] # 0
    BY <1>1
  <2>2. \A s \in Shelves, c \in Cameras : records'[s][c] = index[s][c]
    BY <1>6, <2>1 DEF Load
  <2>3. phase = "down" /\ phase' = "repair" /\ stage' = "idle"
        /\ UNCHANGED <<writes, files, index>>
    BY <1>5, <1>6 DEF Load
  <2>4. QED
    BY <2>2, <2>3 DEF ShelfInv, EventShelfHoldsEvents, IsEvent, Kind, Booting, Shelves
<1>7. ASSUME NEW s \in Shelves, NEW c \in Cameras, Repair(s, c) PROVE ShelfInv'
  <2>1. /\ records \in [Shelves -> [Cameras -> Info]]
        /\ records' = [records EXCEPT ![s][c].revision = @ + 1]
        /\ UNCHANGED <<writes, files, index, phase, stage>>
        /\ phase \in {"repair", "repairEvents"}
        /\ stage = "idle" /\ IsEvent(records[s][c])
    BY <1>5, <1>7 DEF Repair, STypeOK, ImageTypeOK, Shelves
  <2>2. \A t \in Shelves, k \in Cameras : ~(t = s /\ k = c) => records'[t][k] = records[t][k]
    BY <2>1
  <2>3. \A t \in Shelves, k \in Cameras : records'[t][k].image = records[t][k].image
    BY <2>1, Revised
  <2>4. \A k \in Cameras : records'["event"][k] # Absent => records["event"][k] # Absent
    <3>1. records[s][c] # Absent
      BY <2>1 DEF IsEvent
    <3>2. QED BY <2>2, <3>1 DEF Shelves
  <2>5. \A k \in Cameras : records'["still"][k].image = records["still"][k].image
    BY <2>3 DEF Shelves
  <2>6. QED
    BY <2>1, <2>4, <2>5 DEF ShelfInv, EventShelfHoldsEvents, IsEvent, Kind, Booting
<1>8. ASSUME NEW s \in Shelves, Repaired(s) PROVE ShelfInv'
  <2>1. /\ \A t \in Shelves, c \in Cameras :
             index'[t][c] = IF changed /\ t = s THEN records[t][c] ELSE index[t][c]
        /\ UNCHANGED <<writes, files, records, stage>> /\ stage = "idle"
        /\ changed' = FALSE /\ Booting /\ phase' \in {"repairEvents", "migrate"}
        /\ phase # "migrate"
    BY <1>5, <1>8 DEF Repaired, STypeOK, ImageTypeOK, Booting, Shelves
  <2>2. \A c \in Cameras :
          /\ index'["still"][c].image = index["still"][c].image
          /\ index'["still"][c].image = records["still"][c].image
          /\ records["event"][c] # Absent <=> index["event"][c] # Absent
    BY <2>1 DEF ShelfInv, OrderInv, SlotInv, Booting, Shelves
  <2>3. \A c \in Cameras :
          /\ index'["event"][c] # Absent <=> index["event"][c] # Absent
          /\ IsEvent(index'["still"][c]) => IsEvent(index["still"][c])
    <3>1. \A c \in Cameras : index["still"][c] = Absent => index'["still"][c] = Absent
      BY <2>1, <2>2 DEF OrderInv, SlotInv, Shelves, Absent
    <3>2. QED BY <2>1, <2>2, <3>1 DEF IsEvent, Shelves
  <2>4. EventShelfHoldsEvents'
    BY <2>1 DEF ShelfInv, EventShelfHoldsEvents, Kind
  <2>5. ASSUME NEW c \in Cameras, IsEvent(index["still"][c])',
               Kind(files["still"][c])' = "live"
        PROVE  index'["event"][c] # Absent
    BY <2>1, <2>3, <2>5 DEF ShelfInv, IsEvent, Kind
  <2>6. QED BY <2>1, <2>2, <2>3, <2>4, <2>5 DEF ShelfInv, Booting
<1>9. ASSUME NEW c \in Cameras, Migrate(c) PROVE ShelfInv'
  <2>1. /\ files'["event"][c] = files["still"][c]
        /\ files'["still"] = files["still"] /\ records'["still"] = records["still"]
        /\ \A k \in Cameras : k # c =>
             files'["event"][k] = files["event"][k] /\ records'["event"][k] = records["event"][k]
    BY <1>9 DEF Migrate, STypeOK, ImageTypeOK, Shelves
  <2>2. /\ UNCHANGED <<writes, index, stage, phase>> /\ stage = "idle"
        /\ phase = "migrate" /\ changed' = TRUE
        /\ IsEvent(records["still"][c]) /\ records["event"][c] = Absent
    BY <1>5, <1>9 DEF Migrate, ToMigrate
  <2>3. Kind(files["still"][c]) = "event"
    \* Otherwise the index has an event image of this camera, and so has memory.
    <3>1. records["still"][c].image = index["still"][c].image /\ records["still"][c] # Absent
      BY <2>2 DEF ShelfInv, Booting, IsEvent
    <3>2. index["still"][c] # Absent /\ IsEvent(index["still"][c])
      BY <1>1, <2>2, <3>1 DEF IsEvent, Absent, Shelves
    <3>3. index["event"][c] = Absent
      BY <2>2 DEF OrderInv, SlotInv, Shelves
    <3>4. Kind(files["still"][c]) # "live"
      BY <3>2, <3>3 DEF ShelfInv
    <3>5. files["still"][c] \in 1..Len(writes)
      BY <1>1, <3>2 DEF Shelves
    <3>6. writes[files["still"][c]] \in Calls
      BY <3>5, ElementOfSeq DEF STypeOK, QueueTypeOK
    <3>7. QED BY <3>4, <3>6 DEF Kind, Calls
  <2>4. EventShelfHoldsEvents'
    BY <2>1, <2>2, <2>3 DEF ShelfInv, EventShelfHoldsEvents, Kind
  <2>5. QED BY <2>1, <2>2, <2>4 DEF ShelfInv, Booting, IsEvent, Kind
<1>10. CASE Migrated
  <2>1. /\ \A c \in Cameras :
             index'["event"][c] = IF changed THEN records["event"][c] ELSE index["event"][c]
        /\ index'["still"] = index["still"]
    BY <1>10 DEF Migrated, STypeOK, ImageTypeOK, Shelves
  <2>2. /\ UNCHANGED <<writes, files, records, stage>> /\ stage = "idle"
        /\ phase = "migrate" /\ phase' = "ready"
        /\ \A c \in Cameras : IsEvent(records["still"][c]) => records["event"][c] # Absent
    BY <1>5, <1>10 DEF Migrated, ToMigrate
  <2>3. \A c \in Cameras : records["event"][c] # Absent => index'["event"][c] # Absent
    BY <2>1, <2>2 DEF ShelfInv, Booting
  <2>4. \A c \in Cameras : IsEvent(index["still"][c]) => IsEvent(records["still"][c])
    <3>1. \A c \in Cameras :
            /\ index["still"][c].image = records["still"][c].image
            /\ index["still"][c] # Absent => records["still"][c] # Absent
      BY <2>2 DEF ShelfInv, Booting, OrderInv, SlotInv, Shelves
    <3>2. QED BY <3>1 DEF IsEvent
  <2>5. EventShelfHoldsEvents'
    BY <2>2 DEF ShelfInv, EventShelfHoldsEvents, Kind
  <2>6. QED BY <2>1, <2>2, <2>3, <2>4, <2>5 DEF ShelfInv, Booting, IsEvent, Kind
<1>11. CASE UNCHANGED svars
  BY <1>11 DEF svars, ShelfInv, EventShelfHoldsEvents, IsEvent, Kind, Cam, Booting
<1>12. QED
  BY <1>2, <1>3, <1>4, <1>6, <1>7, <1>8, <1>9, <1>10, <1>11, QueueShelf DEF Next

\* The images of an earlier version are event images.
LEMMA InitShelf ==
  ASSUME Init
  PROVE  ShelfInv
<1>1. \A c \in Cameras : files["still"][c] # 0 => Kind(files["still"][c]) = "event"
  BY DEF Init, Kind, Shelves
<1>2. EventShelfHoldsEvents
  BY DEF Init, EventShelfHoldsEvents, Kind, Shelves
<1>3. \A c \in Cameras : index["still"][c] # Absent => files["still"][c] # 0
  BY DEF Init, Absent, Shelves
<1>4. QED BY <1>1, <1>2, <1>3 DEF Init, ShelfInv, IsEvent, Booting

\* The event shelf never holds a live image (#migrateRetainedEventImages).
THEOREM EventShelfCorrect == Spec => []EventShelfHoldsEvents
<1>1. Init => OrderInv /\ ShelfInv
  BY BoundAssumption, InitOrder, InitShelf
<1>2. STypeOK /\ OrderInv /\ ShelfInv /\ [Next]_svars => OrderInv' /\ ShelfInv'
  BY BoundAssumption, StepOrder, StepShelf
<1>3. ShelfInv => EventShelfHoldsEvents
  BY DEF ShelfInv
<1>4. QED BY <1>1, <1>2, <1>3, SnapshotTypesCorrect, PTL DEF Spec

-----------------------------------------------------------------------------
(* Revisions *)

\* The queue gives every image of a slot a revision of its own.
LEMMA QueueRevisions ==
  ASSUME BoundAssumption, STypeOK, OrderInv, RevisionInv, Work \/ FailWrite
  PROVE  RevisionInv'
<1> USE DEF bootVars
<1>1. /\ done + 1 \in 1..Len(writes) /\ Cam \in Cameras /\ shelf \in Shelves
      /\ phase = "ready" /\ phase' = phase
  BY NextWrite DEF Work, BeginWrite, RenameImage, SetRecord, RenameIndex, FailWrite,
       STypeOK, QueueTypeOK, Running
<1>2. \A s \in Shelves, c \in Cameras : records[s][c] \in Info /\ index[s][c] \in Info
  BY DEF STypeOK, ImageTypeOK
<1>3. CASE SetRecord
  <2>1. /\ records'[shelf][Cam].revision = records[shelf][Cam].revision + 1
        /\ \A s \in Shelves, c \in Cameras :
             ~(s = shelf /\ c = Cam) => records'[s][c] = records[s][c]
    BY <1>1, <1>3 DEF SetRecord, STypeOK, ImageTypeOK
  <2>2. index' = index /\ returned' = returned
    BY <1>3 DEF SetRecord
  <2>3. ASSUME NEW c \in Cameras
        PROVE  /\ index["still"][c].revision <= records'["still"][c].revision
               /\ index["still"][c].revision = records'["still"][c].revision
                    => index["still"][c].image = records'["still"][c].image
    <3>1. /\ index["still"][c].revision \in Nat /\ records["still"][c].revision \in Nat
          /\ index["still"][c].revision <= records["still"][c].revision
          /\ index["still"][c].revision = records["still"][c].revision
               => index["still"][c].image = records["still"][c].image
      BY <1>1, <1>2 DEF Info, Shelves, RevisionInv
    <3>2. CASE shelf = "still" /\ c = Cam
      <4>1. records'["still"][c].revision = records["still"][c].revision + 1
        BY <2>1, <3>2
      <4>2. QED BY <3>1, <4>1
    <3>3. CASE ~(shelf = "still" /\ c = Cam)
      BY <2>1, <3>1, <3>3 DEF Shelves
    <3>4. QED BY <3>2, <3>3
  <2>4. QED BY <1>1, <2>2, <2>3 DEF RevisionInv, ReturnedRevisionsAreUnique
<1>4. CASE RenameIndex
  <2>1. \A c \in Cameras :
          index'["still"][c] = IF shelf = "still" THEN records["still"][c]
                               ELSE index["still"][c]
    BY <1>4 DEF RenameIndex, STypeOK, ImageTypeOK, Shelves
  <2>2. records' = records
    BY <1>4 DEF RenameIndex
  <2>3. \A c \in Cameras :
          /\ index["still"][c].revision \in Nat /\ records["still"][c].revision \in Nat
          /\ index["still"][c].revision <= records["still"][c].revision
          /\ index["still"][c].revision = records["still"][c].revision
               => index["still"][c].image = records["still"][c].image
    BY <1>1, <1>2 DEF Info, Shelves, RevisionInv
  <2>4. \A a \in returned :
          /\ a.camera \in Cameras /\ a.revision \in Nat
          /\ a.revision <= index["still"][a.camera].revision
          /\ a.revision = index["still"][a.camera].revision
               => a.image = index["still"][a.camera].image
    BY DEF STypeOK, RevisionInv
  <2>5. \A a \in returned :
          /\ a.revision <= index'["still"][a.camera].revision
          /\ a.revision = index'["still"][a.camera].revision
               => a.image = index'["still"][a.camera].image
    BY <2>1, <2>3, <2>4
  <2>6. \A c \in Cameras :
          /\ index'["still"][c].revision <= records["still"][c].revision
          /\ index'["still"][c].revision = records["still"][c].revision
               => index'["still"][c].image = records["still"][c].image
    BY <2>1, <2>3
  <2>7. CASE returned' = returned
    BY <2>2, <2>5, <2>6, <2>7 DEF RevisionInv, ReturnedRevisionsAreUnique
  <2>8. CASE shelf = "still"
    <3> DEFINE new == [camera |-> Cam, revision |-> records["still"][Cam].revision,
                       image |-> records["still"][Cam].image]
    <3>1. returned' = returned \cup {new}
      BY <1>4, <2>8 DEF RenameIndex, Settle
    <3>2. /\ new.camera = Cam /\ new.revision = index'["still"][Cam].revision
          /\ new.image = index'["still"][Cam].image
          /\ new.revision \in Nat
      BY <1>1, <2>1, <2>3, <2>8
    <3>3. \A a \in returned : a.camera = Cam /\ a.revision = new.revision => a = new
      <4> SUFFICES ASSUME NEW a \in returned, a.camera = Cam, a.revision = new.revision
                   PROVE  a = new
        OBVIOUS
      <4>1. a.image = new.image
        BY <2>5, <3>2
      <4>2. a \in [camera : Cameras, revision : Nat, image : Images]
        BY DEF STypeOK
      <4>3. QED BY <3>2, <4>1, <4>2
    <3> HIDE DEF new
    <3>4. \A a \in returned' :
            /\ a.revision <= index'["still"][a.camera].revision
            /\ a.revision = index'["still"][a.camera].revision
                 => a.image = index'["still"][a.camera].image
      BY <2>5, <3>1, <3>2
    <3>5. ReturnedRevisionsAreUnique'
      BY <3>1, <3>2, <3>3 DEF RevisionInv, ReturnedRevisionsAreUnique
    <3>6. QED BY <2>2, <2>6, <3>4, <3>5 DEF RevisionInv
  <2>9. QED
    BY <1>4, <2>7, <2>8 DEF RenameIndex, Settle
<1>5. CASE BeginWrite \/ RenameImage \/ FailWrite
  BY <1>1, <1>5 DEF BeginWrite, RenameImage, FailWrite, Settle, RevisionInv,
       ReturnedRevisionsAreUnique
<1>6. QED BY <1>3, <1>4, <1>5 DEF Work

\* A restart goes back to the index, and never behind it.
LEMMA StepRevisions ==
  ASSUME BoundAssumption, STypeOK, OrderInv, RevisionInv, [Next]_svars
  PROVE  RevisionInv'
<1> USE DEF bootVars, runVars
<1>1. CASE \/ \E c \in Cameras, kind \in {"live", "event"} : Write(c, kind)
           \/ \E r \in Readers, s \in Shelves, c \in Cameras : Read(r, s, c)
           \/ UNCHANGED svars
  <2>1. UNCHANGED <<phase, index, records, returned>>
    BY <1>1 DEF Write, Read, svars
  <2>2. QED BY <2>1 DEF RevisionInv, ReturnedRevisionsAreUnique
<1>2. CASE Crash
  BY <1>2 DEF Crash, RevisionInv, ReturnedRevisionsAreUnique
<1>3. CASE Load
  <2>1. \A c \in Cameras : index["still"][c] # Absent => files["still"][c] # 0
    BY DEF OrderInv, SlotInv, STypeOK, ImageTypeOK, Info, Images, Shelves
  <2>2. \A c \in Cameras : records'["still"][c] = index["still"][c]
    BY <1>3, <2>1 DEF Load, Shelves
  <2>3. \A c \in Cameras : index["still"][c].revision \in Nat
    BY DEF STypeOK, ImageTypeOK, Info, Shelves
  <2>4. index' = index /\ returned' = returned
    BY <1>3 DEF Load
  <2>5. QED BY <2>2, <2>3, <2>4 DEF RevisionInv, ReturnedRevisionsAreUnique
<1>4. ASSUME NEW s \in Shelves, NEW c \in Cameras, Repair(s, c) PROVE RevisionInv'
  <2>1. /\ records \in [Shelves -> [Cameras -> Info]]
        /\ index \in [Shelves -> [Cameras -> Info]]
        /\ records' = [records EXCEPT ![s][c].revision = @ + 1]
        /\ UNCHANGED <<index, phase, returned>> /\ phase # "down"
    BY <1>4 DEF Repair, STypeOK, ImageTypeOK
  <2>2. \A k \in Cameras :
          /\ records'["still"][k].image = records["still"][k].image
          /\ records'["still"][k].revision \in
               {records["still"][k].revision, records["still"][k].revision + 1}
          /\ records["still"][k].revision \in Nat /\ index["still"][k].revision \in Nat
    <3>1. \A k \in Cameras :
            /\ records'["still"][k].image = records["still"][k].image
            /\ records'["still"][k].revision =
                 IF s = "still" /\ k = c THEN records["still"][k].revision + 1
                 ELSE records["still"][k].revision
      BY <2>1, Revised DEF Shelves
    <3>2. QED BY <2>1, <3>1 DEF Info, Shelves
  <2>3. \A k \in Cameras :
          /\ index["still"][k].revision <= records["still"][k].revision
          /\ index["still"][k].revision = records["still"][k].revision
               => index["still"][k].image = records["still"][k].image
    BY <2>1 DEF RevisionInv
  <2>4. \A k \in Cameras :
          /\ index["still"][k].revision <= records'["still"][k].revision
          /\ index["still"][k].revision = records'["still"][k].revision
               => index["still"][k].image = records'["still"][k].image
    BY <2>2, <2>3
  <2>5. QED BY <2>1, <2>4 DEF RevisionInv, ReturnedRevisionsAreUnique
<1>5. ASSUME NEW s \in Shelves, Repaired(s) PROVE RevisionInv'
  <2>1. /\ \A c \in Cameras : index'["still"][c] \in {index["still"][c], records["still"][c]}
        /\ UNCHANGED <<records, returned>> /\ phase # "down"
    BY <1>5 DEF Repaired, STypeOK, ImageTypeOK, Shelves
  <2>2. \A c \in Cameras :
          /\ index["still"][c].revision \in Nat /\ records["still"][c].revision \in Nat
          /\ index["still"][c].revision <= records["still"][c].revision
          /\ index["still"][c].revision = records["still"][c].revision
               => index["still"][c].image = records["still"][c].image
    BY <2>1 DEF STypeOK, ImageTypeOK, Info, Shelves, RevisionInv
  <2>3. \A a \in returned :
          /\ a.camera \in Cameras /\ a.revision \in Nat
          /\ a.revision <= index["still"][a.camera].revision
          /\ a.revision = index["still"][a.camera].revision
               => a.image = index["still"][a.camera].image
    BY DEF STypeOK, RevisionInv
  <2>4. \A a \in returned :
          /\ a.revision <= index'["still"][a.camera].revision
          /\ a.revision = index'["still"][a.camera].revision
               => a.image = index'["still"][a.camera].image
    BY <2>1, <2>2, <2>3
  <2>5. \A c \in Cameras :
          /\ index'["still"][c].revision <= records["still"][c].revision
          /\ index'["still"][c].revision = records["still"][c].revision
               => index'["still"][c].image = records["still"][c].image
    BY <2>1, <2>2
  <2>6. QED BY <2>1, <2>4, <2>5 DEF RevisionInv, ReturnedRevisionsAreUnique
<1>6. CASE (\E c \in Cameras : Migrate(c)) \/ Migrated
  <2>1. /\ index'["still"] = index["still"] /\ records'["still"] = records["still"]
        /\ returned' = returned /\ phase # "down"
    BY <1>6 DEF Migrate, Migrated, STypeOK, ImageTypeOK, Shelves
  <2>2. QED BY <2>1 DEF RevisionInv, ReturnedRevisionsAreUnique
<1>7. QED
  BY <1>1, <1>2, <1>3, <1>4, <1>5, <1>6, QueueRevisions DEF Next

\* A revision that a write has returned stands for its image for good (write).
THEOREM RevisionsCorrect == Spec => []ReturnedRevisionsAreUnique
<1>1. Init => OrderInv /\ RevisionInv
  BY BoundAssumption, InitOrder DEF Init, RevisionInv, ReturnedRevisionsAreUnique
<1>2. STypeOK /\ OrderInv /\ RevisionInv /\ [Next]_svars => OrderInv' /\ RevisionInv'
  BY BoundAssumption, StepOrder, StepRevisions
<1>3. RevisionInv => ReturnedRevisionsAreUnique
  BY DEF RevisionInv
<1>4. QED BY <1>1, <1>2, <1>3, SnapshotTypesCorrect, PTL DEF Spec

-----------------------------------------------------------------------------
(* Records and files agree unless a crash tears them *)

\* The index that survives a crash describes the images that survive it.
IndexCurrent ==
  \A s \in Shelves, c \in Cameras :
    index[s][c] # Absent => index[s][c].image = files[s][c]

\* The record describes the image, but for the instant between the rename of the
\* image and the next record.
Untorn(s, c) ==
  /\ phase = "down" /\ index[s][c] # Absent => index[s][c].image = files[s][c]
  /\ phase # "down" /\ records[s][c] # Absent =>
       records[s][c].image = files[s][c] \/ (stage = "record" /\ s = shelf /\ c = Cam)

UntornInv == \A s \in Shelves, c \in Cameras : Untorn(s, c)

\* Writes and readers, also those that fail.
LEMMA WorkUntorn ==
  ASSUME BoundAssumption, STypeOK, OrderInv, UntornInv,
         \/ \E c \in Cameras, kind \in {"live", "event"} : Write(c, kind)
         \/ Work \/ FailWrite
         \/ \E r \in Readers, s \in Shelves, c \in Cameras : Read(r, s, c)
  PROVE  UntornInv'
<1>1. phase = "ready" /\ phase' = phase /\ stage \in {"idle", "image", "record", "index"}
  BY DEF Write, Work, BeginWrite, RenameImage, SetRecord, RenameIndex, FailWrite,
    Running, Read, bootVars, STypeOK, QueueTypeOK
<1>2. ASSUME NEW c \in Cameras, NEW kind \in {"live", "event"}, Write(c, kind)
      PROVE UntornInv'
  <2>1. /\ UNCHANGED <<stage, shelf, files, records, done>>
        /\ \A i \in 1..Len(writes) : writes'[i] = writes[i]
    BY <1>2, Queued DEF STypeOK, Write
  <2>2. stage # "idle" => Cam' = Cam
    <3>1. stage # "idle" => done + 1 \in 1..Len(writes)
      BY DEF OrderInv, STypeOK, QueueTypeOK
    <3>2. QED BY <2>1, <3>1 DEF Cam
  <2>3. QED BY <1>1, <2>1, <2>2 DEF UntornInv, Untorn
<1>3. CASE BeginWrite
  BY <1>1, <1>3 DEF BeginWrite, UntornInv, Untorn, Cam
<1>4. CASE RenameImage
  <2>1. \A s \in Shelves, c \in Cameras :
          ~(s = shelf /\ c = Cam) => files'[s][c] = files[s][c]
    BY <1>4 DEF RenameImage, STypeOK, ImageTypeOK
  <2>2. stage' = "record" /\ UNCHANGED <<writes, done, shelf, records>> /\ stage = "image"
    BY <1>4 DEF RenameImage
  <2>3. Cam' = Cam
    BY <2>2 DEF Cam
  <2>4. QED BY <1>1, <2>1, <2>2, <2>3 DEF UntornInv, Untorn
<1>5. CASE SetRecord
  <2>1. /\ UNCHANGED <<files, shelf, done, writes>> /\ stage' = "index"
        /\ files[shelf][Cam] = done + 1
    BY <1>5 DEF SetRecord, OrderInv
  <2>2. \A s \in Shelves, c \in Cameras :
          \/ s = shelf /\ c = Cam /\ records'[s][c].image = done + 1
          \/ ~(s = shelf /\ c = Cam) /\ records'[s][c] = records[s][c]
    BY <1>5 DEF SetRecord, STypeOK, ImageTypeOK
  <2>3. QED BY <1>1, <2>1, <2>2 DEF UntornInv, Untorn
<1>6. CASE RenameIndex \/ FailWrite
  <2>1. UNCHANGED <<files, records>> /\ stage # "record"
    BY <1>6 DEF RenameIndex, FailWrite
  <2>2. QED BY <1>1, <2>1 DEF UntornInv, Untorn
<1>7. ASSUME NEW r \in Readers, NEW s \in Shelves, NEW c \in Cameras, Read(r, s, c)
      PROVE UntornInv'
  BY <1>1, <1>7 DEF Read, UntornInv, Untorn, Cam
<1>8. QED BY <1>2, <1>3, <1>4, <1>5, <1>6, <1>7 DEF Work

\* A crash that finds the index current, and the repairs of the next start.
LEMMA BootUntorn ==
  ASSUME STypeOK, OrderInv, UntornInv,
         \/ Crash /\ IndexCurrent
         \/ Load \/ (\E s \in Shelves, c \in Cameras : Repair(s, c))
         \/ (\E s \in Shelves : Repaired(s)) \/ (\E c \in Cameras : Migrate(c))
         \/ Migrated
  PROVE  UntornInv'
<1>1. CASE Crash /\ IndexCurrent
  BY <1>1 DEF Crash, IndexCurrent, UntornInv, Untorn
<1>2. CASE Load
  BY <1>2 DEF Load, UntornInv, Untorn
<1>3. ASSUME phase # "down", phase # "ready", phase' # "down",
             \A s \in Shelves, c \in Cameras :
               records'[s][c] # Absent => records'[s][c].image = files'[s][c]
      PROVE  UntornInv'
  BY <1>3 DEF UntornInv, Untorn
<1>4. phase # "ready" /\ phase # "down" =>
        \A s \in Shelves, c \in Cameras :
          records[s][c] # Absent => records[s][c].image = files[s][c]
  BY DEF OrderInv, UntornInv, Untorn
<1>5. ASSUME NEW s \in Shelves, NEW c \in Cameras, Repair(s, c) PROVE UntornInv'
  <2>1. phase \in {"repair", "repairEvents"} /\ UNCHANGED <<phase, files>>
    BY <1>5 DEF Repair
  <2>2. /\ \A t \in Shelves, k \in Cameras : records'[t][k].image = records[t][k].image
        /\ \A t \in Shelves, k \in Cameras :
             ~(t = s /\ k = c) => records'[t][k] = records[t][k]
    <3>1. records \in [Shelves -> [Cameras -> Info]]
          /\ records' = [records EXCEPT ![s][c].revision = @ + 1]
      BY <1>5 DEF Repair, STypeOK, ImageTypeOK
    <3>2. \A t \in Shelves, k \in Cameras : records'[t][k].image = records[t][k].image
      BY <3>1, Revised
    <3>3. \A t \in Shelves, k \in Cameras :
            ~(t = s /\ k = c) => records'[t][k] = records[t][k]
      BY <3>1
    <3>4. QED BY <3>2, <3>3
  <2>3. records[s][c] # Absent
    BY <1>5 DEF Repair, IsEvent
  <2>4. QED BY <1>3, <1>4, <2>1, <2>2, <2>3
<1>6. CASE (\E s \in Shelves : Repaired(s)) \/ Migrated
  BY <1>3, <1>4, <1>6 DEF Repaired, Migrated
<1>7. ASSUME NEW c \in Cameras, Migrate(c) PROVE UntornInv'
  <2>1. /\ phase = "migrate" /\ phase' = phase /\ records["still"][c] # Absent
        /\ files'["event"][c] = files["still"][c]
        /\ records'["event"][c] = records["still"][c]
        /\ \A s \in Shelves, k \in Cameras : ~(s = "event" /\ k = c) =>
             files'[s][k] = files[s][k] /\ records'[s][k] = records[s][k]
    BY <1>7 DEF Migrate, ToMigrate, IsEvent, STypeOK, ImageTypeOK, Shelves
  <2>2. QED BY <1>3, <1>4, <2>1 DEF Shelves
<1>8. QED BY <1>1, <1>2, <1>5, <1>6, <1>7

\* Only a crash tears image and record apart, and only one that comes while the
\* index on disk is behind its images: failed writes, repairs and every other crash
\* leave a record that describes the image (write, writeEvent, #writeIndex).
THEOREM TornOnlyByCrash ==
  Spec /\ [][Crash => IndexCurrent]_svars => []ReplacementIsAtomic
<1>1. Init => UntornInv
  <2> SUFFICES ASSUME Init, NEW s \in Shelves, NEW c \in Cameras PROVE Untorn(s, c)
    BY DEF UntornInv
  <2>1. index[s][c] # Absent => index[s][c].image = files[s][c]
    BY DEF Init, Absent
  <2>2. QED BY <2>1 DEF Init, Untorn
<1>2. STypeOK /\ OrderInv /\ UntornInv /\ [Next]_svars /\ [Crash => IndexCurrent]_svars
        => UntornInv'
  <2> SUFFICES ASSUME STypeOK, OrderInv, UntornInv, [Next]_svars,
                      [Crash => IndexCurrent]_svars
               PROVE  UntornInv'
    OBVIOUS
  <2>1. CASE UNCHANGED svars
    BY <2>1 DEF svars, UntornInv, Untorn, Cam
  <2>2. CASE Next /\ (Crash => IndexCurrent)
    BY <2>2, BoundAssumption, WorkUntorn, BootUntorn DEF Next
  <2>3. QED BY <2>1, <2>2
<1>3. UntornInv => ReplacementIsAtomic
  BY DEF UntornInv, Untorn, ReplacementIsAtomic
<1>4. Init => OrderInv
  BY BoundAssumption, InitOrder
<1>5. STypeOK /\ OrderInv /\ [Next]_svars => OrderInv'
  BY BoundAssumption, StepOrder
<1>6. QED BY <1>1, <1>2, <1>3, <1>4, <1>5, SnapshotTypesCorrect, PTL DEF Spec
=============================================================================

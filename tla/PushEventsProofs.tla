--------------------------- MODULE PushEventsProofs ---------------------------
(***************************************************************************)
(* Proofs about PushEvents: its type invariant, that a name belongs to the *)
(* event it is shown with, the aggregate motion flag, what a repeated      *)
(* delivery may change, and the refinement of EventFeed.                   *)
(***************************************************************************)
EXTENDS PushEvents, SequenceTheorems, TLAPS

--------------------------------------------------------------------------------
(* What the helpers return.                                                *)

\* Retiring the jobs of a former owner keeps the queue and its events.
LEMMA RetiredJobs ==
    ASSUME NEW js \in Seq(Jobs)
    PROVE  /\ Retired(js) \in Seq(Jobs)
           /\ DOMAIN Retired(js) = DOMAIN js
           /\ Retired(js) = <<>> => js = <<>>
           /\ \A i \in DOMAIN js :
                  /\ Retired(js)[i].event = js[i].event
                  /\ Retired(js)[i].owned # "current"
                  /\ Retired(js)[i].owned = "none" <=> js[i].owned = "none"
<1>1. \A i \in DOMAIN js : js[i] \in Jobs
  OBVIOUS
<1>2. \A i \in DOMAIN js : Retired(js)[i] \in Jobs
  BY <1>1 DEF Retired, Jobs
<1>3. DOMAIN Retired(js) = 1..Len(js)
  BY DEF Retired
<1>4. Retired(js) = [i \in 1..Len(js) |-> Retired(js)[i]]
  BY <1>3 DEF Retired
<1>5. Retired(js) \in Seq(Jobs)
  <2>1. Len(js) \in Nat
    OBVIOUS
  <2>2. \A i \in 1..Len(js) : Retired(js)[i] \in Jobs
    BY <1>2
  <2>3. [i \in 1..Len(js) |-> Retired(js)[i]] \in [1..Len(js) -> Jobs]
    BY <2>2
  <2>4. Retired(js) \in [1..Len(js) -> Jobs]
    BY <1>4, <2>3, Zenon
  <2> QED
    BY <2>1, <2>4, SeqDef
<1>6. \A i \in DOMAIN js :
          /\ Retired(js)[i].event = js[i].event
          /\ Retired(js)[i].owned # "current"
          /\ Retired(js)[i].owned = "none" <=> js[i].owned = "none"
  BY <1>1 DEF Retired, Jobs
<1>7. Retired(js) = <<>> => js = <<>>
  <2> SUFFICES ASSUME Retired(js) = <<>>, js # <<>> PROVE FALSE
    OBVIOUS
  <2>1. 1 \in 1..Len(js)
    OBVIOUS
  <2>2. DOMAIN Retired(js) = {}
    OBVIOUS
  <2> QED
    BY <1>3, <2>1, <2>2
<1> QED
  BY <1>3, <1>5, <1>6, <1>7

\* Pulses are detection kinds; a doorbell pulse is a press, and a press
\* pulses nothing else.
LEMMA PulseKinds ==
    ASSUME NEW e \in Events, NEW label \in Labels
    PROVE  /\ Pulses(e, label) \subseteq Kinds
           /\ "doorbell" \in Pulses(e, label) => Press(e, label)
           /\ Press(e, label) => Pulses(e, label) = {"doorbell"}
<1>1. Evidence[e] \subseteq Kinds \ {"doorbell"}
  BY EventAssumption
<1>2. CASE Press(e, label)
  BY <1>2 DEF Pulses, Kinds
<1>3. CASE ~Press(e, label)
  BY <1>1, <1>3 DEF Pulses, Kinds
<1> QED
  BY <1>2, <1>3

\* The last detection after a first delivery is the one before it or one of
\* the event; a person pulse and an identified press always replace it.
LEMMA HeadlineForms ==
    ASSUME NEW e \in Events, NEW label \in Labels,
           NEW h \in Headlines(e, label)
    PROVE  /\ h = last \/ \E k \in Pulses(e, label) : h = Detection(e, k, label)
           /\ "person" \in Pulses(e, label)
                => \E k \in Pulses(e, label) : h = Detection(e, k, label)
           /\ "doorbell" \in Pulses(e, label) /\ e \in Identified
                => \E k \in Pulses(e, label) : h = Detection(e, k, label)
<1> DEFINE kinds == Pulses(e, label) \ {"motion"}
           other == IF e \in Buttons THEN kinds \ {"person"} ELSE kinds
<1>1. other \subseteq Pulses(e, label)
  OBVIOUS
<1>2. CASE Press(e, label)
  <2>1. Pulses(e, label) = {"doorbell"}
    BY <1>2, PulseKinds
  <2>2. h = last \/ h = Detection(e, "doorbell", label)
    BY <1>2 DEF Headlines
  <2>3. e \in Identified => h = Detection(e, "doorbell", label)
    BY <1>2 DEF Headlines
  <2> QED
    BY <2>1, <2>2, <2>3
<1>3. CASE ~Press(e, label) /\ other # {}
  <2>1. h \in {Detection(e, k, label) : k \in other}
    BY <1>3 DEF Headlines
  <2> QED
    BY <2>1, <1>1
<1>4. CASE ~Press(e, label) /\ other = {} /\ "person" \in kinds
  <2>1. h = Detection(e, "person", label)
    BY <1>4 DEF Headlines
  <2> QED
    BY <1>4, <2>1
<1>5. CASE ~Press(e, label) /\ other = {} /\ "person" \notin kinds
  <2>1. kinds = {}
    BY <1>5
  <2>2. \/ h = last
        \/ h = Detection(e, "motion", label) /\ "motion" \in Pulses(e, label)
    BY <1>5, <2>1 DEF Headlines
  <2>3. "person" \notin Pulses(e, label)
    BY <1>5
  <2>4. "doorbell" \notin Pulses(e, label)
    BY <1>5, PulseKinds
  <2> QED
    BY <2>2, <2>3, <2>4
<1> QED
  BY <1>2, <1>3, <1>4, <1>5

--------------------------------------------------------------------------------
(* Type correctness, by group of variables.                                *)

DedupTypes == recent \subseteq Identified /\ pictureSeen \subseteq recent
PictureTypes ==
    /\ owner \in Owners \cup {None} /\ jobs \in Seq(Jobs)
    /\ stage \in {"queued", "download", "recovery"}
    /\ jobs = <<>> => stage = "queued"
    /\ late \subseteq Events /\ shown \in Events \cup {None}
StateTypes ==
    /\ raised \subseteq Kinds /\ motion \in BOOLEAN
    /\ last \in Detections \cup {None}
    /\ personOwner \in Identities \cup {None}
    /\ doorbellOwner \in Identities \cup {None}
DeviceTypes ==
    /\ life \in 1..MaxLives /\ loading \in BOOLEAN
    /\ binding \in Bindings \cup {None} /\ registered \in Bindings \cup {None}
    /\ pushes \in 0..MaxPushes /\ moves \in 0..MaxMoves

LEMMA TypeGroups ==
    TypeOK <=> DedupTypes /\ PictureTypes /\ StateTypes /\ DeviceTypes
  BY DEF TypeOK, DedupTypes, PictureTypes, StateTypes, DeviceTypes

LEMMA DetectionType ==
    ASSUME NEW e \in Events, NEW k \in Kinds, NEW label \in Labels,
           registered \in Bindings
    PROVE  /\ Detection(e, k, label) \in Detections
           /\ Detection(e, k, label) # None
           /\ Detection(e, k, label).event = e
           /\ Detection(e, k, label).kind = k
           /\ Detection(e, k, label).name \in {None, e}
           /\ Detection(e, k, label).camera = registered
<1>1. (IF label = "name" /\ k \in {"person", "doorbell"} THEN e ELSE None) \in {None, e}
  OBVIOUS
<1>2. Detection(e, k, label) \in Detections
  BY <1>1 DEF Detection, Detections
<1>3. None \notin Detections
  BY EventAssumption DEF Detections
<1> QED
  BY <1>1, <1>2, <1>3 DEF Detection

LEMMA IdentityType ==
    ASSUME NEW e \in Events, life \in 1..MaxLives
    PROVE  Identity(e) \in Identities \cup {None}
  BY DEF Identity, Identities

LEMMA RecordTypes ==
    ASSUME StateTypes, DeviceTypes, registered # None,
           NEW e \in Events, NEW label \in Labels, Record(e, label)
    PROVE  StateTypes'
<1>1. registered \in Bindings /\ life \in 1..MaxLives
  BY DEF DeviceTypes
<1>2. raised' \subseteq Kinds
  BY PulseKinds DEF Record, StateTypes
<1>3. motion' \in BOOLEAN
  BY DEF Record
<1>4. last' \in Headlines(e, label)
  BY DEF Record
<1>5. last' = last \/ \E k \in Kinds : last' = Detection(e, k, label)
  BY <1>4, HeadlineForms, PulseKinds
<1>6. last' \in Detections \cup {None}
  BY <1>1, <1>5, DetectionType DEF StateTypes
<1>7. personOwner' \in Identities \cup {None}
  BY <1>1, IdentityType DEF Record, StateTypes
<1>8. doorbellOwner' \in Identities \cup {None}
  BY <1>1, IdentityType DEF Record, StateTypes
<1> QED
  BY <1>2, <1>3, <1>6, <1>7, <1>8 DEF StateTypes

\* What a repeated delivery with a name does to the last detection.
LEMMA EnrichForms ==
    ASSUME NEW e \in Events, EnrichName(e)
    PROVE  \/ last' = last
           \/ \E k \in {"person", "doorbell"} :
                 /\ last # None /\ last.kind = k /\ last.name = None
                 /\ Identity(e) # None
                 /\ Identity(e) = IF k = "person" THEN personOwner
                                  ELSE doorbellOwner
                 /\ last' = [last EXCEPT !.name = e]
<1>1. CASE Press(e, TRUE)
  BY <1>1 DEF EnrichName
<1>2. CASE ~Press(e, TRUE)
  BY <1>2 DEF EnrichName
<1> QED
  BY <1>1, <1>2

LEMMA NamedType ==
    ASSUME NEW e \in Events, NEW d \in Detections
    PROVE  /\ [d EXCEPT !.name = e] \in Detections
           /\ [d EXCEPT !.name = e] # None
           /\ [d EXCEPT !.name = e].event = d.event
           /\ [d EXCEPT !.name = e].kind = d.kind
           /\ [d EXCEPT !.name = e].name = e
           /\ [d EXCEPT !.name = e].camera = d.camera
<1>1. None \notin Detections
  BY EventAssumption DEF Detections
<1> QED
  BY <1>1 DEF Detections

LEMMA EnrichTypes ==
    ASSUME StateTypes, NEW e \in Events, EnrichName(e)
    PROVE  StateTypes'
<1>1. UNCHANGED <<raised, motion, personOwner, doorbellOwner>>
  BY DEF EnrichName
<1>2. last' \in Detections \cup {None}
  BY EnrichForms, NamedType DEF StateTypes
<1> QED
  BY <1>1, <1>2 DEF StateTypes

LEMMA JobTypes ==
    ASSUME NEW js \in Seq(Jobs), NEW o \in {"none", "current", "retired"},
           NEW e \in Events
    PROVE  /\ Append(js, [event |-> e, owned |-> o]) \in Seq(Jobs)
           /\ Append(js, [event |-> e, owned |-> o]) # <<>>
<1>1. [event |-> e, owned |-> o] \in Jobs
  BY DEF Jobs
<1> QED
  BY <1>1

LEMMA TailType ==
    ASSUME NEW js \in Seq(Jobs), js # <<>>
    PROVE  Tail(js) \in Seq(Jobs) /\ Head(js) \in Jobs /\ Head(js).event \in Events
<1>1. Tail(js) \in Seq(Jobs) /\ Head(js) \in Jobs
  OBVIOUS
<1> QED
  BY <1>1 DEF Jobs

LEMMA QueuedType ==
    ASSUME NEW js \in Seq(Jobs), NEW e \in Events, NEW visit \in Owners \cup {None}
    PROVE  /\ Queued(js, visit, e) \in Seq(Jobs)
           /\ Queued(js, visit, e) = <<>> => js = <<>>
<1>1. CASE visit = None
  BY <1>1, JobTypes DEF Queued
<1>2. CASE visit # None /\ visit.event = e
  BY <1>2, JobTypes DEF Queued
<1>3. CASE visit # None /\ visit.event # e
  BY <1>3 DEF Queued
<1> QED
  BY <1>1, <1>2, <1>3

\* The forms a claim takes: whether the event becomes the visit, and what is
\* appended to the queue that is left.
LEMMA ClaimForms ==
    ASSUME NEW e \in Events, NEW picture \in BOOLEAN, ClaimPicture(e, picture)
    PROVE  /\ UNCHANGED <<stage, late, shown>>
           /\ \/ /\ TakesOwnership(e, picture)
                 /\ owner' = [event |-> e, binding |-> binding]
                 /\ \/ jobs' = Retired(jobs)
                    \/ jobs' = Queued(Retired(jobs), owner', e)
              \/ /\ ~TakesOwnership(e, picture)
                 /\ owner' = owner
                 /\ \/ jobs' = jobs
                    \/ jobs' = Queued(jobs, owner, e) /\ RetainPicture(e, picture)
<1>1. UNCHANGED <<stage, late, shown>>
  BY DEF ClaimPicture
<1>2. CASE TakesOwnership(e, picture)
  BY <1>1, <1>2 DEF ClaimPicture
<1>3. CASE ~TakesOwnership(e, picture)
  BY <1>1, <1>3 DEF ClaimPicture
<1> QED
  BY <1>2, <1>3

LEMMA ClaimTypes ==
    ASSUME PictureTypes, DeviceTypes, binding # None,
           NEW e \in Events, NEW picture \in BOOLEAN, ClaimPicture(e, picture)
    PROVE  PictureTypes'
<1>1. UNCHANGED <<stage, late, shown>>
  BY ClaimForms
<1>2. jobs \in Seq(Jobs) /\ owner \in Owners \cup {None}
  BY DEF PictureTypes
<1>3. Retired(jobs) \in Seq(Jobs)
  BY <1>2, RetiredJobs
<1>4. owner' \in Owners \cup {None}
  <2>1. [event |-> e, binding |-> binding] \in Owners
    BY DEF DeviceTypes, Owners
  <2> QED
    BY <1>2, <2>1, ClaimForms
<1>5. jobs' \in Seq(Jobs)
  <2>1. Queued(Retired(jobs), owner', e) \in Seq(Jobs)
    BY <1>3, <1>4, QueuedType
  <2>2. Queued(jobs, owner, e) \in Seq(Jobs)
    BY <1>2, QueuedType
  <2> QED
    BY <1>2, <1>3, <2>1, <2>2, ClaimForms
<1>6. jobs' = <<>> => jobs = <<>>
  <2>1. Queued(Retired(jobs), owner', e) = <<>> => Retired(jobs) = <<>>
    BY <1>3, <1>4, QueuedType
  <2>2. Queued(jobs, owner, e) = <<>> => jobs = <<>>
    BY <1>2, QueuedType
  <2>3. Retired(jobs) = <<>> => jobs = <<>>
    BY <1>2, RetiredJobs
  <2> QED
    BY <2>1, <2>2, <2>3, ClaimForms
<1> QED
  BY <1>1, <1>4, <1>5, <1>6 DEF PictureTypes

LEMMA DeliverTypes ==
    ASSUME TypeOK, NEW e \in Events, NEW picture \in BOOLEAN,
           NEW label \in Labels, Deliver(e, picture, label)
    PROVE  TypeOK'
<1>1. DedupTypes /\ PictureTypes /\ StateTypes /\ DeviceTypes
  BY TypeGroups
<1>2. binding # None /\ pushes < MaxPushes /\ pushes' = pushes + 1
      /\ UNCHANGED deviceVars /\ Observe(e, picture) /\ ClaimPicture(e, picture)
  BY DEF Deliver
<1>3. DedupTypes'
  BY <1>1, <1>2 DEF DedupTypes, Observe, dedupVars
<1>4. PictureTypes'
  BY <1>1, <1>2, ClaimTypes
<1>5. StateTypes'
  <2>1. CASE UNCHANGED stateVars
    BY <1>1, <2>1 DEF StateTypes, stateVars
  <2>2. CASE registered # None /\ Record(e, label)
    BY <1>1, <2>2, RecordTypes
  <2>3. CASE EnrichName(e)
    BY <1>1, <2>3, EnrichTypes
  <2> QED
    BY <2>1, <2>2, <2>3 DEF Deliver
<1>6. DeviceTypes'
  <2>1. pushes' \in 0..MaxPushes
    BY <1>1, <1>2, EventAssumption DEF DeviceTypes
  <2> QED
    BY <1>1, <1>2, <2>1 DEF DeviceTypes, deviceVars
<1> HIDE DEF DedupTypes, PictureTypes, StateTypes, DeviceTypes
<1>7. TypeOK' <=> DedupTypes' /\ PictureTypes' /\ StateTypes' /\ DeviceTypes'
  BY DEF TypeOK, DedupTypes, PictureTypes, StateTypes, DeviceTypes
<1> QED
  BY <1>3, <1>4, <1>5, <1>6, <1>7

LEMMA JobStepTypes ==
    ASSUME TypeOK, JobStep
    PROVE  TypeOK'
<1>1. jobs \in Seq(Jobs) /\ jobs # <<>>
  BY DEF TypeOK, JobStep, BeginJob, PictureArrives, PictureMissing,
         PictureRecovered, PictureFails
<1>2. UNCHANGED jobVars
  BY DEF JobStep, BeginJob, PictureArrives, PictureMissing, PictureRecovered,
         PictureFails, Publish
<1>3. jobs' \in {jobs, Tail(jobs)}
  BY DEF JobStep, BeginJob, PictureArrives, PictureMissing, PictureRecovered,
         PictureFails, Publish, JobDone
<1>4. stage' \in {"queued", "download", "recovery"}
  BY DEF JobStep, BeginJob, PictureArrives, PictureMissing, PictureRecovered,
         PictureFails, Publish, JobDone
<1>5. shown' \in {shown, Head(jobs).event}
  BY DEF JobStep, BeginJob, PictureArrives, PictureMissing, PictureRecovered,
         PictureFails, Publish
<1>6. jobs' \in Seq(Jobs) /\ Head(jobs).event \in Events
  BY <1>1, <1>3, TailType
<1>7. UNCHANGED <<owner, late>> /\ UNCHANGED dedupVars /\ UNCHANGED stateVars
      /\ UNCHANGED deviceVars /\ pushes' = pushes
  BY <1>2 DEF jobVars
<1>8. DedupTypes' /\ StateTypes' /\ DeviceTypes'
  BY <1>7, TypeGroups DEF DedupTypes, StateTypes, DeviceTypes, dedupVars,
         stateVars, deviceVars
<1>9. jobs' = jobs \/ stage' = "queued"
  BY DEF JobStep, BeginJob, PictureArrives, PictureMissing, PictureRecovered,
         PictureFails, Publish, JobDone
<1>10. PictureTypes'
  BY <1>1, <1>4, <1>5, <1>6, <1>7, <1>9, TypeGroups DEF PictureTypes
<1>11. TypeOK' <=> DedupTypes' /\ PictureTypes' /\ StateTypes' /\ DeviceTypes'
  BY DEF TypeOK, DedupTypes, PictureTypes, StateTypes, DeviceTypes
<1> QED
  BY <1>8, <1>10, <1>11

LEMMA OtherTypes ==
    ASSUME TypeOK,
           \/ \E e \in Events : Expire(e) \/ LateReturns(e)
           \/ \E k \in Kinds : PulseEnds(k)
    PROVE  TypeOK'
<1>1. ASSUME NEW e \in Events, Expire(e) PROVE TypeOK'
  <2>1. recent' \subseteq Identified /\ pictureSeen' \subseteq recent'
    BY <1>1 DEF TypeOK, Expire
  <2> QED
    BY <1>1, <2>1 DEF TypeOK, Expire, pictureVars, stateVars, deviceVars
<1>2. ASSUME NEW e \in Events, LateReturns(e) PROVE TypeOK'
  <2>1. late' \subseteq Events
    BY <1>2 DEF TypeOK, LateReturns
  <2> QED
    BY <1>2, <2>1 DEF TypeOK, LateReturns, dedupVars, stateVars, deviceVars
<1>3. ASSUME NEW k \in Kinds, PulseEnds(k) PROVE TypeOK'
  <2>1. raised' \subseteq Kinds
    BY <1>3 DEF TypeOK, PulseEnds
  <2>2. motion' \in BOOLEAN
    BY <1>3 DEF TypeOK, PulseEnds
  <2>3. UNCHANGED <<last, personOwner, doorbellOwner, recent, pictureSeen,
                    owner, jobs, stage, late, shown, life, loading, binding,
                    registered, moves, pushes>>
    BY <1>3 DEF PulseEnds, dedupVars, pictureVars, deviceVars
  <2> QED
    BY <2>1, <2>2, <2>3 DEF TypeOK
<1> QED
  BY <1>1, <1>2, <1>3

LEMMA RestartTypes ==
    ASSUME TypeOK, Restart
    PROVE  TypeOK'
<1>1. jobs' \in Seq(Jobs) /\ owner' \in Owners \cup {None} /\ stage' = "queued"
  BY DEF Restart
<1>2. late' \subseteq Events
  <2>1. CASE stage = "queued"
    BY <2>1 DEF TypeOK, Restart
  <2>2. CASE stage # "queued"
    <3>1. jobs \in Seq(Jobs) /\ jobs # <<>>
      BY <2>2 DEF TypeOK
    <3>2. Head(jobs).event \in Events
      BY <3>1, TailType
    <3> QED
      BY <2>2, <3>2 DEF TypeOK, Restart
  <2> QED
    BY <2>1, <2>2
<1>3. life' \in 1..MaxLives /\ loading' \in BOOLEAN
  BY EventAssumption DEF TypeOK, Restart
<1>4. UNCHANGED <<shown, binding, registered, moves, recent, pictureSeen,
                  raised, motion, last, personOwner, doorbellOwner, pushes>>
  BY DEF Restart, dedupVars, stateVars
<1> QED
  BY <1>1, <1>2, <1>3, <1>4 DEF TypeOK

LEMMA InventoryTypes ==
    ASSUME TypeOK,
           \/ \E b \in Bindings \cup {None} : LoadInventory(b)
           \/ \E b \in Bindings : RefreshInventory(b)
    PROVE  TypeOK'
<1>1. PICK b \in Bindings \cup {None} : LoadInventory(b) \/ RefreshInventory(b)
  OBVIOUS
<1>2. binding' \in Bindings \cup {None}
  BY <1>1 DEF LoadInventory, RefreshInventory, Bind
<1>3. moves' \in 0..MaxMoves
  BY <1>1, EventAssumption DEF TypeOK, LoadInventory, RefreshInventory, Bind
<1>4. loading' \in BOOLEAN
  BY <1>1 DEF TypeOK, LoadInventory, RefreshInventory
<1>5. UNCHANGED <<life, registered, recent, pictureSeen, owner, jobs, stage,
                  late, shown, raised, motion, last, personOwner,
                  doorbellOwner, pushes>>
  BY <1>1 DEF LoadInventory, RefreshInventory, dedupVars, pictureVars, stateVars
<1> QED
  BY <1>2, <1>3, <1>4, <1>5 DEF TypeOK

LEMMA RegisterTypes ==
    ASSUME TypeOK, Register
    PROVE  TypeOK'
<1>1. registered' \in Bindings \cup {None}
  BY DEF TypeOK, Register
<1>2. personOwner' \in {personOwner, None} /\ doorbellOwner' \in {doorbellOwner, None}
  BY DEF Register
<1>3. UNCHANGED <<life, loading, binding, moves, raised, motion, last, recent,
                  pictureSeen, owner, jobs, stage, late, shown, pushes>>
  BY DEF Register, dedupVars, pictureVars
<1> QED
  BY <1>1, <1>2, <1>3 DEF TypeOK

LEMMA InitTypes == Init => TypeOK
<1> SUFFICES ASSUME Init PROVE TypeOK
  OBVIOUS
<1>1. jobs \in Seq(Jobs) /\ stage = "queued" /\ owner = None /\ late = {}
      /\ shown = None
  BY DEF Init
<1>2. life \in 1..MaxLives /\ pushes \in 0..MaxPushes /\ moves \in 0..MaxMoves
  BY EventAssumption DEF Init
<1>3. raised = {} /\ motion = FALSE /\ last = None /\ personOwner = None
      /\ doorbellOwner = None /\ loading = FALSE /\ recent = {} /\ pictureSeen = {}
      /\ binding \in Bindings \cup {None} /\ registered \in Bindings \cup {None}
  BY DEF Init
<1> QED
  BY <1>1, <1>2, <1>3 DEF TypeOK

LEMMA NextTypes == TypeOK /\ [Next]_vars => TypeOK'
<1> SUFFICES ASSUME TypeOK, [Next]_vars PROVE TypeOK'
  OBVIOUS
<1>1. ASSUME NEW e \in Events, NEW picture \in BOOLEAN, NEW label \in Labels,
             Deliver(e, picture, label)
      PROVE  TypeOK'
  BY <1>1, DeliverTypes
<1>2. CASE UNCHANGED vars
  BY <1>2 DEF TypeOK, vars, dedupVars, pictureVars, stateVars, deviceVars
<1>3. CASE \/ \E e \in Events : Expire(e) \/ LateReturns(e)
           \/ \E k \in Kinds : PulseEnds(k)
  BY <1>3, OtherTypes
<1>4. CASE \/ \E b \in Bindings \cup {None} : LoadInventory(b)
           \/ \E b \in Bindings : RefreshInventory(b)
  BY <1>4, InventoryTypes
<1>5. CASE JobStep \/ Restart \/ Register
  BY <1>5, JobStepTypes, RestartTypes, RegisterTypes
<1> QED
  BY <1>1, <1>2, <1>3, <1>4, <1>5, Zenon DEF Next

\* Every reachable state of the event path is well typed.
THEOREM TypeCorrect == Spec => []TypeOK
  BY InitTypes, NextTypes, PTL DEF Spec

--------------------------------------------------------------------------------
(* Names, their owners, and the aggregate flag.                            *)

\* The identity that may still name the last detection is that of the event
\* it shows, and the registered camera is the one it was recorded for.
Owns(kind, source) ==
    (last # None /\ last.kind = kind /\ source # None)
        => /\ source.event = last.event
           /\ registered # None /\ Camera[registered] = Camera[last.camera]

SourceInv ==
    /\ NameBelongsToEvent
    /\ Owns("person", personOwner)
    /\ Owns("doorbell", doorbellOwner)

LEMMA IdentityEvent ==
    ASSUME NEW e \in Events, life \in 1..MaxLives, Identity(e) # None
    PROVE  e \in Identified /\ Identity(e).event = e
  BY DEF Identity

LEMMA RecordSources ==
    ASSUME TypeOK, SourceInv, registered # None, registered' = registered,
           NEW e \in Events, NEW label \in Labels, Record(e, label)
    PROVE  SourceInv'
<1> DEFINE kinds == Pulses(e, label)
<1>1. registered \in Bindings /\ life \in 1..MaxLives
  BY DEF TypeOK
<1>2. last' \in Headlines(e, label)
  BY DEF Record
<1>3. \A k \in kinds : LET d == Detection(e, k, label) IN
          d # None /\ d.event = e /\ d.kind = k /\ d.name \in {None, e}
          /\ d.camera = registered
  BY <1>1, DetectionType, PulseKinds
<1>4. last' = last \/ \E k \in kinds : last' = Detection(e, k, label)
  BY <1>2, HeadlineForms
<1>5. NameBelongsToEvent'
  BY <1>3, <1>4 DEF SourceInv, NameBelongsToEvent
<1>6. Owns("person", personOwner)'
  <2>1. CASE "person" \in kinds
    <3>1. personOwner' = Identity(e)
      BY <2>1 DEF Record
    <3>2. \E k \in kinds : last' = Detection(e, k, label)
      BY <1>2, <2>1, HeadlineForms
    <3>3. last'.event = e /\ last'.camera = registered
      BY <1>3, <3>2
    <3> QED
      BY <1>1, <3>1, <3>3, IdentityEvent DEF Owns
  <2>2. CASE "person" \notin kinds
    <3>1. personOwner' = personOwner
      BY <2>2 DEF Record
    <3>2. last' = last \/ last'.kind # "person"
      BY <1>3, <1>4, <2>2
    <3> QED
      BY <3>1, <3>2 DEF Owns, SourceInv
  <2> QED
    BY <2>1, <2>2
<1>7. Owns("doorbell", doorbellOwner)'
  <2>1. CASE "doorbell" \in kinds /\ e \in Identified
    <3>1. doorbellOwner' = Identity(e)
      BY <2>1 DEF Record
    <3>2. \E k \in kinds : last' = Detection(e, k, label)
      BY <1>2, <2>1, HeadlineForms
    <3>3. last'.event = e /\ last'.camera = registered
      BY <1>3, <3>2
    <3> QED
      BY <1>1, <3>1, <3>3, IdentityEvent DEF Owns
  <2>2. CASE "doorbell" \in kinds /\ e \notin Identified
    <3>1. doorbellOwner' = None
      BY <2>2 DEF Record, Identity
    <3> QED
      BY <3>1 DEF Owns
  <2>3. CASE "doorbell" \notin kinds
    <3>1. doorbellOwner' = doorbellOwner
      BY <2>3 DEF Record
    <3>2. last' = last \/ last'.kind # "doorbell"
      BY <1>3, <1>4, <2>3
    <3> QED
      BY <3>1, <3>2 DEF Owns, SourceInv
  <2> QED
    BY <2>1, <2>2, <2>3
<1> QED
  BY <1>5, <1>6, <1>7 DEF SourceInv

\* The name of a repetition goes to its own event's detection.
LEMMA EnrichOwn ==
    ASSUME TypeOK, SourceInv, NEW e \in Events, EnrichName(e), last' # last
    PROVE  /\ last # None /\ last.name = None /\ last.event = e
           /\ last' = [last EXCEPT !.name = e]
           /\ registered # None /\ Camera[registered] = Camera[last.camera]
<1>1. PICK k \in {"person", "doorbell"} :
          /\ last # None /\ last.kind = k /\ last.name = None
          /\ Identity(e) # None
          /\ Identity(e) = IF k = "person" THEN personOwner ELSE doorbellOwner
          /\ last' = [last EXCEPT !.name = e]
  BY EnrichForms
<1>2. Identity(e).event = e
  BY <1>1, IdentityEvent DEF TypeOK
<1>3. CASE k = "person"
  BY <1>1, <1>2, <1>3 DEF SourceInv, Owns
<1>4. CASE k = "doorbell"
  BY <1>1, <1>2, <1>4 DEF SourceInv, Owns
<1> QED
  BY <1>3, <1>4

LEMMA EnrichSources ==
    ASSUME TypeOK, SourceInv, registered' = registered,
           NEW e \in Events, EnrichName(e)
    PROVE  SourceInv'
<1>1. UNCHANGED <<personOwner, doorbellOwner>>
  BY DEF EnrichName
<1>2. CASE last' = last
  BY <1>1, <1>2 DEF SourceInv, NameBelongsToEvent, Owns
<1>3. CASE last' # last
  <2>1. last # None /\ last.event = e /\ last' = [last EXCEPT !.name = e]
    BY <1>3, EnrichOwn
  <2>2. last \in Detections
    BY <2>1 DEF TypeOK
  <2>3. last'.event = last.event /\ last'.kind = last.kind /\ last'.name = e
        /\ last'.camera = last.camera
    BY <2>1, <2>2, NamedType
  <2> QED
    BY <1>1, <2>1, <2>3 DEF SourceInv, NameBelongsToEvent, Owns
<1> QED
  BY <1>2, <1>3

LEMMA RegisterSources ==
    ASSUME SourceInv, Register
    PROVE  SourceInv'
<1>1. last' = last /\ registered' = binding /\ binding # None
  BY DEF Register
<1>2. CASE registered # None /\ Camera[registered] # Camera[binding]
  <2>1. personOwner' = None /\ doorbellOwner' = None
    BY <1>2 DEF Register
  <2> QED
    BY <1>1, <2>1 DEF SourceInv, NameBelongsToEvent, Owns
<1>3. CASE registered = None \/ Camera[registered] = Camera[binding]
  <2>1. UNCHANGED <<personOwner, doorbellOwner>>
    BY <1>3 DEF Register
  <2> QED
    BY <1>1, <1>3, <2>1 DEF SourceInv, NameBelongsToEvent, Owns
<1> QED
  BY <1>2, <1>3

\* What every other step leaves alone.
SourceVars == <<last, personOwner, doorbellOwner, registered>>

LEMMA OtherSources ==
    ASSUME SourceInv, UNCHANGED SourceVars
    PROVE  SourceInv'
  BY DEF SourceInv, SourceVars, NameBelongsToEvent, Owns

\* A step is a delivery, a registration, or leaves the detections' sources.
LEMMA StepKinds ==
    ASSUME [Next]_vars
    PROVE  \/ \E e \in Events, picture \in BOOLEAN, label \in Labels : Deliver(e, picture, label)
           \/ Register
           \/ UNCHANGED SourceVars
<1>1. ASSUME NEW e \in Events, Expire(e) \/ LateReturns(e)
      PROVE  UNCHANGED SourceVars
  BY <1>1 DEF Expire, LateReturns, SourceVars, stateVars, deviceVars
<1>2. ASSUME NEW k \in Kinds, PulseEnds(k) PROVE UNCHANGED SourceVars
  BY <1>2 DEF PulseEnds, SourceVars, deviceVars
<1>3. CASE JobStep
  <2>1. UNCHANGED jobVars
    BY <1>3 DEF JobStep, BeginJob, PictureArrives, PictureMissing,
                PictureRecovered, PictureFails, Publish
  <2> QED
    BY <2>1 DEF jobVars, SourceVars, stateVars, deviceVars
<1>4. CASE Restart
  BY <1>4 DEF Restart, SourceVars, stateVars
<1>5. ASSUME NEW b, LoadInventory(b) \/ RefreshInventory(b)
      PROVE  UNCHANGED SourceVars
  BY <1>5 DEF LoadInventory, RefreshInventory, SourceVars, stateVars
<1>6. CASE UNCHANGED vars
  BY <1>6 DEF vars, SourceVars, stateVars, deviceVars
<1> QED
  BY <1>1, <1>2, <1>3, <1>4, <1>5, <1>6, Zenon DEF Next

\* The three effects of a delivery on the detections.
LEMMA DeliverCases ==
    ASSUME NEW e \in Events, NEW picture \in BOOLEAN, NEW label \in Labels,
           Deliver(e, picture, label)
    PROVE  /\ registered' = registered /\ life' = life
           /\ \/ UNCHANGED stateVars
              \/ registered # None /\ e \notin recent /\ Record(e, label)
              \/ registered # None /\ e \in recent /\ EnrichName(e)
  BY DEF Deliver, HandleState, deviceVars

LEMMA NextSources ==
    ASSUME TypeOK, SourceInv, [Next]_vars
    PROVE  SourceInv'
<1>1. ASSUME NEW e \in Events, NEW picture \in BOOLEAN, NEW label \in Labels,
             Deliver(e, picture, label)
      PROVE  SourceInv'
  <2>1. CASE UNCHANGED stateVars
    BY <1>1, <2>1, DeliverCases, OtherSources DEF stateVars, SourceVars
  <2>2. CASE registered # None /\ Record(e, label)
    BY <1>1, <2>2, DeliverCases, RecordSources
  <2>3. CASE EnrichName(e)
    BY <1>1, <2>3, DeliverCases, EnrichSources
  <2> QED
    BY <1>1, <2>1, <2>2, <2>3, DeliverCases
<1>2. CASE Register
  BY <1>2, RegisterSources
<1>3. CASE UNCHANGED SourceVars
  BY <1>3, OtherSources
<1> QED
  BY <1>1, <1>2, <1>3, StepKinds, Zenon

LEMMA SourceCorrect == Spec => []SourceInv
<1>1. Init => SourceInv
  BY DEF Init, SourceInv, NameBelongsToEvent, Owns
<1>2. TypeOK /\ SourceInv /\ [Next]_vars => SourceInv'
  BY NextSources
<1> QED
  BY <1>1, <1>2, TypeCorrect, PTL DEF Spec

\* A name shown with a detection was delivered with the event it shows.
THEOREM NamesBelong == Spec => []NameBelongsToEvent
<1>1. SourceInv => NameBelongsToEvent
  BY DEF SourceInv
<1> QED
  BY <1>1, SourceCorrect, PTL

\* A repeated delivery adds the first name of its own event, to the camera
\* the detection was recorded for, and changes the last detection no further.
THEOREM RepetitionsOnlyName == Spec => RepetitionOnlyNames
<1> DEFINE Named ==
      (recent' = recent /\ last' # last /\ last'.event \in Identified)
         => /\ last # None /\ last.name = None
            /\ last' = [last EXCEPT !.name = last.event]
            /\ Camera[registered] = Camera[last.camera]
<1>1. TypeOK /\ SourceInv /\ [Next]_vars => [Named]_vars
  <2> SUFFICES ASSUME TypeOK, SourceInv, [Next]_vars, recent' = recent,
                      last' # last, last'.event \in Identified
               PROVE  Named
    OBVIOUS
  <2>1. PICK e \in Events, picture \in BOOLEAN, label \in Labels :
            Deliver(e, picture, label)
    <3>1. ~Register /\ ~UNCHANGED SourceVars
      BY DEF Register, SourceVars
    <3> QED
      BY <3>1, StepKinds, Zenon
  <2>2. CASE registered # None /\ e \notin recent /\ Record(e, label)
    <3>1. e \notin Identified
      BY <2>1, <2>2 DEF Deliver, Observe
    <3>2. last' \in Headlines(e, label)
      BY <2>2 DEF Record
    <3>3. registered \in Bindings
      BY <2>2 DEF TypeOK
    <3>4. \E k \in Kinds : last' = Detection(e, k, label)
      BY <3>2, HeadlineForms, PulseKinds
    <3>5. last'.event = e
      BY <3>3, <3>4, DetectionType
    <3> QED
      BY <3>1, <3>5
  <2>3. CASE EnrichName(e)
    BY <2>3, EnrichOwn
  <2>4. ~UNCHANGED stateVars
    BY DEF stateVars
  <2> QED
    BY <2>1, <2>2, <2>3, <2>4, DeliverCases
<1> QED
  BY <1>1, SourceCorrect, TypeCorrect, PTL DEF Spec, RepetitionOnlyNames

\* The aggregate motion flag is on exactly while a visual pulse is.
THEOREM MotionIsPulses == Spec => []MotionFollowsPulses
<1>1. Init => MotionFollowsPulses
  BY DEF Init, MotionFollowsPulses
<1>2. TypeOK /\ MotionFollowsPulses /\ [Next]_vars => MotionFollowsPulses'
  <2> SUFFICES ASSUME TypeOK, MotionFollowsPulses, [Next]_vars
               PROVE  MotionFollowsPulses'
    OBVIOUS
  <2>1. CASE UNCHANGED <<raised, motion>>
    BY <2>1 DEF MotionFollowsPulses
  <2>2. ASSUME NEW e \in Events, NEW picture \in BOOLEAN, NEW label \in Labels,
               Deliver(e, picture, label)
        PROVE  MotionFollowsPulses'
    <3>1. CASE UNCHANGED <<raised, motion>>
      BY <3>1 DEF MotionFollowsPulses
    <3>2. CASE Record(e, label)
      <4>1. raised' = raised \cup Pulses(e, label)
            /\ motion' = (motion \/ Pulses(e, label) \cap Visual # {})
        BY <3>2 DEF Record
      <4> QED
        BY <4>1 DEF MotionFollowsPulses
    <3> QED
      BY <2>2, <3>1, <3>2, DeliverCases DEF stateVars, EnrichName
  <2>3. ASSUME NEW k \in Kinds, PulseEnds(k) PROVE MotionFollowsPulses'
    <3>1. CASE k \in Visual
      BY <2>3, <3>1 DEF PulseEnds, MotionFollowsPulses
    <3>2. CASE k \notin Visual
      <4>1. raised' \cap Visual = raised \cap Visual /\ motion' = motion
        BY <2>3, <3>2 DEF PulseEnds
      <4> QED
        BY <4>1 DEF MotionFollowsPulses
    <3> QED
      BY <3>1, <3>2
  <2>4. CASE JobStep \/ Restart \/ Register \/ UNCHANGED vars
    <3>1. JobStep => UNCHANGED jobVars
      BY DEF JobStep, BeginJob, PictureArrives, PictureMissing,
             PictureRecovered, PictureFails, Publish
    <3> QED
      BY <2>1, <2>4, <3>1 DEF jobVars, Restart, Register, vars, stateVars
  <2>5. ASSUME NEW e \in Events, Expire(e) \/ LateReturns(e)
        PROVE  MotionFollowsPulses'
    BY <2>1, <2>5 DEF Expire, LateReturns, stateVars
  <2>6. ASSUME NEW b, LoadInventory(b) \/ RefreshInventory(b)
        PROVE  MotionFollowsPulses'
    BY <2>1, <2>6 DEF LoadInventory, RefreshInventory, stateVars
  <2> QED
    BY <2>2, <2>3, <2>4, <2>5, <2>6, Zenon DEF Next
<1> QED
  BY <1>1, <1>2, TypeCorrect, PTL DEF Spec

--------------------------------------------------------------------------------
(* The refinement of EventFeed.                                            *)

\* The events of the jobs of a queue that no visit owned.
PicturesOf(js) == {js[i].event : i \in {j \in DOMAIN js : js[j].owned = "none"}}

LEMMA RetiredPictures ==
    ASSUME NEW js \in Seq(Jobs)
    PROVE  PicturesOf(Retired(js)) = PicturesOf(js)
<1>1. \A i \in DOMAIN js : /\ Retired(js)[i].event = js[i].event
                           /\ Retired(js)[i].owned = "none" <=> js[i].owned = "none"
  BY RetiredJobs
<1>2. DOMAIN Retired(js) = DOMAIN js
  BY RetiredJobs
<1> QED
  BY <1>1, <1>2 DEF PicturesOf

LEMMA AppendedPictures ==
    ASSUME NEW js \in Seq(Jobs), NEW e \in Events,
           NEW o \in {"none", "current", "retired"}
    PROVE  PicturesOf(Append(js, [event |-> e, owned |-> o]))
             = PicturesOf(js) \cup (IF o = "none" THEN {e} ELSE {})
<1> DEFINE new == [event |-> e, owned |-> o]
           app == Append(js, new)
<1>1. DOMAIN js = 1..Len(js) /\ DOMAIN app = 1..(Len(js) + 1) /\ Len(js) \in Nat
  OBVIOUS
<1>2. \A i \in 1..Len(js) : app[i] = js[i]
  OBVIOUS
<1>3. app[Len(js) + 1] = new
  OBVIOUS
<1>4. new.event = e /\ new.owned = o
  OBVIOUS
<1> HIDE DEF app, new
<1>5. ASSUME NEW x \in PicturesOf(app)
      PROVE  x \in PicturesOf(js) \cup (IF o = "none" THEN {e} ELSE {})
  <2>1. PICK i \in DOMAIN app : app[i].owned = "none" /\ x = app[i].event
    BY <1>5 DEF PicturesOf
  <2>2. i \in 1..Len(js) \/ i = Len(js) + 1
    BY <1>1, <2>1
  <2> QED
    BY <1>1, <1>2, <1>3, <1>4, <2>1, <2>2 DEF PicturesOf
<1>6. ASSUME NEW x \in PicturesOf(js)
      PROVE  x \in PicturesOf(app)
  <2>1. PICK i \in DOMAIN js : js[i].owned = "none" /\ x = js[i].event
    BY <1>6 DEF PicturesOf
  <2>2. i \in DOMAIN app /\ app[i] = js[i]
    BY <1>1, <1>2, <2>1
  <2> QED
    BY <2>1, <2>2 DEF PicturesOf
<1>7. o = "none" => e \in PicturesOf(app)
  <2>1. Len(js) + 1 \in DOMAIN app
    BY <1>1
  <2> QED
    BY <1>3, <1>4, <2>1 DEF PicturesOf
<1>8. PicturesOf(app) = PicturesOf(js) \cup (IF o = "none" THEN {e} ELSE {})
  BY <1>5, <1>6, <1>7
<1> QED
  BY <1>8 DEF app, new

LEMMA TailPictures ==
    ASSUME NEW js \in Seq(Jobs), js # <<>>
    PROVE  /\ PicturesOf(Tail(js)) \in {PicturesOf(js), PicturesOf(js) \ {Head(js).event}}
           /\ Head(js).owned = "none" => Head(js).event \in PicturesOf(js)
<1>1. Len(js) \in Nat \ {0} /\ DOMAIN js = 1..Len(js) /\ Head(js) = js[1]
  OBVIOUS
<1>2. DOMAIN Tail(js) = 1..(Len(js) - 1)
  BY <1>1
<1>3. \A i \in 1..(Len(js) - 1) : Tail(js)[i] = js[i + 1]
  BY <1>1
<1>4. ASSUME NEW x \in PicturesOf(Tail(js)) PROVE x \in PicturesOf(js)
  <2>1. PICK i \in DOMAIN Tail(js) :
            Tail(js)[i].owned = "none" /\ x = Tail(js)[i].event
    BY <1>4 DEF PicturesOf
  <2>2. i + 1 \in DOMAIN js /\ Tail(js)[i] = js[i + 1]
    BY <1>1, <1>2, <1>3, <2>1
  <2> QED
    BY <2>1, <2>2 DEF PicturesOf
<1>5. ASSUME NEW x \in PicturesOf(js), x # Head(js).event
      PROVE  x \in PicturesOf(Tail(js))
  <2>1. PICK i \in DOMAIN js : js[i].owned = "none" /\ x = js[i].event
    BY <1>5 DEF PicturesOf
  <2>2. i # 1
    BY <1>1, <1>5, <2>1
  <2>3. i - 1 \in DOMAIN Tail(js) /\ Tail(js)[i - 1] = js[i]
    BY <1>1, <1>2, <1>3, <2>1, <2>2
  <2> QED
    BY <2>1, <2>3 DEF PicturesOf
<1>6. 1 \in DOMAIN js
  BY <1>1
<1>7. Head(js).owned = "none" => Head(js).event \in PicturesOf(js)
  BY <1>1, <1>6 DEF PicturesOf
<1> QED
  BY <1>4, <1>5, <1>7

\* A job that holds the present owner is a job of its visit.
JobsInv ==
    \A i \in DOMAIN jobs :
        jobs[i].owned = "current" => owner # None /\ owner.event = jobs[i].event

LEMMA QueuedJobs ==
    ASSUME NEW js \in Seq(Jobs), NEW visit \in Owners \cup {None}, NEW e \in Events,
           \A i \in DOMAIN js : js[i].owned = "current"
               => visit # None /\ visit.event = js[i].event
    PROVE  /\ \A i \in DOMAIN Queued(js, visit, e) :
                  Queued(js, visit, e)[i].owned = "current"
                    => visit # None /\ visit.event = Queued(js, visit, e)[i].event
           /\ visit # None => PicturesOf(Queued(js, visit, e)) = PicturesOf(js)
           /\ visit = None
                => PicturesOf(Queued(js, visit, e)) = PicturesOf(js) \cup {e}
<1>1. CASE visit # None /\ visit.event # e
  BY <1>1 DEF Queued
<1>2. ASSUME NEW o \in {"none", "current"},
             Queued(js, visit, e) = Append(js, [event |-> e, owned |-> o]),
             o = "current" => visit # None /\ visit.event = e
      PROVE  \A i \in DOMAIN Queued(js, visit, e) :
                 Queued(js, visit, e)[i].owned = "current"
                   => visit # None /\ visit.event = Queued(js, visit, e)[i].event
  <2> DEFINE new == [event |-> e, owned |-> o]
  <2>1. TAKE i \in DOMAIN Queued(js, visit, e)
  <2>2. new.event = e /\ new.owned = o
    OBVIOUS
  <2> HIDE DEF new
  <2>3. \/ i \in DOMAIN js /\ Queued(js, visit, e)[i] = js[i]
        \/ Queued(js, visit, e)[i] = new
    BY <1>2 DEF new
  <2> QED
    BY <1>2, <2>2, <2>3
<1>3. CASE visit = None
  BY <1>2, <1>3, AppendedPictures DEF Queued
<1>4. CASE visit # None /\ visit.event = e
  BY <1>2, <1>4, AppendedPictures DEF Queued
<1> QED
  BY <1>1, <1>3, <1>4

\* What a delivery does to the visit and to the pictures no visit owned.
LEMMA ClaimPictures ==
    ASSUME TypeOK, JobsInv, binding # None,
           NEW e \in Events, NEW picture \in BOOLEAN, ClaimPicture(e, picture)
    PROVE  /\ JobsInv'
           /\ \/ /\ HandleState(e) /\ ~OlderVisit(e)
                 /\ owner' = [event |-> e, binding |-> binding]
                 /\ PicturesOf(jobs') = PicturesOf(jobs)
              \/ /\ owner' = owner
                 /\ \/ PicturesOf(jobs') = PicturesOf(jobs)
                    \/ /\ ~HandleState(e) /\ owner = None
                       /\ PicturesOf(jobs') = PicturesOf(jobs) \cup {e}
<1>1. jobs \in Seq(Jobs) /\ owner \in Owners \cup {None}
  BY DEF TypeOK
<1>2. CASE TakesOwnership(e, picture)
  <2> DEFINE left == Retired(jobs)
  <2>1. owner' = [event |-> e, binding |-> binding]
        /\ (jobs' = left \/ jobs' = Queued(left, owner', e))
    BY <1>2, ClaimForms
  <2>2. owner' \in Owners /\ owner' # None
    BY <2>1, EventAssumption DEF TypeOK, Owners
  <2>3. left \in Seq(Jobs) /\ \A i \in DOMAIN left : left[i].owned # "current"
    BY <1>1, RetiredJobs
  <2>4. PicturesOf(left) = PicturesOf(jobs)
    BY <1>1, RetiredPictures
  <2> HIDE DEF left
  <2>5. \A i \in DOMAIN Queued(left, owner', e) :
            Queued(left, owner', e)[i].owned = "current"
              => owner' # None /\ owner'.event = Queued(left, owner', e)[i].event
    BY <2>2, <2>3, QueuedJobs
  <2>6. PicturesOf(Queued(left, owner', e)) = PicturesOf(left)
    BY <2>2, <2>3, QueuedJobs
  <2>7. JobsInv'
    BY <2>1, <2>3, <2>5 DEF JobsInv
  <2>8. PicturesOf(jobs') = PicturesOf(jobs)
    BY <2>1, <2>4, <2>6
  <2> QED
    BY <1>2, <2>1, <2>7, <2>8 DEF TakesOwnership
<1>3. CASE ~TakesOwnership(e, picture)
  <2>1. owner' = owner
        /\ (jobs' = jobs \/ (jobs' = Queued(jobs, owner, e) /\ RetainPicture(e, picture)))
    BY <1>3, ClaimForms
  <2>2. \A i \in DOMAIN Queued(jobs, owner, e) :
            Queued(jobs, owner, e)[i].owned = "current"
              => owner # None /\ owner.event = Queued(jobs, owner, e)[i].event
    BY <1>1, QueuedJobs DEF JobsInv
  <2>3. /\ owner # None => PicturesOf(Queued(jobs, owner, e)) = PicturesOf(jobs)
        /\ owner = None
             => PicturesOf(Queued(jobs, owner, e)) = PicturesOf(jobs) \cup {e}
    BY <1>1, QueuedJobs DEF JobsInv
  <2>4. JobsInv'
    BY <2>1, <2>2 DEF JobsInv
  <2>5. RetainPicture(e, picture) /\ HandleState(e) => owner # None
    BY <1>3 DEF TakesOwnership, OlderVisit, OwnerCurrent
  <2> QED
    BY <2>1, <2>3, <2>4, <2>5
<1> QED
  BY <1>2, <1>3

LEMMA DeliverRefines ==
    ASSUME TypeOK, SourceInv, JobsInv,
           NEW e \in Events, NEW picture \in BOOLEAN, NEW label \in Labels,
           Deliver(e, picture, label)
    PROVE  JobsInv' /\ Feed!Next
<1>1. binding # None /\ binding' = binding /\ shown' = shown
      /\ Observe(e, picture) /\ ClaimPicture(e, picture)
  BY ClaimForms DEF Deliver, deviceVars
<1>2. UnclaimedPictures = PicturesOf(jobs) /\ UnclaimedPictures' = PicturesOf(jobs')
  BY DEF UnclaimedPictures, PicturesOf
<1>3. JobsInv'
  BY <1>1, ClaimPictures
<1>4. CASE e \notin recent
  <2>1. recent' = recent \cup ({e} \cap Identified)
    BY <1>1 DEF Observe, dedupVars
  <2>2. \/ owner' = owner
        \/ ~Feed!Older(e) /\ owner' = [event |-> e, binding |-> binding]
    BY <1>1, ClaimPictures DEF Feed!Older, OlderVisit, OwnerCurrent
  <2>3. UnclaimedPictures' = UnclaimedPictures
    BY <1>1, <1>2, <1>4, ClaimPictures DEF HandleState
  <2>4. raised \subseteq raised'
    BY <1>4, DeliverCases DEF stateVars, Record
  <2>5. \/ Headline' = Headline
        \/ \E k \in Kinds, n \in {None, e} :
               Headline' = [event |-> e, kind |-> k, name |-> n]
    <3>1. CASE UNCHANGED stateVars
      BY <3>1 DEF stateVars, Headline
    <3>2. CASE registered # None /\ Record(e, label)
      <4>1. last' = last \/ \E k \in Kinds : last' = Detection(e, k, label)
        BY <3>2, HeadlineForms, PulseKinds DEF Record
      <4>2. registered \in Bindings
        BY <3>2 DEF TypeOK
      <4>3. ASSUME NEW k \in Kinds, last' = Detection(e, k, label)
            PROVE  \E n \in {None, e} :
                       Headline' = [event |-> e, kind |-> k, name |-> n]
        <5>1. last' # None /\ last'.event = e /\ last'.kind = k
              /\ last'.name \in {None, e}
          BY <4>2, <4>3, DetectionType
        <5> QED
          BY <5>1 DEF Headline
      <4>4. last' = last => Headline' = Headline
        BY DEF Headline
      <4> QED
        BY <4>1, <4>3, <4>4
    <3> QED
      BY <1>4, <3>1, <3>2, DeliverCases
  <2>6. Feed!Announce(e)
    BY <1>1, <1>4, <2>1, <2>2, <2>3, <2>4, <2>5 DEF Feed!Announce
  <2> QED
    BY <1>3, <2>6 DEF Feed!Next
<1>5. CASE e \in recent
  <2>1. recent' = recent
    BY <1>1, <1>5 DEF Observe, dedupVars
  <2>2. owner' = owner
    BY <1>1, <1>5, ClaimPictures DEF HandleState
  <2>3. \/ UnclaimedPictures' = UnclaimedPictures
        \/ owner = None /\ UnclaimedPictures' = UnclaimedPictures \cup {e}
    BY <1>1, <1>2, <1>5, ClaimPictures DEF HandleState
  <2>4. raised' = raised
    BY <1>5, DeliverCases DEF stateVars, EnrichName
  <2>5. \/ Headline' = Headline
        \/ /\ Headline # None /\ Headline.event = e /\ Headline.name = None
           /\ Headline' = [Headline EXCEPT !.name = e]
    <3>1. CASE last' = last
      BY <3>1 DEF Headline
    <3>2. CASE last' # last
      <4>1. EnrichName(e)
        BY <1>5, <3>2, DeliverCases DEF stateVars
      <4>2. last # None /\ last.name = None /\ last.event = e
            /\ last' = [last EXCEPT !.name = e]
        BY <3>2, <4>1, EnrichOwn
      <4>3. last \in Detections
        BY <4>2 DEF TypeOK
      <4>4. last' # None /\ last'.event = e /\ last'.kind = last.kind /\ last'.name = e
        BY <4>2, <4>3, NamedType
      <4>5. Headline = [event |-> e, kind |-> last.kind, name |-> None]
            /\ Headline' = [event |-> e, kind |-> last.kind, name |-> e]
        BY <4>2, <4>4 DEF Headline
      <4>6. Headline # None
        <5>1. Headline # None \/ last.kind \notin Kinds
          BY <4>5, EventAssumption
        <5> QED
          BY <5>1, <4>3 DEF Detections
      <4> QED
        BY <4>5, <4>6
    <3> QED
      BY <3>1, <3>2
  <2>6. Feed!Repeat(e)
    BY <1>1, <1>5, <2>1, <2>2, <2>3, <2>4, <2>5 DEF Feed!Repeat
  <2> QED
    BY <1>3, <2>6 DEF Feed!Next
<1> QED
  BY <1>4, <1>5

LEMMA JobStepRefines ==
    ASSUME TypeOK, JobsInv, JobStep
    PROVE  JobsInv' /\ [Feed!Next]_(Feed!feedVars)
<1> DEFINE e == Head(jobs).event
<1>1. jobs \in Seq(Jobs) /\ jobs # <<>>
  BY DEF TypeOK, JobStep, BeginJob, PictureArrives, PictureMissing,
         PictureRecovered, PictureFails
<1>2. e \in Events /\ Head(jobs) \in Jobs /\ Head(jobs) = jobs[1] /\ 1 \in DOMAIN jobs
  BY <1>1, TailType
<1>3. UNCHANGED <<owner, recent, binding, raised, last>>
  <2>1. UNCHANGED jobVars
    BY DEF JobStep, BeginJob, PictureArrives, PictureMissing,
           PictureRecovered, PictureFails, Publish
  <2> QED
    BY <2>1 DEF jobVars, dedupVars, stateVars, deviceVars
<1>4. jobs' \in {jobs, Tail(jobs)}
  BY DEF JobStep, BeginJob, PictureArrives, PictureMissing, PictureRecovered,
         PictureFails, Publish, JobDone
<1>5. UnclaimedPictures = PicturesOf(jobs) /\ UnclaimedPictures' = PicturesOf(jobs')
  BY DEF UnclaimedPictures, PicturesOf
<1>6. UnclaimedPictures' \in {UnclaimedPictures, UnclaimedPictures \ {e}}
  BY <1>1, <1>4, <1>5, TailPictures
<1>7. JobsInv'
  <2>1. CASE jobs' = jobs
    BY <1>3, <2>1 DEF JobsInv
  <2>2. CASE jobs' = Tail(jobs)
    <3>1. \A i \in DOMAIN Tail(jobs) :
              i + 1 \in DOMAIN jobs /\ Tail(jobs)[i] = jobs[i + 1]
      BY <1>1
    <3> QED
      BY <1>3, <2>2, <3>1 DEF JobsInv
  <2> QED
    BY <1>4, <2>1, <2>2
<1>8. Headline' = Headline
  BY <1>3 DEF Headline
<1> HIDE DEF e
<1>9. CASE shown' = shown
  <2>1. CASE UnclaimedPictures' = UnclaimedPictures
    BY <1>3, <1>7, <1>8, <1>9, <2>1 DEF Feed!feedVars
  <2>2. CASE UnclaimedPictures' = UnclaimedPictures \ {e}
    <3>1. Feed!Drop(e)
      BY <1>3, <1>8, <1>9, <2>2 DEF Feed!Drop
    <3> QED
      BY <1>2, <1>7, <3>1 DEF Feed!Next
  <2> QED
    BY <1>6, <2>1, <2>2
<1>10. CASE shown' # shown
  <2>1. HeadCurrent /\ shown' = e
    BY <1>10 DEF JobStep, BeginJob, PictureArrives, PictureMissing,
                 PictureRecovered, PictureFails, Publish, e
  <2>2. \/ e \in UnclaimedPictures
        \/ owner # None /\ owner = [event |-> e, binding |-> binding]
    <3>1. CASE Head(jobs).owned = "none"
      BY <1>1, <1>5, <3>1, TailPictures DEF e
    <3>2. CASE Head(jobs).owned # "none"
      <4>1. Head(jobs).owned = "current" /\ owner # None /\ owner.binding = binding
        BY <2>1, <3>2 DEF HeadCurrent, JobCurrent, OwnerCurrent
      <4>2. owner.event = e
        BY <1>2, <4>1 DEF JobsInv, e
      <4>3. owner \in Owners
        BY <4>1 DEF TypeOK
      <4> QED
        BY <4>1, <4>2, <4>3 DEF Owners
    <3> QED
      BY <3>1, <3>2
  <2>3. Feed!Show(e)
    BY <1>3, <1>6, <1>8, <2>1, <2>2 DEF Feed!Show
  <2> QED
    BY <1>2, <1>7, <2>3 DEF Feed!Next
<1> QED
  BY <1>9, <1>10

LEMMA OtherRefines ==
    ASSUME TypeOK, JobsInv,
           \/ \E e \in Events : Expire(e) \/ LateReturns(e)
           \/ \E k \in Kinds : PulseEnds(k)
           \/ Restart \/ Register
           \/ \E b \in Bindings \cup {None} : LoadInventory(b)
           \/ \E b \in Bindings : RefreshInventory(b)
           \/ UNCHANGED vars
    PROVE  JobsInv' /\ [Feed!Next]_(Feed!feedVars)
<1>1. jobs' = jobs => UnclaimedPictures' = UnclaimedPictures
  BY DEF UnclaimedPictures
<1>2. last' = last => Headline' = Headline
  BY DEF Headline
<1>3. UNCHANGED <<jobs, owner>> => JobsInv'
  BY DEF JobsInv
<1>4. ASSUME NEW e \in Events, Expire(e) PROVE JobsInv' /\ Feed!Next
  <2>1. Feed!Forget(e)
    BY <1>1, <1>2, <1>4 DEF Expire, Feed!Forget, pictureVars, stateVars, deviceVars
  <2> QED
    BY <1>3, <1>4, <2>1 DEF Feed!Next, Expire, pictureVars
<1>5. ASSUME NEW e \in Events, LateReturns(e)
      PROVE  JobsInv' /\ UNCHANGED Feed!feedVars
  BY <1>1, <1>2, <1>3, <1>5
     DEF LateReturns, Feed!feedVars, dedupVars, stateVars, deviceVars
<1>6. ASSUME NEW k \in Kinds, PulseEnds(k) PROVE JobsInv' /\ Feed!Next
  <2>1. Feed!PulseEnds(k)
    BY <1>1, <1>2, <1>6
       DEF PulseEnds, Feed!PulseEnds, dedupVars, pictureVars, deviceVars
  <2>2. JobsInv'
    BY <1>3, <1>6 DEF PulseEnds, pictureVars
  <2> QED
    BY <2>1, <2>2 DEF Feed!Next
<1>7. CASE Restart
  <2>1. JobsInv' /\ UnclaimedPictures' = {}
    BY <1>7 DEF Restart, JobsInv, UnclaimedPictures
  <2>2. Feed!Retire
    BY <1>2, <1>7, <2>1 DEF Restart, Feed!Retire, dedupVars, stateVars
  <2> QED
    BY <2>1, <2>2 DEF Feed!Next
<1>8. CASE Register
  BY <1>1, <1>2, <1>3, <1>8 DEF Register, Feed!feedVars, dedupVars, pictureVars
<1>9. ASSUME NEW b \in Bindings \cup {None}, LoadInventory(b) \/ RefreshInventory(b)
      PROVE  JobsInv' /\ Feed!Next
  <2>1. Feed!Rebind(b)
    BY <1>1, <1>2, <1>9 DEF LoadInventory, RefreshInventory, Bind, Feed!Rebind,
                            dedupVars, pictureVars, stateVars
  <2>2. JobsInv'
    BY <1>3, <1>9 DEF LoadInventory, RefreshInventory, pictureVars
  <2> QED
    BY <2>1, <2>2 DEF Feed!Next
<1>10. CASE UNCHANGED vars
  BY <1>1, <1>2, <1>3, <1>10
     DEF vars, Feed!feedVars, dedupVars, pictureVars, stateVars, deviceVars
<1> QED
  BY <1>4, <1>5, <1>6, <1>7, <1>8, <1>9, <1>10

LEMMA NextRefines ==
    ASSUME TypeOK, SourceInv, JobsInv, [Next]_vars
    PROVE  JobsInv' /\ [Feed!Next]_(Feed!feedVars)
<1>1. ASSUME NEW e \in Events, NEW picture \in BOOLEAN, NEW label \in Labels,
             Deliver(e, picture, label)
      PROVE  JobsInv' /\ [Feed!Next]_(Feed!feedVars)
  BY <1>1, DeliverRefines
<1>2. CASE JobStep
  BY <1>2, JobStepRefines
<1>3. CASE \/ \E e \in Events : Expire(e) \/ LateReturns(e)
           \/ \E k \in Kinds : PulseEnds(k)
           \/ Restart \/ Register
           \/ \E b \in Bindings \cup {None} : LoadInventory(b)
           \/ \E b \in Bindings : RefreshInventory(b)
           \/ UNCHANGED vars
  BY <1>3, OtherRefines
<1> QED
  BY <1>1, <1>2, <1>3, Zenon DEF Next

\* Every behaviour of the detailed path is one EventFeed allows.
THEOREM EventFeedImplemented == Spec => ImplementsEventFeed
<1>1. Init => JobsInv /\ Feed!Init
  <2> SUFFICES ASSUME Init PROVE JobsInv /\ Feed!Init
    OBVIOUS
  <2>1. jobs = <<>> /\ last = None
    BY DEF Init
  <2>2. JobsInv /\ UnclaimedPictures = {} /\ Headline = None
    BY <2>1 DEF JobsInv, UnclaimedPictures, Headline
  <2> QED
    BY <2>2 DEF Init, Feed!Init
<1>2. TypeOK /\ SourceInv /\ JobsInv /\ [Next]_vars
        => JobsInv' /\ [Feed!Next]_(Feed!feedVars)
  BY NextRefines
<1> QED
  BY <1>1, <1>2, TypeCorrect, SourceCorrect, PTL
     DEF Spec, ImplementsEventFeed, Feed!Spec

===============================================================================

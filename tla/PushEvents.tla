------------------------------ MODULE PushEvents ------------------------------
(***************************************************************************)
(* The notifications of one supported camera on their way from the push    *)
(* receiver to the gateway state: PushEventDeduplicator, the part of       *)
(* EufyProvider that handles a push (#handlePush, the picture owner, the   *)
(* picture queue of the camera, the recovery from the HomeBase), and the   *)
(* detections GatewayState keeps.                                          *)
(*                                                                         *)
(* A delivery is an event with what varies between its repetitions: whether*)
(* it carries a picture, and whether it carries a name.  What is read of   *)
(* the event itself is constant.  A handler runs to its end; the awaits of *)
(* a picture job and of an inventory load separate actions.                *)
(***************************************************************************)
EXTENDS Integers, Sequences

CONSTANTS
    Events,       \* the events of the camera
    Identified,   \* events with an eventId
    Recorded,     \* events with a recording reference
    Trigger,      \* triggerMilliseconds of an event
    Buttons,      \* event type 3103 of a doorbell
    Styled,       \* those of them with notification style 3
    Evidence,     \* detection kinds an event stands for, motion included
    Bindings,     \* inventory bindings of the camera and its parent
    Camera,       \* station and model of a binding
    MaxPushes,    \* bound: deliveries
    MaxLives,     \* bound: provider lifetimes
    MaxMoves,     \* bound: inventories with another binding of the camera
    None

\* Every other visual kind behaves as the vehicle, crying as the sound.
Kinds == {"motion", "person", "vehicle", "sound", "doorbell"}
Visual == {"motion", "person", "vehicle"}

ASSUME EventAssumption ==
    /\ Identified \subseteq Events /\ Recorded \subseteq Events
    /\ Styled \subseteq Buttons /\ Buttons \subseteq Events
    /\ Trigger \in [Events -> Int]
    /\ Evidence \in [Events -> SUBSET (Kinds \ {"doorbell"})]
    /\ None \notin Events /\ None \notin Bindings
    /\ None \notin [event : Events, binding : Bindings]
    /\ None \notin [life : 1..MaxLives, event : Events]
    /\ None \notin [event : Events, kind : Kinds, name : Events \cup {None},
                    camera : Bindings]
    /\ None \notin [event : Events, kind : Kinds, name : Events \cup {None}]
    /\ MaxPushes \in Nat /\ MaxMoves \in Nat /\ MaxLives \in Nat \ {0}

VARIABLES
    recent,       \* PushEventDeduplicator.#recent: unexpired identities
    pictureSeen,  \* those whose picture was observed
    owner,        \* #pictureOwners: the visit of the camera, or None
    jobs,         \* #pushSnapshotQueues: the promise chain, its head running
    stage,        \* what the head awaits: "queued", "download", "recovery"
    late,         \* downloads in flight of retired lifetimes
    shown,        \* the event whose picture events.snapshot had last, or None
    raised,       \* detection flags with their clear timers
    motion,       \* motionDetected
    last,         \* lastDetection; .camera (history) is where it was recorded
    personOwner,  \* personEventIdentity
    doorbellOwner,\* doorbellEventIdentity
    life,         \* #startupGeneration
    loading,      \* the inventory of this lifetime has not arrived
    binding,      \* #devices: the camera, None while it lacks it
    registered,   \* GatewayState's identity of the camera, None before it
    pushes,       \* deliveries so far
    moves         \* inventories with another binding so far

dedupVars == <<recent, pictureSeen>>
pictureVars == <<owner, jobs, stage, late, shown>>
stateVars == <<raised, motion, last, personOwner, doorbellOwner>>
deviceVars == <<life, loading, binding, registered, moves>>
vars == <<dedupVars, pictureVars, stateVars, deviceVars, pushes>>

--------------------------------------------------------------------------------
(* Events and owners.                                                      *)

\* The person a delivery speaks of (personName, personNameFromPush): nobody,
\* "Stranger" or the like, or a recognized person.
Labels == {"none", "generic", "name"}

\* doorbellPushKind: style 3 without evidence or label is a press too.
Press(e, label) ==
    e \in Buttons /\ (e \in Styled => Evidence[e] = {} /\ label = "none")

\* The kinds a first delivery pulses.
Pulses(e, label) ==
    CASE Press(e, label) -> {"doorbell"}
      [] e \in Buttons /\ ~Press(e, label) ->
             Evidence[e] \cup {"motion"} \cup (IF label = "name" THEN {"person"} ELSE {})
      [] OTHER -> Evidence[e]

\* cameraDetectionKind(event.eventType) !== null
Detects(e) == e \notin Buttons /\ Evidence[e] # {}

\* detectionEventIdentity
Identity(e) == IF e \in Identified THEN [life |-> life, event |-> e] ELSE None

\* #pictureOwnerCurrent of the installed owner.
OwnerCurrent == owner # None /\ owner.binding = binding

OlderVisit(e) ==
    /\ OwnerCurrent
    /\ {owner.event, e} \subseteq Recorded
    /\ Trigger[e] < Trigger[owner.event]

\* The owner a job was queued with still owns the picture.  A job queued
\* without an owner is checked against the lifetime only.
JobCurrent(job) ==
    \/ job.owned = "none"
    \/ job.owned = "current" /\ OwnerCurrent

--------------------------------------------------------------------------------
(* Deliveries.                                                             *)

HandleState(e) == e \notin recent
RetainPicture(e, picture) == picture /\ e \notin pictureSeen

\* PushEventDeduplicator.observe
Observe(e, picture) ==
    IF e \in Identified
    THEN /\ recent' = recent \cup {e}
         /\ pictureSeen' = pictureSeen \cup (IF picture THEN {e} ELSE {})
    ELSE UNCHANGED dedupVars

\* The delivery makes its event the camera's visit.
TakesOwnership(e, picture) ==
    /\ HandleState(e)
    /\ RetainPicture(e, picture) \/ Detects(e)
    /\ ~OlderVisit(e)

\* A new owner aborts the controller of the former one.
Retired(js) ==
    [i \in DOMAIN js |->
        IF js[i].owned = "current" THEN [js[i] EXCEPT !.owned = "retired"]
        ELSE js[i]]

\* #queuePushSnapshot refuses a picture of another event than the owner's.
Queued(js, visit, e) ==
    CASE visit = None -> Append(js, [event |-> e, owned |-> "none"])
      [] visit # None /\ visit.event = e ->
             Append(js, [event |-> e, owned |-> "current"])
      [] OTHER -> js

ClaimPicture(e, picture) ==
    LET takes == TakesOwnership(e, picture)
        visit == IF takes THEN [event |-> e, binding |-> binding] ELSE owner
        left == IF takes THEN Retired(jobs) ELSE jobs
    IN /\ owner' = visit
       /\ jobs' = IF RetainPicture(e, picture) THEN Queued(left, visit, e)
                  ELSE left
       /\ UNCHANGED <<stage, late, shown>>

Detection(e, kind, label) ==
    [event |-> e, kind |-> kind,
     name |-> IF label = "name" /\ kind \in {"person", "doorbell"} THEN e ELSE None,
     camera |-> registered]

\* Possible values of lastDetection after the calls a first delivery makes.
\* Of several kinds the last call wins; motion does not replace a person of
\* the last ten seconds; a press without identity or name does not replace a
\* recognized person.
Headlines(e, label) ==
    LET kinds == Pulses(e, label) \ {"motion"}
        other == IF e \in Buttons THEN kinds \ {"person"} ELSE kinds
        new(k) == Detection(e, k, label)
    IN CASE Press(e, label) ->
              IF e \in Identified \/ label = "name" \/ last = None \/ last.name = None
              THEN {new("doorbell")} ELSE {last}
         [] ~Press(e, label) /\ other # {} -> {new(k) : k \in other}
         [] ~Press(e, label) /\ other = {} /\ "person" \in kinds -> {new("person")}
         [] ~Press(e, label) /\ kinds = {} /\ Pulses(e, label) # {} ->
              {new("motion")} \cup
              (IF last # None /\ last.kind = "person" THEN {last} ELSE {})
         [] OTHER -> {last}

\* recordMotion, recordPerson, recordDetection, recordDoorbell with true.
Record(e, label) ==
    LET kinds == Pulses(e, label)
    IN /\ raised' = raised \cup kinds
       /\ motion' = (motion \/ kinds \cap Visual # {})
       /\ last' \in Headlines(e, label)
       /\ personOwner' = IF "person" \in kinds THEN Identity(e) ELSE personOwner
       /\ doorbellOwner' = IF "doorbell" \in kinds THEN Identity(e)
                           ELSE doorbellOwner

\* A bug of EnrichName: any detection of the kind takes the name.
EnrichAnyName(e) ==
    LET kind == IF Press(e, "name") THEN "doorbell" ELSE "person"
    IN /\ last' = IF last # None /\ last.kind = kind /\ last.name = None
                  THEN [last EXCEPT !.name = e] ELSE last
       /\ UNCHANGED <<raised, motion, personOwner, doorbellOwner>>

\* #enrichName of the identity that owns the last detection.
EnrichName(e) ==
    LET source(kind) == IF kind = "person" THEN personOwner ELSE doorbellOwner
        Matches(kind) ==
            /\ source(kind) # None /\ source(kind) = Identity(e)
            /\ last # None /\ last.kind = kind /\ last.name = None
        kind == IF Press(e, "name") THEN "doorbell" ELSE "person"
        personDelivery == e \in Buttons \/ "person" \in Evidence[e]
    IN /\ last' = IF Matches(kind) /\ (kind = "person" => personDelivery)
                  THEN [last EXCEPT !.name = e] ELSE last
       /\ UNCHANGED <<raised, motion, personOwner, doorbellOwner>>

\* #handlePush of a delivery for this camera.
Deliver(e, picture, label) ==
    /\ pushes < MaxPushes
    /\ pushes' = pushes + 1
    /\ binding # None
    /\ Observe(e, picture)
    /\ ClaimPicture(e, picture)
    /\ IF registered = None THEN UNCHANGED stateVars
       ELSE IF HandleState(e) THEN Record(e, label)
       ELSE IF label = "name" THEN EnrichName(e)
       ELSE UNCHANGED stateVars
    /\ UNCHANGED deviceVars

\* A bug of Expire: the memory of the picture outlives the observation.
ExpireKeepsPicture(e) ==
    /\ e \in recent
    /\ recent' = recent \ {e}
    /\ UNCHANGED <<pictureSeen, pictureVars, stateVars, deviceVars, pushes>>

\* An observation older than the window is dropped before it is read again.
Expire(e) ==
    /\ e \in recent
    /\ recent' = recent \ {e}
    /\ pictureSeen' = pictureSeen \ {e}
    /\ UNCHANGED <<pictureVars, stateVars, deviceVars, pushes>>

\* A bug of PulseEnds: the end of one visual pulse clears the aggregate.
PulseEndsMotion(k) ==
    /\ k \in raised
    /\ raised' = raised \ {k}
    /\ motion' = (k \notin Visual /\ motion)
    /\ UNCHANGED <<last, personOwner, doorbellOwner, dedupVars, pictureVars,
                   deviceVars, pushes>>

\* The clear timer of a detection: the aggregate is formed again.
PulseEnds(k) ==
    /\ k \in raised
    /\ raised' = raised \ {k}
    /\ motion' = IF k \in Visual THEN raised' \cap Visual # {} ELSE motion
    /\ UNCHANGED <<last, personOwner, doorbellOwner, dedupVars, pictureVars,
                   deviceVars, pushes>>

--------------------------------------------------------------------------------
(* The picture queue of the camera: one job after the other.               *)

jobVars == <<owner, late, dedupVars, stateVars, deviceVars, pushes>>

HeadCurrent == JobCurrent(Head(jobs))

JobDone == jobs' = Tail(jobs) /\ stage' = "queued"

\* A bug of BeginJob: a job whose visit was replaced keeps its place.
BeginCurrentJob ==
    /\ jobs # <<>> /\ stage = "queued"
    /\ HeadCurrent /\ stage' = "download"
    /\ UNCHANGED <<jobs, shown, jobVars>>

\* The job starts once its predecessor has settled; one whose visit was
\* replaced downloads nothing.
BeginJob ==
    /\ jobs # <<>> /\ stage = "queued"
    /\ IF HeadCurrent THEN stage' = "download" /\ UNCHANGED jobs
       ELSE JobDone
    /\ UNCHANGED <<shown, jobVars>>

\* A bug of Publish: the ownership is not checked after the await.
PublishUnchecked ==
    /\ JobDone
    /\ shown' = IF registered # None THEN Head(jobs).event ELSE shown
    /\ UNCHANGED jobVars

\* events.snapshot publishes to a registered camera, if the job may.
Publish ==
    /\ JobDone
    /\ shown' = IF HeadCurrent /\ registered # None THEN Head(jobs).event
                ELSE shown
    /\ UNCHANGED jobVars

PictureArrives == jobs # <<>> /\ stage = "download" /\ Publish

\* The cloud has no picture (404): the visit that still owns it asks the
\* HomeBase, unless the recovery is refused, which fails the job.
PictureMissing ==
    /\ jobs # <<>> /\ stage = "download"
    /\ Head(jobs).owned = "current" /\ HeadCurrent
    /\ stage' = "recovery"
    /\ UNCHANGED <<jobs, shown, jobVars>>

PictureRecovered ==
    /\ jobs # <<>> /\ stage = "recovery"
    /\ Publish

\* The download, its abort or the recovery ends without a picture.
PictureFails ==
    /\ jobs # <<>> /\ stage \in {"download", "recovery"}
    /\ JobDone
    /\ UNCHANGED <<shown, jobVars>>

\* A download of a retired lifetime settles: its picture is discarded.
LateReturns(e) ==
    /\ e \in late
    /\ late' = late \ {e}
    /\ UNCHANGED <<owner, jobs, stage, shown, dedupVars, stateVars, deviceVars,
                   pushes>>

--------------------------------------------------------------------------------
(* Provider lifetimes and the inventory.                                   *)

\* start, close, completeStartup: the generation advances and every picture
\* owner and queue is retired at once; a download in flight goes on.
Restart ==
    /\ life < MaxLives
    /\ life' = life + 1
    /\ loading' = TRUE
    /\ owner' = None /\ jobs' = <<>> /\ stage' = "queued"
    /\ late' = late \cup (IF stage = "queued" THEN {} ELSE {Head(jobs).event})
    /\ UNCHANGED <<shown, binding, registered, moves, dedupVars, stateVars, pushes>>

\* #devices holds the camera with the binding b from now on.
Bind(b) ==
    /\ binding' = b
    /\ moves' = IF b = binding THEN moves ELSE moves + 1
    /\ moves' <= MaxMoves

\* Startup replaces #devices; the cameras are registered after the key lookup.
LoadInventory(b) ==
    /\ loading
    /\ loading' = FALSE
    /\ Bind(b)
    /\ UNCHANGED <<life, registered, dedupVars, pictureVars, stateVars, pushes>>

\* A refresh merges: it adds or rebinds the camera, and never removes it.
RefreshInventory(b) ==
    /\ ~loading /\ binding \in {None, registered} /\ binding # b
    /\ Bind(b)
    /\ UNCHANGED <<life, loading, registered, dedupVars, pictureVars,
                   stateVars, pushes>>

\* A bug of Register: a camera of another station keeps the identities.
RegisterKeepsNames ==
    /\ ~loading /\ binding \notin {None, registered}
    /\ registered' = binding
    /\ UNCHANGED <<life, loading, binding, moves, stateVars, dedupVars,
                   pictureVars, pushes>>

\* registerCamera, after the key lookup of the same lifetime.
Register ==
    /\ ~loading /\ binding \notin {None, registered}
    /\ registered' = binding
    /\ IF registered # None /\ Camera[registered] # Camera[binding]
       THEN personOwner' = None /\ doorbellOwner' = None
       ELSE UNCHANGED <<personOwner, doorbellOwner>>
    /\ UNCHANGED <<life, loading, binding, moves, raised, motion, last, dedupVars,
                   pictureVars, pushes>>

--------------------------------------------------------------------------------
\* The first lifetime has started: its receiver exists once the cameras of
\* the inventory are registered.
Init ==
    /\ recent = {} /\ pictureSeen = {}
    /\ owner = None /\ jobs = <<>> /\ stage = "queued" /\ late = {}
    /\ shown = None
    /\ raised = {} /\ motion = FALSE /\ last = None
    /\ personOwner = None /\ doorbellOwner = None
    /\ life = 1 /\ loading = FALSE
    /\ binding \in Bindings \cup {None} /\ registered = binding
    /\ pushes = 0 /\ moves = 0

JobStep ==
    \/ BeginJob \/ PictureArrives \/ PictureMissing
    \/ PictureRecovered \/ PictureFails

Next ==
    \/ \E e \in Events :
           \/ \E picture \in BOOLEAN, label \in Labels : Deliver(e, picture, label)
           \/ Expire(e)
           \/ LateReturns(e)
    \/ \E k \in Kinds : PulseEnds(k)
    \/ JobStep
    \/ Restart
    \/ \E b \in Bindings \cup {None} : LoadInventory(b)
    \/ \E b \in Bindings : RefreshInventory(b)
    \/ Register

Spec == Init /\ [][Next]_vars

\* The client ends a download after thirty seconds, and a recovery has the
\* deadlines of its session.
FairSpec == Spec /\ WF_vars(JobStep)

--------------------------------------------------------------------------------
(* Properties.                                                             *)

Owners == [event : Events, binding : Bindings]
Jobs == [event : Events, owned : {"none", "current", "retired"}]
Identities == [life : 1..MaxLives, event : Identified]
Detections == [event : Events, kind : Kinds, name : Events \cup {None},
               camera : Bindings]

\* Types of the event path (eufy-provider.ts:658-756, gateway-state.ts:20-60).
TypeOK ==
    /\ recent \subseteq Identified /\ pictureSeen \subseteq recent
    /\ owner \in Owners \cup {None}
    /\ jobs \in Seq(Jobs) /\ stage \in {"queued", "download", "recovery"}
    /\ jobs = <<>> => stage = "queued"
    /\ late \subseteq Events /\ shown \in Events \cup {None}
    /\ raised \subseteq Kinds /\ motion \in BOOLEAN
    /\ last \in Detections \cup {None}
    /\ personOwner \in Identities \cup {None}
    /\ doorbellOwner \in Identities \cup {None}
    /\ life \in 1..MaxLives /\ loading \in BOOLEAN
    /\ binding \in Bindings \cup {None} /\ registered \in Bindings \cup {None}
    /\ pushes \in 0..MaxPushes /\ moves \in 0..MaxMoves

\* A recognized name shown with a detection was delivered with that very
\* event, whatever was announced, renamed or restarted between the
\* announcement and the delivery that carries the name.
NameBelongsToEvent ==
    last # None => last.name \in {None, last.event}

\* The aggregate motion flag is on exactly while a visual pulse is, across
\* overlapping pulses of several kinds; a sound or a press does not raise it.
MotionFollowsPulses == motion <=> raised \cap Visual # {}

\* A repeated delivery changes the last detection by one name at most: the
\* first, of its own event, and only while the camera registered under that
\* serial is the one the detection was recorded for.
RepetitionOnlyNames ==
    [][(recent' = recent /\ last' # last /\ last'.event \in Identified)
         => /\ last # None /\ last.name = None
            /\ last' = [last EXCEPT !.name = last.event]
            /\ Camera[registered] = Camera[last.camera]]_vars

\* The detailed path implements the promise of EventFeed, under this mapping.
UnclaimedPictures ==
    {jobs[i].event : i \in {j \in DOMAIN jobs : jobs[j].owned = "none"}}
Headline ==
    IF last = None THEN None
    ELSE [event |-> last.event, kind |-> last.kind, name |-> last.name]

Feed == INSTANCE EventFeed WITH
    told <- recent,
    visit <- owner,
    bound <- binding,
    unclaimed <- UnclaimedPictures,
    image <- shown,
    headline <- Headline

\* Pulses, the headline and the visit change on the first delivery of an
\* event within the window; a picture is shown for the visit of the present
\* binding or for an event no visit claimed, and never for a retired one.
ImplementsEventFeed == Feed!Spec

\* Every picture job ends: a stuck or retired one does not hold the queue.
PictureQueueDrains == jobs # <<>> ~> jobs = <<>>

================================================================================

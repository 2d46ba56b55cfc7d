------------------------------ MODULE EventFeed ------------------------------
(***************************************************************************)
(* What the gateway promises about the notifications of one camera, with   *)
(* no queue, no timer and no delivery identity.  An event is announced,    *)
(* and later repeated: only the announcement raises pulses, takes the      *)
(* headline (CameraState.lastDetection) or makes the event the camera's    *)
(* visit; a repetition may only add the missing name to the event's own    *)
(* headline.  The picture shown is the picture of the visit, or one that   *)
(* a repetition brought when there was no visit.  PushEvents implements    *)
(* this module.                                                            *)
(***************************************************************************)
EXTENDS Integers

CONSTANTS
    Events,       \* the events of the camera
    Identified,   \* those that carry an event identity
    Recorded,     \* those that carry a recording reference
    Trigger,      \* the trigger time of an event
    Bindings,     \* inventory bindings of the camera
    Kinds,        \* detection kinds
    None

VARIABLES
    told,         \* events announced within the deduplication window
    visit,        \* the event that owns the picture, with its binding, or None
    bound,        \* the current binding, None while the camera is absent
    unclaimed,    \* events whose picture was asked for without any visit
    image,        \* the event whose picture was published last
    headline,     \* lastDetection
    raised        \* detection kinds whose pulse is on

feedVars == <<told, visit, bound, unclaimed, image, headline, raised>>

Init ==
    /\ told = {} /\ unclaimed = {} /\ raised = {}
    /\ visit = None /\ image = None /\ headline = None
    /\ bound \in Bindings \cup {None}

\* A recorded event triggered before the recorded visit of the same binding.
Older(e) ==
    /\ visit # None /\ visit.binding = bound
    /\ {visit.event, e} \subseteq Recorded
    /\ Trigger[e] < Trigger[visit.event]

Announce(e) ==
    /\ e \notin told /\ bound # None
    /\ told' = told \cup ({e} \cap Identified)
    /\ \/ visit' = visit
       \/ ~Older(e) /\ visit' = [event |-> e, binding |-> bound]
    /\ \/ headline' = headline
       \/ \E k \in Kinds, n \in {None, e} :
              headline' = [event |-> e, kind |-> k, name |-> n]
    /\ raised \subseteq raised'
    /\ UNCHANGED <<bound, unclaimed, image>>

Repeat(e) ==
    /\ e \in told /\ bound # None
    /\ \/ headline' = headline
       \/ /\ headline # None /\ headline.event = e /\ headline.name = None
          /\ headline' = [headline EXCEPT !.name = e]
    /\ \/ unclaimed' = unclaimed
       \/ visit = None /\ unclaimed' = unclaimed \cup {e}
    /\ UNCHANGED <<told, visit, bound, image, raised>>

\* The deduplication window of an event has passed.
Forget(e) ==
    /\ told' = told \ {e}
    /\ UNCHANGED <<visit, bound, unclaimed, image, headline, raised>>

\* A picture is published for the visit of the present binding, or for an
\* event no visit claimed.
Show(e) ==
    /\ \/ e \in unclaimed
       \/ visit # None /\ visit = [event |-> e, binding |-> bound]
    /\ image' = e
    /\ unclaimed' \in {unclaimed, unclaimed \ {e}}
    /\ UNCHANGED <<told, visit, bound, headline, raised>>

Drop(e) ==
    /\ unclaimed' = unclaimed \ {e}
    /\ UNCHANGED <<told, visit, bound, image, headline, raised>>

Rebind(b) ==
    /\ bound' = b
    /\ UNCHANGED <<told, visit, unclaimed, image, headline, raised>>

PulseEnds(k) ==
    /\ raised' = raised \ {k}
    /\ UNCHANGED <<told, visit, bound, unclaimed, image, headline>>

\* A new provider lifetime owes no picture of the former one.
Retire ==
    /\ visit' = None /\ unclaimed' = {}
    /\ UNCHANGED <<told, bound, image, headline, raised>>

Next ==
    \/ \E e \in Events :
           Announce(e) \/ Repeat(e) \/ Forget(e) \/ Show(e) \/ Drop(e)
    \/ \E b \in Bindings \cup {None} : Rebind(b)
    \/ \E k \in Kinds : PulseEnds(k)
    \/ Retire

Spec == Init /\ [][Next]_feedVars

==============================================================================

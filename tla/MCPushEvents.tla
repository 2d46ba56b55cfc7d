---------------------------- MODULE MCPushEvents ----------------------------
(***************************************************************************)
(* A doorbell: a recorded visit with a person, a later recorded press of   *)
(* the button, and a style-3 button event without identity and evidence:   *)
(* its label makes it a press, a motion or a person.  The camera may be    *)
(* absent at first and be rebound to another station.                      *)
(***************************************************************************)
EXTENDS PushEvents, TLC

CONSTANTS b1, b2

MCEvents == 1..3
MCIdentified == {1, 2}
MCRecorded == {1, 2}
MCTrigger == [e \in MCEvents |-> e]
MCButtons == {2, 3}
MCStyled == {3}
MCEvidence == (1 :> {"person"}) @@ (2 :> {}) @@ (3 :> {})
MCBindings == {b1, b2}
MCCamera == (b1 :> 1) @@ (b2 :> 2)

\* The two bindings are alike: the camera starts with the first or with none.
MCInit == Init /\ binding # b2
MCSpec == MCInit /\ [][Next]_vars /\ WF_vars(JobStep)

=============================================================================

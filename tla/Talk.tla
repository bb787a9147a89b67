-------------------------------- MODULE Talk --------------------------------
(***************************************************************************)
(* Users' conversations while the exercises and inbox digests of the Owner *)
(* are posted, and replied to.                                             *)
(***************************************************************************)
EXTENDS LearningExercise, InboxDigest

vars == <<talkVars, exerciseVars, inboxVars>>

Init == TalkInit /\ ExerciseInit /\ InboxInit

Next ==
    \/ TalkNext /\ UNCHANGED <<exerciseVars, inboxVars>>
    \/ ExerciseNext /\ UNCHANGED inboxVars
    \/ InboxNext /\ UNCHANGED exerciseVars

Spec == Init /\ [][Next]_vars

TypeOK == TalkTypeOK /\ ExerciseTypeOK /\ InboxTypeOK
=============================================================================

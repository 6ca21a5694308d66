------------------------- MODULE DeleteTweetProofs --------------------------
(***************************************************************************)
(* Theorems about DeleteTweet, for every number of devices and photos.     *)
(***************************************************************************)
EXTENDS DeleteTweet, TLAPS

(* What an attempt knows of the photos: one that is neither deleted nor    *)
(* failed is one it still waits for, and it goes on to the record only     *)
(* when there is none.                                                     *)
PhotosAccountedFor ==
    \A d \in Device :
        /\ stage[d] = "photos" => stored \ failed \subseteq open[d]
        /\ stage[d] = "record" => stored \subseteq failed
        /\ stage[d] # "photos" => open[d] = {}

DeleteInv == TypeOK /\ PhotosAccountedFor /\ OrphansOnlyFromErrors

(* Every step is taken by one device. *)
Step(d) ==
    \/ DeleteClicked(d) \/ Notify(d) \/ RecordRemoved(d) \/ RecordFails(d) \/ Relaunch(d)
    \/ \E p \in Photo : PhotoDeleted(d, p) \/ PhotoFails(d, p) \/ PhotoNotFound(d, p)

LEMMA NextIsStep == Next => \E d \in Device : Step(d)
  BY DEF Next, Step, Callback

-----------------------------------------------------------------------------
(* Type correctness *)

LEMMA TypeInductive == TypeOK /\ [Next]_vars => TypeOK'
<1> SUFFICES ASSUME TypeOK, [Next]_vars PROVE TypeOK'
  OBVIOUS
<1> USE DEF TypeOK, Stage
<1>1. CASE UNCHANGED vars
  BY <1>1 DEF vars
<1>2. ASSUME NEW d \in Device, DeleteClicked(d) PROVE TypeOK'
  BY <1>2 DEF DeleteClicked, FirstStage
<1>3. ASSUME NEW d \in Device, Notify(d) PROVE TypeOK'
  BY <1>3 DEF Notify
<1>4. ASSUME NEW d \in Device, RecordRemoved(d) \/ RecordFails(d) PROVE TypeOK'
  BY <1>4 DEF RecordRemoved, RecordFails, FinishDelete, RowAfter
<1>5. ASSUME NEW d \in Device, Relaunch(d) PROVE TypeOK'
  BY <1>5 DEF Relaunch
<1>6. ASSUME NEW d \in Device, NEW p \in Photo,
             PhotoDeleted(d, p) \/ PhotoFails(d, p) \/ PhotoNotFound(d, p)
      PROVE  TypeOK'
  BY <1>6 DEF PhotoDeleted, PhotoFails, PhotoNotFound, PhotoCallback, ErrorAfter
<1> QED
  BY <1>1, <1>2, <1>3, <1>4, <1>5, <1>6, NextIsStep DEF Step

-----------------------------------------------------------------------------
(* Orphans *)

LEMMA InitDeleteInv == Init => DeleteInv
  BY DEF Init, DeleteInv, TypeOK, Stage, PhotosAccountedFor, OrphansOnlyFromErrors

LEMMA PhotosInductive ==
    DeleteInv /\ [Next]_vars => PhotosAccountedFor' /\ OrphansOnlyFromErrors'
<1> SUFFICES ASSUME DeleteInv, [Next]_vars
             PROVE  PhotosAccountedFor' /\ OrphansOnlyFromErrors'
  OBVIOUS
<1> USE DEF DeleteInv, TypeOK, Stage, PhotosAccountedFor, OrphansOnlyFromErrors
<1>1. CASE UNCHANGED vars
  BY <1>1 DEF vars
<1>2. ASSUME NEW d \in Device, DeleteClicked(d)
      PROVE  PhotosAccountedFor' /\ OrphansOnlyFromErrors'
  BY <1>2 DEF DeleteClicked, FirstStage, Busy
<1>3. ASSUME NEW d \in Device, Notify(d)
      PROVE  PhotosAccountedFor' /\ OrphansOnlyFromErrors'
  BY <1>3 DEF Notify, MayNotify
<1>4. ASSUME NEW d \in Device, RecordRemoved(d) \/ RecordFails(d)
      PROVE  PhotosAccountedFor' /\ OrphansOnlyFromErrors'
  BY <1>4 DEF RecordRemoved, RecordFails, FinishDelete
<1>5. ASSUME NEW d \in Device, Relaunch(d)
      PROVE  PhotosAccountedFor' /\ OrphansOnlyFromErrors'
  BY <1>5 DEF Relaunch
<1>6. ASSUME NEW d \in Device, NEW p \in Photo,
             PhotoDeleted(d, p) \/ PhotoFails(d, p) \/ PhotoNotFound(d, p)
      PROVE  PhotosAccountedFor' /\ OrphansOnlyFromErrors'
  BY <1>6 DEF PhotoDeleted, PhotoFails, PhotoNotFound, PhotoCallback
<1> QED
  BY <1>1, <1>2, <1>3, <1>4, <1>5, <1>6, NextIsStep DEF Step

LEMMA DeleteInvariant == Spec => []DeleteInv
<1>1. DeleteInv /\ [Next]_vars => DeleteInv'
  BY TypeInductive, PhotosInductive DEF DeleteInv
<1> QED
  BY InitDeleteInv, <1>1, PTL DEF Spec

(* A photo outlives its tweet only after a deletion of that photo failed,  *)
(* whichever devices delete at the same time and are killed.               *)
THEOREM NoOrphanWithoutError == Spec => []OrphansOnlyFromErrors
<1>1. DeleteInv => OrphansOnlyFromErrors
  BY DEF DeleteInv
<1> QED
  BY DeleteInvariant, <1>1, PTL

(* No device's row goes before the tweet has gone. *)
THEOREM RowOutlivesTweet == Spec => []RowGoneMeansDeleted
<1>1. Init => RowGoneMeansDeleted
  BY DEF Init, RowGoneMeansDeleted
<1>2. RowGoneMeansDeleted /\ DeleteInv /\ [Next]_vars => RowGoneMeansDeleted'
  <2> SUFFICES ASSUME RowGoneMeansDeleted, DeleteInv, [Next]_vars PROVE RowGoneMeansDeleted'
    OBVIOUS
  <2> USE DEF RowGoneMeansDeleted, DeleteInv, TypeOK
  <2>1. CASE UNCHANGED vars
    BY <2>1 DEF vars
  <2>2. ASSUME NEW d \in Device, RecordRemoved(d) PROVE RowGoneMeansDeleted'
    BY <2>2 DEF RecordRemoved
  <2>3. ASSUME NEW d \in Device, RecordFails(d) PROVE RowGoneMeansDeleted'
    BY <2>3 DEF RecordFails, FinishDelete, RowAfter
  <2>4. ASSUME NEW d \in Device, Relaunch(d) PROVE RowGoneMeansDeleted'
    BY <2>4 DEF Relaunch
  <2>5. ASSUME NEW d \in Device, DeleteClicked(d) \/ Notify(d) PROVE RowGoneMeansDeleted'
    BY <2>5 DEF DeleteClicked, Notify
  <2>6. ASSUME NEW d \in Device, NEW p \in Photo,
               PhotoDeleted(d, p) \/ PhotoFails(d, p) \/ PhotoNotFound(d, p)
        PROVE  RowGoneMeansDeleted'
    BY <2>6 DEF PhotoDeleted, PhotoFails, PhotoNotFound, PhotoCallback
  <2> QED
    BY <2>1, <2>2, <2>3, <2>4, <2>5, <2>6, NextIsStep DEF Step
<1> QED
  BY <1>1, <1>2, DeleteInvariant, PTL DEF Spec

-----------------------------------------------------------------------------
(* The DispatchGroup *)

(* The stages of the groups, and what GroupStage is for a device's stage. *)
gstage == [d \in Device |-> GroupStage(d)]

StageOf(s, url) ==
    IF url = {} THEN "idle"
    ELSE IF s = "photos" THEN "waiting"
    ELSE IF s = "record" THEN "notified" ELSE "idle"

LEMMA GroupStageIs == TypeOK => gstage = [d \in Device |-> StageOf(stage[d], photoURL)]
  BY DEF TypeOK, Stage, gstage, GroupStage, StageOf

LEMMA GroupStageNext == TypeOK' => gstage' = [d \in Device |-> StageOf(stage'[d], photoURL')]
  BY DEF TypeOK, Stage, gstage, GroupStage, StageOf

(* A step of one device moves that device's group only. *)
LEMMA GroupMoves ==
    ASSUME NEW d \in Device, NEW s, NEW jobs, TypeOK, TypeOK', photoURL' = photoURL,
           stage' = [stage EXCEPT ![d] = s], open' = [open EXCEPT ![d] = jobs]
    PROVE  /\ gstage' = [gstage EXCEPT ![d] = StageOf(s, photoURL)]
           /\ gstage[d] = StageOf(stage[d], photoURL)
  BY GroupStageIs, GroupStageNext DEF TypeOK

LEMMA GroupsInit == Init => Groups!Init
<1> SUFFICES ASSUME Init PROVE Groups!Init
  OBVIOUS
<1>1. gstage = [d \in Device |-> "idle"]
  BY InitDeleteInv, GroupStageIs DEF Init, DeleteInv, StageOf
<1> QED
  BY <1>1 DEF Init, Groups!Init, gstage

LEMMA GroupsNext ==
    DeleteInv /\ DeleteInv' /\ [Next]_vars => [Groups!Next]_<<gstage, open>>
<1> SUFFICES ASSUME DeleteInv, DeleteInv', [Next]_vars
             PROVE  [Groups!Next]_<<gstage, open>>
  OBVIOUS
<1> DEFINE Moves(d, from, to) == gstage[d] = from /\ gstage' = [gstage EXCEPT ![d] = to]
           Opens(d, jobs) == open' = [open EXCEPT ![d] = jobs]
           Stutters == gstage' = gstage /\ open' = open
<1>1. TypeOK /\ TypeOK' /\ PhotosAccountedFor
  BY DEF DeleteInv
<1>2. CASE UNCHANGED vars
  BY <1>1, <1>2, GroupStageIs, GroupStageNext DEF vars
<1>3. ASSUME NEW d \in Device, DeleteClicked(d)
      PROVE  Stutters \/ (Moves(d, "idle", "waiting") /\ Opens(d, photoURL))
  <2>1. gstage[d] = "idle" /\ gstage' = [gstage EXCEPT ![d] = StageOf(FirstStage, photoURL)]
    BY <1>1, <1>3, GroupMoves DEF DeleteClicked, Busy, StageOf, TypeOK, Stage
  <2>2. CASE photoURL = {}
    <3>1. open' = open
      BY <1>1, <1>3, <2>2 DEF DeleteClicked, Busy, TypeOK, PhotosAccountedFor
    <3>2. gstage' = gstage
      BY <1>1, <2>1, <2>2, GroupStageIs DEF StageOf, FirstStage
    <3> QED
      BY <3>1, <3>2
  <2>3. CASE photoURL # {}
    BY <1>3, <2>1, <2>3 DEF DeleteClicked, StageOf, FirstStage
  <2> QED
    BY <2>2, <2>3
<1>4. ASSUME NEW d \in Device, NEW p \in Photo,
             PhotoDeleted(d, p) \/ PhotoFails(d, p) \/ PhotoNotFound(d, p)
      PROVE  Moves(d, "waiting", "waiting") /\ p \in open[d] /\ Opens(d, open[d] \ {p})
  <2>1. PhotoCallback(d, p, TRUE) \/ PhotoCallback(d, p, FALSE)
    BY <1>4 DEF PhotoDeleted, PhotoFails, PhotoNotFound
  <2>2. p \in open[d] /\ Opens(d, open[d] \ {p}) /\ UNCHANGED <<photoURL, stage>>
    BY <1>1, <2>1 DEF PhotoCallback, TypeOK
  <2>3. stage[d] = "photos" /\ photoURL # {} /\ stage' = [stage EXCEPT ![d] = "photos"]
    BY <1>1, <2>2 DEF TypeOK, PhotosAccountedFor
  <2> QED
    BY <1>1, <2>2, <2>3, GroupMoves DEF StageOf
<1>5. ASSUME NEW d \in Device, Notify(d)
      PROVE  \/ Moves(d, "waiting", "notified") /\ open[d] = {} /\ open' = open
             \/ Moves(d, "waiting", "idle") /\ Opens(d, {})
             \/ Stutters
  <2> DEFINE next == IF anError[d] THEN "idle" ELSE "record"
  <2>1. /\ stage[d] = "photos" /\ stage' = [stage EXCEPT ![d] = next]
        /\ open[d] = {} /\ open' = open /\ photoURL' = photoURL /\ Opens(d, {})
    BY <1>1, <1>5 DEF Notify, MayNotify, TypeOK
  <2>2. /\ gstage' = [gstage EXCEPT ![d] = StageOf(next, photoURL)]
        /\ gstage[d] = StageOf("photos", photoURL)
    BY <1>1, <2>1, GroupMoves
  <2>3. CASE photoURL = {}
    BY <1>1, <2>1, <2>2, <2>3, GroupStageIs DEF StageOf
  <2>4. CASE photoURL # {}
    BY <2>1, <2>2, <2>4 DEF StageOf
  <2> QED
    BY <2>3, <2>4
<1>6. ASSUME NEW d \in Device, RecordRemoved(d) \/ RecordFails(d) \/ Relaunch(d)
      PROVE  \/ Moves(d, "notified", "idle") /\ Opens(d, {})
             \/ Moves(d, "waiting", "idle") /\ Opens(d, {})
             \/ Stutters
  <2> DEFINE Empty == [open EXCEPT ![d] = {}]
  <2>a. stage[d] # "photos" => Empty = open
    BY <1>1 DEF TypeOK, PhotosAccountedFor
  <2>1. /\ stage' = [stage EXCEPT ![d] = "idle"] /\ photoURL' = photoURL
        /\ stage[d] # "photos" => open' = open
        /\ Opens(d, {})
    <3>1. CASE RecordRemoved(d) \/ RecordFails(d)
      BY <2>a, <3>1 DEF RecordRemoved, RecordFails, FinishDelete
    <3>2. CASE Relaunch(d)
      BY <2>a, <3>2 DEF Relaunch
    <3> QED
      BY <1>6, <3>1, <3>2
  <2>2. /\ gstage' = [gstage EXCEPT ![d] = "idle"]
        /\ gstage[d] = StageOf(stage[d], photoURL)
    BY <1>1, <2>1, GroupMoves DEF StageOf
  <2>3. CASE gstage[d] = "idle"
    <3>1. gstage' = gstage
      BY <1>1, <2>2, <2>3, GroupStageIs
    <3>2. open' = open
      BY <1>1, <2>1, <2>2, <2>3 DEF StageOf, TypeOK
    <3> QED
      BY <3>1, <3>2
  <2> QED
    BY <2>1, <2>2, <2>3 DEF StageOf
<1>7. ASSUME NEW d \in Device, Moves(d, "idle", "waiting"), Opens(d, photoURL)
      PROVE  Groups!Next
  BY <1>1, <1>7 DEF Groups!Next, Groups!Start, Groups!Step, gstage, TypeOK
<1>8. ASSUME NEW d \in Device, NEW p \in open[d],
             Moves(d, "waiting", "waiting"), Opens(d, open[d] \ {p})
      PROVE  Groups!Next
  BY <1>8 DEF Groups!Next, Groups!Leave, Groups!Step, gstage
<1>9. ASSUME NEW d \in Device, Moves(d, "waiting", "notified"), open[d] = {}, open' = open
      PROVE  Groups!Next
  BY <1>9 DEF Groups!Next, Groups!Notify, Groups!Step, gstage
<1>10. ASSUME NEW d \in Device, Opens(d, {}),
              Moves(d, "notified", "idle") \/ Moves(d, "waiting", "idle")
       PROVE  Groups!Next
  BY <1>10 DEF Groups!Next, Groups!Reset, Groups!Step, gstage
<1> HIDE DEF Moves, Opens
<1> QED
  BY <1>2, <1>3, <1>4, <1>5, <1>6, <1>7, <1>8, <1>9, <1>10, NextIsStep DEF Step

(* Each device's photo deletions implement the DispatchGroup's protocol. *)
THEOREM DeletionsFanOut == Spec => GroupProtocol
<1>1. [Groups!Next]_<<gstage, open>> => [Groups!Next]_<<[d \in Device |-> GroupStage(d)], open>>
  BY DEF gstage
<1> QED
  BY DeleteInvariant, GroupsInit, GroupsNext, <1>1, PTL DEF Spec, GroupProtocol, Groups!Spec
=============================================================================

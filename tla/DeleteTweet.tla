----------------------------- MODULE DeleteTweet -----------------------------
(***************************************************************************)
(* Deleting one tweet and its photos: HomeViewModel.delete and             *)
(* continueDeleteTweet, called by HomeViewController.delete, on every      *)
(* device that shows the tweet to its author.  The photos are deleted from *)
(* the storage first, all at once under a DispatchGroup, then the record   *)
(* from the database.  Every callback runs on its device's main thread.    *)
(***************************************************************************)
EXTENDS Naturals, FiniteSets

CONSTANTS
    Device,
    Photo,      \* the photos a tweet may have
    Kills       \* can the app be killed and launched again

ASSUME DeleteAssumption == Kills \in BOOLEAN /\ IsFiniteSet(Photo)

VARIABLES
    photoURL,   \* the tweet's photos; {} stands for none, and never changes
    record,     \* the tweet is in the database
    stored,     \* its photos in the storage
    stage,      \* per device: idle, photos, record
    open,       \* per device: photos whose deletion has not called back
    anError,    \* per device: the error the last callback left
    row,        \* per device: the tweet's row is shown
    failed      \* history: photos whose deletion failed while they were stored

vars == <<photoURL, record, stored, stage, open, anError, row, failed>>

Stage == {"idle", "photos", "record"}

(* activityView is shown from the click until the callback of delete.      *)
(* That a page completing meanwhile takes it away, so that the delete      *)
(* button of the same row can be pressed again, is left out: the second    *)
(* request of a tweet comes from another device here.                      *)
Busy(d) == stage[d] # "idle"

(* The photos are forgotten. *)
FirstStageRecord == "record"

FirstStage == IF photoURL = {} THEN "record" ELSE "photos"

DeleteClicked(d) ==
    /\ row[d] /\ ~Busy(d)
    /\ stage' = [stage EXCEPT ![d] = FirstStage]
    /\ open' = [open EXCEPT ![d] = photoURL]
    /\ anError' = [anError EXCEPT ![d] = FALSE]
    /\ UNCHANGED <<photoURL, record, stored, row, failed>>

(* The completion of deleteAttachment: anError is assigned, not collected. *)
ErrorAfter(d, error) == error

PhotoCallback(d, p, error) ==
    /\ p \in open[d]
    /\ anError' = [anError EXCEPT ![d] = ErrorAfter(d, error)]
    /\ open' = [open EXCEPT ![d] = @ \ {p}]
    /\ UNCHANGED <<photoURL, record, stage, row>>

PhotoDeleted(d, p) ==
    /\ p \in stored
    /\ PhotoCallback(d, p, FALSE)
    /\ stored' = stored \ {p}
    /\ UNCHANGED failed

PhotoFails(d, p) ==
    /\ p \in stored
    /\ PhotoCallback(d, p, TRUE)
    /\ failed' = failed \cup {p}
    /\ UNCHANGED stored

(* The storage reports objectNotFound for a photo that is gone. *)
PhotoNotFound(d, p) ==
    /\ p \notin stored
    /\ PhotoCallback(d, p, TRUE)
    /\ UNCHANGED <<stored, failed>>

(* The group is not waited for; an error is not reported. *)
MayNotifyAtOnce(d) == stage[d] = "photos"
MayNotifyOnSuccess(d) == stage[d] = "photos" /\ open[d] = {} /\ ~anError[d]

MayNotify(d) == stage[d] = "photos" /\ open[d] = {}

Notify(d) ==
    /\ MayNotify(d)
    /\ stage' = [stage EXCEPT ![d] = IF anError[d] THEN "idle" ELSE "record"]
    /\ UNCHANGED <<photoURL, record, stored, open, anError, row, failed>>

(* The row is removed whether or not the deletion succeeded. *)
RowAfterAny(d, removed) == FALSE

(* removeValue succeeds on a record that is gone already. *)
RowAfter(d, removed) == row[d] /\ ~removed

FinishDelete(d, removed) ==
    /\ stage[d] = "record"
    /\ stage' = [stage EXCEPT ![d] = "idle"]
    /\ row' = [row EXCEPT ![d] = RowAfter(d, removed)]
    /\ UNCHANGED <<photoURL, stored, open, anError, failed>>

RecordRemoved(d) == FinishDelete(d, TRUE) /\ record' = FALSE

RecordFails(d) == FinishDelete(d, FALSE) /\ UNCHANGED record

(* The app is killed, launched again and loads what the database holds;    *)
(* the deletions that were under way are lost.                             *)
Relaunch(d) ==
    /\ Kills
    /\ stage' = [stage EXCEPT ![d] = "idle"]
    /\ open' = [open EXCEPT ![d] = {}]
    /\ anError' = [anError EXCEPT ![d] = FALSE]
    /\ row' = [row EXCEPT ![d] = record]
    /\ UNCHANGED <<photoURL, record, stored, failed>>

Init ==
    /\ photoURL \in SUBSET Photo
    /\ record = TRUE /\ stored = photoURL /\ failed = {}
    /\ stage = [d \in Device |-> "idle"]
    /\ open = [d \in Device |-> {}]
    /\ anError = [d \in Device |-> FALSE]
    /\ row = [d \in Device |-> TRUE]

Callback(d) ==
    \/ \E p \in Photo : PhotoDeleted(d, p) \/ PhotoFails(d, p) \/ PhotoNotFound(d, p)
    \/ Notify(d) \/ RecordRemoved(d) \/ RecordFails(d)

Next == \E d \in Device : DeleteClicked(d) \/ Callback(d) \/ Relaunch(d)

Spec == Init /\ [][Next]_vars

-----------------------------------------------------------------------------
(* Every request calls back. *)
FairSpec == Spec /\ \A d \in Device : WF_vars(Callback(d))

(* An author who tries again whenever the tweet is still there, over a     *)
(* connection on which what is tried again and again succeeds once.        *)
PersistentSpec ==
    /\ FairSpec
    /\ \A d \in Device :
        /\ SF_vars(DeleteClicked(d))
        /\ SF_vars(RecordRemoved(d))
        /\ \A p \in Photo : SF_vars(PhotoDeleted(d, p))

-----------------------------------------------------------------------------
(* Properties *)

TypeOK ==
    /\ record \in BOOLEAN
    /\ photoURL \subseteq Photo /\ stored \subseteq photoURL /\ failed \subseteq photoURL
    /\ stage \in [Device -> Stage]
    /\ open \in [Device -> SUBSET photoURL]
    /\ anError \in [Device -> BOOLEAN]
    /\ row \in [Device -> BOOLEAN]

(* A photo outlives its tweet only if a deletion of that photo reported an *)
(* error: the record is not removed before every photo has called back,    *)
(* and no deletion is skipped, whichever devices delete at the same time.  *)
OrphansOnlyFromErrors == ~record => stored \subseteq failed

(* A row disappears only when the tweet is gone for everyone. *)
RowGoneMeansDeleted == \A d \in Device : ~row[d] => ~record

(* The photo deletions of each device are a DispatchGroup's fan-out; a     *)
(* tweet without photos is deleted without one.                            *)
GroupStage(d) ==
    CASE photoURL = {} \/ stage[d] = "idle" -> "idle"
      [] photoURL # {} /\ stage[d] = "photos" -> "waiting"
      [] photoURL # {} /\ stage[d] = "record" -> "notified"

Groups == INSTANCE FanOut WITH
    Group <- Device, Job <- Photo, stage <- [d \in Device |-> GroupStage(d)]

(* Each device's photo deletions keep to the DispatchGroup's protocol: an  *)
(* attempt goes on to the record only through the notify block, after the  *)
(* last of its callbacks.                                                  *)
GroupProtocol == Groups!Spec

(* An attempt comes to an end, in success or in an alert: the spinner it   *)
(* started does not stay.                                                  *)
AttemptEnds == \A d \in Device : Busy(d) ~> ~Busy(d)

(* The author of a tweet who keeps trying gets it deleted.                 *)
AuthorCanDelete == record ~> ~record
=============================================================================

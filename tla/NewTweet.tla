------------------------------ MODULE NewTweet ------------------------------
(***************************************************************************)
(* The compose screen: NewTweetViewController and NewTweetViewModel.       *)
(* addTweet uploads the photos, all at once under a DispatchGroup, and     *)
(* then posts the record.  A photo is named by its image; the object       *)
(* "<tweetID>_<index>" it is uploaded to, and that object's download URL,  *)
(* are named by the photo too.  A caption is its length.                   *)
(***************************************************************************)
EXTENDS Naturals, SequencesExt

CONSTANTS
    Photo,        \* the images the library offers
    Unencodable,  \* images for which cache_toData returns nil
    MaxItems,     \* config.library.maxNumberOfItems
    maxCharacter, \* Utils.maxCharacter
    MaxInsert,    \* the longest text typed or pasted at once
    UploadsFail,  \* may an upload fail
    PostFails,    \* may posting the record fail
    Nil           \* Swift's nil, no sequence of photos

ASSUME NewTweetAssumption ==
    /\ Unencodable \subseteq Photo /\ IsFiniteSet(Photo)
    /\ MaxItems \in Nat
    /\ maxCharacter \in Nat /\ maxCharacter >= 2
    /\ MaxInsert \in Nat \ {0}
    /\ UploadsFail \in BOOLEAN /\ PostFails \in BOOLEAN
    /\ Nil \notin Seq(Photo)

VARIABLES
    screen,       \* "compose", "picker" or "alert" over it, or "closed"
    asked,        \* the permission for the picker is being asked for
    caption,      \* the length of tweetModel.caption
    photos,       \* tweetModel.photos, a sequence or Nil
    gallery,      \* photoGalleryView.imageList
    tweetButton,  \* tweetButton.isEnabled
    busy,         \* activityView covers the screen
    stage,        \* of addTweet: "idle", "uploading", "posting"
    open,         \* uploads that have not left the group
    photoURL,     \* tweetModel.photoURL
    uploaded,     \* objects in the storage
    lost,         \* history: photos whose upload gave no URL
    record,       \* what the database got: a sequence of URLs, or Nil
    chosen,       \* history: the photos of the tweet when it was sent
    late          \* history: the picker was still to come when it was sent

sending == <<stage, open, photoURL, uploaded, lost, record, chosen, late>>

vars == <<screen, asked, caption, photos, gallery, tweetButton, busy, sending>>

Selections == {s \in BoundedSeq(Photo, MaxItems) : IsInjective(s)}

-----------------------------------------------------------------------------
(* Editing *)

ShouldEnableSendingTweet(length, images) == length > 0 \/ (images # Nil /\ images # <<>>)

CanTouch == screen = "compose" /\ ~busy

(* The limit is the caption's whole length. *)
ShouldReplaceUpToMax(n) == n = 0 \/ caption <= maxCharacter

(* placeholderTextViewShouldReplace looks at the text before the           *)
(* replacement, whatever is inserted; a single line break is refused too.  *)
ShouldReplace(n) == n = 0 \/ caption <= maxCharacter - 2

(* Some characters are replaced by n others. *)
DidChangeText ==
    /\ CanTouch
    /\ \E cut \in 0 .. caption, n \in 0 .. MaxInsert :
        /\ ShouldReplace(n)
        /\ caption' = caption - cut + n
    /\ tweetButton' = ShouldEnableSendingTweet(caption', photos)
    /\ UNCHANGED <<screen, asked, photos, gallery, busy, sending>>

ShowImagePicker ==
    /\ CanTouch
    /\ asked' = TRUE
    /\ UNCHANGED <<screen, caption, photos, gallery, tweetButton, busy, sending>>

(* The permission is answered later, possibly while the tweet is being     *)
(* sent, and nothing is shown over an alert.                               *)
PermissionAnswered ==
    /\ asked /\ screen # "closed"
    /\ asked' = FALSE
    /\ screen' \in IF screen = "compose" THEN {"picker", "alert"} ELSE {screen}
    /\ UNCHANGED <<caption, photos, gallery, tweetButton, busy, sending>>

AlertOK ==
    /\ screen = "alert"
    /\ screen' = "compose"
    /\ UNCHANGED <<asked, caption, photos, gallery, tweetButton, busy, sending>>

(* Cancelling calls didFinishPicking too, with no items: what was chosen   *)
(* before is replaced in either case.                                      *)
DidFinishPicking ==
    /\ screen = "picker"
    /\ screen' = "compose"
    /\ photos' \in Selections
    /\ gallery' = photos'
    /\ tweetButton' = ShouldEnableSendingTweet(caption, photos')
    /\ UNCHANGED <<asked, caption, busy, sending>>

(* The button is not brought up to date. *)
DidRemoveItemOnly(p) ==
    /\ photos' = RemoveFirst(photos, p)
    /\ UNCHANGED tweetButton

(* didRemoveItem looks the photo up again, with firstIndex(where:). *)
DidRemoveItem(p) ==
    /\ photos' = RemoveFirst(photos, p)
    /\ tweetButton' = ShouldEnableSendingTweet(caption, photos')

(* The gallery's delete button. *)
DeleteItem ==
    /\ CanTouch
    /\ \E i \in DOMAIN gallery :
        /\ DidRemoveItem(gallery[i])
        /\ gallery' = RemoveAt(gallery, i)
    /\ UNCHANGED <<screen, asked, caption, busy, sending>>

CancelButtonClicked ==
    /\ CanTouch
    /\ screen' = "closed"
    /\ UNCHANGED <<asked, caption, photos, gallery, tweetButton, busy, sending>>

-----------------------------------------------------------------------------
(* Sending *)

Images == IF photos = Nil THEN {} ELSE ToSet(photos)

TweetButtonClicked ==
    /\ CanTouch /\ tweetButton
    /\ busy' = TRUE
    /\ chosen' = Images
    /\ late' = asked
    /\ open' = Images
    /\ IF photos = Nil
       THEN stage' = "posting" /\ photoURL' = photoURL
       ELSE stage' = "uploading" /\ photoURL' = <<>>
    /\ UNCHANGED <<screen, asked, caption, photos, gallery, tweetButton, uploaded, lost, record>>

(* The group is left in the upload's completion, which an image without    *)
(* data never gets.                                                        *)
Uploading == open \ Unencodable

AppendURL(p, url) == IF url THEN Append(photoURL, p) ELSE photoURL

(* The completion of uploadAttachment, with or without a URL.  A missing   *)
(* one is not reported.                                                    *)
UploadCompletes(p, url) ==
    /\ p \in Uploading
    /\ open' = open \ {p}
    /\ photoURL' = AppendURL(p, url)
    /\ lost' = IF url THEN lost ELSE lost \cup {p}
    /\ UNCHANGED <<screen, asked, caption, photos, gallery, tweetButton, busy, stage, record,
                   chosen, late>>

UploadSucceeds(p) == UploadCompletes(p, TRUE) /\ uploaded' = uploaded \cup {p}

(* uploadImage asks for the download URL whether or not putData succeeded; *)
(* that request may fail for an object that was stored, too.               *)
UploadFails(p) ==
    /\ UploadsFail
    /\ UploadCompletes(p, FALSE)
    /\ uploaded' \in {uploaded, uploaded \cup {p}}

(* The group is not waited for; it is waited for every URL. *)
MayNotifyAtOnce == stage = "uploading"
MayNotifyAllURLs == stage = "uploading" /\ ToSet(photoURL) = chosen

MayNotify == stage = "uploading" /\ open = {}

Notify ==
    /\ MayNotify
    /\ stage' = "posting"
    /\ photos' = Nil
    /\ UNCHANGED <<screen, asked, caption, gallery, tweetButton, busy, open, photoURL, uploaded,
                   lost, record, chosen, late>>

(* dismiss(animated:) of a screen that presents another takes that one     *)
(* away, and itself only if there is none.                                 *)
ScreenAfterDismiss == IF screen = "compose" THEN "closed" ELSE "compose"

(* didFinishTweet only: the compose screen is not dismissed. *)
NoDismiss == UNCHANGED screen

Dismiss == screen' = ScreenAfterDismiss

(* didFinishTweet and dismiss. *)
PostSucceeds ==
    /\ stage = "posting"
    /\ stage' = "idle"
    /\ record' = photoURL
    /\ Dismiss
    /\ UNCHANGED <<asked, caption, photos, gallery, tweetButton, busy, open, photoURL, uploaded,
                   lost, chosen, late>>

(* The alert is shown; activityView is left over the screen. *)
BusyAfterError == busy

PostReportsError ==
    /\ PostFails
    /\ stage = "posting"
    /\ stage' = "idle"
    /\ busy' = BusyAfterError
    /\ screen' = IF screen = "compose" THEN "alert" ELSE screen
    /\ UNCHANGED <<asked, caption, photos, gallery, tweetButton, open, photoURL, uploaded, lost,
                   record, chosen, late>>

-----------------------------------------------------------------------------
Init ==
    /\ screen = "compose" /\ asked = FALSE /\ caption = 0 /\ photos = Nil /\ gallery = <<>>
    /\ tweetButton = FALSE /\ busy = FALSE /\ stage = "idle" /\ open = {}
    /\ photoURL = <<>> /\ uploaded = {} /\ lost = {} /\ record = Nil
    /\ chosen = {} /\ late = FALSE

Edit == \/ DidChangeText \/ ShowImagePicker \/ PermissionAnswered \/ AlertOK
        \/ DidFinishPicking \/ DeleteItem \/ CancelButtonClicked

Callback ==
    \/ \E p \in Photo : UploadSucceeds(p) \/ UploadFails(p)
    \/ Notify \/ PostSucceeds \/ PostReportsError

Next == Edit \/ TweetButtonClicked \/ Callback

Spec == Init /\ [][Next]_vars

(* Every upload and every post calls back. *)
FairSpec == Spec /\ WF_vars(Callback)

(* A user who keeps pressing Tweet, on a connection that works if tried    *)
(* again and again.                                                        *)
PersistentSpec ==
    /\ FairSpec
    /\ WF_vars(AlertOK) /\ WF_vars(DidFinishPicking)
    /\ SF_vars(TweetButtonClicked) /\ SF_vars(PostSucceeds)

-----------------------------------------------------------------------------
(* Properties *)

TypeOK ==
    /\ screen \in {"compose", "picker", "alert", "closed"}
    /\ asked \in BOOLEAN /\ late \in BOOLEAN
    /\ caption \in Nat /\ tweetButton \in BOOLEAN /\ busy \in BOOLEAN
    /\ photos \in Seq(Photo) \cup {Nil} /\ gallery \in Seq(Photo)
    /\ stage \in {"idle", "uploading", "posting"}
    /\ \A S \in {open, uploaded, lost, chosen} : S \subseteq Photo
    /\ photoURL \in Seq(Photo) /\ record \in Seq(Photo) \cup {Nil}

(* Whenever the user can press Tweet, the button and the gallery show what *)
(* would be sent: two handlers change the photos and three the button.     *)
ScreenShowsDraft ==
    CanTouch =>
        /\ gallery = (IF photos = Nil THEN <<>> ELSE photos)
        /\ tweetButton = ShouldEnableSendingTweet(caption, photos)

(* The record is written after the last upload called back: it links every *)
(* photo of the draft whose upload gave a URL, each once and in the        *)
(* storage, and never more photos than the picker allows.                  *)
RecordMatchesStorage ==
    record # Nil =>
        /\ ToSet(record) = chosen \ lost /\ ToSet(record) \subseteq uploaded
        /\ IsInjective(record)
        /\ Len(record) <= MaxItems

(* addTweet's uploads are a DispatchGroup's fan-out; a draft without       *)
(* photos has nothing to wait for.                                         *)
GroupStage ==
    CASE stage = "idle" -> "idle"
      [] stage = "uploading" -> "waiting"
      [] stage = "posting" -> "notified"

Groups == INSTANCE FanOut WITH
    Group <- {"addTweet"}, Job <- Photo,
    stage <- [g \in {"addTweet"} |-> IF chosen = {} THEN "idle" ELSE GroupStage],
    open <- [g \in {"addTweet"} |-> open]

(* The post waits for the uploads: it is reached through the notify block  *)
(* only, after every photo has left the group.                             *)
GroupProtocol == Groups!Spec

(* addTweet always calls back, provided every image could be encoded: an   *)
(* image without data enters the group and never leaves it.                *)
AddTweetCallsBack ==
    (stage # "idle" /\ chosen \cap Unencodable = {}) ~> stage = "idle"

(* A tweet that was sent is posted, at the latest when the user tries      *)
(* again.                                                                  *)
UserCanPost == stage # "idle" ~> record # Nil

(* shouldEnableSendingTweet refuses a tweet with neither text nor photo.   *)
(* One is posted all the same only when every photo it had was lost by its *)
(* upload, which addTweet does not report.                                 *)
EmptyOnlyFromErrors ==
    record = <<>> /\ caption = 0 => chosen # {} /\ chosen \subseteq lost

(* However characters are typed, pasted, replaced and deleted, the caption *)
(* exceeds maxCharacter by what one insertion may add to maxCharacter - 2, *)
(* so a caption that is typed never does.                                  *)
CaptionBounded == caption <= maxCharacter - 2 + MaxInsert

(* The compose screen closes with the tweet's post, unless a picker was    *)
(* asked for and not yet shown when the tweet was sent: then dismiss may   *)
(* take away the picker instead, and the covered screen stays.             *)
ClosesWithPost == record # Nil => screen = "closed" \/ late
=============================================================================

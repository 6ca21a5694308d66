--------------------------- MODULE NewTweetProofs ---------------------------
(***************************************************************************)
(* Theorems about NewTweet, for any photos, any number of items in the     *)
(* picker and any limit of the caption.                                    *)
(***************************************************************************)
EXTENDS NewTweet, FiniteSetTheorems, SequenceTheorems, TLAPS

-----------------------------------------------------------------------------
(* The inductive invariant *)

(* The picker offers a photo once. *)
PhotosDiffer == photos # Nil => IsInjective(photos) /\ Len(photos) <= MaxItems

(* Until the tweet is sent the screen shows the draft, and addTweet has    *)
(* done nothing.                                                           *)
NotSent ==
    /\ gallery = (IF photos = Nil THEN <<>> ELSE photos)
    /\ tweetButton = ShouldEnableSendingTweet(caption, photos)
    /\ stage = "idle" /\ open = {} /\ chosen = {} /\ lost = {}
    /\ photoURL = <<>> /\ record = Nil

(* Every photo that was chosen is waited for, lost or linked, and only one *)
(* of these.  The record is what was linked when nothing was waited for.   *)
PhotosAccountedFor ==
    /\ open \subseteq chosen /\ open \cap lost = {}
    /\ ToSet(photoURL) = chosen \ (open \cup lost) /\ ToSet(photoURL) \subseteq uploaded
    /\ IsInjective(photoURL)
    /\ Len(photoURL) + Cardinality(open) <= MaxItems
    /\ stage # "uploading" => open = {}
    /\ record # Nil => stage = "idle" /\ record = photoURL

(* A tweet without a picker to come is sent under the compose screen,      *)
(* which goes when the record is there.                                    *)
ScreenWaits ==
    ~late => /\ stage # "idle" => screen = "compose" /\ ~asked
             /\ record # Nil => screen = "closed"

Sent == (caption > 0 \/ chosen # {}) /\ PhotosAccountedFor /\ ScreenWaits

SendInv == TypeOK /\ PhotosDiffer /\ IF busy THEN Sent ELSE NotSent

-----------------------------------------------------------------------------
(* Sequences of photos *)

LEMMA RemoveAtElements ==
    ASSUME NEW s \in Seq(Photo), NEW i \in 1 .. Len(s)
    PROVE  /\ RemoveAt(s, i) \in Seq(Photo) /\ Len(RemoveAt(s, i)) = Len(s) - 1
           /\ \A j \in 1 .. Len(s) - 1 : RemoveAt(s, i)[j] = s[IF j < i THEN j ELSE j + 1]
<1> DEFINE a == SubSeq(s, 1, i - 1)
           b == SubSeq(s, i + 1, Len(s))
<1>1. a \in Seq(Photo) /\ Len(a) = i - 1 /\ \A j \in 1 .. i - 1 : a[j] = s[j]
  OBVIOUS
<1>2. b \in Seq(Photo) /\ Len(b) = Len(s) - i /\ \A j \in 1 .. Len(s) - i : b[j] = s[i + j]
  OBVIOUS
<1>3. RemoveAt(s, i) = a \o b
  BY DEF RemoveAt
<1> HIDE DEF a, b
<1>4. /\ a \o b \in Seq(Photo) /\ Len(a \o b) = Len(a) + Len(b)
      /\ \A j \in 1 .. Len(a) + Len(b) : (a \o b)[j] = IF j <= Len(a) THEN a[j] ELSE b[j - Len(a)]
  BY <1>1, <1>2, ConcatProperties
<1>5. Len(a) + Len(b) = Len(s) - 1
  BY <1>1, <1>2
<1>6. ASSUME NEW j \in 1 .. Len(s) - 1 PROVE (a \o b)[j] = s[IF j < i THEN j ELSE j + 1]
  <2>1. CASE j < i
    BY <1>1, <1>4, <1>5, <2>1
  <2>2. CASE ~(j < i)
    <3>1. j - Len(a) \in 1 .. Len(s) - i /\ i + (j - Len(a)) = j + 1
      BY <1>1, <2>2
    <3>2. (a \o b)[j] = b[j - Len(a)]
      BY <1>1, <1>4, <1>5, <2>2
    <3> QED
      BY <1>2, <2>2, <3>1, <3>2
  <2> QED
    BY <2>1, <2>2
<1> QED
  BY <1>3, <1>4, <1>5, <1>6

LEMMA RemoveAtInjective ==
    ASSUME NEW s \in Seq(Photo), IsInjective(s), NEW i \in 1 .. Len(s)
    PROVE  IsInjective(RemoveAt(s, i))
<1> DEFINE r == RemoveAt(s, i)
<1>1. /\ DOMAIN r = 1 .. Len(s) - 1
      /\ \A j \in 1 .. Len(s) - 1 : r[j] = s[IF j < i THEN j ELSE j + 1]
  BY RemoveAtElements
<1> HIDE DEF r
<1>2. \A j, k \in 1 .. Len(s) - 1 : r[j] = r[k] => j = k
  BY <1>1 DEF IsInjective
<1> QED
  BY <1>1, <1>2 DEF IsInjective, r

(* Looking a photo up finds the place it came from. *)
LEMMA RemoveFirstIsRemoveAt ==
    ASSUME NEW s \in Seq(Photo), IsInjective(s), NEW i \in 1 .. Len(s)
    PROVE  RemoveFirst(s, s[i]) = RemoveAt(s, i)
<1>1. {j \in 1 .. Len(s) : s[j] = s[i]} = {i}
  BY DEF IsInjective
<1>2. SelectInSeq(s, LAMBDA v : v = s[i]) = Min({i})
  BY <1>1 DEF SelectInSeq
<1>3. Min({i}) = i
  BY DEF Min
<1> QED
  BY <1>2, <1>3 DEF RemoveFirst

LEMMA AppendInjectiveSeq ==
    ASSUME NEW s \in Seq(Photo), IsInjective(s), NEW p \in Photo, p \notin ToSet(s)
    PROVE  /\ Append(s, p) \in Seq(Photo) /\ Len(Append(s, p)) = Len(s) + 1
           /\ IsInjective(Append(s, p)) /\ ToSet(Append(s, p)) = ToSet(s) \cup {p}
<1> DEFINE t == Append(s, p)
<1>1. /\ t \in Seq(Photo) /\ Len(t) = Len(s) + 1 /\ t[Len(s) + 1] = p
      /\ \A i \in 1 .. Len(s) : t[i] = s[i]
  BY AppendProperties
<1>2. DOMAIN t = 1 .. Len(s) + 1 /\ DOMAIN s = 1 .. Len(s) /\ Len(s) \in Nat
  BY <1>1
<1> HIDE DEF t
<1>3. \A i \in 1 .. Len(s) : t[i] # p
  BY <1>1, <1>2 DEF ToSet
<1>4. \A i, j \in 1 .. Len(s) + 1 : t[i] = t[j] => i = j
  BY <1>1, <1>2, <1>3 DEF IsInjective
<1>5. ToSet(t) = ToSet(s) \cup {p}
  BY <1>1, <1>2 DEF ToSet
<1> QED
  BY <1>1, <1>2, <1>4, <1>5 DEF IsInjective, t

(* No more photos than places. *)
LEMMA SeqCardinality ==
    ASSUME NEW s \in Seq(Photo)
    PROVE  IsFiniteSet(ToSet(s)) /\ Cardinality(ToSet(s)) <= Len(s)
<1>1. DOMAIN s = 1 .. Len(s) /\ Len(s) \in Nat
  OBVIOUS
<1>2. s \in Surjection(1 .. Len(s), ToSet(s))
  BY <1>1 DEF Surjection, ToSet
<1>3. IsFiniteSet(1 .. Len(s)) /\ Cardinality(1 .. Len(s)) = Len(s)
  BY <1>1, FS_Interval
<1> QED
  BY <1>2, <1>3, FS_Surjection

LEMMA SelectionsType ==
    ASSUME NEW s \in Selections
    PROVE  s \in Seq(Photo) /\ IsInjective(s) /\ Len(s) <= MaxItems /\ s # Nil
<1>1. PICK m \in 0 .. MaxItems : s \in [1 .. m -> Photo]
  BY DEF Selections, BoundedSeq, SeqOf
<1>2. m \in Nat /\ m <= MaxItems
  BY NewTweetAssumption
<1>3. s \in Seq(Photo) /\ Len(s) = m
  BY <1>1, <1>2
<1> QED
  BY <1>2, <1>3, NewTweetAssumption DEF Selections

-----------------------------------------------------------------------------
(* The invariant is inductive *)

LEMMA ButtonType ==
    ASSUME NEW n, NEW images
    PROVE  ShouldEnableSendingTweet(n, images) \in BOOLEAN
  BY DEF ShouldEnableSendingTweet

LEMMA InitSend == Init => SendInv
<1> SUFFICES ASSUME Init PROVE SendInv
  OBVIOUS
<1>1. TypeOK
  <2>1. photos \in Seq(Photo) \cup {Nil} /\ gallery \in Seq(Photo) /\ photoURL \in Seq(Photo)
    BY DEF Init
  <2>2. \A S \in {open, uploaded, lost, chosen} : S \subseteq Photo
    BY DEF Init
  <2> QED
    BY <2>1, <2>2 DEF Init, TypeOK
<1>2. tweetButton = ShouldEnableSendingTweet(caption, photos)
  <2>1. ~ShouldEnableSendingTweet(caption, photos)
    BY DEF Init, ShouldEnableSendingTweet
  <2> QED
    BY <2>1, ButtonType DEF Init
<1> QED
  BY <1>1, <1>2 DEF Init, SendInv, PhotosDiffer, NotSent

(* Steps that leave the draft and addTweet alone. *)
LEMMA ScreenStep ==
    ASSUME SendInv, UNCHANGED <<caption, photos, gallery, tweetButton, busy, sending>>,
           screen' \in {"compose", "picker", "alert", "closed"}, asked' \in BOOLEAN,
           busy => ScreenWaits'
    PROVE  SendInv'
<1>1. TypeOK' /\ PhotosDiffer'
  BY DEF SendInv, TypeOK, PhotosDiffer, sending
<1>2. CASE busy
  BY <1>1, <1>2 DEF SendInv, Sent, PhotosAccountedFor, sending
<1>3. CASE ~busy
  BY <1>1, <1>3 DEF SendInv, NotSent, sending
<1> QED
  BY <1>2, <1>3

(* Steps that change the draft before it is sent. *)
LEMMA DraftStep ==
    ASSUME SendInv, ~busy, UNCHANGED <<screen, asked, busy, sending>>, TypeOK', PhotosDiffer',
           gallery' = (IF photos' = Nil THEN <<>> ELSE photos'),
           tweetButton' = ShouldEnableSendingTweet(caption', photos')
    PROVE  SendInv'
  BY DEF SendInv, NotSent, sending

LEMMA SendInductive == SendInv /\ [Next]_vars => SendInv'
<1> SUFFICES ASSUME SendInv, [Next]_vars PROVE SendInv'
  OBVIOUS
<1>0. TypeOK /\ PhotosDiffer /\ (busy => Sent) /\ (~busy => NotSent)
  BY DEF SendInv
<1>1. CASE DidChangeText
  <2>1. ~busy /\ UNCHANGED <<screen, asked, photos, gallery, busy, sending>>
    BY <1>1 DEF DidChangeText, CanTouch
  <2>2. caption' \in Nat
    BY <1>0, <1>1, NewTweetAssumption DEF DidChangeText, TypeOK
  <2>3. tweetButton' = ShouldEnableSendingTweet(caption', photos')
    BY <1>1 DEF DidChangeText
  <2>4. tweetButton' \in BOOLEAN
    BY <2>3, ButtonType
  <2>5. TypeOK' /\ PhotosDiffer'
    BY <1>0, <2>1, <2>2, <2>4 DEF TypeOK, PhotosDiffer, sending
  <2> QED
    BY <1>0, <2>1, <2>3, <2>5, DraftStep DEF NotSent
<1>2. CASE ShowImagePicker
  BY <1>0, <1>2, ScreenStep DEF ShowImagePicker, CanTouch, TypeOK
<1>3. CASE PermissionAnswered
  <2>1. busy => ScreenWaits'
    BY <1>0, <1>3 DEF PermissionAnswered, Sent, ScreenWaits, sending
  <2> QED
    BY <1>0, <1>3, <2>1, ScreenStep DEF PermissionAnswered, TypeOK
<1>4. CASE AlertOK
  <2>1. busy => ScreenWaits'
    BY <1>0, <1>4 DEF AlertOK, Sent, ScreenWaits, sending
  <2> QED
    BY <1>0, <1>4, <2>1, ScreenStep DEF AlertOK, TypeOK
<1>5. CASE DidFinishPicking
  <2>1. /\ screen = "picker" /\ screen' = "compose" /\ gallery' = photos'
        /\ UNCHANGED <<asked, caption, busy, sending>>
    BY <1>5 DEF DidFinishPicking
  <2>2. photos' \in Seq(Photo) /\ photos' # Nil /\ PhotosDiffer'
    BY <1>5, SelectionsType DEF DidFinishPicking, PhotosDiffer
  <2>3. tweetButton' = ShouldEnableSendingTweet(caption', photos')
    BY <1>5 DEF DidFinishPicking
  <2>4. tweetButton' \in BOOLEAN
    BY <2>3, ButtonType
  <2>5. TypeOK'
    BY <1>0, <2>1, <2>2, <2>4 DEF TypeOK, sending
  <2>6. CASE busy
    <3>1. PhotosAccountedFor' /\ ScreenWaits'
      BY <1>0, <2>1, <2>6 DEF Sent, PhotosAccountedFor, ScreenWaits, sending
    <3> QED
      BY <1>0, <2>1, <2>2, <2>5, <2>6, <3>1 DEF SendInv, Sent, sending
  <2>7. CASE ~busy
    BY <1>0, <2>1, <2>2, <2>3, <2>5, <2>7 DEF SendInv, NotSent, sending
  <2> QED
    BY <2>6, <2>7
<1>6. CASE DeleteItem
  <2>1. ~busy /\ UNCHANGED <<screen, asked, caption, busy, sending>>
    BY <1>6 DEF DeleteItem, CanTouch
  <2>2. PICK i \in DOMAIN gallery : DidRemoveItem(gallery[i]) /\ gallery' = RemoveAt(gallery, i)
    BY <1>6 DEF DeleteItem
  <2>3. photos # Nil /\ gallery = photos /\ photos \in Seq(Photo) /\ i \in 1 .. Len(photos)
    BY <1>0, <2>1, <2>2 DEF NotSent, TypeOK
  <2>4. photos' = RemoveAt(photos, i) /\ gallery' = photos'
    BY <1>0, <2>2, <2>3, RemoveFirstIsRemoveAt DEF DidRemoveItem, PhotosDiffer
  <2>5. photos' \in Seq(Photo) /\ Len(photos') = Len(photos) - 1 /\ photos' # Nil
    BY <2>3, <2>4, RemoveAtElements, NewTweetAssumption
  <2>6. PhotosDiffer'
    <3>1. IsInjective(photos')
      BY <1>0, <2>3, <2>4, RemoveAtInjective DEF PhotosDiffer
    <3>2. Len(photos') <= MaxItems
      BY <1>0, <2>3, <2>5, NewTweetAssumption DEF PhotosDiffer
    <3> QED
      BY <3>1, <3>2 DEF PhotosDiffer
  <2>7. tweetButton' = ShouldEnableSendingTweet(caption', photos')
    BY <2>1, <2>2 DEF DidRemoveItem
  <2>8. tweetButton' \in BOOLEAN
    BY <2>7, ButtonType
  <2>9. TypeOK'
    BY <1>0, <2>1, <2>4, <2>5, <2>8 DEF TypeOK, sending
  <2> QED
    BY <2>1, <2>4, <2>5, <2>6, <2>7, <2>9, DraftStep
<1>7. CASE CancelButtonClicked
  BY <1>0, <1>7, ScreenStep DEF CancelButtonClicked, CanTouch, TypeOK
<1>8. CASE TweetButtonClicked
  <2>1. /\ screen = "compose" /\ ~busy /\ tweetButton /\ busy' = TRUE
        /\ chosen' = Images /\ open' = Images /\ late' = asked
        /\ UNCHANGED <<screen, asked, caption, photos, gallery, tweetButton, uploaded, lost, record>>
    BY <1>8 DEF TweetButtonClicked, CanTouch
  <2>2. NotSent
    BY <1>0, <2>1
  <2>3. photoURL' = <<>> /\ stage' \in {"posting", "uploading"} /\ (photos = Nil => stage' = "posting")
        /\ (photos # Nil => stage' = "uploading")
    BY <1>8, <2>2 DEF TweetButtonClicked, NotSent
  <2>4. Images \subseteq Photo /\ IsFiniteSet(Images) /\ Cardinality(Images) <= MaxItems
        /\ (photos = Nil => Images = {})
    <3>1. CASE photos = Nil
      BY <3>1, FS_EmptySet, NewTweetAssumption DEF Images
    <3>2. CASE photos # Nil
      <4>1. photos \in Seq(Photo) /\ Len(photos) <= MaxItems /\ Images = ToSet(photos)
        BY <1>0, <3>2 DEF TypeOK, PhotosDiffer, Images
      <4>2. IsFiniteSet(Images) /\ Cardinality(Images) <= Len(photos)
        BY <4>1, SeqCardinality
      <4>3. Cardinality(Images) \in Nat
        BY <4>2, FS_CardinalityType
      <4>4. Cardinality(Images) <= MaxItems
        BY <4>1, <4>2, <4>3, NewTweetAssumption
      <4>5. Images \subseteq Photo
        BY <4>1 DEF ToSet
      <4> QED
        BY <3>2, <4>2, <4>4, <4>5
    <3> QED
      BY <3>1, <3>2
  <2>5. TypeOK' /\ PhotosDiffer'
    BY <1>0, <2>1, <2>3, <2>4 DEF TypeOK, PhotosDiffer
  <2>6. caption > 0 \/ Images # {}
    <3>1. ShouldEnableSendingTweet(caption, photos)
      BY <2>1, <2>2 DEF NotSent
    <3>2. ASSUME photos # Nil, photos # <<>> PROVE Images # {}
      <4>1. photos \in Seq(Photo) /\ 1 \in DOMAIN photos
        BY <1>0, <3>2, EmptySeq DEF TypeOK
      <4> QED
        BY <3>2, <4>1 DEF Images, ToSet
    <3> QED
      BY <3>1, <3>2 DEF ShouldEnableSendingTweet
  <2>7. PhotosAccountedFor'
    <3>1. Cardinality(Images) \in Nat
      BY <2>4, FS_CardinalityType
    <3>2. Len(photoURL') + Cardinality(open') <= MaxItems
      BY <2>1, <2>3, <2>4, <3>1
    <3>3. ToSet(photoURL') = {} /\ IsInjective(photoURL')
      BY <2>3 DEF ToSet, IsInjective
    <3> QED
      BY <2>1, <2>2, <2>3, <2>4, <3>2, <3>3 DEF PhotosAccountedFor, NotSent
  <2>8. ScreenWaits'
    BY <1>0, <2>1, <2>2 DEF ScreenWaits, NotSent, TypeOK
  <2> QED
    BY <2>1, <2>5, <2>6, <2>7, <2>8 DEF SendInv, Sent
<1>9. ASSUME NEW p \in Photo, NEW url \in BOOLEAN, UploadCompletes(p, url),
             uploaded \subseteq uploaded', uploaded' \subseteq Photo, url => p \in uploaded'
      PROVE  SendInv'
  <2>1. /\ p \in open /\ open' = open \ {p} /\ photoURL' = AppendURL(p, url)
        /\ lost' = (IF url THEN lost ELSE lost \cup {p})
        /\ UNCHANGED <<screen, asked, caption, photos, gallery, tweetButton, busy, stage, record, chosen, late>>
    BY <1>9 DEF UploadCompletes, Uploading
  <2>2. busy /\ Sent /\ PhotosAccountedFor /\ stage = "uploading"
    BY <1>0, <2>1 DEF NotSent, Sent, PhotosAccountedFor
  <2>3. /\ open \subseteq Photo /\ chosen \subseteq Photo /\ lost \subseteq Photo
        /\ photoURL \in Seq(Photo) /\ IsInjective(photoURL) /\ Len(photoURL) \in Nat
    BY <1>0, <2>2 DEF TypeOK, PhotosAccountedFor
  <2>4. Cardinality(open') = Cardinality(open) - 1 /\ Cardinality(open) \in Nat
    <3>1. IsFiniteSet(open)
      BY <2>3, FS_Subset, NewTweetAssumption
    <3> QED
      BY <2>1, <3>1, FS_RemoveElement, FS_CardinalityType
  <2>5. CASE url
    <3>1. p \notin ToSet(photoURL) /\ photoURL' = Append(photoURL, p)
      BY <2>1, <2>2, <2>5 DEF PhotosAccountedFor, AppendURL
    <3>2. /\ photoURL' \in Seq(Photo) /\ Len(photoURL') = Len(photoURL) + 1
          /\ IsInjective(photoURL') /\ ToSet(photoURL') = ToSet(photoURL) \cup {p}
      BY <2>3, <3>1, AppendInjectiveSeq
    <3>3. Len(photoURL') + Cardinality(open') <= MaxItems
      BY <2>2, <2>3, <2>4, <3>2 DEF PhotosAccountedFor
    <3>4. TypeOK' /\ PhotosDiffer'
      BY <1>0, <1>9, <2>1, <2>3, <2>5, <3>2 DEF TypeOK, PhotosDiffer
    <3>5. ToSet(photoURL') = chosen' \ (open' \cup lost') /\ ToSet(photoURL') \subseteq uploaded'
      BY <1>9, <2>1, <2>2, <2>5, <3>2 DEF PhotosAccountedFor
    <3>6. PhotosAccountedFor'
      BY <2>1, <2>2, <2>5, <3>2, <3>3, <3>5 DEF PhotosAccountedFor
    <3> QED
      BY <2>1, <2>2, <3>4, <3>6 DEF SendInv, Sent, ScreenWaits
  <2>6. CASE ~url
    <3>1. photoURL' = photoURL /\ lost' = lost \cup {p}
      BY <2>1, <2>6 DEF AppendURL
    <3>2. Len(photoURL') + Cardinality(open') <= MaxItems
      BY <2>2, <2>3, <2>4, <3>1, NewTweetAssumption DEF PhotosAccountedFor
    <3>3. TypeOK' /\ PhotosDiffer'
      BY <1>0, <1>9, <2>1, <2>3, <3>1 DEF TypeOK, PhotosDiffer
    <3>4. ToSet(photoURL') = chosen' \ (open' \cup lost') /\ ToSet(photoURL') \subseteq uploaded'
      BY <1>9, <2>1, <2>2, <3>1 DEF PhotosAccountedFor
    <3>5. PhotosAccountedFor'
      BY <2>1, <2>2, <3>1, <3>2, <3>4 DEF PhotosAccountedFor
    <3> QED
      BY <2>1, <2>2, <3>3, <3>5 DEF SendInv, Sent, ScreenWaits
  <2> QED
    BY <2>5, <2>6
<1>10. ASSUME NEW p \in Photo, UploadSucceeds(p) \/ UploadFails(p) PROVE SendInv'
  <2>1. uploaded \subseteq uploaded' /\ uploaded' \subseteq Photo
    BY <1>0, <1>10 DEF UploadSucceeds, UploadFails, TypeOK
  <2>2. CASE UploadSucceeds(p)
    BY <1>9, <2>1, <2>2 DEF UploadSucceeds
  <2>3. CASE UploadFails(p)
    BY <1>9, <2>1, <2>3 DEF UploadFails
  <2> QED
    BY <1>10, <2>2, <2>3
<1>11. CASE Notify
  <2>1. /\ stage = "uploading" /\ open = {} /\ stage' = "posting" /\ photos' = Nil
        /\ UNCHANGED <<screen, asked, caption, gallery, tweetButton, busy, open, photoURL, uploaded,
                       lost, record, chosen, late>>
    BY <1>11 DEF Notify, MayNotify
  <2>2. busy /\ Sent
    BY <1>0, <2>1 DEF NotSent
  <2>3. TypeOK' /\ PhotosDiffer'
    BY <1>0, <2>1 DEF TypeOK, PhotosDiffer
  <2>4. PhotosAccountedFor' /\ ScreenWaits'
    BY <2>1, <2>2 DEF Sent, PhotosAccountedFor, ScreenWaits
  <2> QED
    BY <2>1, <2>2, <2>3, <2>4 DEF SendInv, Sent
<1>12. CASE PostSucceeds
  <2>1. /\ stage = "posting" /\ stage' = "idle" /\ record' = photoURL
        /\ screen' = (IF screen = "compose" THEN "closed" ELSE "compose")
        /\ UNCHANGED <<asked, caption, photos, gallery, tweetButton, busy, open, photoURL, uploaded,
                       lost, chosen, late>>
    BY <1>12 DEF PostSucceeds, Dismiss, ScreenAfterDismiss
  <2>2. busy /\ Sent
    BY <1>0, <2>1 DEF NotSent
  <2>3. TypeOK' /\ PhotosDiffer'
    BY <1>0, <2>1 DEF TypeOK, PhotosDiffer
  <2>4. PhotosAccountedFor' /\ ScreenWaits'
    BY <2>1, <2>2 DEF Sent, PhotosAccountedFor, ScreenWaits
  <2> QED
    BY <2>1, <2>2, <2>3, <2>4 DEF SendInv, Sent
<1>13. CASE PostReportsError
  <2>1. /\ stage = "posting" /\ stage' = "idle" /\ busy' = busy
        /\ screen' = (IF screen = "compose" THEN "alert" ELSE screen)
        /\ UNCHANGED <<asked, caption, photos, gallery, tweetButton, open, photoURL, uploaded, lost,
                       record, chosen, late>>
    BY <1>13 DEF PostReportsError, BusyAfterError
  <2>2. busy /\ Sent
    BY <1>0, <2>1 DEF NotSent
  <2>3. TypeOK' /\ PhotosDiffer'
    BY <1>0, <2>1 DEF TypeOK, PhotosDiffer
  <2>4. PhotosAccountedFor' /\ ScreenWaits'
    BY <2>1, <2>2 DEF Sent, PhotosAccountedFor, ScreenWaits
  <2> QED
    BY <2>1, <2>2, <2>3, <2>4 DEF SendInv, Sent
<1>14. CASE UNCHANGED vars
  <2>1. /\ UNCHANGED <<caption, photos, gallery, tweetButton, busy, sending>>
        /\ UNCHANGED <<screen, asked>>
    BY <1>14 DEF vars
  <2>2. busy => ScreenWaits'
    BY <1>0, <2>1 DEF Sent, ScreenWaits, sending
  <2> QED
    BY <1>0, <2>1, <2>2, ScreenStep DEF TypeOK
<1> QED
  BY <1>1, <1>2, <1>3, <1>4, <1>5, <1>6, <1>7, <1>8, <1>10, <1>11, <1>12, <1>13, <1>14
     DEF Next, Edit, Callback

LEMMA SendInvariant == Spec => []SendInv
  BY InitSend, SendInductive, PTL DEF Spec

-----------------------------------------------------------------------------
(* The theorems *)

(* Whenever the user can press Tweet, the gallery and the button show what *)
(* would be sent, over any editing with the picker and the gallery.        *)
THEOREM ScreenAlwaysShowsDraft == Spec => []ScreenShowsDraft
<1>1. SendInv => ScreenShowsDraft
  BY DEF SendInv, NotSent, CanTouch, ScreenShowsDraft
<1> QED
  BY <1>1, SendInvariant, PTL

(* The record links the photos of the draft that were not lost, each once  *)
(* and in the storage, in whatever order the uploads call back.            *)
THEOREM RecordLinksStorage == Spec => []RecordMatchesStorage
<1>1. ASSUME SendInv, record # Nil PROVE RecordMatchesStorage
  <2>1. PhotosAccountedFor /\ photoURL \in Seq(Photo) /\ open \subseteq Photo
    BY <1>1 DEF SendInv, NotSent, Sent, TypeOK
  <2>2. open = {} /\ record = photoURL /\ Len(photoURL) \in Nat
    BY <1>1, <2>1 DEF PhotosAccountedFor
  <2>3. Len(record) <= MaxItems
    BY <2>1, <2>2, FS_EmptySet DEF PhotosAccountedFor
  <2> QED
    BY <2>1, <2>2, <2>3 DEF PhotosAccountedFor, RecordMatchesStorage
<1>2. SendInv => RecordMatchesStorage
  BY <1>1 DEF RecordMatchesStorage
<1> QED
  BY <1>2, SendInvariant, PTL

(* A tweet with neither text nor photo is posted only when all the photos  *)
(* it was sent with were lost.                                             *)
THEOREM NoEmptyTweet == Spec => []EmptyOnlyFromErrors
<1>1. ASSUME SendInv, record = <<>>, caption = 0 PROVE chosen # {} /\ chosen \subseteq lost
  <2>0. <<>> \in Seq(Photo)
    OBVIOUS
  <2>1. record # Nil
    BY <1>1, <2>0, NewTweetAssumption
  <2>2. Sent /\ open = {} /\ photoURL = <<>>
    BY <1>1, <2>1 DEF SendInv, NotSent, Sent, PhotosAccountedFor
  <2>3. ToSet(photoURL) = {}
    BY <2>2 DEF ToSet
  <2> QED
    BY <1>1, <2>2, <2>3 DEF Sent, PhotosAccountedFor
<1>2. SendInv => EmptyOnlyFromErrors
  BY <1>1 DEF EmptyOnlyFromErrors
<1> QED
  BY <1>2, SendInvariant, PTL

(* The compose screen closes with its post, unless a picker was still to   *)
(* come when the tweet was sent.                                           *)
THEOREM PostCloses == Spec => []ClosesWithPost
<1>1. SendInv => ClosesWithPost
  BY DEF SendInv, NotSent, Sent, ScreenWaits, ClosesWithPost
<1> QED
  BY <1>1, SendInvariant, PTL

(* No sequence of replacements makes the caption longer than the limit     *)
(* lets one insertion make it.                                             *)
THEOREM CaptionStaysBounded == Spec => []CaptionBounded
<1>1. Init => CaptionBounded
  BY NewTweetAssumption DEF Init, CaptionBounded
<1>2. SendInv /\ CaptionBounded /\ [Next]_vars => CaptionBounded'
  <2> SUFFICES ASSUME SendInv, CaptionBounded, [Next]_vars PROVE CaptionBounded'
    OBVIOUS
  <2>1. caption \in Nat
    BY DEF SendInv, TypeOK
  <2>2. CASE DidChangeText
    <3>1. PICK cut \in 0 .. caption, n \in 0 .. MaxInsert :
            (n = 0 \/ caption <= maxCharacter - 2) /\ caption' = caption - cut + n
      BY <2>2 DEF DidChangeText, ShouldReplace
    <3>2. cut \in Nat /\ n \in Nat /\ n <= MaxInsert
      BY NewTweetAssumption
    <3> QED
      BY <2>1, <3>1, <3>2, NewTweetAssumption DEF CaptionBounded
  <2>3. CASE ~DidChangeText
    <3>1. caption' = caption
      BY <2>3 DEF Next, Edit, Callback, vars, ShowImagePicker, PermissionAnswered, AlertOK,
         DidFinishPicking, DeleteItem, CancelButtonClicked, TweetButtonClicked, UploadSucceeds,
         UploadFails, UploadCompletes, Notify, PostSucceeds, PostReportsError
    <3> QED
      BY <3>1 DEF CaptionBounded
  <2> QED
    BY <2>2, <2>3
<1> QED
  BY <1>1, <1>2, SendInvariant, PTL DEF Spec

-----------------------------------------------------------------------------
(* The DispatchGroup *)

Stage == {"idle", "uploading", "posting"}

(* What FanOut sees of a state. *)
StageOf(s, images) ==
    IF images = {} \/ s = "idle" THEN "idle"
    ELSE IF s = "uploading" THEN "waiting" ELSE "notified"

gstage == [g \in {"addTweet"} |-> IF chosen = {} THEN "idle" ELSE GroupStage]
gopen == [g \in {"addTweet"} |-> open]

LEMMA GroupStageIs ==
    stage \in Stage => gstage = [g \in {"addTweet"} |-> StageOf(stage, chosen)]
  BY DEF Stage, gstage, GroupStage, StageOf

LEMMA GroupStageNext ==
    stage' \in Stage => gstage' = [g \in {"addTweet"} |-> StageOf(stage', chosen')]
  BY DEF Stage, gstage, GroupStage, StageOf

LEMMA GroupsInit == Init => Groups!Init
<1> SUFFICES ASSUME Init PROVE Groups!Init
  OBVIOUS
<1>1. gstage = [g \in {"addTweet"} |-> "idle"]
  BY DEF Init, gstage
<1> QED
  BY <1>1 DEF Init, Groups!Init, gstage

(* Photos are waited for only while they are uploaded. *)
LEMMA GroupFacts ==
    ASSUME SendInv
    PROVE  /\ stage \in Stage /\ open \subseteq chosen /\ chosen \subseteq Photo
           /\ stage # "uploading" => open = {}
           /\ stage # "idle" => busy
  BY DEF SendInv, TypeOK, Stage, Sent, NotSent, PhotosAccountedFor

LEMMA GroupsNext ==
    SendInv /\ SendInv' /\ [Next]_vars => [Groups!Next]_<<gstage, gopen>>
<1> SUFFICES ASSUME SendInv, SendInv', [Next]_vars
             PROVE  [Groups!Next]_<<gstage, gopen>>
  OBVIOUS
<1> DEFINE g == "addTweet"
           Moves(from, to) == gstage[g] = from /\ gstage' = [gstage EXCEPT ![g] = to]
           Opens(jobs) == gopen' = [gopen EXCEPT ![g] = jobs]
           Stutters == gstage' = gstage /\ gopen' = gopen
<1>1. /\ stage \in Stage /\ open \subseteq chosen /\ chosen \subseteq Photo
      /\ stage # "uploading" => open = {}
      /\ stage # "idle" => busy
  BY GroupFacts
<1>2. stage' \in Stage
  BY DEF SendInv, TypeOK, Stage
<1>3. /\ gstage = [h \in {g} |-> StageOf(stage, chosen)]
      /\ gstage' = [h \in {g} |-> StageOf(stage', chosen')]
      /\ gopen = [h \in {g} |-> open] /\ gopen' = [h \in {g} |-> open']
  BY <1>1, <1>2, GroupStageIs, GroupStageNext DEF gopen
<1>4. ASSUME NEW from, NEW to, StageOf(stage, chosen) = from, StageOf(stage', chosen') = to
      PROVE  Moves(from, to) /\ Opens(open')
  BY <1>3, <1>4
<1>5. ASSUME UNCHANGED <<stage, chosen, open>> PROVE Stutters
  BY <1>3, <1>5
<1>6. CASE Edit \/ UNCHANGED vars
  <2>1. UNCHANGED <<stage, chosen, open>>
    BY <1>6 DEF Edit, DidChangeText, ShowImagePicker, PermissionAnswered, AlertOK,
       DidFinishPicking, DeleteItem, CancelButtonClicked, vars, sending
  <2> QED
    BY <1>5, <2>1
<1>7. CASE TweetButtonClicked
  <2>1. /\ stage = "idle" /\ chosen = {} /\ open = {}
        /\ chosen' = Images /\ open' = Images
        /\ photos = Nil => Images = {} /\ stage' = "posting"
        /\ photos # Nil => stage' = "uploading"
    BY <1>7 DEF TweetButtonClicked, CanTouch, SendInv, NotSent, Images
  <2>2. CASE Images = {}
    <3>1. StageOf(stage', chosen') = "idle" /\ StageOf(stage, chosen) = "idle" /\ open' = open
      BY <2>1, <2>2 DEF StageOf
    <3>2. Stutters
      BY <1>3, <3>1
    <3> QED
      BY <3>2
  <2>3. CASE Images # {}
    <3>1. StageOf(stage, chosen) = "idle" /\ StageOf(stage', chosen') = "waiting"
      BY <2>1, <2>3 DEF StageOf
    <3>2. Moves("idle", "waiting") /\ Opens(open') /\ open' \in SUBSET Photo
      BY <1>4, <3>1 DEF SendInv, TypeOK
    <3>3. Groups!Start(g)
      BY <3>2 DEF Groups!Start, Groups!Step, gstage, gopen
    <3> QED
      BY <3>3 DEF Groups!Next
  <2> QED
    BY <2>2, <2>3
<1>8. ASSUME NEW p \in Photo, UploadSucceeds(p) \/ UploadFails(p)
      PROVE  [Groups!Next]_<<gstage, gopen>>
  <2>1. p \in open /\ open' = open \ {p} /\ UNCHANGED <<stage, chosen>>
    BY <1>8 DEF UploadSucceeds, UploadFails, UploadCompletes, Uploading
  <2>2. StageOf(stage, chosen) = "waiting" /\ StageOf(stage', chosen') = "waiting"
    BY <1>1, <2>1 DEF StageOf
  <2>3. Moves("waiting", "waiting") /\ p \in gopen[g] /\ Opens(gopen[g] \ {p})
    BY <1>3, <1>4, <2>1, <2>2
  <2>4. Groups!Leave(g)
    BY <2>3 DEF Groups!Leave, Groups!Step, gstage, gopen
  <2> QED
    BY <2>4 DEF Groups!Next
<1>9. CASE Notify
  <2>1. /\ stage = "uploading" /\ stage' = "posting" /\ open = {}
        /\ UNCHANGED <<open, chosen>>
    BY <1>9 DEF Notify, MayNotify
  <2>2. CASE chosen = {}
    <3>1. StageOf(stage', chosen') = StageOf(stage, chosen)
      BY <2>1, <2>2 DEF StageOf
    <3>2. Stutters
      BY <1>3, <2>1, <3>1
    <3> QED
      BY <3>2
  <2>3. CASE chosen # {}
    <3>1. StageOf(stage, chosen) = "waiting" /\ StageOf(stage', chosen') = "notified"
      BY <2>1, <2>3 DEF StageOf
    <3>2. Moves("waiting", "notified") /\ gopen[g] = {} /\ gopen' = gopen
      BY <1>3, <1>4, <2>1, <3>1
    <3>3. Groups!Notify(g)
      BY <3>2 DEF Groups!Notify, Groups!Step, gstage, gopen
    <3> QED
      BY <3>3 DEF Groups!Next
  <2> QED
    BY <2>2, <2>3
<1>10. CASE PostSucceeds \/ PostReportsError
  <2>1. /\ stage = "posting" /\ stage' = "idle" /\ open = {}
        /\ UNCHANGED <<open, chosen>>
    BY <1>1, <1>10 DEF PostSucceeds, PostReportsError
  <2>2. CASE chosen = {}
    <3>1. StageOf(stage', chosen') = StageOf(stage, chosen)
      BY <2>1, <2>2 DEF StageOf
    <3>2. Stutters
      BY <1>3, <2>1, <3>1
    <3> QED
      BY <3>2
  <2>3. CASE chosen # {}
    <3>1. StageOf(stage, chosen) = "notified" /\ StageOf(stage', chosen') = "idle"
      BY <2>1, <2>3 DEF StageOf
    <3>2. Moves("notified", "idle") /\ Opens({})
      BY <1>4, <2>1, <3>1
    <3>3. Groups!Reset(g)
      BY <3>2 DEF Groups!Reset, Groups!Step, gstage, gopen
    <3> QED
      BY <3>3 DEF Groups!Next
  <2> QED
    BY <2>2, <2>3
<1> QED
  BY <1>6, <1>7, <1>8, <1>9, <1>10 DEF Next, Callback

(* The uploads implement the DispatchGroup's protocol: addTweet posts only *)
(* after the last of them has called back.                                 *)
THEOREM UploadsFanOut == Spec => GroupProtocol
<1>1. [Groups!Next]_<<gstage, gopen>> =>
      [Groups!Next]_<<[g \in {"addTweet"} |-> IF chosen = {} THEN "idle" ELSE GroupStage],
                      [g \in {"addTweet"} |-> open]>>
  BY DEF gstage, gopen
<1> QED
  BY SendInvariant, GroupsInit, GroupsNext, <1>1, PTL DEF Spec, GroupProtocol, Groups!Spec
=============================================================================

# TLA+ models of Twitter-Lite

Twitter-Lite is an iOS client written in Swift (MVVM) over Firebase Auth, the
Firebase Realtime Database and Firebase Storage.  There is no server code: what
the program promises is kept by the app's view controllers and view models and
by the order in which Firebase's callbacks reach them.  These modules model
that code, check it with TLC on small instances, and prove part of it with
TLAPS for all instances.  Paths below are relative to
`src/TwitterLite/TwitterLite/`.

## Inventory

| Part | State | Operations | Interacts with |
|---|---|---|---|
| Home (`Modules/Home`) | `tweetList`, `lastCreatedDateTimeStamp`, table rows, `activityView`, `refreshControl`, `newTweetButton` | page, refresh, delete, compose, sign out | database queries, login and compose delegates |
| Deleting (`HomeViewModel.delete`) | `anError`, a `DispatchGroup` | photos, then record, then row | storage, database, other devices |
| Compose (`Modules/New Tweet`) | `tweetModel`, gallery list, button, spinner | edit, pick, remove, send, cancel | storage, database, `didFinishTweet` |
| Session (`Modules/Login Screen`, `FirebaseAuthenticationManager`, `GoogleSignInManager`) | `currentUser`, `loggedInUser`, forms | sign up, sign in, Google, sign out | Auth, `Users/`, `loginDidComplete` |
| Database access (`Common/Models/Nework`) | none | query once, post, delete, upload, delete image | all of the above |
| Connectivity (`ReachabilityManager`, `BaseViewController`, `SceneDelegate`, the Reachability pod) | flags, status, observers, listeners, banners | start/stop, add/remove, notify | every screen, foreground and background |
| Forms (`SigninViewController`, `CreateAccountViewController`, keyboard of `BaseViewController`, validation in the view models) | `userModel`, field texts, focus, `isExpanded`, picker, `activityView` | type, return, submit, pick a picture, validate | the managers' attempts, which share the form's model |
| Views, extensions | none of the program's | layout, conversion | |
| `Pods/` | third party | | |

All of the app's code runs on the main thread, so a handler or a completion
block is one step of a model.  What is hard is what happens between them:
requests overlap and their callbacks run in any order; state is read when a
callback runs that was different when the request was sent; a step of several
fails; a sheet is dismissed, the app killed, another device acts meanwhile; one
spinner that nobody counts guards the screen.  `PROJECT.json` lists these
hazards with the line where each bites and the property that is about it.

## Modules

### Timeline (`MCTimeline`, `TimelineProofs`, `TimelineWindowProofs`, `TimelineOrderProofs`)

`HomeViewModel` and `HomeViewController`.  A tweet is its `createdTimeStamp`.
A request is a record in one of the `Slot`s: it is sent (`Send`), evaluated by
the database (`AnswerPage`, `AnswerLatest`, `AnswerDelete`) and completed
(`CompletePage`, `CompleteLatest`, `CompleteDelete`), three separate steps with
anything in between; the author lookup of `fetchUserDetails` is part of the
delay before the completion.  `DropPageAnchor` and `DropLatestAnchor` are the
positional cuts (`removeFirst`, `removeLast`); the first one looks at the cursor
*at completion*, as the code does.  `rows` is what the table view was told by
`insertRows`, `deleteRows` and `reloadData`; it is kept apart from `tweetList`
because UIKit raises an exception when they disagree.  `busy` is `activityView`,
a subview that covers the whole screen: nothing can be touched under it, but
layout goes on (`WillDisplay`).  A failed delete answers `{}`; a query that
matches nothing fails to decode and is reported as an error, which the
completions treat as no tweets.

`overlap` is a history variable: two requests of one kind were in flight
together.  Bounds: `Slot` (requests in flight), `MaxRows` (with that many rows no
request joins another of its kind: overlapping pages repeat rows, so lists would
grow without limit), `MaxDetails`.  Deleting is one request here; its inside is
DeleteTweet.  Composing is reduced to the tweet reaching the database; its inside
is NewTweet.  One user's tweets (`Own`) have a delete button: changes of user are
in Session.

### DeleteTweet and NewTweet (`FanOut`, `DeleteTweetProofs`, `NewTweetProofs`)

`HomeViewModel.delete` and `NewTweetViewModel.addTweet` both start one request
per photo under a `DispatchGroup` and go on in its `notify` block.  `FanOut` is
the abstract specification of such a group (jobs enter, each leaves once, the
block runs once after the last), and both modules are checked to implement it
(`GroupProtocol`) under a mapping of their stages.

DeleteTweet has several devices of one author, photos that disappear under each
other's feet, kills at any point, and the `anError` variable that every callback
overwrites.  `failed` is a history variable.

NewTweet has the draft kept three times (model, gallery, button), the picker that
replaces the photos even when cancelled, uploads that fail unreported (`lost`
records them; an object may have been stored although its URL could not be
fetched), an image that cannot be encoded and so never leaves the group, and the
spinner.  The caption is its length: a replacement cuts some characters and
inserts up to `MaxInsert`, if `placeholderTextViewShouldReplace` lets it.  The
permission for the picker is asked for in one step and answered in another
(`PermissionAnswered`), so the picker can come up over a tweet that is being sent;
`dismiss` of a screen that presents another takes the other away
(`ScreenAfterDismiss`).

### Session (`SessionRows`, `MCSession`, `SessionProofs`)

The login screen, its two sheets and Google's button, as *attempts* of several
steps: authenticate, then fetch the record (sign in), or upload the picture and
write the record (sign up, Google).  A sheet that is swiped away stops listening
(`[weak self]`) but its attempt goes on, since the managers are structs, so two
attempts can be under way.  A sheet may also begin a second attempt during one:
nothing in `signinButtonClicked` or `createAccountClicked` prevents it, and a swipe
let go brings the keyboard's Return key back under the spinner (LoginForm).
Attempts of one sheet share its `UserModel`, a *form* here: the `userID` that one
sign-up sets, `Authenticated` sets for all who hold the form, the one whose picture
is stored next takes it away (`PictureUploaded`) and writes its record under it, and
the other finds it gone.  The form's model is also what becomes `loggedInUser`, so an
attempt that is left can change it in Home's hands.  `abandoned` and `doubled` are
history variables: a sheet was swiped away during an attempt; the users of attempts
that shared a form.  `loggedInUser` is modelled as the record's owner and
the `userID` filled in from `currentUser` *when the answer arrives*, which need
not be the same user; a sign-up hands back a model without `userID`.  The
requests for the user's details are answered in the order they were sent, as
they go over one connection.  Home's spinner is left out: it is more permissive
than the code in when the user may sign out.  Any user may type an address and a
password, those with a Google account included.  Bounds: `Slot`, `Form`,
`MaxDetails`, and `Mixed`, which says whether one behaviour may have both sheets
swiped away during attempts and second attempts of a sheet.

SessionRows extends it with one row of Home's table: `loadData` decides from
`loggedInUser.userID` at the time of display whether the row has a delete button.

### LoginForm (`LoginFormProofs`)

One of the two login forms.  What Session takes as one step, filling in and
submitting a form, is spelled out here: the fields and `userModel` are kept apart
(`text`, `model`), validation is a sequence of guards (`Guards`) of which the
first that fails is reported (`Throws`), the Return key moves on or submits, the keyboard
comes in several heights and `isExpanded` decides whether the content follows.
The attempt is handed the form's own `UserModel` (a class): it sets `userID`,
reads the fields when it writes the record, and clears `userID` and `password`.
The spinner covers the form but not the keyboard, so `view.endEditing` is what
keeps the Return key away during an attempt; `Appear` (a swipe let go, the camera
closed) gives it back.  `returned` is a history variable.

### Connectivity (`ConnectivityProofs`)

`ReachabilityManager` on top of the vendored `Reachability.swift`, which is
modelled because its two queues are where things go wrong: the system calls back
on a serial queue (`signal`), which stores the flags and, if they changed, queues
a block on the main queue (`posts`); the manager reads the flags when that block
runs.  Screens listen from `viewWillAppear` to `viewWillDisappear`; `view` counts
the banners in each screen's view and whether one is still held by
`networkStatusView`.  `told`, `missed`, `lost` and `calm` are history variables.

## Runs

| Run | Shows |
|---|---|
| `timeline` | `TableConsistent`, `OneTriggerRow`, `FirstPageAlone`, `NoGap`, `ExactWindow`, `LossOnlyBesideDeletion`, `DeletedStaysGone` with three requests in flight, arrivals and deletions |
| `timeline_live` | `SpinnerStops`, `RefreshEnds`; `ReachesOldest`, `OwnPostAdded` for a user who scrolls and pulls, with pages that move the cursor back |
| `timeline_first_post` | *violated*: `OwnPostShown` on an empty timeline |
| `delete_tweet` | `OrphansOnlyFromErrors`, `RowGoneMeansDeleted`, `GroupProtocol`, `AttemptEnds`: two devices, kills |
| `delete_retry` | *violated*: `AuthorCanDelete` |
| `new_tweet` | `ScreenShowsDraft`, `RecordMatchesStorage`, `EmptyOnlyFromErrors`, `CaptionBounded`, `ClosesWithPost`, `GroupProtocol`, `AddTweetCallsBack` |
| `new_tweet_error` | *violated*: `UserCanPost` |
| `session` | `HomeMeansSignedIn`, `OneIdentity`, `NoForeignTweet`, `PartialOnlyFromErrors`, `DeleteIsTheAuthors`, `SpinnerHasAttempt`: sheets swiped away and submitted again during attempts, kills, failing steps |
| `session_sign_up` | *violated*: `UserCanSignUp` |
| `session_author` | *violated*: `TweetsAreOwned` |
| `connectivity` | `StatusCurrent`, `HeldBannerCurrent`, `BannersTruthful`, `StatusCatchesUp` |
| `login_form` | `ModelIsShown`, `AlertTruthful`, `OneAttempt`, `RecordMatchesAccount`, `ContentFits`, `FormSpinnerStops` |

The violated properties state what the repository's README lists as features
(`README.md:9-12`); `PROJECT.json` quotes the line and names the code.

- **First post.** `fetchLatestTweets` starts from the newest row and gives up
  without one; with no row displayed no page is fetched either.
- **Half-deleted tweet.** Photos go first.  If the attempt then fails, a retry
  asks for photos that are gone, is told so, and never reaches the record.
- **Failed post.** The alert is shown under an `activityView` that is never
  stopped: neither Tweet nor Cancel can be touched again.
- **Half-made account.** If the picture or the record fails after `createUser`,
  the address is taken and the sign-in finds no record.
- **Tweet without author.** `continueAddUpdate` clears the `userID` of the
  object that becomes `loggedInUser`; in a second session of a launch the button
  for a new tweet is still visible, so a tweet can be posted with an empty uid.

Other behaviour that a reader may not expect is not contradicted by any document
of the repository; there the property says exactly when it happens, and the model
reaches it:

- a tweet with neither text nor photo is posted when every upload failed
  (`EmptyOnlyFromErrors`);
- a pasted text may exceed the 280 characters (`CaptionBounded`);
- a picker whose permission is answered during the post is dismissed instead of
  the compose screen, which stays covered (`ClosesWithPost`);
- a notification posted while the app is in the background is lost for good, and
  the status stays wrong until the network changes again (`StatusCurrent`);
- banners pile up when two notifications in a row find the network unreachable,
  and only the last can be removed (`BannersTruthful`, `HeldBannerCurrent`);
- a form that appears again during its attempt can start a second one on the same
  model (`OneAttempt`).  If they are for two users, Home may open for one and Auth
  then switch to the other, drafts and delete buttons may be the wrong user's, and
  the record of one account may be written under the other's uid: `OneIdentity`,
  `NoForeignTweet` and `DeleteIsTheAuthors` except such sessions
  (`OneAttemptAtATime`), `PartialOnlyFromErrors` the users concerned, and TLC
  violates each of the four when the exception is taken
  out.  After a sign-up that failed late the password shown is
  no longer in the model, so that the user is asked for it (`AlertTruthful`);
- rows keep the delete button of the user who was signed in when they were
  displayed (`DeleteIsTheAuthors`), and an answer given before a deletion can bring
  the deleted tweet's row back (`DeletedStaysGone`).

*Bounds.*  A page of two tweets already has a middle row, a full and a partial
page.  Three tweets at first and two arrivals give a second, shorter page, a
refresh that returns one and one that returns two tweets, and a cut that hits a
genuine tweet on either side.  The cursor moves back when two pages are asked for
at one cursor and a third, older one completes between them, which takes five
tweets: `timeline_live` has five, the newest posted on the way, and two of them
the user's, so that the first page's rows can all be deleted.  Three slots hold a page, a refresh and a delete,
or three requests of which two are of one kind.  Two photos and two devices are
the least with a partial failure and a race; NewTweet has four photos of which
three can be chosen at once, one of them not encodable, and captions around a
limit of 4 in insertions of up to 2.  Two users and two attempts let one attempt finish inside
another's steps; two forms are a sheet's and that of a sheet before, and the attempts of one form can
be for different users.  `Mixed` is FALSE in `session`; with TRUE the run takes 14.8
million states instead of 4.2 and shows the same, and the proofs are for both.  One
row is enough, since rows do not interact.  Connectivity has
three changes among four sets of flags (unreachable, reachable only on demand,
WiFi, cellular), so that the network can flicker, change in the background and
back, and a monitor that starts at the second try.  LoginForm has two attempts,
two keyboard heights, one reappearance and two classes of text per field.  Slots are interchangeable and used as a symmetry set where no
liveness is checked.

*Fairness.*  Connectivity assumes that the two queues are served.  `FairSpec` of
the other modules (`Spec` of LoginForm) assumes that requests are answered and
completions run: Firebase queues requests while offline and calls back once
connected, and the main queue is served.  `DidFinishTweet` is strongly fair
because only the model's bound on slots can delay it.  Nothing is assumed of the
user except in `Attentive` (scrolls, pulls, comes back to Home), which is a
hypothesis of `ReachesOldest` and `OwnPostAdded`, and in the
`PersistentSpec`s of the violated properties, which give the user every chance:
they keep trying, and whatever is tried for ever succeeds once.

Deadlock is checked, except in NewTweet, where a closed compose screen is the
end, in LoginForm, where the form is gone after a login, and in `delete_retry`, where the deleted tweet is.

## Proofs

For every set of tweets, initial database, number of requests in flight and
every even page size (`TimelineAssumption`; the code has 10 and 20):

- `TypeCorrect`: `Spec => []TypeOK`.
- `TableNeverInconsistent`: `Spec => []TableConsistent`, and `FirstPageIsAlone`:
  `Spec => []FirstPageAlone`.  Neither is inductive.  The first page reloads the
  table rather than inserting rows, which is right only if there were no rows
  before; that follows from there being no cursor, which follows from the spinner
  keeping everyone away until the first page is in.  `ScreenInv` is the
  conjunction of `TypeOK`, `TableConsistent`, `NothingBeforeFirstPage` (no
  cursor: no rows, only requests for the first page) and `FirstPageHoldsScreen`
  (such a request: the spinner is shown, the user on Home, no other page).
- `AlwaysOneTriggerRow`: `Spec => []OneTriggerRow`, from `TableConsistent` and
  arithmetic on whole pages (`TriggerRow`): the two cases of `shouldFetchData`
  cover every length and never two rows.
- `LostOnlyBesideDeleted`: `Spec => []LossOnlyBesideDeletion`, and its consequence
  `NoTweetPassedOver`: `Spec => []NoGap`.  The obvious invariant, every tweet from
  the cursor up to the newest row is in a row or beside a deleted one, is not
  inductive, for two reasons.  A page in flight was anchored where the cursor
  *was*, and when it completes the cursor moves to its last tweet, up or down:
  `WindowInv` claims coverage from the anchor of every page in flight as well as
  from the cursor.  And the newest row may be deleted while requests anchored
  there are in flight: coverage goes up to the newest of rows, cursor and anchors
  (`Reached`).  `WindowInv` also says that an answer is an interval of the database
  that ends (for a refresh, begins) at its anchor, and that its outermost tweet,
  the one the positional cut removes, is the anchor or, if that is gone, beside
  it.  `Known` says that rows and answers were in the database once and that a
  delete that succeeded left it.
- `ListIsExactWindow`: `Spec => []ExactWindow`, from `WindowInv` and `OrderInv`:
  without deletions and overlaps the list descends, the cursor is its last row, a
  page in flight is anchored there and a refresh at the first row, so what either
  adds is older or newer than every row.
- `DeletedNeverReturns`: `Spec => DeletedStaysGone`.  An answer holds only what is
  in the database when it is made, and a completion shows only what its answer
  held, so a deleted tweet that is in no row and no answer in flight cannot come
  back.  That it *can* while an answer is in flight is why `Gone` looks at both.

For any devices and photos (`DeleteTweetProofs`):

- `NoOrphanWithoutError`: `Spec => []OrphansOnlyFromErrors`.  Inductive only with
  `PhotosAccountedFor`: on a device that is deleting photos, one that is neither
  deleted nor failed is one whose callback the group still waits for, and a device
  that has gone on to the record leaves only failed ones.
- `RowOutlivesTweet`: `Spec => []RowGoneMeansDeleted`.
- `DeletionsFanOut`: `Spec => GroupProtocol`, the refinement of `FanOut`: each
  step of one device moves that device's group as a step of `FanOut` does, or
  leaves it alone, and the other devices' groups stay.

For any network flags and any number of changes, notifications and failed tries
to start monitoring (`ConnectivityProofs`):

- `StatusIsCurrent`: `Spec => []StatusCurrent`, and `HeldBannerIsCurrent`:
  `Spec => []HeldBannerCurrent`, from `StatusInv`.  The flags travel through two
  queues, so the invariant speaks of each hop: a flag the library has not stored
  is the network's of now (`Monitoring`), and with no block queued the manager and
  the screens it told know the stored flags (`Announced`).
- `BannersTellTheTruth`: `Spec => []BannersTruthful`, from `CalmInv`.  Between a
  change and its notification a screen shows the opposite of the stored flags, so
  the invariant says which of the two it shows by whether a block is queued.

For any photos, limits and pickers (`NewTweetProofs`):

- `ScreenAlwaysShowsDraft`, `RecordLinksStorage`, `NoEmptyTweet` and `PostCloses`
  (`Spec => []ScreenShowsDraft` and so on), from `SendInv`.  The draft may be
  edited until it is sent and the picker may still come up afterwards, so the
  invariant says what holds on either side: before, that the three copies agree
  (`NotSent`); after, that every chosen photo is uploaded, lost or still open, that
  the URLs collected are those of the uploaded ones, each once, and that the screen
  waits (`Sent`).  That photos differ (`PhotosDiffer`) is what makes each URL occur
  once, and removal of the first match remove the photo.
- `CaptionStaysBounded`: `Spec => []CaptionBounded`.
- `UploadsFanOut`: `Spec => GroupProtocol`, the refinement of `FanOut`.

For any users, attempts and sessions (`SessionProofs`):

- `HomeIsSignedIn`: `Spec => []HomeMeansSignedIn`, from `LoginInv`: an attempt past
  its first request has an account, so has the user in its form's model, and whoever
  is signed in has one; all attempts that a screen still waits for are of one form
  (`OneForm`).
- `SpinnerIsAwaited`: `Spec => []SpinnerHasAttempt`, which is inductive with
  `TypeOK`.  It is the safety half of a spinner that goes away; the other half, that
  every attempt ends, is that each of its requests calls back.  `FormSpinnerStops` is
  the liveness property of a form's spinner.
- `SessionHasOneIdentity` and `DraftsAreNotForeign`: `Spec => []OneIdentity` and
  `Spec => []NoForeignTweet`, from `IdentityInv`.  Answers for the user before may
  still be under way in a new session; what counts is the last request for
  details, which is the signed-in user's, and that no attempt goes on unseen.  Both
  rest on `FormsInv`: attempts that share a form have their users in `doubled`
  (`SharedIsDoubled`), an attempt alone with its form has its own `userID` in it
  until it takes it out (`OwnUserID`), and Home holds a form that others can change
  only after a second attempt.
- `NoRecordForgotten`: `Spec => []PartialOnlyFromErrors`, from `RecordsInv` and
  `FormsInv`: the record is written for the `userID` found in the form, which is the
  attempt's own user unless the form was shared.
- `AuthorsDelete`: `RowsSpec => []DeleteIsTheAuthors`.  `RowInv` carries over to the
  row what was true of the session when it was displayed, which is no longer in the
  state when the button is used.

For any attempts, texts and keyboard heights (`LoginFormProofs`):

- `FormTypes`, `FormSendsWhatItShows` and `AlertsAreTruthful`: `Spec => []TypeOK`,
  `[]ModelIsShown`, `[]AlertTruthful`.  A guard looks at the model and the user at
  the text; the proof needs that only a sign-up reaches its upload (`SignsUp`) and
  that no text changes under an alert.
- `FormHasOneAttempt` and `RecordIsTheAccounts`: `Spec => []OneAttempt`,
  `[]RecordMatchesAccount`, from `Undisturbed`.  The record is read from the form's
  model two requests after validation, so the invariant says that meanwhile no field
  has the Return key (`NotTyping`) and the model holds what the attempt was started
  with, under the attempt's own uid (`Pending`); both end when the form appears again.
- `ContentAlwaysFits`: `Spec => []ContentFits`, from `Expanded`; it assumes that there
  is a tallest keyboard (`LoginFormAssumption`).

`WindowInv`, `OrderInv`, `Known`, `ScreenInv`, `DeleteInv`, `StatusInv`, `CalmInv`, `SendInv`,
the invariants of SessionProofs and `Undisturbed`, `SignsUp`, `Expanded` were checked
with TLC before they were proved.

Every invariant and action property that a passing run checks is proved.  Only
model-checked: liveness (under fairness it is out of the prover's reach).

## Not modelled

- Tweets that arrive out of timestamp order or with equal timestamps.  The model
  takes `InOrder = FALSE`, but the window properties are stated for arrival in
  order: a tweet that arrives behind the newest row is below every query of a
  refresh and above the next page, so it is never fetched, and nothing more can be
  said.
- What UIKit's animations leave open for a moment: `openLoginViewController` presents
  the login screen in a later turn of the main queue, here with `SignOut`; a second
  attempt of a form that reports while the login screen is sliding away; a page whose
  completion takes the spinner off a delete under way, so that the same device could
  press delete again (DeleteTweet has a second device for two deletes of one tweet).
- JSON encoding beyond success or failure, the regular expressions behind the
  classes of texts, the cells' contents, images, the progress ring, layout: none
  of them keeps state.
- `Pods/`.  All C, C++ and Objective-C in the repository is there (leveldb,
  nanopb, abseil, Firebase), vendored and used only through Firebase's Swift
  interface.  It is not this program's logic; the app's own code, all of it
  Swift, is what the modules map, together with `Reachability.swift` and the two
  places of Firebase that fix what a limited query and a missing object answer.

## Plan

1. An abstract *feed window* that Timeline implements as long as requests do not
   overlap, with the refinement proved from `WindowInv` and `OrderInv`.

------------------------------ MODULE Timeline ------------------------------
(***************************************************************************)
(* The Home screen's timeline: HomeViewModel and HomeViewController, with  *)
(* the part of the Firebase database they query.                           *)
(*                                                                         *)
(* A tweet is named by its createdTimeStamp, the value the queries order   *)
(* by; timestamps are distinct.  All of the app's code runs on the main    *)
(* thread, so every handler and every completion block is one step; what   *)
(* interleaves is the requests in flight.  A request passes through three  *)
(* steps: the app sends it, the database evaluates it (the record is       *)
(* `answered'), and later the completion block runs (for a query, after    *)
(* the authors of the tweets were looked up).                              *)
(***************************************************************************)
EXTENDS Integers, SequencesExt

CONSTANTS
    Tweet,       \* the timestamps a run uses
    InitialDb,   \* the possible contents of the database at launch
    Own,         \* tweets written by the signed-in user
    Erasable,    \* tweets that may be deleted from another device
    Slot,        \* requests that can be in flight at the same time
    pageSize,    \* HomeViewModel.pageSize
    Deletes,     \* does the user press delete buttons
    InOrder,     \* do tweets reach the database in timestamp order
    MaxRows,     \* with this many rows no request joins another of its kind
    MaxDetails   \* no login while this many user-detail requests are in flight

ASSUME TimelineAssumption ==
    /\ Tweet \subseteq Nat /\ IsFiniteSet(Tweet)
    /\ InitialDb \subseteq SUBSET Tweet
    /\ Own \subseteq Tweet /\ Erasable \subseteq Tweet
    /\ pageSize \in Nat \ {0} /\ pageSize % 2 = 0
    /\ Deletes \in BOOLEAN /\ InOrder \in BOOLEAN
    /\ MaxRows \in Nat /\ MaxDetails \in Nat

Nil == -1

VARIABLES
    db,             \* the tweets in the database
    posted,         \* every tweet that was ever in it
    tweetList,      \* HomeViewModel.tweetList
    lastCreated,    \* HomeViewModel.lastCreatedDateTimeStamp
    rows,           \* the row count the table view has been told of
    requests,       \* the requests in flight
    details,        \* user-detail requests in flight
    busy,           \* activityView is shown; it covers the screen
    refreshing,     \* refreshControl is spinning
    newTweetButton, \* newTweetButton is visible
    screen,         \* the view controller on top
    overlap         \* history: two requests of one kind were in flight at once

vars == <<db, posted, tweetList, lastCreated, rows, requests, details, busy,
          refreshing, newTweetButton, screen, overlap>>

table == <<tweetList, lastCreated, rows>>

-----------------------------------------------------------------------------
(* Requests *)

Kind == {"idle", "page", "latest", "delete"}

(* got is the answer: the tweets a query matched, the tweet a delete       *)
(* removed; {} is the error both report.  Only a page may lack an anchor.  *)
RequestType ==
    {r \in [kind : Kind, at : Tweet \cup {Nil}, answered : BOOLEAN, got : SUBSET Tweet] :
        r.kind \in {"latest", "delete"} => r.at \in Tweet}

Idle == [kind |-> "idle", at |-> Nil, answered |-> FALSE, got |-> {}]

Sent(kind, at) == [kind |-> kind, at |-> at, answered |-> FALSE, got |-> {}]

Pending(kind) == {q \in Slot : requests[q].kind = kind}

Send(kind, at) ==
    /\ Pending(kind) # {} => Len(tweetList) < MaxRows
    /\ \E q \in Pending("idle") : requests' = [requests EXCEPT ![q] = Sent(kind, at)]
    /\ overlap' = (overlap \/ Pending(kind) # {})

(* queryLimited(toLast:) over the tweets that match. *)
LimitToLast(S, k) == {t \in S : Cardinality({u \in S : u > t}) < k}

(* As PageQuery, but the cursor's own tweet is not returned. *)
PageQueryBefore(at) ==
    IF at = Nil THEN LimitToLast(db, pageSize)
                ELSE LimitToLast({t \in db : t < at}, pageSize + 1)

(* As PageQuery, answered from a copy that deletions do not reach. *)
PageQueryCached(at) ==
    IF at = Nil THEN LimitToLast(posted, pageSize)
                ELSE LimitToLast({t \in posted : t <= at}, pageSize + 1)

(* fetchTweets asks for the page that ends at the cursor, and for one      *)
(* tweet more than a page because queryEnding returns the cursor's tweet.  *)
PageQuery(at) ==
    IF at = Nil THEN LimitToLast(db, pageSize)
                ELSE LimitToLast({t \in db : t <= at}, pageSize + 1)

(* As LatestQuery, but the newest row's own tweet is not returned. *)
LatestQueryAfter(at) == {t \in db : t > at}

LatestQuery(at) == {t \in db : t >= at}

(* The orders `sorted { $0.createdTimeStamp > $1.createdTimeStamp }' can   *)
(* give: with distinct timestamps there is one.                            *)
Sorted(S) ==
    {s \in [1 .. Cardinality(S) -> S] :
        /\ ToSet(s) = S
        /\ \A i, j \in DOMAIN s : i < j => s[i] > s[j]}

(* The anchor is not cut. *)
KeepPageAnchor(s) == s

(* Both completions cut the tweet the query was anchored at, by position.  *)
(* Whether there was an anchor is read from the cursor when the answer     *)
(* arrives, not when the query was sent.                                   *)
DropPageAnchor(s) == IF s # <<>> /\ lastCreated # Nil THEN Tail(s) ELSE s

DropLatestAnchor(s) == IF s # <<>> THEN Front(s) ELSE s

-----------------------------------------------------------------------------
(* HomeViewController and HomeViewModel, the calls *)

(* No spinner for the first page. *)
NoSpinnerForFetch == busy

SpinnerForFetch == busy \/ lastCreated = Nil

FetchTweets ==
    /\ Send("page", lastCreated)
    /\ busy' = SpinnerForFetch

FetchLoggedInUserDetails ==
    /\ details < MaxDetails
    /\ details' = details + 1

(* refresh: an empty list has no timestamp to start from, and              *)
(* fetchLatestTweets reports missingParameters at once, which only ends    *)
(* the refresh control; asked says the control was spinning before.        *)
Refresh(asked) ==
    IF tweetList = <<>>
    THEN /\ refreshing' = FALSE
         /\ UNCHANGED <<requests, overlap>>
    ELSE /\ Send("latest", Head(tweetList))
         /\ refreshing' = asked

(* As ShouldFetchData, with the trigger in the page that is not there yet. *)
ShouldFetchDataPastEnd(index, count) ==
    LET center == pageSize \div 2
        nextIndexToCall == (count \div pageSize) * pageSize + center
    IN  \/ index = count - 1 /\ count < pageSize
        \/ index # 0 /\ index % center = 0 /\ nextIndexToCall = index

(* shouldFetchData on row index (rows count from 0). *)
ShouldFetchData(index, count) ==
    LET center == pageSize \div 2
        tweetCount == (count \div pageSize) * pageSize
        nextIndexToCall == tweetCount - pageSize + center
    IN  \/ index = count - 1 /\ count < pageSize
        \/ index # 0 /\ index % center = 0 /\ nextIndexToCall = index

-----------------------------------------------------------------------------
(* What the user and the system do on the Home screen *)

CanTouch == screen = "home" /\ ~busy

(* The table shows a row: scrolling and layout go on under the spinner. *)
WillDisplay ==
    /\ screen = "home"
    /\ \E index \in 0 .. rows - 1 : ShouldFetchData(index, Len(tweetList))
    /\ FetchTweets
    /\ UNCHANGED <<db, posted, table, details, refreshing, newTweetButton, screen>>

PullToRefresh ==
    /\ CanTouch
    /\ ~refreshing
    /\ Refresh(TRUE)
    /\ UNCHANGED <<db, posted, table, details, busy, newTweetButton, screen>>

DeleteClicked ==
    /\ CanTouch /\ Deletes
    /\ \E t \in ToSet(tweetList) \cap Own : Send("delete", t)
    /\ busy' = TRUE
    /\ UNCHANGED <<db, posted, table, details, refreshing, newTweetButton, screen>>

SignOut ==
    /\ CanTouch
    /\ screen' = "login"
    /\ UNCHANGED <<db, posted, table, requests, details, busy, refreshing, newTweetButton, overlap>>

(* The login screen calls its delegate: the next page is fetched, or the   *)
(* first if none ever was.  Once for each login screen: a second attempt   *)
(* of its form reports to nobody once the screen is gone, and that it does *)
(* so while the screen is still sliding away is left out.                  *)
LoginDidComplete ==
    /\ screen = "login"
    /\ screen' = "home"
    /\ FetchTweets
    /\ FetchLoggedInUserDetails
    /\ UNCHANGED <<db, posted, table, refreshing, newTweetButton>>

NewTweetClicked ==
    /\ CanTouch /\ newTweetButton
    /\ screen' = "compose"
    /\ UNCHANGED <<db, posted, table, requests, details, busy, refreshing, newTweetButton, overlap>>

CancelNewTweet ==
    /\ screen = "compose"
    /\ screen' = "home"
    /\ UNCHANGED <<db, posted, table, requests, details, busy, refreshing, newTweetButton, overlap>>

(* continueAddTweet stamps a tweet with the device's clock as it is sent;  *)
(* InOrder says that tweets arrive in the order of their stamps.           *)
MayPost(t) == t \notin posted /\ (InOrder => \A u \in posted : u < t)

Commit(t) == db' = db \cup {t} /\ posted' = posted \cup {t}

(* The tweet composed on this device reaches the database ... *)
PostOwn ==
    /\ screen = "compose"
    /\ \E t \in Own : MayPost(t) /\ Commit(t)
    /\ screen' = "posted"
    /\ UNCHANGED <<table, requests, details, busy, refreshing, newTweetButton, overlap>>

(* ... and the success callback refreshes the timeline and dismisses the   *)
(* compose screen.                                                         *)
DidFinishTweet ==
    /\ screen = "posted"
    /\ screen' = "home"
    /\ Refresh(refreshing)
    /\ UNCHANGED <<db, posted, table, details, busy, newTweetButton>>

-----------------------------------------------------------------------------
(* The database *)

PostElsewhere ==
    /\ \E t \in Tweet : MayPost(t) /\ Commit(t)
    /\ UNCHANGED <<table, requests, details, busy, refreshing, newTweetButton, screen, overlap>>

DeleteElsewhere ==
    /\ \E t \in db \cap Erasable : db' = db \ {t}
    /\ UNCHANGED <<posted, table, requests, details, busy, refreshing, newTweetButton, screen, overlap>>

Waiting(q, kind) == requests[q].kind = kind /\ ~requests[q].answered

Answer(q, got) ==
    requests' = [requests EXCEPT ![q].answered = TRUE, ![q].got = got]

AnswerPage(q) ==
    /\ Waiting(q, "page")
    /\ Answer(q, PageQuery(requests[q].at))
    /\ UNCHANGED <<db, posted, table, details, busy, refreshing, newTweetButton, screen, overlap>>

AnswerLatest(q) ==
    /\ Waiting(q, "latest")
    /\ Answer(q, LatestQuery(requests[q].at))
    /\ UNCHANGED <<db, posted, table, details, busy, refreshing, newTweetButton, screen, overlap>>

(* Deleting a tweet that is gone already succeeds. *)
AnswerDelete(q) ==
    /\ Waiting(q, "delete")
    /\ \/ Answer(q, {requests[q].at}) /\ db' = db \ {requests[q].at}
       \/ Answer(q, {}) /\ db' = db
    /\ UNCHANGED <<posted, table, details, busy, refreshing, newTweetButton, screen, overlap>>

-----------------------------------------------------------------------------
(* The completion blocks *)

Answered(q, kind) == requests[q].kind = kind /\ requests[q].answered

Finish(q) == requests' = [requests EXCEPT ![q] = Idle]

(* The rows of the answer are announced with the anchor's among them. *)
RowsBeforeCut(tweets, list) ==
    IF lastCreated # Nil /\ tweets # <<>> THEN rows + Len(tweets) + 1 ELSE Len(list)

(* Rows are inserted, except for the first page, which reloads the table. *)
RowsAfterPage(tweets, list) ==
    IF lastCreated # Nil \/ tweets = <<>> THEN rows + Len(tweets) ELSE Len(list)

CursorAfterPage(tweets, list) == IF tweets = <<>> THEN lastCreated ELSE Last(list)

CompletePage(q) ==
    /\ Answered(q, "page")
    /\ \E s \in Sorted(requests[q].got) :
        LET tweets == DropPageAnchor(s)
            list == tweetList \o tweets
        IN  /\ tweetList' = list
            /\ rows' = RowsAfterPage(tweets, list)
            /\ lastCreated' = CursorAfterPage(tweets, list)
    /\ busy' = FALSE
    /\ Finish(q)
    /\ UNCHANGED <<db, posted, details, refreshing, newTweetButton, screen, overlap>>

(* The refresh control is left spinning. *)
KeepRefreshing == refreshing

RefreshingAfterLatest == FALSE

CompleteLatest(q) ==
    /\ Answered(q, "latest")
    /\ \E s \in Sorted(requests[q].got) :
        LET tweets == DropLatestAnchor(s)
        IN  /\ tweetList' = tweets \o tweetList
            /\ rows' = rows + Len(tweets)
    /\ refreshing' = RefreshingAfterLatest
    /\ Finish(q)
    /\ UNCHANGED <<db, posted, lastCreated, details, busy, newTweetButton, screen, overlap>>

(* firstIndex(where:) of tweet t: the first row that shows it, if any does. *)
FirstIndex(t) ==
    {i \in DOMAIN tweetList : tweetList[i] = t /\ \A j \in 1 .. i - 1 : tweetList[j] # t}

(* The row is removed; the cursor is left as it is. *)
CompleteDelete(q) ==
    /\ Answered(q, "delete")
    /\ LET index == IF requests[q].got = {} THEN {} ELSE FirstIndex(requests[q].at) IN
        \/ \E i \in index : tweetList' = RemoveAt(tweetList, i) /\ rows' = rows - 1
        \/ index = {} /\ UNCHANGED <<tweetList, rows>>
    /\ busy' = FALSE
    /\ Finish(q)
    /\ UNCHANGED <<db, posted, lastCreated, details, refreshing, newTweetButton, screen, overlap>>

(* As CompleteDetails, but the user is observed, not read once. *)
ObserveDetails ==
    /\ details' = details - 1
    /\ newTweetButton' \in {newTweetButton, TRUE}
    /\ UNCHANGED <<db, posted, table, requests, busy, refreshing, screen, overlap>>

(* fetchLoggedInUserDetails: a failure only shows an alert. *)
CompleteDetails ==
    /\ details > 0
    /\ details' = details - 1
    /\ newTweetButton' \in {newTweetButton, TRUE}
    /\ UNCHANGED <<db, posted, table, requests, busy, refreshing, screen, overlap>>

-----------------------------------------------------------------------------
(* viewDidLoad: with no user signed in, the login screen is opened. *)
Init ==
    /\ db \in InitialDb
    /\ posted = db
    /\ tweetList = <<>> /\ lastCreated = Nil /\ rows = 0
    /\ refreshing = FALSE /\ newTweetButton = FALSE /\ overlap = FALSE
    /\ \/ /\ screen = "login" /\ busy = FALSE /\ details = 0
          /\ requests = [q \in Slot |-> Idle]
       \/ /\ screen = "home" /\ busy = TRUE /\ details = 1
          /\ \E first \in Slot :
                requests = [[q \in Slot |-> Idle] EXCEPT ![first] = Sent("page", Nil)]

User == \/ WillDisplay \/ PullToRefresh \/ DeleteClicked \/ SignOut
        \/ LoginDidComplete \/ NewTweetClicked \/ CancelNewTweet

Elsewhere == PostElsewhere \/ DeleteElsewhere

Database(q) == AnswerPage(q) \/ AnswerLatest(q) \/ AnswerDelete(q)

(* As Completion, but an error ends the request and nothing else. *)
CompletionOfSuccess(q) ==
    \/ requests[q].got # {} /\ (CompletePage(q) \/ CompleteLatest(q) \/ CompleteDelete(q))
    \/ /\ requests[q].answered /\ requests[q].got = {}
       /\ Finish(q)
       /\ UNCHANGED <<db, posted, table, details, busy, refreshing, newTweetButton, screen, overlap>>

Completion(q) == CompletePage(q) \/ CompleteLatest(q) \/ CompleteDelete(q)

Next ==
    \/ User \/ PostOwn \/ DidFinishTweet \/ Elsewhere \/ CompleteDetails
    \/ \E q \in Slot : Database(q) \/ Completion(q)

Spec == Init /\ [][Next]_vars

-----------------------------------------------------------------------------
(* Properties *)

TypeOK ==
    /\ db \subseteq posted /\ posted \subseteq Tweet
    /\ tweetList \in Seq(Tweet)
    /\ lastCreated \in Tweet \cup {Nil}
    /\ rows \in Int
    /\ requests \in [Slot -> RequestType]
    /\ details \in Nat
    /\ busy \in BOOLEAN /\ refreshing \in BOOLEAN /\ newTweetButton \in BOOLEAN
    /\ screen \in {"home", "login", "compose", "posted"}
    /\ overlap \in BOOLEAN

(* UIKit raises an exception when insertRows or deleteRows leaves the      *)
(* table with another row count than the data source: the completions      *)
(* that change tweetList and the rows they announce must agree, whatever   *)
(* the order in which they run.                                            *)
TableConsistent == rows = Len(tweetList)

(* Exactly one row of a timeline that shows any asks for the next page:    *)
(* shouldFetchData's two cases neither overlap nor leave a row count, such *)
(* as one between two pages, without a row that does.                      *)
OneTriggerRow ==
    tweetList # <<>> =>
        \E index \in 0 .. rows - 1 :
            \A other \in 0 .. rows - 1 :
                ShouldFetchData(other, Len(tweetList)) <=> other = index

(* Whether fetchTweets cuts the anchor of its answer is decided from the   *)
(* cursor at completion, so an answer to a query without anchor must not   *)
(* meet a cursor.  Nothing in HomeViewModel prevents a second first-page   *)
(* request; the spinner does, by keeping the user from signing out and in  *)
(* again: while one is in flight the screen is covered, it is the only     *)
(* one, and there is neither a cursor nor a row.                           *)
FirstPageAlone ==
    \A q \in Slot : requests[q].kind = "page" /\ requests[q].at = Nil =>
        /\ busy /\ lastCreated = Nil /\ tweetList = <<>>
        /\ Pending("page") = {q}

Shown == ToSet(tweetList)

(* Tweets of the database that the timeline has passed over: between the   *)
(* cursor and some row, and in no row.                                     *)
Missing == {t \in db : lastCreated <= t /\ \E u \in Shown : t <= u} \ Shown

(* No tweet is lost between pages and refreshes: however page and refresh  *)
(* requests overlap and in whatever order they complete, as long as tweets *)
(* arrive in timestamp order and none is deleted.                          *)
NoGap == (InOrder /\ posted = db) => Missing = {}

(* What the positional cut of the anchor costs when tweets are deleted: a  *)
(* tweet is passed over only if it is next to a deleted one.               *)
LossOnlyBesideDeletion ==
    InOrder => \A t \in Missing : \E d \in posted \ db :
                    \A u \in db : ~(d < u /\ u < t) /\ ~(t < u /\ u < d)

(* Rows are repeated or out of order only when two pages or two refreshes  *)
(* were in flight at once: otherwise the list is the exact window of the   *)
(* database from its newest row down to the cursor, newest first.          *)
ExactWindow ==
    (InOrder /\ posted = db /\ ~overlap /\ tweetList # <<>>) =>
        /\ tweetList \in Sorted(Shown)
        /\ Shown = {t \in db : lastCreated <= t /\ t <= Head(tweetList)}

-----------------------------------------------------------------------------
(* Liveness.  The connection is assumed to answer: observeSingleEvent,     *)
(* removeValue and setValue call back once the device is online.  The      *)
(* completion blocks then run on the main queue.  DidFinishTweet is        *)
(* strongly fair because only the model's bound on Slot can delay it.      *)
Fairness ==
    /\ \A q \in Slot : WF_vars(Database(q)) /\ WF_vars(Completion(q))
    /\ WF_vars(CompleteDetails)
    /\ SF_vars(DidFinishTweet)

FairSpec == Spec /\ Fairness

(* A user who keeps coming back to the Home screen, scrolling and pulling. *)
Attentive ==
    /\ SF_vars(WillDisplay) /\ SF_vars(PullToRefresh)
    /\ SF_vars(LoginDidComplete) /\ WF_vars(CancelNewTweet)

AttentiveSpec == FairSpec /\ Attentive

(* The spinner that covers the screen is taken away again, by the          *)
(* completion that started it or by another.                               *)
SpinnerStops == busy ~> ~busy

(* The refresh control stops, also when the query reports an error.        *)
RefreshEnds == refreshing ~> ~refreshing

(* The cursor reaches the oldest tweet for a user who keeps scrolling,     *)
(* while nothing is deleted.  A page completed after a later one was moves *)
(* the cursor back to its own last tweet: that must not go on for ever.    *)
ReachesOldest ==
    (Attentive /\ [](posted = db)) =>
        (lastCreated # Nil ~> {t \in db : t < lastCreated} = {})

(* A tweet posted from this device shows up in its timeline.               *)
OwnPostShown ==
    \A t \in Own : (screen = "posted" /\ t \in db) ~> t \in Shown

(* It does so if the timeline has a row to refresh from, for a user who    *)
(* keeps scrolling and pulling while nothing is deleted.  It is checked    *)
(* for tweets that arrive in timestamp order (InOrder): a post stamped     *)
(* before the newest row would be fetched by no refresh.                   *)
OwnPostAdded ==
    (Attentive /\ [](posted = db)) =>
        \A t \in Own : (screen = "posted" /\ t \in db /\ tweetList # <<>>) ~> t \in Shown

Gone(t) ==
    t \notin Shown /\ \A q \in Pending("page") \cup Pending("latest") : t \notin requests[q].got

(* A deleted tweet's row comes back only through an answer that was given  *)
(* before the deletion: once neither a row nor an answer in flight holds   *)
(* it, no page and no refresh brings it back.                              *)
DeletedStaysGone == [][\A t \in posted \ db : Gone(t) => Gone(t)']_vars
=============================================================================

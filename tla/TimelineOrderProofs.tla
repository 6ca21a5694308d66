------------------------ MODULE TimelineOrderProofs -------------------------
(***************************************************************************)
(* With at most one page and one refresh in flight the timeline is the     *)
(* exact window of the database, newest first (ExactWindow), for every     *)
(* value of the constants.                                                 *)
(***************************************************************************)
EXTENDS TimelineWindowProofs

-----------------------------------------------------------------------------
(* Lists that descend *)

Descending(s) == \A i, j \in DOMAIN s : i < j => s[i] > s[j]

LEMMA DescendingConcat ==
    ASSUME NEW a \in Seq(Tweet), NEW b \in Seq(Tweet), Descending(a), Descending(b),
           \A x \in ToSet(a) : \A y \in ToSet(b) : x > y
    PROVE  Descending(a \o b)
<1> DEFINE c == a \o b
           m == Len(a)
           n == Len(b)
<1>1. /\ m \in Nat /\ n \in Nat /\ DOMAIN a = 1 .. m /\ DOMAIN b = 1 .. n
      /\ DOMAIN c = 1 .. m + n
      /\ \A i \in 1 .. m + n : c[i] = IF i <= m THEN a[i] ELSE b[i - m]
  BY ConcatProperties
<1>2. \A i \in 1 .. m : a[i] \in ToSet(a)
  BY <1>1 DEF ToSet
<1>3. \A i \in 1 .. n : b[i] \in ToSet(b)
  BY <1>1 DEF ToSet
<1> HIDE DEF c, m, n
<1> SUFFICES ASSUME NEW i \in 1 .. m + n, NEW j \in 1 .. m + n, i < j
             PROVE  c[i] > c[j]
  BY <1>1 DEF Descending, c
<1>4. CASE j <= m
  <2>1. i \in DOMAIN a /\ j \in DOMAIN a /\ c[i] = a[i] /\ c[j] = a[j]
    BY <1>1, <1>4
  <2> QED
    BY <2>1 DEF Descending
<1>5. CASE i <= m /\ m < j
  <2>1. i \in 1 .. m /\ j - m \in 1 .. n /\ c[i] = a[i] /\ c[j] = b[j - m]
    BY <1>1, <1>5
  <2> QED
    BY <1>2, <1>3, <2>1
<1>6. CASE m < i
  <2>1. i - m \in DOMAIN b /\ j - m \in DOMAIN b /\ i - m < j - m /\ c[i] = b[i - m] /\ c[j] = b[j - m]
    BY <1>1, <1>6
  <2> QED
    BY <2>1 DEF Descending
<1> QED
  BY <1>1, <1>4, <1>5, <1>6

(* The newest tweet of a list that descends is its first, the oldest its   *)
(* last.                                                                   *)
LEMMA DescendingEnds ==
    ASSUME NEW s \in Seq(Tweet), s # <<>>, Descending(s)
    PROVE  /\ Head(s) \in ToSet(s) /\ \A t \in ToSet(s) : t <= Head(s)
           /\ Last(s) \in ToSet(s) /\ \A t \in ToSet(s) : Last(s) <= t
<1> DEFINE n == Len(s)
<1>1. n \in Nat \ {0} /\ DOMAIN s = 1 .. n /\ \A i \in 1 .. n : s[i] \in Tweet
  BY CutIsSeq
<1>2. Head(s) = s[1] /\ Last(s) = s[n]
  BY DEF Last
<1>3. \A t \in ToSet(s) : \E i \in 1 .. n : s[i] = t
  BY <1>1 DEF ToSet
<1>4. \A i \in 1 .. n : s[i] \in ToSet(s)
  BY <1>1 DEF ToSet
<1>5. \A i, j \in 1 .. n : i < j => s[i] > s[j]
  BY <1>1 DEF Descending
<1> HIDE DEF n
<1>6. ASSUME NEW t \in ToSet(s) PROVE t <= s[1] /\ s[n] <= t
  <2>1. PICK i \in 1 .. n : s[i] = t
    BY <1>3
  <2>2. 1 \in 1 .. n /\ n \in 1 .. n /\ i \in Nat /\ 1 <= i /\ i <= n
    BY <1>1
  <2>3. s[1] \in Nat /\ s[n] \in Nat /\ t \in Nat
    BY <1>1, <2>1, <2>2, TimelineAssumption
  <2>4. i = 1 \/ s[1] > s[i]
    BY <1>5, <2>2
  <2>5. i = n \/ s[i] > s[n]
    BY <1>1, <1>5, <2>2
  <2> QED
    BY <2>1, <2>3, <2>4, <2>5
<1> QED
  BY <1>1, <1>2, <1>4, <1>6

(* The cut of an answer's newest or oldest tweet. *)
LEMMA TailDescends ==
    ASSUME NEW S \in SUBSET Tweet, NEW s \in Sorted(S), s # <<>>
    PROVE  /\ Tail(s) \in Seq(Tweet) /\ Descending(Tail(s))
           /\ s[1] \in S /\ \A t \in ToSet(Tail(s)) : t < s[1]
<1> DEFINE r == Tail(s)
           n == Len(s)
<1>1. /\ s \in Seq(Tweet) /\ n \in Nat \ {0} /\ r \in Seq(Tweet) /\ Len(r) = n - 1
      /\ \A i \in 1 .. Len(r) : r[i] = s[i + 1]
  BY SortedIsSeq, CutIsSeq, HeadTailProperties
<1>2. DOMAIN r = 1 .. n - 1 /\ \A i \in 1 .. n - 1 : r[i] = s[i + 1]
  BY <1>1
<1>3. \A i, j \in 1 .. n : i < j => s[i] > s[j]
  BY SortedIsSeq
<1>4. \A i \in 1 .. n : s[i] \in Tweet
  BY <1>1
<1>5. s[1] \in S
  BY SortedEnds
<1> HIDE DEF r, n
<1>6. Descending(r)
  <2> SUFFICES ASSUME NEW i \in 1 .. n - 1, NEW j \in 1 .. n - 1, i < j PROVE r[i] > r[j]
    BY <1>2 DEF Descending
  <2>1. i + 1 \in 1 .. n /\ j + 1 \in 1 .. n /\ i + 1 < j + 1
    BY <1>1
  <2> QED
    BY <1>2, <1>3, <2>1
<1>7. ASSUME NEW t \in ToSet(r) PROVE t < s[1]
  <2>1. PICK i \in 1 .. n - 1 : r[i] = t
    BY <1>2, <1>7 DEF ToSet
  <2>2. 1 \in 1 .. n /\ i + 1 \in 1 .. n /\ 1 < i + 1
    BY <1>1
  <2>3. s[1] > s[i + 1] /\ s[i + 1] = t /\ s[1] \in Nat /\ t \in Nat
    BY <1>2, <1>3, <1>4, <2>1, <2>2, TimelineAssumption
  <2> QED
    BY <2>3
<1> QED
  BY <1>1, <1>5, <1>6, <1>7 DEF r

LEMMA FrontDescends ==
    ASSUME NEW S \in SUBSET Tweet, NEW s \in Sorted(S), s # <<>>
    PROVE  /\ Front(s) \in Seq(Tweet) /\ Descending(Front(s))
           /\ s[Len(s)] \in S /\ \A t \in ToSet(Front(s)) : s[Len(s)] < t
<1> DEFINE r == Front(s)
           n == Len(s)
<1>1. s \in Seq(Tweet) /\ n \in Nat \ {0} /\ r \in Seq(Tweet) /\ Len(r) = n - 1
  BY SortedIsSeq, CutIsSeq
<1>2. DOMAIN r = 1 .. n - 1 /\ \A i \in 1 .. n - 1 : r[i] = s[i]
  BY <1>1 DEF Front
<1>3. \A i, j \in 1 .. n : i < j => s[i] > s[j]
  BY SortedIsSeq
<1>4. \A i \in 1 .. n : s[i] \in Tweet
  BY <1>1
<1>5. s[n] \in S
  BY SortedEnds
<1> HIDE DEF r, n
<1>6. Descending(r)
  BY <1>1, <1>2, <1>3 DEF Descending
<1>7. ASSUME NEW t \in ToSet(r) PROVE s[n] < t
  <2>1. PICK i \in 1 .. n - 1 : r[i] = t
    BY <1>2, <1>7 DEF ToSet
  <2>2. n \in 1 .. n /\ i \in 1 .. n /\ i < n
    BY <1>1
  <2>3. s[i] > s[n] /\ s[i] = t /\ s[n] \in Nat /\ t \in Nat
    BY <1>2, <1>3, <1>4, <2>1, <2>2, TimelineAssumption
  <2> QED
    BY <2>3
<1> QED
  BY <1>1, <1>5, <1>6, <1>7 DEF r, n

(* A list that descends is the order `sorted' gives its tweets. *)
LEMMA DescendingIsSorted ==
    ASSUME NEW s \in Seq(Tweet), Descending(s)
    PROVE  s \in Sorted(ToSet(s))
<1> DEFINE n == Len(s)
           S == ToSet(s)
<1>1. n \in Nat /\ DOMAIN s = 1 .. n /\ s \in [1 .. n -> Tweet]
  OBVIOUS
<1>2. s \in [1 .. n -> S] /\ \A t \in S : \E i \in 1 .. n : s[i] = t
  BY <1>1 DEF ToSet
<1>3. \A i, j \in 1 .. n : i < j => s[i] > s[j]
  BY <1>1 DEF Descending
<1>4. \A i \in 1 .. n : s[i] \in Nat
  BY <1>1, TimelineAssumption
<1> HIDE DEF n, S
<1>5. ASSUME NEW i \in 1 .. n, NEW j \in 1 .. n, s[i] = s[j] PROVE i = j
  BY <1>1, <1>3, <1>4, <1>5
<1>6. s \in Bijection(1 .. n, S)
  BY <1>2, <1>5 DEF Bijection, Injection, Surjection, IsInjective
<1>7. Cardinality(S) = n
  BY <1>1, <1>6, FS_CountingElements DEF ExistsBijection
<1> QED
  BY <1>1, <1>2, <1>3, <1>7 DEF Sorted, S

-----------------------------------------------------------------------------
(* The inductive invariant *)

(* Nothing was deleted, and no two pages or refreshes were in flight at    *)
(* once.                                                                   *)
Calm == InOrder /\ posted = db /\ ~overlap

OneOfAKind ==
    \A p, q \in Slot : Asking(p) /\ requests[p].kind = requests[q].kind => p = q

(* The cursor is the last row.  A page is anchored there and a refresh at  *)
(* the first row, also when other completions ran since it was sent.       *)
Ordered ==
    /\ Descending(tweetList)
    /\ tweetList # <<>> => lastCreated = Last(tweetList)
    /\ \A q \in Slot :
        /\ requests[q].kind = "page" => requests[q].at = lastCreated
        /\ requests[q].kind = "latest" => tweetList # <<>> /\ requests[q].at = Head(tweetList)

OrderInv == Calm => OneOfAKind /\ Ordered

LEMMA InitOrder == Init => OrderInv
<1> SUFFICES ASSUME Init PROVE OneOfAKind /\ Ordered
  BY DEF OrderInv
<1>1. Descending(tweetList)
  BY DEF Init, Descending
<1> QED
  BY <1>1 DEF Init, OneOfAKind, Ordered, Asking, Idle, Sent

(* A deletion and an overlap are never forgotten. *)
LEMMA CalmBefore ==
    ASSUME TypeOK, Known, [Next]_vars, Calm'
    PROVE  Calm
<1>1. overlap => overlap'
  BY DEF Next, User, Elsewhere, Database, Completion, vars, WillDisplay, PullToRefresh, DeleteClicked,
         SignOut, LoginDidComplete, NewTweetClicked, CancelNewTweet, PostOwn, DidFinishTweet,
         PostElsewhere, DeleteElsewhere, CompleteDetails, AnswerPage, AnswerLatest, AnswerDelete,
         CompletePage, CompleteLatest, CompleteDelete, FetchTweets, Refresh, Send
<1>2. UNCHANGED <<db, posted>> => Calm
  BY <1>1 DEF Calm
<1>3. ASSUME NEW t, MayPost(t), Commit(t) PROVE Calm
  <2>1. t \notin posted /\ db \subseteq posted /\ posted \cup {t} = db \cup {t} /\ InOrder
    BY <1>3 DEF Calm, MayPost, Commit, TypeOK
  <2>2. posted \subseteq db
    BY <2>1
  <2> QED
    BY <1>1, <2>1, <2>2 DEF Calm
<1>4. CASE DeleteElsewhere
  BY <1>4 DEF DeleteElsewhere, Calm, TypeOK
<1>5. ASSUME NEW q \in Slot, AnswerDelete(q) PROVE Calm
  BY <1>1, <1>5 DEF AnswerDelete, Waiting, Calm, Known, TypeOK
<1> QED
  BY <1>2, <1>3, <1>4, <1>5
     DEF Next, User, Elsewhere, Database, Completion, vars, WillDisplay, PullToRefresh, DeleteClicked,
         SignOut, LoginDidComplete, NewTweetClicked, CancelNewTweet, PostOwn, DidFinishTweet,
         PostElsewhere, CompleteDetails, AnswerPage, AnswerLatest, CompletePage, CompleteLatest, CompleteDelete

(* Without an overlap a request is sent only if none of its kind waits. *)
LEMMA SendOrder ==
    ASSUME TypeOK, OneOfAKind, Ordered, NEW kind, NEW at, Send(kind, at), ~overlap',
           kind # "idle", kind = "page" => at = lastCreated,
           kind = "latest" => tweetList # <<>> /\ at = Head(tweetList),
           UNCHANGED <<tweetList, lastCreated>>
    PROVE  OneOfAKind' /\ Ordered'
<1>1. PICK q \in Slot : /\ requests'[q].kind = kind /\ requests'[q].at = at
                        /\ \A p \in Slot : p # q => requests'[p] = requests[p]
  BY SendEffect
<1>2. \A p \in Slot : requests[p].kind # kind
  BY DEF Send, Pending
<1>3. OneOfAKind'
  BY <1>1, <1>2 DEF OneOfAKind, Asking
<1>4. Ordered'
  BY <1>1 DEF Ordered, Descending
<1> QED
  BY <1>3, <1>4

LEMMA RefreshOrder ==
    ASSUME TypeOK, OneOfAKind, Ordered, NEW asked, Refresh(asked), ~overlap',
           UNCHANGED <<tweetList, lastCreated>>
    PROVE  OneOfAKind' /\ Ordered'
<1>1. CASE tweetList = <<>>
  BY <1>1 DEF Refresh, OneOfAKind, Ordered, Asking, Descending
<1>2. CASE tweetList # <<>>
  BY <1>2, SendOrder DEF Refresh
<1> QED
  BY <1>1, <1>2

LEMMA AnswerOrder ==
    ASSUME TypeOK, OneOfAKind, Ordered, NEW q \in Slot, NEW got, Answer(q, got),
           UNCHANGED <<tweetList, lastCreated>>
    PROVE  OneOfAKind' /\ Ordered'
<1>1. \A p \in Slot : requests'[p].kind = requests[p].kind /\ requests'[p].at = requests[p].at
  BY AnswerEffect
<1> QED
  BY <1>1 DEF OneOfAKind, Ordered, Asking, Descending

LEMMA FinishOrder ==
    ASSUME TypeOK, OneOfAKind, NEW q \in Slot, Finish(q)
    PROVE  OneOfAKind' /\ requests'[q].kind = "idle" /\ \A p \in Slot : p # q => requests'[p] = requests[p]
<1>1. requests'[q].kind = "idle" /\ \A p \in Slot : p # q => requests'[p] = requests[p]
  BY FinishEffect DEF Idle
<1> QED
  BY <1>1 DEF OneOfAKind, Asking

(* The rows of a page are older than the last row. *)
LEMMA PageOrder ==
    ASSUME ScreenInv, RequestWindows, OneOfAKind, Ordered, NEW q \in Slot, CompletePage(q)
    PROVE  OneOfAKind' /\ Ordered'
<1> DEFINE at == requests[q].at
           got == requests[q].got
<1>1. PICK s \in Sorted(got) :
          /\ tweetList' = tweetList \o DropPageAnchor(s)
          /\ lastCreated' = CursorAfterPage(DropPageAnchor(s), tweetList')
  BY DEF CompletePage
<1> DEFINE tweets == DropPageAnchor(s)
<1>2. /\ requests[q].kind = "page" /\ requests[q].answered /\ TypeOK
      /\ tweets \in Seq(Tweet) /\ tweetList \in Seq(Tweet) /\ got \in SUBSET Tweet
      /\ s \in Seq(Tweet) /\ at \in Tweet \cup {Nil}
  BY <1>1, PageIsSeq, SortedIsSeq, RequestFacts DEF CompletePage, Answered, ScreenInv, TypeOK
<1>3. /\ OneOfAKind' /\ requests'[q].kind = "idle"
      /\ \A p \in Slot : p # q => requests'[p] = requests[p] /\ requests[p].kind # "page"
  BY <1>2, FinishOrder DEF CompletePage, OneOfAKind, Asking
<1>4. at = lastCreated
  BY <1>2 DEF Ordered
<1>5. Descending(tweets) /\ \A x \in Shown : \A y \in ToSet(tweets) : x > y
  <2>1. CASE at = Nil
    <3>1. tweetList = <<>> /\ tweets = s
      BY <1>2, <1>4, <2>1 DEF ScreenInv, NothingBeforeFirstPage, DropPageAnchor
    <3>2. Shown = {}
      BY <3>1 DEF Shown, ToSet
    <3>3. DOMAIN s = 1 .. Len(s) /\ \A i, j \in 1 .. Len(s) : i < j => s[i] > s[j]
      BY <1>1, <1>2, SortedIsSeq
    <3> QED
      BY <3>1, <3>2, <3>3 DEF Descending
  <2>2. CASE s = <<>>
    BY <2>2 DEF DropPageAnchor, Descending, ToSet
  <2>3. CASE at # Nil /\ s # <<>>
    <3>1. tweets = Tail(s)
      BY <1>4, <2>3 DEF DropPageAnchor
    <3>2. \A t \in got : t <= at
      BY <1>2, <2>3 DEF RequestWindows, Window, PageWindow
    <3>3. Descending(tweets) /\ s[1] \in got /\ \A t \in ToSet(tweets) : t < s[1]
      <4> HIDE DEF got
      <4> QED
        BY <1>1, <1>2, <2>3, <3>1, TailDescends
    <3>4. \A x \in Shown : at <= x
      <4>1. CASE tweetList = <<>>
        BY <4>1 DEF Shown, ToSet
      <4>2. CASE tweetList # <<>>
        BY <1>2, <1>4, <4>2, DescendingEnds DEF Ordered, Shown
      <4> QED
        BY <4>1, <4>2
    <3>5. got \subseteq Nat /\ at \in Nat /\ Shown \subseteq Nat /\ ToSet(tweets) \subseteq got
      <4>1. ToSet(tweets) \subseteq got
        BY <1>1, <1>2, CutSet
      <4>2. Shown \subseteq Tweet
        BY <1>2 DEF Shown, ToSet
      <4> QED
        BY <1>2, <2>3, <4>1, <4>2, TimelineAssumption
    <3> HIDE DEF at, got, tweets
    <3>6. ASSUME NEW x \in Shown, NEW y \in ToSet(tweets) PROVE x > y
      <4>1. y < s[1] /\ s[1] <= at /\ at <= x /\ x \in Nat /\ y \in Nat /\ s[1] \in Nat
        BY <3>2, <3>3, <3>4, <3>5
      <4> QED
        BY <3>5, <4>1
    <3> QED
      BY <3>3, <3>6
  <2> QED
    BY <2>1, <2>2, <2>3
<1> HIDE DEF at, got, tweets
<1>6. tweetList' = tweetList \o tweets /\ lastCreated' = CursorAfterPage(tweets, tweetList')
  BY <1>1 DEF tweets
<1>7. Descending(tweetList')
  BY <1>2, <1>5, <1>6, DescendingConcat DEF Ordered, Shown
<1>8. tweetList' # <<>> => lastCreated' = Last(tweetList')
  <2>1. tweets = <<>> => tweetList' = tweetList
    BY <1>2, <1>6
  <2> QED
    BY <1>6, <2>1 DEF CursorAfterPage, Ordered
<1>9. tweetList # <<>> => tweetList' # <<>> /\ Head(tweetList') = Head(tweetList)
  <2> SUFFICES ASSUME tweetList # <<>>
               PROVE  tweetList' # <<>> /\ Head(tweetList') = Head(tweetList)
    OBVIOUS
  <2>1. Len(tweetList) \in Nat \ {0} /\ Len(tweets) \in Nat
    BY <1>2, CutIsSeq
  <2>2. tweetList' \in Seq(Tweet) /\ Len(tweetList') # 0 /\ tweetList'[1] = tweetList[1]
    BY <1>2, <1>6, <2>1, ConcatProperties
  <2> QED
    BY <2>2
<1>10. ASSUME NEW p \in Slot
       PROVE  /\ requests'[p].kind = "page" => requests'[p].at = lastCreated'
              /\ requests'[p].kind = "latest" => tweetList' # <<>> /\ requests'[p].at = Head(tweetList')
  BY <1>3, <1>9 DEF Ordered
<1>11. Ordered'
  BY <1>7, <1>8, <1>10 DEF Ordered, Descending
<1> QED
  BY <1>3, <1>11

(* The rows of a refresh are newer than the first row. *)
LEMMA LatestOrder ==
    ASSUME ScreenInv, RequestWindows, OneOfAKind, Ordered, NEW q \in Slot, CompleteLatest(q)
    PROVE  OneOfAKind' /\ Ordered'
<1> DEFINE at == requests[q].at
           got == requests[q].got
<1>1. PICK s \in Sorted(got) : tweetList' = DropLatestAnchor(s) \o tweetList
  BY DEF CompleteLatest
<1> DEFINE tweets == DropLatestAnchor(s)
<1>2. /\ requests[q].kind = "latest" /\ requests[q].answered /\ TypeOK /\ UNCHANGED lastCreated
      /\ tweets \in Seq(Tweet) /\ tweetList \in Seq(Tweet) /\ got \in SUBSET Tweet
      /\ at \in Tweet
  BY <1>1, PageIsSeq, RequestFacts DEF CompleteLatest, Answered, ScreenInv, TypeOK
<1>3. /\ OneOfAKind' /\ requests'[q].kind = "idle"
      /\ \A p \in Slot : p # q => requests'[p] = requests[p] /\ requests[p].kind # "latest"
  BY <1>2, FinishOrder DEF CompleteLatest, OneOfAKind, Asking
<1>4. tweetList # <<>> /\ at = Head(tweetList)
  BY <1>2 DEF Ordered
<1>5. Descending(tweets) /\ \A x \in ToSet(tweets) : \A y \in Shown : x > y
  <2>1. CASE s = <<>>
    BY <2>1 DEF DropLatestAnchor, Descending, ToSet
  <2>2. CASE s # <<>>
    <3>1. tweets = Front(s)
      BY <2>2 DEF DropLatestAnchor
    <3>2. \A t \in got : at <= t
      BY <1>2 DEF RequestWindows, Window, LatestWindow
    <3>3. Descending(tweets) /\ s[Len(s)] \in got /\ \A t \in ToSet(tweets) : s[Len(s)] < t
      <4> HIDE DEF got
      <4> QED
        BY <1>1, <1>2, <2>2, <3>1, FrontDescends
    <3>4. \A y \in Shown : y <= at
      BY <1>2, <1>4, DescendingEnds DEF Ordered, Shown
    <3>5. got \subseteq Nat /\ at \in Nat /\ Shown \subseteq Nat /\ ToSet(tweets) \subseteq got
      <4>1. ToSet(tweets) \subseteq got
        BY <1>1, <1>2, CutSet
      <4>2. Shown \subseteq Tweet
        BY <1>2 DEF Shown, ToSet
      <4> QED
        BY <1>2, <4>1, <4>2, TimelineAssumption
    <3> DEFINE oldest == s[Len(s)]
    <3> HIDE DEF at, got, tweets, oldest
    <3>6. ASSUME NEW x \in ToSet(tweets), NEW y \in Shown PROVE x > y
      <4>1. y <= at /\ at <= oldest /\ oldest < x /\ x \in Nat /\ y \in Nat /\ oldest \in Nat
        BY <3>2, <3>3, <3>4, <3>5 DEF oldest
      <4> QED
        BY <3>5, <4>1
    <3> QED
      BY <3>3, <3>6
  <2> QED
    BY <2>1, <2>2
<1> HIDE DEF at, got, tweets
<1>6. tweetList' = tweets \o tweetList
  BY <1>1 DEF tweets
<1>7. Descending(tweetList')
  BY <1>2, <1>5, <1>6, DescendingConcat DEF Ordered, Shown
<1>8. tweetList' # <<>> /\ Last(tweetList') = Last(tweetList)
  <2>1. Last(tweetList') = Last(tweetList)
    BY <1>2, <1>4, <1>6, LastIsTweet DEF Last
  <2>2. Len(tweetList) \in Nat \ {0} /\ Len(tweets) \in Nat
    BY <1>2, <1>4, CutIsSeq
  <2>3. Len(tweetList') # 0
    BY <1>2, <1>6, <2>2, ConcatProperties
  <2> QED
    BY <2>1, <2>3
<1>9. Ordered'
  BY <1>2, <1>3, <1>4, <1>7, <1>8 DEF Ordered, Descending
<1> QED
  BY <1>3, <1>9

LEMMA NextOrder ==
    ASSUME ScreenInv, Known, WindowInv, OrderInv, [Next]_vars
    PROVE  OrderInv'
<1> USE DEF table
<1> SUFFICES ASSUME Calm' PROVE OneOfAKind' /\ Ordered'
  BY DEF OrderInv
<1>0. /\ TypeOK /\ RequestWindows /\ OneOfAKind /\ Ordered /\ ~overlap' /\ posted = db
  BY CalmBefore DEF ScreenInv, WindowInv, OrderInv, Calm
<1>1. CASE WillDisplay
  BY <1>0, <1>1, SendOrder DEF WillDisplay, FetchTweets
<1>2. CASE PullToRefresh
  BY <1>0, <1>2, RefreshOrder DEF PullToRefresh
<1>3. CASE DeleteClicked
  BY <1>0, <1>3, SendOrder DEF DeleteClicked
<1>4. CASE LoginDidComplete
  BY <1>0, <1>4, SendOrder DEF LoginDidComplete, FetchTweets
<1>5. CASE DidFinishTweet
  BY <1>0, <1>5, RefreshOrder DEF DidFinishTweet
<1>6. CASE UNCHANGED <<tweetList, lastCreated, requests>>
  BY <1>0, <1>6 DEF OneOfAKind, Ordered, Asking, Descending
<1>7. CASE SignOut \/ NewTweetClicked \/ CancelNewTweet \/ PostOwn \/ PostElsewhere
           \/ DeleteElsewhere \/ CompleteDetails \/ UNCHANGED vars
  BY <1>6, <1>7 DEF SignOut, NewTweetClicked, CancelNewTweet, PostOwn, PostElsewhere,
     DeleteElsewhere, CompleteDetails, vars
<1>8. ASSUME NEW q \in Slot, Database(q) PROVE OneOfAKind' /\ Ordered'
  <2>1. (\E got : Answer(q, got)) /\ UNCHANGED <<tweetList, lastCreated>>
    BY <1>8 DEF Database, AnswerPage, AnswerLatest, AnswerDelete
  <2> QED
    BY <1>0, <2>1, AnswerOrder
<1>9. ASSUME NEW q \in Slot, CompletePage(q) PROVE OneOfAKind' /\ Ordered'
  BY <1>0, <1>9, PageOrder
<1>10. ASSUME NEW q \in Slot, CompleteLatest(q) PROVE OneOfAKind' /\ Ordered'
  BY <1>0, <1>10, LatestOrder
<1>11. ASSUME NEW q \in Slot, CompleteDelete(q) PROVE OneOfAKind' /\ Ordered'
  <2>1. requests[q].got = {}
    BY <1>0, <1>11 DEF CompleteDelete, Answered, Known
  <2>2. UNCHANGED <<tweetList, lastCreated>>
    BY <1>11, <2>1 DEF CompleteDelete
  <2>3. /\ OneOfAKind' /\ requests'[q].kind = "idle"
        /\ \A p \in Slot : p # q => requests'[p] = requests[p]
    BY <1>0, <1>11, FinishOrder DEF CompleteDelete
  <2> QED
    BY <1>0, <2>2, <2>3 DEF Ordered, Descending
<1> QED
  BY <1>1, <1>2, <1>3, <1>4, <1>5, <1>7, <1>8, <1>9, <1>10, <1>11
     DEF Next, User, Elsewhere, Completion

(* ExactWindow: while tweets arrive in timestamp order, none is deleted    *)
(* and no two pages or refreshes are in flight at once, the list is the    *)
(* window of the database from its newest row down to the cursor, each     *)
(* tweet once and newest first, whatever else interleaves.                 *)
THEOREM ListIsExactWindow == Spec => []ExactWindow
<1>1. Init => OrderInv
  BY InitOrder
<1>2. ScreenInv /\ Known /\ WindowInv /\ OrderInv /\ [Next]_vars => OrderInv'
  BY NextOrder
<1>3. ScreenInv /\ Known /\ WindowInv /\ OrderInv => ExactWindow
  <2> SUFFICES ASSUME ScreenInv, Known, WindowInv, OrderInv, Calm, tweetList # <<>>
               PROVE  /\ tweetList \in Sorted(Shown)
                      /\ Shown = {t \in db : lastCreated <= t /\ t <= Head(tweetList)}
    BY DEF ExactWindow, Calm
  <2>1. /\ tweetList \in Seq(Tweet) /\ Descending(tweetList) /\ lastCreated = Last(tweetList)
        /\ Shown \subseteq db
    BY DEF ScreenInv, TypeOK, OrderInv, Ordered, Known, Calm
  <2>2. tweetList \in Sorted(Shown)
    BY <2>1, DescendingIsSorted DEF Shown
  <2>3. Head(tweetList) \in Shown /\ \A t \in Shown : lastCreated <= t /\ t <= Head(tweetList)
    BY <2>1, DescendingEnds DEF Shown
  <2>4. ASSUME NEW t \in db, lastCreated <= t, t <= Head(tweetList) PROVE t \in Shown
    <3>1. Covered(lastCreated) /\ Reached(t)
      BY <2>3, <2>4 DEF WindowInv, CursorWindow, Calm, ScreenInv, NothingBeforeFirstPage, Reached
    <3> QED
      BY <2>4, <3>1 DEF Covered, Listed, Beside, Calm
  <2> QED
    BY <2>1, <2>2, <2>3, <2>4
<1> QED
  BY <1>1, <1>2, <1>3, ScreenInvariant, WindowInvariant, PTL DEF Spec

=============================================================================

--------------------------- MODULE TimelineProofs ---------------------------
(***************************************************************************)
(* Theorems about Timeline, for every value of its constants.              *)
(***************************************************************************)
EXTENDS Timeline, FiniteSetTheorems, SequenceTheorems, TLAPS

-----------------------------------------------------------------------------
(* The sequences the completions build *)

(* An answer is finite, so its sortings are sequences of its tweets. *)
LEMMA SortedIsSeq ==
    ASSUME NEW S \in SUBSET Tweet, NEW s \in Sorted(S)
    PROVE  /\ s \in Seq(Tweet) /\ s \in Seq(S)
           /\ ToSet(s) = S
           /\ \A i, j \in 1 .. Len(s) : i < j => s[i] > s[j]
<1>1. IsFiniteSet(S)
  BY FS_Subset, TimelineAssumption
<1>2. Cardinality(S) \in Nat
  BY <1>1, FS_CardinalityType
<1>3. s \in [1 .. Cardinality(S) -> S]
  BY DEF Sorted
<1>4. s \in Seq(S) /\ s \in Seq(Tweet) /\ DOMAIN s = 1 .. Len(s)
  BY <1>2, <1>3
<1> QED
  BY <1>4 DEF Sorted

(* Front and Tail, used to cut an anchor, keep sequences sequences. *)
LEMMA CutIsSeq ==
    ASSUME NEW s \in Seq(Tweet), s # <<>>
    PROVE  /\ Tail(s) \in Seq(Tweet) /\ Len(Tail(s)) = Len(s) - 1
           /\ Front(s) \in Seq(Tweet) /\ Len(Front(s)) = Len(s) - 1
           /\ Len(s) \in Nat \ {0}
<1>1. Len(s) \in Nat \ {0}
  BY EmptySeq
<1> DEFINE n == Len(s) - 1
           f == SubSeq(s, 1, n)
<1>2. n \in Nat /\ \A i \in 1 .. n : s[i] \in Tweet
  BY <1>1
<1>3. f \in Seq(Tweet) /\ Len(f) = n
  <2> HIDE DEF n
  <2>1. f \in Seq(Tweet) /\ Len(f) = IF 1 <= n THEN n - 1 + 1 ELSE 0
    BY <1>2, SubSeqProperties
  <2> HIDE DEF f
  <2> QED
    BY <1>2, <2>1
<1>4. f = Front(s)
  BY DEF Front
<1> HIDE DEF f, n
<1>5. Front(s) \in Seq(Tweet) /\ Len(Front(s)) = n
  BY <1>3, <1>4
<1> QED
  BY <1>1, <1>5 DEF n

(* Removing a row. *)
LEMMA RemoveAtIsSeq ==
    ASSUME NEW s \in Seq(Tweet), NEW i \in 1 .. Len(s)
    PROVE  RemoveAt(s, i) \in Seq(Tweet) /\ Len(RemoveAt(s, i)) = Len(s) - 1
<1> DEFINE a == SubSeq(s, 1, i - 1)
           b == SubSeq(s, i + 1, Len(s))
<1>1. a \in Seq(Tweet) /\ Len(a) = i - 1
  OBVIOUS
<1>2. b \in Seq(Tweet) /\ Len(b) = Len(s) - i
  OBVIOUS
<1>3. RemoveAt(s, i) = a \o b
  BY DEF RemoveAt
<1> HIDE DEF a, b
<1>4. a \o b \in Seq(Tweet) /\ Len(a \o b) = Len(a) + Len(b)
  BY <1>1, <1>2, ConcatProperties
<1>5. Len(a) + Len(b) = Len(s) - 1
  BY <1>1, <1>2
<1> QED
  BY <1>3, <1>4, <1>5

-----------------------------------------------------------------------------
(* Type correctness *)

LEMMA InitTypeOK == Init => TypeOK
<1> SUFFICES ASSUME Init PROVE TypeOK
  OBVIOUS
<1>1. Idle \in RequestType /\ Sent("page", Nil) \in RequestType
  BY DEF Idle, Sent, RequestType, Kind
<1>2. requests \in [Slot -> RequestType]
  BY <1>1 DEF Init
<1>3. db \subseteq posted /\ posted \subseteq Tweet /\ tweetList \in Seq(Tweet)
  BY TimelineAssumption DEF Init
<1>4. lastCreated \in Tweet \cup {Nil} /\ rows \in Int /\ details \in Nat
  BY DEF Init
<1>5. /\ busy \in BOOLEAN /\ refreshing \in BOOLEAN /\ newTweetButton \in BOOLEAN
      /\ screen \in {"home", "login", "compose", "posted"} /\ overlap \in BOOLEAN
  BY DEF Init
<1> QED
  BY <1>2, <1>3, <1>4, <1>5 DEF TypeOK

LEMMA SendTypeOK ==
    ASSUME TypeOK, NEW kind \in Kind, NEW at \in Tweet \cup {Nil}, Send(kind, at),
           kind = "page" \/ at \in Tweet
    PROVE  requests' \in [Slot -> RequestType] /\ overlap' \in BOOLEAN
<1>1. Sent(kind, at) \in RequestType
  BY DEF Sent, RequestType
<1> QED
  BY <1>1 DEF Send, TypeOK, Pending

LEMMA AnswerTypeOK ==
    ASSUME TypeOK, NEW q \in Slot, NEW got \in SUBSET Tweet, Answer(q, got)
    PROVE  requests' \in [Slot -> RequestType]
<1>1. requests[q] \in RequestType
  BY DEF TypeOK
<1>2. [requests[q] EXCEPT !.answered = TRUE, !.got = got] \in RequestType
  BY <1>1 DEF RequestType
<1> QED
  BY <1>2 DEF TypeOK, Answer

LEMMA FinishTypeOK ==
    ASSUME TypeOK, NEW q \in Slot, Finish(q)
    PROVE  requests' \in [Slot -> RequestType]
<1>1. Idle \in RequestType
  BY DEF Idle, RequestType, Kind
<1> QED
  BY <1>1 DEF TypeOK, Finish

LEMMA RequestFacts ==
    ASSUME TypeOK, NEW q \in Slot
    PROVE  /\ requests[q].kind \in Kind /\ requests[q].at \in Tweet \cup {Nil}
           /\ requests[q].answered \in BOOLEAN /\ requests[q].got \in SUBSET Tweet
           /\ requests[q].kind \in {"latest", "delete"} => requests[q].at \in Tweet
  BY DEF TypeOK, RequestType

LEMMA RefreshTypeOK ==
    ASSUME TypeOK, NEW asked \in BOOLEAN, Refresh(asked)
    PROVE  /\ requests' \in [Slot -> RequestType] /\ overlap' \in BOOLEAN
           /\ refreshing' \in BOOLEAN
<1>1. CASE tweetList = <<>>
  BY <1>1 DEF Refresh, TypeOK
<1>2. CASE tweetList # <<>>
  <2>1. Head(tweetList) \in Tweet
    BY <1>2, HeadTailProperties DEF TypeOK
  <2>2. Send("latest", Head(tweetList)) /\ refreshing' = asked
    BY <1>2 DEF Refresh
  <2> QED
    BY <2>1, <2>2, SendTypeOK DEF Kind
<1> QED
  BY <1>1, <1>2

(* What a page, sorted and cut, is. *)
LEMMA PageIsSeq ==
    ASSUME TypeOK, NEW q \in Slot, NEW s \in Sorted(requests[q].got)
    PROVE  DropPageAnchor(s) \in Seq(Tweet) /\ DropLatestAnchor(s) \in Seq(Tweet)
<1>1. s \in Seq(Tweet)
  BY SortedIsSeq, RequestFacts
<1> QED
  BY <1>1, CutIsSeq DEF DropPageAnchor, DropLatestAnchor

LEMMA LastIsTweet ==
    ASSUME NEW a \in Seq(Tweet), NEW b \in Seq(Tweet), b # <<>>
    PROVE  /\ Last(a \o b) = b[Len(b)] /\ Len(b) \in DOMAIN b
           /\ Last(a \o b) \in Tweet
<1>1. Len(b) \in Nat \ {0} /\ Len(a) \in Nat
  BY EmptySeq
<1>2. Len(a \o b) = Len(a) + Len(b)
  BY ConcatProperties
<1>3. (a \o b)[Len(a) + Len(b)] = b[Len(b)]
  BY <1>1, ConcatProperties
<1> QED
  BY <1>1, <1>2, <1>3 DEF Last

LEMMA NextTypeOK ==
    ASSUME TypeOK, [Next]_vars
    PROVE  TypeOK'
<1> USE DEF table
<1>1. CASE WillDisplay
  <2>1. Send("page", lastCreated) /\ busy' = (busy \/ lastCreated = Nil)
    BY <1>1 DEF WillDisplay, FetchTweets, SpinnerForFetch
  <2>2. requests' \in [Slot -> RequestType] /\ overlap' \in BOOLEAN
    BY <2>1, SendTypeOK DEF TypeOK, Kind
  <2> QED
    BY <1>1, <2>1, <2>2 DEF WillDisplay, TypeOK
<1>2. CASE PullToRefresh
  BY <1>2, RefreshTypeOK DEF PullToRefresh, TypeOK
<1>3. CASE DeleteClicked
  <2>1. PICK t \in ToSet(tweetList) \cap Own : Send("delete", t)
    BY <1>3 DEF DeleteClicked
  <2>2. requests' \in [Slot -> RequestType] /\ overlap' \in BOOLEAN
    BY <2>1, SendTypeOK, TimelineAssumption DEF Kind
  <2> QED
    BY <1>3, <2>2 DEF DeleteClicked, TypeOK
<1>4. CASE SignOut
  BY <1>4 DEF SignOut, TypeOK
<1>5. CASE LoginDidComplete
  <2>1. Send("page", lastCreated) /\ busy' = (busy \/ lastCreated = Nil)
    BY <1>5 DEF LoginDidComplete, FetchTweets, SpinnerForFetch
  <2>2. requests' \in [Slot -> RequestType] /\ overlap' \in BOOLEAN
    BY <2>1, SendTypeOK DEF TypeOK, Kind
  <2>3. details' \in Nat
    BY <1>5 DEF LoginDidComplete, FetchLoggedInUserDetails, TypeOK
  <2> QED
    BY <1>5, <2>1, <2>2, <2>3 DEF LoginDidComplete, TypeOK
<1>6. CASE NewTweetClicked
  BY <1>6 DEF NewTweetClicked, TypeOK
<1>7. CASE CancelNewTweet
  BY <1>7 DEF CancelNewTweet, TypeOK
<1>8. CASE PostOwn
  BY <1>8, TimelineAssumption DEF PostOwn, Commit, TypeOK
<1>9. CASE DidFinishTweet
  <2>1. Refresh(refreshing) /\ refreshing \in BOOLEAN
    BY <1>9 DEF DidFinishTweet, TypeOK
  <2>2. /\ requests' \in [Slot -> RequestType] /\ overlap' \in BOOLEAN
        /\ refreshing' \in BOOLEAN
    BY <2>1, RefreshTypeOK
  <2> QED
    BY <1>9, <2>2 DEF DidFinishTweet, TypeOK
<1>10. CASE PostElsewhere
  BY <1>10 DEF PostElsewhere, Commit, TypeOK
<1>11. CASE DeleteElsewhere
  BY <1>11 DEF DeleteElsewhere, TypeOK
<1>12. CASE CompleteDetails
  <2>1. details' \in Nat
    BY <1>12 DEF CompleteDetails, TypeOK
  <2>2. newTweetButton' \in BOOLEAN
    BY <1>12, Zenon DEF CompleteDetails, TypeOK
  <2> QED
    BY <1>12, <2>1, <2>2 DEF CompleteDetails, TypeOK
<1>13. ASSUME NEW q \in Slot, AnswerPage(q)
       PROVE  TypeOK'
  <2>1. PageQuery(requests[q].at) \in SUBSET Tweet
    BY DEF PageQuery, LimitToLast, TypeOK
  <2>2. requests' \in [Slot -> RequestType]
    BY <1>13, <2>1, AnswerTypeOK DEF AnswerPage
  <2> QED
    BY <1>13, <2>2 DEF AnswerPage, TypeOK
<1>14. ASSUME NEW q \in Slot, AnswerLatest(q)
       PROVE  TypeOK'
  <2>1. LatestQuery(requests[q].at) \in SUBSET Tweet
    BY DEF LatestQuery, TypeOK
  <2>2. requests' \in [Slot -> RequestType]
    BY <1>14, <2>1, AnswerTypeOK DEF AnswerLatest
  <2> QED
    BY <1>14, <2>2 DEF AnswerLatest, TypeOK
<1>15. ASSUME NEW q \in Slot, AnswerDelete(q)
       PROVE  TypeOK'
  <2>1. requests' \in [Slot -> RequestType]
    <3>1. CASE Answer(q, {})
      BY <3>1, AnswerTypeOK
    <3>2. CASE Answer(q, {requests[q].at})
      <4>1. requests[q].at \in Tweet
        BY <1>15, RequestFacts DEF AnswerDelete, Waiting
      <4> QED
        BY <3>2, <4>1, AnswerTypeOK
    <3> QED
      BY <1>15, <3>1, <3>2 DEF AnswerDelete
  <2> QED
    BY <1>15, <2>1 DEF AnswerDelete, TypeOK
<1>16. ASSUME NEW q \in Slot, CompletePage(q)
       PROVE  TypeOK'
  <2>1. PICK s \in Sorted(requests[q].got) :
            /\ tweetList' = tweetList \o DropPageAnchor(s)
            /\ rows' = RowsAfterPage(DropPageAnchor(s), tweetList')
            /\ lastCreated' = CursorAfterPage(DropPageAnchor(s), tweetList')
    BY <1>16 DEF CompletePage
  <2> DEFINE tweets == DropPageAnchor(s)
  <2>2. tweets \in Seq(Tweet) /\ tweetList \in Seq(Tweet)
    BY PageIsSeq DEF TypeOK
  <2> HIDE DEF tweets
  <2>3. tweetList' \in Seq(Tweet)
    BY <2>1, <2>2, ConcatProperties DEF tweets
  <2>4. lastCreated' \in Tweet \cup {Nil}
    BY <2>1, <2>2, LastIsTweet DEF CursorAfterPage, TypeOK, tweets
  <2>5. rows' \in Int
    BY <2>1, <2>2, <2>3 DEF RowsAfterPage, TypeOK, tweets
  <2>6. requests' \in [Slot -> RequestType]
    BY <1>16, FinishTypeOK DEF CompletePage
  <2> QED
    BY <1>16, <2>3, <2>4, <2>5, <2>6 DEF CompletePage, TypeOK
<1>17. ASSUME NEW q \in Slot, CompleteLatest(q)
       PROVE  TypeOK'
  <2>1. PICK s \in Sorted(requests[q].got) :
            /\ tweetList' = DropLatestAnchor(s) \o tweetList
            /\ rows' = rows + Len(DropLatestAnchor(s))
    BY <1>17 DEF CompleteLatest
  <2> DEFINE tweets == DropLatestAnchor(s)
  <2>2. tweets \in Seq(Tweet) /\ tweetList \in Seq(Tweet)
    BY PageIsSeq DEF TypeOK
  <2> HIDE DEF tweets
  <2>3. tweetList' \in Seq(Tweet)
    BY <2>1, <2>2, ConcatProperties DEF tweets
  <2>4. rows' \in Int
    BY <2>1, <2>2 DEF TypeOK, tweets
  <2>5. requests' \in [Slot -> RequestType]
    BY <1>17, FinishTypeOK DEF CompleteLatest
  <2> QED
    BY <1>17, <2>3, <2>4, <2>5 DEF CompleteLatest, RefreshingAfterLatest, TypeOK
<1>18. ASSUME NEW q \in Slot, CompleteDelete(q)
       PROVE  TypeOK'
  <2>1. \/ \E i \in 1 .. Len(tweetList) :
              tweetList' = RemoveAt(tweetList, i) /\ rows' = rows - 1
        \/ UNCHANGED <<tweetList, rows>>
    BY <1>18 DEF CompleteDelete, FirstIndex, TypeOK
  <2>2. tweetList' \in Seq(Tweet) /\ rows' \in Int
    BY <2>1, RemoveAtIsSeq DEF TypeOK
  <2>3. requests' \in [Slot -> RequestType]
    BY <1>18, FinishTypeOK DEF CompleteDelete
  <2> QED
    BY <1>18, <2>2, <2>3 DEF CompleteDelete, TypeOK
<1>19. CASE UNCHANGED vars
  BY <1>19 DEF vars, TypeOK
<1> QED
  BY <1>1, <1>2, <1>3, <1>4, <1>5, <1>6, <1>7, <1>8, <1>9, <1>10, <1>11, <1>12,
     <1>13, <1>14, <1>15, <1>16, <1>17, <1>18, <1>19
     DEF Next, User, Elsewhere, Database, Completion

(* TypeOK: the state of the Home screen keeps its types.                   *)
THEOREM TypeCorrect == Spec => []TypeOK
  BY InitTypeOK, NextTypeOK, PTL DEF Spec

-----------------------------------------------------------------------------
(* The table, and the first page *)

(* While no page was ever shown there is no cursor, no row and at most a   *)
(* first-page request.                                                     *)
NothingBeforeFirstPage ==
    lastCreated = Nil =>
        /\ tweetList = <<>>
        /\ \A q \in Slot : requests[q].kind \in {"idle", "page"} /\ requests[q].at = Nil

(* FirstPageAlone is not inductive by itself: a login could add a second   *)
(* first-page request.  It cannot, because the user cannot leave the Home  *)
(* screen while the first is in flight.                                    *)
FirstPageHoldsScreen ==
    \A q \in Slot : requests[q].kind = "page" /\ requests[q].at = Nil =>
        /\ busy /\ screen = "home" /\ lastCreated = Nil
        /\ \A p \in Slot : requests[p].kind = "page" => p = q

ScreenInv == TypeOK /\ TableConsistent /\ NothingBeforeFirstPage /\ FirstPageHoldsScreen

LEMMA InitScreenInv == Init => ScreenInv
<1> SUFFICES ASSUME Init PROVE ScreenInv
  OBVIOUS
<1>1. TypeOK
  BY InitTypeOK
<1>2. TableConsistent
  BY DEF Init, TableConsistent
<1>3. NothingBeforeFirstPage
  BY DEF Init, NothingBeforeFirstPage, Idle, Sent
<1>4. FirstPageHoldsScreen
  BY DEF Init, FirstPageHoldsScreen, Idle, Sent
<1> QED
  BY <1>1, <1>2, <1>3, <1>4 DEF ScreenInv

LEMMA SendEffect ==
    ASSUME TypeOK, NEW kind, NEW at, Send(kind, at)
    PROVE  \E q \in Slot :
            /\ requests[q].kind = "idle"
            /\ requests'[q].kind = kind /\ requests'[q].at = at
            /\ ~requests'[q].answered /\ requests'[q].got = {}
            /\ \A p \in Slot : p # q => requests'[p] = requests[p]
  BY DEF Send, Sent, Pending, TypeOK

LEMMA AnswerEffect ==
    ASSUME TypeOK, NEW q \in Slot, NEW got, Answer(q, got)
    PROVE  /\ requests'[q].kind = requests[q].kind /\ requests'[q].at = requests[q].at
           /\ requests'[q].answered /\ requests'[q].got = got
           /\ \A p \in Slot : p # q => requests'[p] = requests[p]
<1>1. requests[q] \in [kind : Kind, at : Tweet \cup {Nil}, answered : BOOLEAN, got : SUBSET Tweet]
  BY DEF TypeOK, RequestType
<1> QED
  BY <1>1 DEF Answer, TypeOK

LEMMA FinishEffect ==
    ASSUME TypeOK, NEW q \in Slot, Finish(q)
    PROVE  /\ requests'[q] = Idle
           /\ \A p \in Slot : p # q => requests'[p] = requests[p]
  BY DEF Finish, TypeOK

(* Answers leave what ScreenInv says of a request as it is. *)
LEMMA AnswerKeepsScreen ==
    ASSUME ScreenInv, NEW q \in Slot, NEW got, Answer(q, got),
           UNCHANGED <<table, busy, screen>>
    PROVE  TableConsistent' /\ NothingBeforeFirstPage' /\ FirstPageHoldsScreen'
<1>1. \A p \in Slot : /\ requests'[p].kind = requests[p].kind
                      /\ requests'[p].at = requests[p].at
  BY AnswerEffect DEF ScreenInv
<1> QED
  BY <1>1 DEF ScreenInv, TableConsistent, NothingBeforeFirstPage, FirstPageHoldsScreen, table

(* A refresh is sent from a list with rows only. *)
LEMMA RefreshKeepsScreen ==
    ASSUME ScreenInv, NEW asked, Refresh(asked), UNCHANGED <<table, busy>>,
           UNCHANGED screen \/ screen # "home"
    PROVE  TableConsistent' /\ NothingBeforeFirstPage' /\ FirstPageHoldsScreen'
<1>1. CASE tweetList = <<>>
  BY <1>1 DEF Refresh, ScreenInv, TableConsistent, NothingBeforeFirstPage, FirstPageHoldsScreen, table
<1>2. CASE tweetList # <<>>
  <2>1. Send("latest", Head(tweetList))
    BY <1>2 DEF Refresh
  <2>2. PICK q \in Slot : requests'[q].kind = "latest"
                /\ \A p \in Slot : p # q => requests'[p] = requests[p]
    BY <2>1, SendEffect DEF ScreenInv
  <2> QED
    BY <1>2, <2>2 DEF ScreenInv, TableConsistent, NothingBeforeFirstPage, FirstPageHoldsScreen, table
<1> QED
  BY <1>1, <1>2

LEMMA NextScreenInv ==
    ASSUME ScreenInv, [Next]_vars
    PROVE  ScreenInv'
<1> USE DEF table
<1>0. TypeOK /\ TypeOK'
  BY NextTypeOK DEF ScreenInv
<1> DEFINE Parts == TableConsistent /\ NothingBeforeFirstPage /\ FirstPageHoldsScreen
<1> SUFFICES Parts'
  BY <1>0 DEF ScreenInv
<1> DEFINE NoFirstPage == \A q \in Slot : ~(requests[q].kind = "page" /\ requests[q].at = Nil)
<1>a. lastCreated # Nil => NoFirstPage
  BY DEF ScreenInv, FirstPageHoldsScreen
<1>b. screen # "home" => NoFirstPage
  BY DEF ScreenInv, FirstPageHoldsScreen
<1>c. ~busy => NoFirstPage
  BY DEF ScreenInv, FirstPageHoldsScreen
<1>d. tweetList # <<>> => lastCreated # Nil
  BY DEF ScreenInv, NothingBeforeFirstPage
<1>1. CASE WillDisplay
  <2>1. tweetList # <<>>
    BY <1>1 DEF WillDisplay, ScreenInv, TableConsistent
  <2>2. Send("page", lastCreated) /\ UNCHANGED <<table, screen>>
    BY <1>1 DEF WillDisplay, FetchTweets
  <2>3. PICK q \in Slot : /\ requests'[q].kind = "page" /\ requests'[q].at = lastCreated
                          /\ \A p \in Slot : p # q => requests'[p] = requests[p]
    BY <1>0, <2>2, SendEffect
  <2> QED
    BY <1>a, <1>d, <2>1, <2>2, <2>3
       DEF ScreenInv, TableConsistent, NothingBeforeFirstPage, FirstPageHoldsScreen
<1>2. CASE PullToRefresh
  BY <1>2, RefreshKeepsScreen DEF PullToRefresh
<1>3. CASE DeleteClicked
  <2>1. PICK t \in ToSet(tweetList) : Send("delete", t)
    BY <1>3 DEF DeleteClicked
  <2>2. tweetList # <<>>
    BY <2>1 DEF ToSet
  <2>3. PICK q \in Slot : /\ requests'[q].kind = "delete"
                          /\ \A p \in Slot : p # q => requests'[p] = requests[p]
    BY <1>0, <2>1, SendEffect
  <2>4. UNCHANGED <<table, screen>>
    BY <1>3 DEF DeleteClicked
  <2> QED
    BY <1>a, <1>d, <2>2, <2>3, <2>4
       DEF ScreenInv, TableConsistent, NothingBeforeFirstPage, FirstPageHoldsScreen
<1>4. CASE SignOut
  BY <1>c, <1>4
     DEF SignOut, CanTouch, ScreenInv, TableConsistent, NothingBeforeFirstPage, FirstPageHoldsScreen
<1>5. CASE LoginDidComplete
  <2>1. /\ Send("page", lastCreated) /\ UNCHANGED table
        /\ screen' = "home" /\ busy' = (busy \/ lastCreated = Nil)
    BY <1>5 DEF LoginDidComplete, FetchTweets, SpinnerForFetch
  <2>2. PICK q \in Slot : /\ requests'[q].kind = "page" /\ requests'[q].at = lastCreated
                          /\ \A p \in Slot : p # q => requests'[p] = requests[p]
    BY <1>0, <2>1, SendEffect
  <2>3. NoFirstPage
    BY <1>b, <1>5 DEF LoginDidComplete
  <2>4. lastCreated = Nil => \A p \in Slot : requests[p].kind = "idle"
    BY <2>3 DEF ScreenInv, NothingBeforeFirstPage
  <2> QED
    BY <2>1, <2>2, <2>3, <2>4
       DEF ScreenInv, TableConsistent, NothingBeforeFirstPage, FirstPageHoldsScreen
<1>6. CASE NewTweetClicked
  BY <1>c, <1>6
     DEF NewTweetClicked, CanTouch, ScreenInv, TableConsistent, NothingBeforeFirstPage, FirstPageHoldsScreen
<1>7. CASE CancelNewTweet
  BY <1>b, <1>7
     DEF CancelNewTweet, ScreenInv, TableConsistent, NothingBeforeFirstPage, FirstPageHoldsScreen
<1>8. CASE PostOwn
  BY <1>b, <1>8
     DEF PostOwn, ScreenInv, TableConsistent, NothingBeforeFirstPage, FirstPageHoldsScreen
<1>9. CASE DidFinishTweet
  BY <1>9, RefreshKeepsScreen DEF DidFinishTweet
<1>10. CASE PostElsewhere
  BY <1>10 DEF PostElsewhere, ScreenInv, TableConsistent, NothingBeforeFirstPage, FirstPageHoldsScreen
<1>11. CASE DeleteElsewhere
  BY <1>11 DEF DeleteElsewhere, ScreenInv, TableConsistent, NothingBeforeFirstPage, FirstPageHoldsScreen
<1>12. CASE CompleteDetails
  BY <1>12 DEF CompleteDetails, ScreenInv, TableConsistent, NothingBeforeFirstPage, FirstPageHoldsScreen
<1>13. ASSUME NEW q \in Slot, AnswerPage(q)
       PROVE  Parts'
  BY <1>13, AnswerKeepsScreen DEF AnswerPage
<1>14. ASSUME NEW q \in Slot, AnswerLatest(q)
       PROVE  Parts'
  BY <1>14, AnswerKeepsScreen DEF AnswerLatest
<1>15. ASSUME NEW q \in Slot, AnswerDelete(q)
       PROVE  Parts'
  BY <1>15, AnswerKeepsScreen DEF AnswerDelete
<1>16. ASSUME NEW q \in Slot, CompletePage(q)
       PROVE  Parts'
  <2>1. PICK s \in Sorted(requests[q].got) :
            /\ tweetList' = tweetList \o DropPageAnchor(s)
            /\ rows' = RowsAfterPage(DropPageAnchor(s), tweetList')
            /\ lastCreated' = CursorAfterPage(DropPageAnchor(s), tweetList')
    BY <1>16 DEF CompletePage
  <2> DEFINE tweets == DropPageAnchor(s)
  <2>2. tweets \in Seq(Tweet) /\ tweetList \in Seq(Tweet)
    BY <1>0, PageIsSeq DEF TypeOK
  <2> HIDE DEF tweets
  <2>3. Len(tweetList') = Len(tweetList) + Len(tweets) /\ Len(tweetList) \in Nat /\ Len(tweets) \in Nat
    BY <2>1, <2>2, ConcatProperties DEF tweets
  <2>4. TableConsistent'
    BY <2>1, <2>3 DEF RowsAfterPage, ScreenInv, TableConsistent, tweets
  <2>5. /\ requests'[q].kind = "idle" /\ requests'[q].at = Nil
        /\ \A p \in Slot : p # q => requests'[p] = requests[p]
    BY <1>0, <1>16, FinishEffect DEF CompletePage, Idle
  <2>6. lastCreated' = Nil => lastCreated = Nil /\ tweets = <<>>
    <3> SUFFICES ASSUME lastCreated' = Nil, tweets # <<>> PROVE FALSE
      BY <2>1 DEF CursorAfterPage, tweets
    <3> QED
      BY <2>1, <2>2, LastIsTweet, TimelineAssumption DEF CursorAfterPage, Nil, tweets
  <2>7. NothingBeforeFirstPage'
    <3> SUFFICES ASSUME lastCreated' = Nil
                 PROVE  /\ tweetList' = <<>>
                        /\ \A p \in Slot : requests'[p].kind \in {"idle", "page"} /\ requests'[p].at = Nil
      BY DEF NothingBeforeFirstPage
    <3>1. tweetList = <<>> /\ tweets = <<>>
      BY <2>6 DEF ScreenInv, NothingBeforeFirstPage
    <3>2. tweetList' = <<>>
      BY <2>1, <2>2, <3>1, ConcatEmptySeq DEF tweets
    <3> QED
      BY <2>5, <2>6, <3>2 DEF ScreenInv, NothingBeforeFirstPage
  <2>8. FirstPageHoldsScreen'
    BY <1>16, <2>5 DEF CompletePage, Answered, ScreenInv, FirstPageHoldsScreen
  <2> QED
    BY <2>4, <2>7, <2>8
<1>17. ASSUME NEW q \in Slot, CompleteLatest(q)
       PROVE  Parts'
  <2>1. PICK s \in Sorted(requests[q].got) :
            /\ tweetList' = DropLatestAnchor(s) \o tweetList
            /\ rows' = rows + Len(DropLatestAnchor(s))
    BY <1>17 DEF CompleteLatest
  <2> DEFINE tweets == DropLatestAnchor(s)
  <2>2. tweets \in Seq(Tweet) /\ tweetList \in Seq(Tweet)
    BY <1>0, PageIsSeq DEF TypeOK
  <2> HIDE DEF tweets
  <2>3. Len(tweetList') = Len(tweets) + Len(tweetList) /\ Len(tweetList) \in Nat /\ Len(tweets) \in Nat
    BY <2>1, <2>2, ConcatProperties DEF tweets
  <2>4. TableConsistent'
    BY <2>1, <2>3 DEF ScreenInv, TableConsistent, tweets
  <2>5. requests'[q].kind = "idle" /\ \A p \in Slot : p # q => requests'[p] = requests[p]
    BY <1>0, <1>17, FinishEffect DEF CompleteLatest, Idle
  <2>6. lastCreated # Nil /\ UNCHANGED <<lastCreated, busy, screen>>
    BY <1>17 DEF CompleteLatest, Answered, ScreenInv, NothingBeforeFirstPage
  <2>7. NothingBeforeFirstPage'
    BY <2>6 DEF NothingBeforeFirstPage
  <2>8. FirstPageHoldsScreen'
    BY <1>a, <2>5, <2>6 DEF FirstPageHoldsScreen
  <2> QED
    BY <2>4, <2>7, <2>8
<1>18. ASSUME NEW q \in Slot, CompleteDelete(q)
       PROVE  Parts'
  <2>1. \/ \E i \in 1 .. Len(tweetList) :
              tweetList' = RemoveAt(tweetList, i) /\ rows' = rows - 1
        \/ UNCHANGED <<tweetList, rows>>
    BY <1>0, <1>18 DEF CompleteDelete, FirstIndex, TypeOK
  <2>2. TableConsistent'
    BY <1>0, <2>1, RemoveAtIsSeq DEF ScreenInv, TableConsistent, TypeOK
  <2>3. requests'[q].kind = "idle" /\ \A p \in Slot : p # q => requests'[p] = requests[p]
    BY <1>0, <1>18, FinishEffect DEF CompleteDelete, Idle
  <2>4. lastCreated # Nil /\ UNCHANGED lastCreated
    BY <1>18 DEF CompleteDelete, Answered, ScreenInv, NothingBeforeFirstPage
  <2>5. NothingBeforeFirstPage' /\ FirstPageHoldsScreen'
    BY <1>a, <2>3, <2>4 DEF NothingBeforeFirstPage, FirstPageHoldsScreen
  <2> QED
    BY <2>2, <2>5
<1>19. CASE UNCHANGED vars
  BY <1>19 DEF vars, ScreenInv, TableConsistent, NothingBeforeFirstPage, FirstPageHoldsScreen
<1> QED
  BY <1>1, <1>2, <1>3, <1>4, <1>5, <1>6, <1>7, <1>8, <1>9, <1>10, <1>11, <1>12,
     <1>13, <1>14, <1>15, <1>16, <1>17, <1>18, <1>19
     DEF Next, User, Elsewhere, Database, Completion

LEMMA ScreenInvariant == Spec => []ScreenInv
  BY InitScreenInv, NextScreenInv, PTL DEF Spec

(* TableConsistent: however completions interleave, the rows announced to  *)
(* the table view are those of tweetList, and UIKit's check on insertRows  *)
(* and deleteRows never fails.                                             *)
THEOREM TableNeverInconsistent == Spec => []TableConsistent
<1>1. ScreenInv => TableConsistent
  BY DEF ScreenInv
<1> QED
  BY <1>1, ScreenInvariant, PTL

(* FirstPageAlone: the spinner keeps a first-page request alone, so its    *)
(* answer never meets a cursor.                                            *)
THEOREM FirstPageIsAlone == Spec => []FirstPageAlone
<1>1. ScreenInv => FirstPageAlone
  BY DEF ScreenInv, NothingBeforeFirstPage, FirstPageHoldsScreen, FirstPageAlone, Pending
<1> QED
  BY <1>1, ScreenInvariant, PTL

-----------------------------------------------------------------------------
(* The row that asks for the next page *)

LEMMA MultipleOf ==
    ASSUME NEW n \in Nat, NEW c \in Nat \ {0}
    PROVE  (n * c) % c = 0
  OBVIOUS

LEMMA WholePages ==
    ASSUME NEW n \in Nat, NEW p \in Nat \ {0}
    PROVE  /\ n \div p \in Nat /\ (n \div p) * p <= n
           /\ n < p => n \div p = 0
           /\ p <= n => n \div p >= 1 /\ (n \div p) * p >= p
  OBVIOUS

LEMMA HalfPage == pageSize \div 2 \in Nat \ {0} /\ pageSize = 2 * (pageSize \div 2)
  BY TimelineAssumption

(* OneTriggerRow, of any number of rows and any even page size. *)
LEMMA TriggerRow ==
    ASSUME NEW count \in Nat \ {0}
    PROVE  \E index \in 0 .. count - 1 :
            \A other \in 0 .. count - 1 : ShouldFetchData(other, count) <=> other = index
<1> DEFINE c == pageSize \div 2
           k == count \div pageSize
           next == k * pageSize - pageSize + c
<1>1. c \in Nat \ {0} /\ pageSize = 2 * c /\ pageSize \in Nat \ {0}
  BY HalfPage, TimelineAssumption
<1>2. /\ k \in Nat /\ k * pageSize <= count
      /\ count < pageSize => k = 0
      /\ pageSize <= count => k >= 1 /\ k * pageSize >= pageSize
  BY <1>1, WholePages
<1>3. \A index : ShouldFetchData(index, count) <=>
            \/ index = count - 1 /\ count < pageSize
            \/ index # 0 /\ index % c = 0 /\ next = index
  BY DEF ShouldFetchData
<1> HIDE DEF c, k
<1>4. CASE count < pageSize
  <2>1. next < 0
    BY <1>1, <1>2, <1>4
  <2> HIDE DEF next
  <2>2. \A other \in 0 .. count - 1 : ShouldFetchData(other, count) <=> other = count - 1
    BY <1>3, <1>4, <2>1
  <2> QED
    BY <2>2
<1>5. CASE pageSize <= count
  <2>1. next = (2 * k - 1) * c /\ 2 * k - 1 \in Nat
    BY <1>1, <1>2, <1>5
  <2>2. next % c = 0
    BY <1>1, <2>1, MultipleOf
  <2>3. next \in Int /\ next > 0 /\ next <= count - 1
    BY <1>1, <1>2, <1>5
  <2> HIDE DEF next
  <2>4. \A other \in 0 .. count - 1 : ShouldFetchData(other, count) <=> other = next
    BY <1>1, <1>3, <1>5, <2>2, <2>3
  <2> QED
    BY <2>3, <2>4
<1> QED
  BY <1>1, <1>4, <1>5

(* OneTriggerRow: paging can always go on, from one row only.              *)
THEOREM AlwaysOneTriggerRow == Spec => []OneTriggerRow
<1>1. ScreenInv => OneTriggerRow
  <2> SUFFICES ASSUME ScreenInv, tweetList # <<>>
               PROVE  \E index \in 0 .. rows - 1 : \A other \in 0 .. rows - 1 :
                        ShouldFetchData(other, Len(tweetList)) <=> other = index
    BY DEF OneTriggerRow
  <2>1. Len(tweetList) \in Nat \ {0} /\ rows = Len(tweetList)
    BY EmptySeq DEF ScreenInv, TypeOK, TableConsistent
  <2> QED
    BY <2>1, TriggerRow
<1> QED
  BY <1>1, ScreenInvariant, PTL

=============================================================================

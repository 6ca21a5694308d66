------------------------ MODULE TimelineWindowProofs ------------------------
(***************************************************************************)
(* Pages and refreshes lose no tweet, however they overlap (NoGap), or     *)
(* only one beside a deleted tweet (LossOnlyBesideDeletion), and bring no  *)
(* deleted one back (DeletedStaysGone), for every value of the constants.  *)
(***************************************************************************)
EXTENDS TimelineProofs

-----------------------------------------------------------------------------
(* The tweets of the sequences the completions build *)

LEMMA ConcatSet ==
    ASSUME NEW a \in Seq(Tweet), NEW b \in Seq(Tweet)
    PROVE  ToSet(a \o b) = ToSet(a) \cup ToSet(b)
<1>1. /\ a \o b \in Seq(Tweet) /\ Len(a \o b) = Len(a) + Len(b)
      /\ \A i \in 1 .. Len(a) + Len(b) : (a \o b)[i] = IF i <= Len(a) THEN a[i] ELSE b[i - Len(a)]
  BY ConcatProperties
<1> DEFINE c == a \o b
<1> HIDE DEF c
<1>2. DOMAIN a = 1 .. Len(a) /\ DOMAIN b = 1 .. Len(b) /\ DOMAIN c = 1 .. Len(a) + Len(b)
  BY <1>1 DEF c
<1>3. ASSUME NEW t \in ToSet(c) PROVE t \in ToSet(a) \cup ToSet(b)
  BY <1>1, <1>2, <1>3 DEF ToSet, c
<1>4. ASSUME NEW i \in DOMAIN a PROVE a[i] \in ToSet(c)
  <2>1. i \in DOMAIN c /\ c[i] = a[i]
    BY <1>1, <1>2 DEF c
  <2> QED
    BY <2>1 DEF ToSet
<1>5. ASSUME NEW i \in DOMAIN b PROVE b[i] \in ToSet(c)
  <2>1. i + Len(a) \in DOMAIN c /\ c[i + Len(a)] = b[i]
    BY <1>1, <1>2 DEF c
  <2> QED
    BY <2>1 DEF ToSet
<1> QED
  BY <1>3, <1>4, <1>5 DEF ToSet, c

(* Removing a row shows nothing new. *)
LEMMA RemoveAtSet ==
    ASSUME NEW s \in Seq(Tweet), NEW i \in 1 .. Len(s)
    PROVE  ToSet(RemoveAt(s, i)) \subseteq ToSet(s)
<1> DEFINE a == SubSeq(s, 1, i - 1)
           b == SubSeq(s, i + 1, Len(s))
<1>1. a \in Seq(Tweet) /\ b \in Seq(Tweet)
  OBVIOUS
<1>2. \A j \in DOMAIN a : a[j] \in ToSet(s)
  BY DEF ToSet
<1>3. \A j \in DOMAIN b : b[j] \in ToSet(s)
  BY DEF ToSet
<1>4. RemoveAt(s, i) = a \o b
  BY DEF RemoveAt
<1> HIDE DEF a, b
<1> QED
  BY <1>1, <1>2, <1>3, <1>4, ConcatSet DEF ToSet

(* ... and takes away no tweet but its own. *)
LEMMA RemoveAtKeeps ==
    ASSUME NEW s \in Seq(Tweet), NEW i \in 1 .. Len(s)
    PROVE  ToSet(s) \subseteq ToSet(RemoveAt(s, i)) \cup {s[i]}
<1> DEFINE a == SubSeq(s, 1, i - 1)
           b == SubSeq(s, i + 1, Len(s))
<1>1. a \in Seq(Tweet) /\ DOMAIN a = 1 .. i - 1 /\ \A j \in 1 .. i - 1 : a[j] = s[j]
  OBVIOUS
<1>2. b \in Seq(Tweet) /\ DOMAIN b = 1 .. Len(s) - i /\ \A j \in 1 .. Len(s) - i : b[j] = s[j + i]
  OBVIOUS
<1>3. RemoveAt(s, i) = a \o b
  BY DEF RemoveAt
<1> HIDE DEF a, b
<1>4. ToSet(RemoveAt(s, i)) = ToSet(a) \cup ToSet(b)
  BY <1>1, <1>2, <1>3, ConcatSet
<1>5. ASSUME NEW j \in 1 .. Len(s), j # i
      PROVE  s[j] \in ToSet(a) \cup ToSet(b)
  <2>1. CASE j < i
    BY <1>1, <2>1 DEF ToSet
  <2>2. CASE j > i
    <3>1. j - i \in DOMAIN b /\ b[j - i] = s[j]
      BY <1>2, <2>2
    <3> QED
      BY <3>1 DEF ToSet
  <2> QED
    BY <1>5, <2>1, <2>2
<1> QED
  BY <1>4, <1>5 DEF ToSet

(* Tail cuts the newest tweet of a sorted answer. *)
LEMMA TailSet ==
    ASSUME NEW S \in SUBSET Tweet, NEW s \in Sorted(S), s # <<>>
    PROVE  /\ ToSet(Tail(s)) \subseteq S
           /\ \A at \in S : (\A t \in S : t <= at) => S \subseteq ToSet(Tail(s)) \cup {at}
<1>1. /\ s \in Seq(Tweet) /\ s \in Seq(S) /\ ToSet(s) = S
      /\ \A i, j \in 1 .. Len(s) : i < j => s[i] > s[j]
  BY SortedIsSeq
<1>2. /\ Tail(s) \in Seq(Tweet) /\ Len(Tail(s)) = Len(s) - 1 /\ Len(s) \in Nat \ {0}
      /\ \A i \in 1 .. Len(Tail(s)) : Tail(s)[i] = s[i + 1]
  BY <1>1, CutIsSeq, HeadTailProperties
<1> DEFINE r == Tail(s)
<1> HIDE DEF r
<1>3. DOMAIN s = 1 .. Len(s) /\ DOMAIN r = 1 .. Len(s) - 1 /\ \A i \in 1 .. Len(s) - 1 : r[i] = s[i + 1]
  BY <1>1, <1>2 DEF r
<1>4. ToSet(r) \subseteq S
  <2> SUFFICES ASSUME NEW i \in 1 .. Len(s) - 1 PROVE r[i] \in S
    BY <1>3 DEF ToSet
  <2>1. i + 1 \in 1 .. Len(s) /\ r[i] = s[i + 1]
    BY <1>2, <1>3
  <2> QED
    BY <1>1, <2>1
<1>5. ASSUME NEW at \in S, \A t \in S : t <= at, NEW t \in S, t # at
      PROVE  t \in ToSet(r)
  <2>1. PICK i \in 1 .. Len(s) : s[i] = t
    BY <1>1, <1>3 DEF ToSet
  <2>2. PICK j \in 1 .. Len(s) : s[j] = at
    BY <1>1, <1>3 DEF ToSet
  <2>3. t < at /\ t \in Nat /\ at \in Nat
    BY <1>5, TimelineAssumption
  <2>4. j < i
    BY <1>1, <2>1, <2>2, <2>3
  <2>5. i - 1 \in DOMAIN r /\ r[i - 1] = t
    BY <1>2, <1>3, <2>1, <2>4
  <2> QED
    BY <2>5 DEF ToSet
<1> QED
  BY <1>4, <1>5 DEF r

(* Front cuts the oldest. *)
LEMMA FrontSet ==
    ASSUME NEW S \in SUBSET Tweet, NEW s \in Sorted(S), s # <<>>
    PROVE  /\ ToSet(Front(s)) \subseteq S
           /\ \A at \in S : (\A t \in S : at <= t) => S \subseteq ToSet(Front(s)) \cup {at}
<1>1. /\ s \in Seq(Tweet) /\ s \in Seq(S) /\ ToSet(s) = S
      /\ \A i, j \in 1 .. Len(s) : i < j => s[i] > s[j]
  BY SortedIsSeq
<1>2. Front(s) \in Seq(Tweet) /\ Len(Front(s)) = Len(s) - 1 /\ Len(s) \in Nat \ {0}
  BY <1>1, CutIsSeq
<1>a. \A i \in 1 .. Len(s) - 1 : Front(s)[i] = s[i]
  BY <1>1, <1>2 DEF Front
<1> DEFINE r == Front(s)
<1> HIDE DEF r
<1>3. DOMAIN s = 1 .. Len(s) /\ DOMAIN r = 1 .. Len(s) - 1 /\ \A i \in 1 .. Len(s) - 1 : r[i] = s[i]
  BY <1>1, <1>2, <1>a DEF r
<1>4. ToSet(r) \subseteq S
  BY <1>1, <1>2, <1>3 DEF ToSet
<1>5. ASSUME NEW at \in S, \A t \in S : at <= t, NEW t \in S, t # at
      PROVE  t \in ToSet(r)
  <2>1. PICK i \in 1 .. Len(s) : s[i] = t
    BY <1>1, <1>3 DEF ToSet
  <2>2. PICK j \in 1 .. Len(s) : s[j] = at
    BY <1>1, <1>3 DEF ToSet
  <2>3. at < t /\ t \in Nat /\ at \in Nat
    BY <1>5, TimelineAssumption
  <2>4. i < j
    BY <1>1, <2>1, <2>2, <2>3
  <2>5. i \in DOMAIN r /\ r[i] = t
    BY <1>2, <1>3, <2>1, <2>4
  <2> QED
    BY <2>5 DEF ToSet
<1> QED
  BY <1>4, <1>5 DEF r

(* A sorted answer begins with its newest tweet and ends with its oldest. *)
LEMMA SortedEnds ==
    ASSUME NEW S \in SUBSET Tweet, NEW s \in Sorted(S), s # <<>>
    PROVE  /\ s[1] \in S /\ \A t \in S : t <= s[1]
           /\ s[Len(s)] \in S /\ \A t \in S : s[Len(s)] <= t
<1>1. /\ s \in Seq(Tweet) /\ s \in Seq(S) /\ ToSet(s) = S
      /\ \A i, j \in 1 .. Len(s) : i < j => s[i] > s[j]
  BY SortedIsSeq
<1> DEFINE n == Len(s)
<1>2. n \in Nat \ {0} /\ DOMAIN s = 1 .. n
  BY <1>1, CutIsSeq
<1>a. \A i \in 1 .. n : s[i] \in S
  BY <1>1
<1>b. S \subseteq Nat
  BY TimelineAssumption
<1>3. \A i \in 1 .. n : s[i] \in S /\ s[i] \in Nat
  BY <1>a, <1>b
<1>4. \A i, j \in 1 .. n : i < j => s[i] > s[j]
  BY <1>1
<1>5. \A t \in S : \E i \in 1 .. n : s[i] = t
  BY <1>1, <1>2 DEF ToSet
<1>6. s[1] \in S /\ s[n] \in S
  BY <1>2, <1>3
<1> HIDE DEF n
<1>7. ASSUME NEW t \in S PROVE t <= s[1] /\ s[n] <= t
  <2>1. PICK i \in 1 .. n : s[i] = t
    BY <1>5
  <2>2. 1 \in 1 .. n /\ n \in 1 .. n /\ i \in Nat /\ 1 <= i /\ i <= n
    BY <1>2
  <2>3. s[1] \in Nat /\ s[n] \in Nat /\ t \in Nat
    BY <1>3, <2>1, <2>2
  <2>4. i = 1 \/ s[1] > s[i]
    BY <1>4, <2>2
  <2>5. i = n \/ s[i] > s[n]
    BY <1>2, <1>4, <2>2
  <2> QED
    BY <2>1, <2>3, <2>4, <2>5
<1> QED
  BY <1>6, <1>7 DEF n

LEMMA SortedNonEmpty ==
    ASSUME NEW S \in SUBSET Tweet, NEW s \in Sorted(S), NEW at \in S
    PROVE  s # <<>>
<1>1. at \in ToSet(s)
  BY SortedIsSeq
<1>2. ToSet(<<>>) = {}
  BY DEF ToSet
<1> QED
  BY <1>1, <1>2

(* queryLimited(toLast:) keeps the newest tweets: with one tweet it        *)
(* returns all newer ones that match, and it returns the newest.           *)
LEMMA LimitToLastClosed ==
    ASSUME NEW S \in SUBSET Tweet, NEW k \in Nat \ {0}
    PROVE  /\ LimitToLast(S, k) \subseteq S
           /\ \A u \in LimitToLast(S, k) : \A t \in S : u <= t => t \in LimitToLast(S, k)
           /\ \A t \in S : (\A u \in S : u <= t) => t \in LimitToLast(S, k)
<1>1. S \subseteq Nat /\ IsFiniteSet(S)
  BY FS_Subset, TimelineAssumption
<1>2. ASSUME NEW u \in LimitToLast(S, k), NEW t \in S, u <= t
      PROVE  t \in LimitToLast(S, k)
  <2> DEFINE A == {v \in S : v > t}
             B == {v \in S : v > u}
  <2>a. u \in S /\ Cardinality(B) < k
    BY <1>2 DEF LimitToLast
  <2>b. \A v \in S : v > t => v > u
    BY <1>1, <1>2, <2>a
  <2>1. A \subseteq B /\ B \subseteq S
    BY <2>b
  <2>2. Cardinality(A) <= Cardinality(B) /\ Cardinality(A) \in Nat /\ Cardinality(B) \in Nat
    <3> HIDE DEF A, B
    <3>1. IsFiniteSet(B)
      BY <1>1, <2>1, FS_Subset
    <3>2. IsFiniteSet(A) /\ Cardinality(A) <= Cardinality(B)
      BY <2>1, <3>1, FS_Subset
    <3> QED
      BY <3>1, <3>2, FS_CardinalityType
  <2>3. Cardinality(A) < k
    <3> HIDE DEF A, B
    <3> QED
      BY <2>a, <2>2
  <2> QED
    BY <2>3 DEF LimitToLast
<1>3. ASSUME NEW t \in S, \A u \in S : u <= t
      PROVE  t \in LimitToLast(S, k)
  <2>a. \A u \in S : ~(u > t)
    BY <1>1, <1>3
  <2>1. {u \in S : u > t} = {}
    BY <2>a
  <2>2. Cardinality({u \in S : u > t}) = 0
    BY <2>1, FS_EmptySet
  <2> QED
    BY <2>2 DEF LimitToLast
<1> QED
  BY <1>2, <1>3 DEF LimitToLast

-----------------------------------------------------------------------------
(* The inductive invariant *)

(* What rows and answers show was in the database once; what a delete      *)
(* reports deleted is there no more.                                       *)
Known ==
    /\ Shown \subseteq posted
    /\ \A q \in Slot :
        /\ requests[q].kind \in {"page", "latest"} => requests[q].got \subseteq posted
        /\ requests[q].kind = "delete" =>
            /\ requests[q].at \in posted
            /\ requests[q].answered /\ requests[q].got # {} => requests[q].at \notin db

(* No tweet is left between t and some deleted one. *)
Beside(t) == \E d \in posted \ db : \A u \in db : ~(d < u /\ u < t) /\ ~(t < u /\ u < d)

Listed(t) == t \in Shown \/ Beside(t)

Asking(q) == requests[q].kind \in {"page", "latest"}

(* t is not newer than all rows and anchors.  Rows alone do not do: they   *)
(* may all be deleted while a page is in flight.                           *)
Reached(t) ==
    \/ \E m \in Shown : t <= m
    \/ t <= lastCreated
    \/ \E q \in Slot : Asking(q) /\ t <= requests[q].at

(* From c up to the newest of those, the database's tweets are in rows or  *)
(* beside a deleted one.                                                   *)
Covered(c) == \A t \in db : c <= t /\ Reached(t) => Listed(t)

Convex(S) == \A t \in db : (\E u \in S : u <= t) /\ (\E v \in S : t <= v) => t \in S

(* A page's anchor was the cursor when it was sent.  The cursor may have   *)
(* moved since, down or up, so coverage is claimed from every such anchor  *)
(* and not only from the cursor.  The answer ends at the anchor; the tweet *)
(* that is cut is the anchor's or, if that was deleted, one beside it.     *)
PageWindow(r) ==
    /\ r.at # Nil => r.at \in posted /\ Covered(r.at)
    /\ r.answered /\ r.at = Nil => Convex(r.got)
    /\ r.answered /\ r.at # Nil =>
        /\ \A t \in r.got : t <= r.at
        /\ \A t \in db : (\E u \in r.got : u <= t) /\ t <= r.at => t \in r.got
        /\ \A x \in r.got : (\A t \in r.got : t <= x) /\ x \in db => x = r.at \/ Beside(x)

(* A refresh's answer begins at its anchor. *)
LatestWindow(r) ==
    /\ r.at \in posted
    /\ r.at \in db => r.at \in Shown
    /\ r.answered =>
        /\ \A t \in r.got : r.at <= t
        /\ \A t \in db : (\E v \in r.got : t <= v) /\ r.at <= t => t \in r.got
        /\ \A x \in r.got : (\A t \in r.got : x <= t) /\ x \in db => x = r.at \/ Beside(x)

CursorWindow == lastCreated # Nil => lastCreated \in posted /\ Covered(lastCreated)

Window(q) == /\ requests[q].kind = "page" => PageWindow(requests[q])
             /\ requests[q].kind = "latest" => LatestWindow(requests[q])

RequestWindows == \A q \in Slot : Window(q)

WindowInv == InOrder => CursorWindow /\ RequestWindows

LEMMA CutSet ==
    ASSUME TypeOK, NEW q \in Slot, NEW s \in Sorted(requests[q].got)
    PROVE  /\ ToSet(DropPageAnchor(s)) \subseteq requests[q].got
           /\ ToSet(DropLatestAnchor(s)) \subseteq requests[q].got
<1>1. requests[q].got \in SUBSET Tweet
  BY RequestFacts
<1>2. ToSet(s) = requests[q].got
  BY <1>1, SortedIsSeq
<1> QED
  BY <1>1, <1>2, TailSet, FrontSet DEF DropPageAnchor, DropLatestAnchor

LEMMA InitKnown == Init => Known
<1> SUFFICES ASSUME Init PROVE Known
  OBVIOUS
<1>1. Shown = {}
  BY DEF Init, Shown, ToSet
<1> QED
  BY <1>1 DEF Init, Known, Idle, Sent

LEMMA SendKnown ==
    ASSUME TypeOK, Known, NEW kind, NEW at, Send(kind, at),
           kind = "delete" => at \in posted, UNCHANGED <<db, posted, tweetList>>
    PROVE  Known'
<1>1. PICK q \in Slot : /\ requests'[q].kind = kind /\ requests'[q].at = at
                        /\ requests'[q].got = {}
                        /\ \A p \in Slot : p # q => requests'[p] = requests[p]
  BY SendEffect
<1> QED
  BY <1>1 DEF Known, Shown

LEMMA RefreshKnown ==
    ASSUME TypeOK, Known, NEW asked, Refresh(asked), UNCHANGED <<db, posted, tweetList>>
    PROVE  Known'
<1>1. CASE tweetList = <<>>
  BY <1>1 DEF Refresh, Known, Shown
<1>2. CASE tweetList # <<>>
  BY <1>2, SendKnown DEF Refresh
<1> QED
  BY <1>1, <1>2

(* A tweet is posted at most once, so a new one was never deleted. *)
LEMMA PostKnown ==
    ASSUME TypeOK, Known, NEW t, MayPost(t), Commit(t), UNCHANGED <<tweetList, requests>>
    PROVE  Known'
  BY DEF Known, MayPost, Commit, Shown, TypeOK

LEMMA NextKnown ==
    ASSUME TypeOK, Known, [Next]_vars
    PROVE  Known'
<1> USE DEF table
<1>1. CASE WillDisplay
  BY <1>1, SendKnown DEF WillDisplay, FetchTweets
<1>2. CASE PullToRefresh
  BY <1>2, RefreshKnown DEF PullToRefresh
<1>3. CASE DeleteClicked
  <2>1. PICK t \in Shown : Send("delete", t)
    BY <1>3 DEF DeleteClicked, Shown
  <2>2. t \in posted
    BY <2>1 DEF Known
  <2> QED
    BY <1>3, <2>1, <2>2, SendKnown DEF DeleteClicked
<1>4. CASE SignOut
  BY <1>4 DEF SignOut, Known, Shown
<1>5. CASE LoginDidComplete
  BY <1>5, SendKnown DEF LoginDidComplete, FetchTweets
<1>6. CASE NewTweetClicked
  BY <1>6 DEF NewTweetClicked, Known, Shown
<1>7. CASE CancelNewTweet
  BY <1>7 DEF CancelNewTweet, Known, Shown
<1>8. CASE PostOwn
  BY <1>8, PostKnown DEF PostOwn
<1>9. CASE DidFinishTweet
  BY <1>9, RefreshKnown DEF DidFinishTweet
<1>10. CASE PostElsewhere
  BY <1>10, PostKnown DEF PostElsewhere
<1>11. CASE DeleteElsewhere
  BY <1>11 DEF DeleteElsewhere, Known, Shown
<1>12. CASE CompleteDetails
  BY <1>12 DEF CompleteDetails, Known, Shown
<1>13. ASSUME NEW q \in Slot, AnswerPage(q)
       PROVE  Known'
  <2>1. PageQuery(requests[q].at) \subseteq posted
    BY DEF PageQuery, LimitToLast, TypeOK
  <2>2. /\ requests'[q].kind = "page" /\ requests'[q].got \subseteq posted
        /\ \A p \in Slot : p # q => requests'[p] = requests[p]
    BY <1>13, <2>1, AnswerEffect DEF AnswerPage, Waiting
  <2> QED
    BY <1>13, <2>2 DEF AnswerPage, Known, Shown
<1>14. ASSUME NEW q \in Slot, AnswerLatest(q)
       PROVE  Known'
  <2>1. LatestQuery(requests[q].at) \subseteq posted
    BY DEF LatestQuery, TypeOK
  <2>2. /\ requests'[q].kind = "latest" /\ requests'[q].got \subseteq posted
        /\ \A p \in Slot : p # q => requests'[p] = requests[p]
    BY <1>14, <2>1, AnswerEffect DEF AnswerLatest, Waiting
  <2> QED
    BY <1>14, <2>2 DEF AnswerLatest, Known, Shown
<1>15. ASSUME NEW q \in Slot, AnswerDelete(q)
       PROVE  Known'
  <2>1. /\ requests'[q].kind = "delete" /\ requests'[q].at = requests[q].at
        /\ requests'[q].got # {} => requests[q].at \notin db'
        /\ \A p \in Slot : p # q => requests'[p] = requests[p]
    <3>1. CASE Answer(q, {}) /\ db' = db
      BY <1>15, <3>1, AnswerEffect DEF AnswerDelete, Waiting
    <3>2. CASE Answer(q, {requests[q].at}) /\ db' = db \ {requests[q].at}
      BY <1>15, <3>2, AnswerEffect DEF AnswerDelete, Waiting
    <3> QED
      BY <1>15, <3>1, <3>2 DEF AnswerDelete
  <2>2. db' \subseteq db /\ UNCHANGED <<posted, tweetList>> /\ requests[q].kind = "delete"
    BY <1>15 DEF AnswerDelete, Waiting
  <2> QED
    BY <2>1, <2>2 DEF Known, Shown
<1>16. ASSUME NEW q \in Slot, CompletePage(q)
       PROVE  Known'
  <2>1. PICK s \in Sorted(requests[q].got) : tweetList' = tweetList \o DropPageAnchor(s)
    BY <1>16 DEF CompletePage
  <2>2. ToSet(tweetList') = Shown \cup ToSet(DropPageAnchor(s))
    BY <2>1, PageIsSeq, ConcatSet DEF Shown, TypeOK
  <2>3. requests'[q].kind = "idle" /\ \A p \in Slot : p # q => requests'[p] = requests[p]
    BY <1>16, FinishEffect DEF CompletePage, Idle
  <2> QED
    BY <1>16, <2>2, <2>3, CutSet DEF CompletePage, Answered, Known, Shown
<1>17. ASSUME NEW q \in Slot, CompleteLatest(q)
       PROVE  Known'
  <2>1. PICK s \in Sorted(requests[q].got) : tweetList' = DropLatestAnchor(s) \o tweetList
    BY <1>17 DEF CompleteLatest
  <2>2. ToSet(tweetList') = Shown \cup ToSet(DropLatestAnchor(s))
    BY <2>1, PageIsSeq, ConcatSet DEF Shown, TypeOK
  <2>3. requests'[q].kind = "idle" /\ \A p \in Slot : p # q => requests'[p] = requests[p]
    BY <1>17, FinishEffect DEF CompleteLatest, Idle
  <2> QED
    BY <1>17, <2>2, <2>3, CutSet DEF CompleteLatest, Answered, Known, Shown
<1>18. ASSUME NEW q \in Slot, CompleteDelete(q)
       PROVE  Known'
  <2>1. \/ \E i \in 1 .. Len(tweetList) : tweetList' = RemoveAt(tweetList, i)
        \/ UNCHANGED tweetList
    BY <1>18 DEF CompleteDelete, FirstIndex, TypeOK
  <2>2. ToSet(tweetList') \subseteq Shown
    BY <2>1, RemoveAtSet DEF Shown, TypeOK
  <2>3. requests'[q].kind = "idle" /\ \A p \in Slot : p # q => requests'[p] = requests[p]
    BY <1>18, FinishEffect DEF CompleteDelete, Idle
  <2> QED
    BY <1>18, <2>2, <2>3 DEF CompleteDelete, Known, Shown
<1>19. CASE UNCHANGED vars
  BY <1>19 DEF vars, Known, Shown
<1> QED
  BY <1>1, <1>2, <1>3, <1>4, <1>5, <1>6, <1>7, <1>8, <1>9, <1>10, <1>11, <1>12,
     <1>13, <1>14, <1>15, <1>16, <1>17, <1>18, <1>19
     DEF Next, User, Elsewhere, Database, Completion

LEMMA InitWindow == Init => WindowInv
<1> SUFFICES ASSUME Init PROVE CursorWindow /\ RequestWindows
  BY DEF WindowInv
<1> QED
  BY DEF Init, CursorWindow, RequestWindows, Window, PageWindow, Idle, Sent

(* A deletion leaves a tweet beside a deleted one where it is. *)
LEMMA BesideStays ==
    ASSUME UNCHANGED posted, db' \subseteq db, NEW t, Beside(t)
    PROVE  Beside(t)'
  BY DEF Beside

(* What a request's window says survives as long as coverage and the rows  *)
(* of tweets in the database do.                                           *)
LEMMA KeepWindow ==
    ASSUME TypeOK, RequestWindows, UNCHANGED posted, db' \subseteq db,
           \A t \in db' : t \in Shown => t \in Shown',
           \A c \in Tweet : Covered(c) => Covered(c)',
           NEW p \in Slot, requests'[p] = requests[p]
    PROVE  Window(p)'
<1>1. requests[p].at \in Tweet \cup {Nil}
  BY RequestFacts
<1>2. Window(p)
  BY DEF RequestWindows
<1>3. \A t : Beside(t) => Beside(t)'
  BY BesideStays
<1>4. Convex(requests[p].got) => Convex(requests[p].got)'
  BY DEF Convex
<1>5. CASE requests[p].kind = "page"
  <2>1. PageWindow(requests[p])
    BY <1>2, <1>5 DEF Window
  <2>2. PageWindow(requests[p])'
    BY <1>1, <1>3, <1>4, <2>1 DEF PageWindow
  <2> QED
    BY <1>5, <2>2 DEF Window
<1>6. CASE requests[p].kind = "latest"
  <2>1. LatestWindow(requests[p])
    BY <1>2, <1>6 DEF Window
  <2>2. LatestWindow(requests[p])'
    BY <1>3, <2>1 DEF LatestWindow
  <2> QED
    BY <1>6, <2>2 DEF Window
<1> QED
  BY <1>5, <1>6 DEF Window

(* Steps that leave the rows, the cursor and the anchors. *)
LEMMA SameCovered ==
    ASSUME UNCHANGED <<posted, tweetList, lastCreated>>, db' \subseteq db,
           \A t : Reached(t)' => Reached(t)
    PROVE  \A c \in Tweet : Covered(c) => Covered(c)'
<1>1. \A t : Listed(t) => Listed(t)'
  BY BesideStays DEF Listed, Shown
<1> QED
  BY <1>1 DEF Covered

LEMMA SendWindow ==
    ASSUME TypeOK, Known, CursorWindow, RequestWindows, NEW kind, NEW at, Send(kind, at),
           kind = "page" => at = lastCreated, kind = "latest" => at \in Shown,
           UNCHANGED <<db, posted, tweetList, lastCreated>>
    PROVE  CursorWindow' /\ RequestWindows'
<1>1. PICK q \in Slot : /\ requests'[q].kind = kind /\ requests'[q].at = at
                        /\ ~requests'[q].answered
                        /\ \A p \in Slot : p # q => requests'[p] = requests[p]
  BY SendEffect
<1>2. Shown' = Shown
  BY DEF Shown
<1>3. \A t : Reached(t)' => Reached(t)
  BY <1>1, <1>2 DEF Reached, Asking
<1>4. \A c \in Tweet : Covered(c) => Covered(c)'
  BY <1>3, SameCovered
<1>5. CursorWindow'
  BY <1>4 DEF CursorWindow, TypeOK
<1>6. Window(q)'
  BY <1>1, <1>2, <1>5 DEF Window, PageWindow, LatestWindow, CursorWindow, Known
<1>7. \A p \in Slot : p # q => Window(p)'
  BY <1>1, <1>2, <1>4, KeepWindow
<1> QED
  BY <1>5, <1>6, <1>7 DEF RequestWindows

LEMMA SameWindow ==
    ASSUME TypeOK, CursorWindow, RequestWindows, db' \subseteq db,
           UNCHANGED <<posted, tweetList, lastCreated, requests>>
    PROVE  CursorWindow' /\ RequestWindows'
<1>1. Shown' = Shown /\ \A t : Reached(t)' => Reached(t)
  BY DEF Shown, Reached, Asking
<1>2. \A c \in Tweet : Covered(c) => Covered(c)'
  BY <1>1, SameCovered
<1>3. RequestWindows'
  BY <1>1, <1>2, KeepWindow DEF RequestWindows
<1> QED
  BY <1>2, <1>3 DEF CursorWindow, TypeOK

LEMMA RefreshWindow ==
    ASSUME TypeOK, Known, CursorWindow, RequestWindows, NEW asked, Refresh(asked),
           UNCHANGED <<db, posted, tweetList, lastCreated>>
    PROVE  CursorWindow' /\ RequestWindows'
<1>1. CASE tweetList = <<>>
  BY <1>1, SameWindow DEF Refresh
<1>2. CASE tweetList # <<>>
  <2>1. Send("latest", Head(tweetList))
    BY <1>2 DEF Refresh
  <2>2. Head(tweetList) \in Shown
    BY <1>2 DEF Shown, ToSet, TypeOK
  <2> QED
    BY <2>1, <2>2, SendWindow
<1> QED
  BY <1>1, <1>2

(* A new tweet is newer than every row, anchor, answer and deleted tweet. *)
LEMMA PostWindow ==
    ASSUME TypeOK, Known, InOrder, CursorWindow, RequestWindows,
           NEW n \in Tweet, MayPost(n), Commit(n), UNCHANGED <<tweetList, lastCreated, requests>>
    PROVE  CursorWindow' /\ RequestWindows'
<1>1. /\ db' = db \cup {n} /\ posted' = posted \cup {n}
      /\ n \notin posted /\ n \in Nat /\ \A u \in posted : u \in Nat /\ u < n
  BY TimelineAssumption DEF MayPost, Commit, TypeOK
<1>2. db \subseteq posted /\ Shown \subseteq posted /\ Shown' = Shown
  BY DEF TypeOK, Known, Shown
<1>3. \A t \in db : Beside(t) => Beside(t)'
  <2> SUFFICES ASSUME NEW t \in db, Beside(t) PROVE Beside(t)'
    OBVIOUS
  <2>1. PICK d \in posted \ db : \A u \in db : ~(d < u /\ u < t) /\ ~(t < u /\ u < d)
    BY DEF Beside
  <2>2. d \in posted' \ db' /\ d < n /\ t < n /\ d \in Nat /\ t \in Nat
    BY <1>1, <1>2, <2>1
  <2>3. \A u \in db' : ~(d < u /\ u < t) /\ ~(t < u /\ u < d)
    BY <1>1, <2>1, <2>2
  <2> QED
    BY <2>2, <2>3 DEF Beside
<1>4. /\ lastCreated \in posted \cup {Nil}
      /\ \A q \in Slot : Asking(q) => requests[q].at \in posted \cup {Nil}
  BY DEF CursorWindow, RequestWindows, Window, PageWindow, LatestWindow, Asking
<1>5. ~Reached(n)'
  <2>1. \A m \in posted \cup {Nil} : ~(n <= m)
    BY <1>1 DEF Nil
  <2> QED
    BY <1>2, <1>4, <2>1 DEF Reached, Asking
<1>6. \A t : Reached(t)' => Reached(t)
  BY <1>2 DEF Reached, Asking
<1>7. \A c \in Tweet : Covered(c) => Covered(c)'
  BY <1>1, <1>2, <1>3, <1>5, <1>6 DEF Covered, Listed
<1>8. CursorWindow'
  BY <1>1, <1>7 DEF CursorWindow, TypeOK
<1>9. ASSUME NEW q \in Slot PROVE Window(q)'
  <2>1. requests'[q] = requests[q] /\ Window(q) /\ requests[q].at \in Tweet \cup {Nil}
    BY RequestFacts DEF RequestWindows
  <2>2. CASE requests[q].kind = "page"
    <3>1. PageWindow(requests[q]) /\ requests[q].got \subseteq posted
      BY <2>1, <2>2 DEF Window, Known
    <3>2. Convex(requests[q].got) => Convex(requests[q].got)'
      BY <1>1, <2>1, <3>1 DEF Convex
    <3>3. PageWindow(requests[q])'
      BY <1>1, <1>2, <1>3, <1>7, <2>1, <3>1, <3>2 DEF PageWindow
    <3> QED
      BY <2>1, <2>2, <3>3 DEF Window
  <2>3. CASE requests[q].kind = "latest"
    <3>1. LatestWindow(requests[q]) /\ requests[q].got \subseteq posted
      BY <2>1, <2>3 DEF Window, Known
    <3>2. LatestWindow(requests[q])'
      BY <1>1, <1>2, <1>3, <2>1, <3>1 DEF LatestWindow
    <3> QED
      BY <2>1, <2>3, <3>2 DEF Window
  <2> QED
    BY <2>1, <2>2, <2>3 DEF Window
<1> QED
  BY <1>8, <1>9 DEF RequestWindows

(* An answer is added to its request. *)
LEMMA AnswerWindow ==
    ASSUME TypeOK, CursorWindow, RequestWindows, db' \subseteq db,
           UNCHANGED <<posted, tweetList, lastCreated>>,
           NEW q \in Slot, NEW got, Answer(q, got), Window(q)'
    PROVE  CursorWindow' /\ RequestWindows'
<1>1. /\ requests'[q].kind = requests[q].kind /\ requests'[q].at = requests[q].at
      /\ \A p \in Slot : p # q => requests'[p] = requests[p]
  BY AnswerEffect
<1>2. Shown' = Shown /\ \A t : Reached(t)' => Reached(t)
  BY <1>1 DEF Shown, Reached, Asking
<1>3. \A c \in Tweet : Covered(c) => Covered(c)'
  BY <1>2, SameCovered
<1>4. \A p \in Slot : p # q => Window(p)'
  BY <1>1, <1>2, <1>3, KeepWindow
<1> QED
  BY <1>3, <1>4 DEF CursorWindow, RequestWindows, TypeOK

(* The page that ends at the anchor: without the anchor's tweet it ends    *)
(* with one beside it.                                                     *)
LEMMA PageAnswer ==
    ASSUME TypeOK, NEW at \in posted, NEW got, got = PageQuery(at)
    PROVE  /\ got \subseteq db /\ \A t \in got : t <= at
           /\ \A t \in db : (\E u \in got : u <= t) /\ t <= at => t \in got
           /\ \A x \in got : (\A t \in got : t <= x) => x = at \/ Beside(x)
<1> DEFINE S == {t \in db : t <= at}
<1>1. posted \subseteq Nat /\ db \subseteq posted /\ at \in Nat /\ S \in SUBSET Tweet
  BY TimelineAssumption DEF TypeOK
<1>2. at # Nil
  BY <1>1 DEF Nil
<1>3. got = LimitToLast(S, pageSize + 1) /\ pageSize + 1 \in Nat \ {0}
  BY <1>2, TimelineAssumption DEF PageQuery
<1>4. \A t \in S : t \in db /\ t <= at
  OBVIOUS
<1>5. \A t \in db : t <= at => t \in S
  OBVIOUS
<1> HIDE DEF S
<1>6. /\ got \subseteq S
      /\ \A u \in got : \A t \in S : u <= t => t \in got
      /\ \A t \in S : (\A u \in S : u <= t) => t \in got
  BY <1>1, <1>3, LimitToLastClosed
<1>7. ASSUME NEW x \in got, \A t \in got : t <= x, x # at PROVE Beside(x)
  <2>1. at \notin db
    <3> SUFFICES ASSUME at \in db PROVE FALSE
      OBVIOUS
    <3>1. at \in got
      BY <1>1, <1>4, <1>5, <1>6
    <3> QED
      BY <1>1, <1>4, <1>6, <1>7, <3>1
  <2>2. ASSUME NEW u \in db PROVE ~(at < u /\ u < x) /\ ~(x < u /\ u < at)
    <3>1. x \in Nat /\ u \in Nat /\ x <= at
      BY <1>1, <1>4, <1>6
    <3>2. ASSUME x < u, u < at PROVE FALSE
      <4>1. u \in S
        BY <1>1, <1>5, <3>1, <3>2
      <4>2. u \in got
        BY <1>6, <3>1, <3>2, <4>1
      <4> QED
        BY <1>7, <3>1, <3>2, <4>2
    <3> QED
      BY <1>1, <3>1, <3>2
  <2> QED
    BY <2>1, <2>2 DEF Beside
<1> QED
  BY <1>4, <1>5, <1>6, <1>7

LEMMA LatestAnswer ==
    ASSUME TypeOK, NEW at \in posted, NEW got, got = LatestQuery(at)
    PROVE  /\ got \subseteq db /\ \A t \in got : at <= t
           /\ \A t \in db : at <= t => t \in got
           /\ \A x \in got : (\A t \in got : x <= t) => x = at \/ Beside(x)
<1>1. posted \subseteq Nat /\ db \subseteq posted /\ at \in Nat
  BY TimelineAssumption DEF TypeOK
<1>2. /\ got \subseteq db /\ \A t \in got : at <= t
      /\ \A t \in db : at <= t => t \in got
  BY <1>1 DEF LatestQuery
<1>3. ASSUME NEW x \in got, \A t \in got : x <= t, x # at PROVE Beside(x)
  <2>1. at \notin db
    BY <1>1, <1>2, <1>3
  <2>2. ASSUME NEW u \in db PROVE ~(at < u /\ u < x) /\ ~(x < u /\ u < at)
    <3>1. x \in Nat /\ u \in Nat /\ at <= x
      BY <1>1, <1>2
    <3>2. ASSUME at < u, u < x PROVE FALSE
      <4>1. u \in got
        BY <1>1, <1>2, <3>1, <3>2
      <4> QED
        BY <1>3, <3>1, <3>2, <4>1
    <3> QED
      BY <1>1, <3>1, <3>2
  <2> QED
    BY <2>1, <2>2 DEF Beside
<1> QED
  BY <1>2, <1>3

(* A page that follows another: what was cut is its anchor's or beside it, *)
(* and its last tweet is the new cursor.                                   *)
LEMMA NextPageWindow ==
    ASSUME ScreenInv, Known, CursorWindow, RequestWindows, NEW q \in Slot, CompletePage(q),
           requests[q].at # Nil
    PROVE  CursorWindow' /\ RequestWindows'
<1> DEFINE at == requests[q].at
           got == requests[q].got
<1>1. PICK s \in Sorted(got) :
          /\ tweetList' = tweetList \o DropPageAnchor(s)
          /\ lastCreated' = CursorAfterPage(DropPageAnchor(s), tweetList')
  BY DEF CompletePage
<1> DEFINE tweets == DropPageAnchor(s)
<1>2. /\ requests[q].kind = "page" /\ requests[q].answered /\ UNCHANGED <<db, posted>> /\ TypeOK
      /\ tweets \in Seq(Tweet) /\ tweetList \in Seq(Tweet) /\ got \in SUBSET Tweet /\ at \in Tweet
  BY PageIsSeq, RequestFacts DEF CompletePage, Answered, ScreenInv, TypeOK
<1>3. Shown' = Shown \cup ToSet(tweets) /\ ToSet(tweets) \subseteq got /\ got \subseteq posted
  BY <1>1, <1>2, ConcatSet, CutSet DEF Shown, Known
<1>4. requests'[q].kind = "idle" /\ \A p \in Slot : p # q => requests'[p] = requests[p]
  BY <1>2, FinishEffect DEF CompletePage, Idle
<1>5. PageWindow(requests[q])
  BY <1>2 DEF RequestWindows, Window
<1>6. lastCreated' = lastCreated \/ lastCreated' \in ToSet(tweets)
  <2> HIDE DEF tweets
  <2>1. tweets # <<>> => Last(tweetList \o tweets) \in ToSet(tweets)
    BY <1>2, LastIsTweet DEF ToSet
  <2> QED
    BY <1>1, <2>1 DEF CursorAfterPage, tweets
<1>7. posted \subseteq Nat /\ db \subseteq posted /\ got \subseteq Nat /\ at \in Nat
  BY <1>2, TimelineAssumption DEF TypeOK
<1>8. ASSUME NEW t \in got, t \in db PROVE Listed(t)'
  <2>1. s # <<>>
    BY <1>1, <1>2, <1>8, SortedNonEmpty
  <2>2. lastCreated # Nil
    BY <1>2 DEF ScreenInv, NothingBeforeFirstPage
  <2>3. tweets = Tail(s)
    BY <2>1, <2>2 DEF DropPageAnchor
  <2>4. /\ s[1] \in got /\ \A u \in got : u <= s[1]
        /\ got \subseteq ToSet(tweets) \cup {s[1]}
    <3> HIDE DEF got
    <3> QED
      BY <1>1, <1>2, <2>1, <2>3, SortedEnds, TailSet
  <2>5. CASE t \in ToSet(tweets)
    BY <1>3, <2>5 DEF Listed
  <2>6. CASE t = s[1]
    <3>1. t = at \/ Beside(t)
      BY <1>2, <1>5, <1>8, <2>4, <2>6 DEF PageWindow
    <3>2. t = at => Listed(t)
      <4>1. Reached(at) /\ Covered(at) /\ at <= at
        BY <1>2, <1>5, <1>7 DEF Reached, Asking, PageWindow
      <4> QED
        BY <1>8, <4>1 DEF Covered
    <3>3. Listed(t)
      BY <3>1, <3>2 DEF Listed
    <3> QED
      BY <1>2, <1>3, <3>3, BesideStays DEF Listed
  <2> QED
    BY <1>8, <2>4, <2>5, <2>6
<1> HIDE DEF at, got, tweets
<1>9. \A t : Listed(t) => Listed(t)'
  BY <1>2, <1>3, BesideStays DEF Listed
<1>10. \A t \in got : t <= at
  BY <1>2, <1>5 DEF PageWindow, got, at
<1>11. ASSUME NEW t \in db, Reached(t)' PROVE Reached(t)
  <2>1. Reached(at) /\ \A u \in got : t <= u => t <= at
    BY <1>2, <1>7, <1>10 DEF Reached, Asking, at
  <2>2. t <= at => Reached(t)
    BY <1>2 DEF Reached, Asking, at
  <2> QED
    BY <1>3, <1>4, <1>6, <1>11, <2>1, <2>2 DEF Reached, Asking
<1>12. \A c \in Tweet : Covered(c) => Covered(c)'
  BY <1>2, <1>9, <1>11 DEF Covered
<1>13. RequestWindows'
  <2>1. \A p \in Slot : p # q => Window(p)'
    BY <1>2, <1>3, <1>4, <1>12, KeepWindow
  <2>2. Window(q)'
    BY <1>4 DEF Window
  <2> QED
    BY <2>1, <2>2 DEF RequestWindows
<1>14. CursorWindow'
  <2>1. CASE lastCreated' = lastCreated
    BY <1>2, <1>12, <2>1 DEF CursorWindow, TypeOK
  <2>2. CASE lastCreated' \in ToSet(tweets)
    <3>1. lastCreated' \in got /\ lastCreated' \in posted /\ lastCreated' \in Nat
      BY <1>3, <1>7, <2>2
    <3>2. ASSUME NEW t \in db, lastCreated' <= t, Reached(t)' PROVE Listed(t)'
      <4>1. CASE t <= at
        <5>1. t \in got
          BY <1>2, <1>5, <3>1, <3>2, <4>1 DEF PageWindow, got, at
        <5> QED
          BY <1>8, <3>2, <5>1
      <4>2. CASE at <= t
        <5>1. Reached(t) /\ Covered(at)
          BY <1>2, <1>5, <1>11, <3>2 DEF PageWindow, at
        <5> QED
          BY <1>9, <3>2, <4>2, <5>1 DEF Covered
      <4> QED
        BY <1>7, <3>2, <4>1, <4>2
    <3> QED
      BY <1>2, <3>1, <3>2 DEF CursorWindow, Covered
  <2> QED
    BY <1>6, <2>1, <2>2
<1> QED
  BY <1>13, <1>14

(* The first page is alone: nothing is cut, and nothing else is shown. *)
LEMMA FirstPageWindow ==
    ASSUME ScreenInv, RequestWindows, NEW q \in Slot, CompletePage(q), requests[q].at = Nil,
           Known'
    PROVE  CursorWindow' /\ RequestWindows'
<1> DEFINE got == requests[q].got
<1>1. PICK s \in Sorted(got) :
          /\ tweetList' = tweetList \o DropPageAnchor(s)
          /\ lastCreated' = CursorAfterPage(DropPageAnchor(s), tweetList')
  BY DEF CompletePage
<1>2. /\ requests[q].kind = "page" /\ requests[q].answered /\ UNCHANGED <<db, posted>> /\ TypeOK
      /\ s \in Seq(Tweet) /\ tweetList \in Seq(Tweet) /\ got \in SUBSET Tweet /\ ToSet(s) = got
  BY <1>1, SortedIsSeq, RequestFacts DEF CompletePage, Answered, ScreenInv, TypeOK
<1>3. lastCreated = Nil /\ tweetList = <<>> /\ \A p \in Slot : p # q => requests[p].kind = "idle"
  BY <1>2 DEF ScreenInv, NothingBeforeFirstPage, FirstPageHoldsScreen
<1>4. \A p \in Slot : requests'[p].kind = "idle"
  BY <1>2, <1>3, FinishEffect DEF CompletePage, Idle
<1>5. DropPageAnchor(s) = s
  BY <1>3 DEF DropPageAnchor
<1>6. Shown' = got
  <2>1. Shown' = ToSet(tweetList) \cup ToSet(s)
    BY <1>1, <1>2, <1>5, ConcatSet DEF Shown
  <2>2. ToSet(tweetList) = {}
    BY <1>3 DEF ToSet
  <2> QED
    BY <1>2, <2>1, <2>2
<1>7. lastCreated' = Nil \/ lastCreated' \in got
  <2> HIDE DEF got
  <2>1. s # <<>> => Last(tweetList \o s) \in ToSet(s)
    BY <1>2, LastIsTweet DEF ToSet
  <2> QED
    BY <1>1, <1>2, <1>3, <1>5, <2>1 DEF CursorAfterPage
<1>8. CursorWindow'
  <2> SUFFICES ASSUME lastCreated' # Nil
               PROVE  lastCreated' \in posted' /\ Covered(lastCreated)'
    BY DEF CursorWindow
  <2>1. lastCreated' \in got /\ lastCreated' \in posted'
    BY <1>6, <1>7 DEF Known
  <2>2. Convex(got)
    BY <1>2 DEF RequestWindows, Window, PageWindow
  <2>3. \A t : Reached(t)' => \E m \in got : t <= m
    BY <1>4, <1>6, <2>1 DEF Reached, Asking
  <2> HIDE DEF got
  <2>4. ASSUME NEW t \in db, lastCreated' <= t, Reached(t)' PROVE t \in got
    BY <2>1, <2>2, <2>3, <2>4 DEF Convex
  <2> QED
    BY <1>2, <1>6, <2>1, <2>4 DEF Covered, Listed
<1> QED
  BY <1>4, <1>8 DEF RequestWindows, Window

(* A refresh: what was cut is its anchor's, which is in a row if it is     *)
(* still in the database, or beside it.                                    *)
LEMMA LatestCompletes ==
    ASSUME ScreenInv, Known, CursorWindow, RequestWindows, NEW q \in Slot, CompleteLatest(q)
    PROVE  CursorWindow' /\ RequestWindows'
<1> DEFINE at == requests[q].at
           got == requests[q].got
<1>1. PICK s \in Sorted(got) : tweetList' = DropLatestAnchor(s) \o tweetList
  BY DEF CompleteLatest
<1> DEFINE tweets == DropLatestAnchor(s)
<1>2. /\ requests[q].kind = "latest" /\ requests[q].answered
      /\ UNCHANGED <<db, posted, lastCreated>> /\ TypeOK
      /\ tweets \in Seq(Tweet) /\ tweetList \in Seq(Tweet) /\ got \in SUBSET Tweet /\ at \in Tweet
  BY PageIsSeq, RequestFacts DEF CompleteLatest, Answered, ScreenInv, TypeOK
<1>3. Shown' = Shown \cup ToSet(tweets) /\ ToSet(tweets) \subseteq got
  BY <1>1, <1>2, ConcatSet, CutSet DEF Shown
<1>4. requests'[q].kind = "idle" /\ \A p \in Slot : p # q => requests'[p] = requests[p]
  BY <1>2, FinishEffect DEF CompleteLatest, Idle
<1>5. LatestWindow(requests[q])
  BY <1>2 DEF RequestWindows, Window
<1>6. db \subseteq Nat /\ got \subseteq Nat /\ at \in Nat
  BY <1>2, TimelineAssumption DEF TypeOK
<1>7. ASSUME NEW t \in got, t \in db PROVE Listed(t)'
  <2>1. s # <<>>
    BY <1>1, <1>2, <1>7, SortedNonEmpty
  <2>2. tweets = Front(s)
    BY <2>1 DEF DropLatestAnchor
  <2>3. /\ s[Len(s)] \in got /\ \A u \in got : s[Len(s)] <= u
        /\ got \subseteq ToSet(tweets) \cup {s[Len(s)]}
    <3> HIDE DEF got
    <3> QED
      BY <1>1, <1>2, <2>1, <2>2, SortedEnds, FrontSet
  <2>4. CASE t \in ToSet(tweets)
    BY <1>3, <2>4 DEF Listed
  <2>5. CASE t = s[Len(s)]
    <3>1. t = at \/ Beside(t)
      BY <1>2, <1>5, <1>7, <2>3, <2>5 DEF LatestWindow
    <3>2. Listed(t)
      BY <1>5, <1>7, <3>1 DEF Listed, LatestWindow
    <3> QED
      BY <1>2, <1>3, <3>2, BesideStays DEF Listed
  <2> QED
    BY <1>7, <2>3, <2>4, <2>5
<1> HIDE DEF at, got, tweets
<1>8. \A t : Listed(t) => Listed(t)'
  BY <1>2, <1>3, BesideStays DEF Listed
<1>9. ASSUME NEW t \in db, Reached(t)' PROVE Reached(t) \/ t \in got
  <2>1. t <= at => Reached(t)
    BY <1>2 DEF Reached, Asking, at
  <2>2. (\E m \in got : t <= m) /\ at <= t => t \in got
    BY <1>2, <1>5 DEF LatestWindow, got, at
  <2>3. Reached(t) \/ \E m \in got : t <= m
    BY <1>2, <1>3, <1>4, <1>9 DEF Reached, Asking
  <2>4. t <= at \/ at <= t
    BY <1>6
  <2> QED
    BY <2>1, <2>2, <2>3, <2>4
<1>10. \A c \in Tweet : Covered(c) => Covered(c)'
  BY <1>2, <1>7, <1>8, <1>9 DEF Covered
<1>11. RequestWindows'
  <2>1. \A p \in Slot : p # q => Window(p)'
    BY <1>2, <1>3, <1>4, <1>10, KeepWindow
  <2>2. Window(q)'
    BY <1>4 DEF Window
  <2> QED
    BY <2>1, <2>2 DEF RequestWindows
<1> QED
  BY <1>2, <1>10, <1>11 DEF CursorWindow, TypeOK

(* A row that is removed showed a tweet that is not in the database. *)
LEMMA DeleteCompletes ==
    ASSUME TypeOK, Known, CursorWindow, RequestWindows, NEW q \in Slot, CompleteDelete(q)
    PROVE  CursorWindow' /\ RequestWindows'
<1>1. /\ requests[q].kind = "delete" /\ requests[q].answered
      /\ UNCHANGED <<db, posted, lastCreated>> /\ tweetList \in Seq(Tweet)
  BY DEF CompleteDelete, Answered, TypeOK
<1>2. requests'[q].kind = "idle" /\ \A p \in Slot : p # q => requests'[p] = requests[p]
  BY FinishEffect DEF CompleteDelete, Idle
<1>3. /\ Shown' \subseteq Shown
      /\ \A t \in db : t \in Shown => t \in Shown'
  <2>1. CASE UNCHANGED tweetList
    BY <2>1 DEF Shown
  <2>2. ASSUME NEW i \in FirstIndex(requests[q].at), tweetList' = RemoveAt(tweetList, i),
               requests[q].got # {}
        PROVE  Shown' \subseteq Shown /\ \A t \in db : t \in Shown => t \in Shown'
    <3>1. i \in 1 .. Len(tweetList) /\ tweetList[i] = requests[q].at
      BY <1>1, <2>2 DEF FirstIndex
    <3>2. requests[q].at \notin db
      BY <1>1, <2>2 DEF Known
    <3> QED
      BY <1>1, <2>2, <3>1, <3>2, RemoveAtSet, RemoveAtKeeps DEF Shown
  <2> QED
    BY <2>1, <2>2 DEF CompleteDelete
<1>4. \A t : Reached(t)' => Reached(t)
  BY <1>1, <1>2, <1>3 DEF Reached, Asking
<1>5. \A t \in db : Listed(t) => Listed(t)'
  BY <1>1, <1>3, BesideStays DEF Listed
<1>6. \A c \in Tweet : Covered(c) => Covered(c)'
  BY <1>1, <1>4, <1>5 DEF Covered
<1>7. RequestWindows'
  <2>1. \A p \in Slot : p # q => Window(p)'
    BY <1>1, <1>2, <1>3, <1>6, KeepWindow
  <2>2. Window(q)'
    BY <1>2 DEF Window
  <2> QED
    BY <2>1, <2>2 DEF RequestWindows
<1> QED
  BY <1>1, <1>6, <1>7 DEF CursorWindow, TypeOK

LEMMA NextWindow ==
    ASSUME ScreenInv, Known, WindowInv, [Next]_vars
    PROVE  WindowInv'
<1> USE DEF table
<1> SUFFICES ASSUME InOrder PROVE CursorWindow' /\ RequestWindows'
  BY DEF WindowInv
<1>0. TypeOK /\ CursorWindow /\ RequestWindows /\ Known'
  BY NextKnown DEF ScreenInv, WindowInv
<1>a. CASE db' \subseteq db /\ UNCHANGED <<posted, tweetList, lastCreated, requests>>
  BY <1>0, <1>a, SameWindow
<1>1. CASE WillDisplay
  BY <1>0, <1>1, SendWindow DEF WillDisplay, FetchTweets
<1>2. CASE PullToRefresh
  BY <1>0, <1>2, RefreshWindow DEF PullToRefresh
<1>3. CASE DeleteClicked
  BY <1>0, <1>3, SendWindow DEF DeleteClicked
<1>4. CASE SignOut
  BY <1>a, <1>4 DEF SignOut
<1>5. CASE LoginDidComplete
  BY <1>0, <1>5, SendWindow DEF LoginDidComplete, FetchTweets
<1>6. CASE NewTweetClicked
  BY <1>a, <1>6 DEF NewTweetClicked
<1>7. CASE CancelNewTweet
  BY <1>a, <1>7 DEF CancelNewTweet
<1>8. CASE PostOwn
  BY <1>0, <1>8, PostWindow, TimelineAssumption DEF PostOwn
<1>9. CASE DidFinishTweet
  BY <1>0, <1>9, RefreshWindow DEF DidFinishTweet
<1>10. CASE PostElsewhere
  BY <1>0, <1>10, PostWindow DEF PostElsewhere
<1>11. CASE DeleteElsewhere
  BY <1>a, <1>11 DEF DeleteElsewhere
<1>12. CASE CompleteDetails
  BY <1>a, <1>12 DEF CompleteDetails
<1>13. ASSUME NEW q \in Slot, AnswerPage(q)
       PROVE  CursorWindow' /\ RequestWindows'
  <2> DEFINE at == requests[q].at
             got == PageQuery(at)
  <2>1. /\ requests[q].kind = "page" /\ Answer(q, got)
        /\ UNCHANGED <<db, posted, tweetList, lastCreated>>
    BY <1>13 DEF AnswerPage, Waiting
  <2>2. /\ requests'[q].kind = "page" /\ requests'[q].at = at
        /\ requests'[q].answered /\ requests'[q].got = got
    BY <1>0, <2>1, AnswerEffect
  <2>3. PageWindow(requests[q])
    BY <1>0, <2>1 DEF RequestWindows, Window
  <2>4. CASE at = Nil
    <3>1. got = LimitToLast(db, pageSize) /\ db \in SUBSET Tweet /\ pageSize \in Nat \ {0}
      BY <1>0, <2>4, TimelineAssumption DEF PageQuery, TypeOK
    <3> HIDE DEF got
    <3>2. Convex(got)
      BY <3>1, LimitToLastClosed DEF Convex
    <3>3. Window(q)'
      BY <2>1, <2>2, <2>4, <3>2 DEF Window, PageWindow, Convex
    <3> QED
      BY <1>0, <2>1, <3>3, AnswerWindow
  <2>5. CASE at # Nil
    <3>1. at \in posted /\ Covered(at)
      BY <2>3, <2>5 DEF PageWindow
    <3>2. /\ got \subseteq db /\ \A t \in got : t <= at
          /\ \A t \in db : (\E u \in got : u <= t) /\ t <= at => t \in got
          /\ \A x \in got : (\A t \in got : t <= x) => x = at \/ Beside(x)
      BY <1>0, <3>1, PageAnswer
    <3> HIDE DEF at, got
    <3>3. at \in Tweet /\ \A c \in Tweet : Covered(c) => Covered(c)'
      <4>1. \A t : Reached(t)' => Reached(t)
        BY <1>0, <2>1, AnswerEffect DEF Reached, Asking, Shown
      <4>2. at \in Tweet
        BY <1>0, <3>1 DEF TypeOK
      <4> QED
        BY <2>1, <4>1, <4>2, SameCovered
    <3>4. \A x : Beside(x) => Beside(x)'
      BY <2>1, BesideStays
    <3>5. Window(q)'
      BY <2>1, <2>2, <2>5, <3>1, <3>2, <3>3, <3>4 DEF Window, PageWindow
    <3> QED
      BY <1>0, <2>1, <3>5, AnswerWindow
  <2> QED
    BY <2>4, <2>5
<1>14. ASSUME NEW q \in Slot, AnswerLatest(q)
       PROVE  CursorWindow' /\ RequestWindows'
  <2> DEFINE at == requests[q].at
             got == LatestQuery(at)
  <2>1. /\ requests[q].kind = "latest" /\ Answer(q, got)
        /\ UNCHANGED <<db, posted, tweetList, lastCreated>>
    BY <1>14 DEF AnswerLatest, Waiting
  <2>2. /\ requests'[q].kind = "latest" /\ requests'[q].at = at
        /\ requests'[q].answered /\ requests'[q].got = got
    BY <1>0, <2>1, AnswerEffect
  <2>3. at \in posted /\ (at \in db => at \in Shown)
    BY <1>0, <2>1 DEF RequestWindows, Window, LatestWindow
  <2>4. /\ got \subseteq db /\ \A t \in got : at <= t
        /\ \A t \in db : at <= t => t \in got
        /\ \A x \in got : (\A t \in got : x <= t) => x = at \/ Beside(x)
    BY <1>0, <2>3, LatestAnswer
  <2> HIDE DEF at, got
  <2>5. (\A x : Beside(x) => Beside(x)') /\ Shown' = Shown
    BY <2>1, BesideStays DEF Shown
  <2>6. Window(q)'
    BY <2>1, <2>2, <2>3, <2>4, <2>5 DEF Window, LatestWindow
  <2> QED
    BY <1>0, <2>1, <2>6, AnswerWindow
<1>15. ASSUME NEW q \in Slot, AnswerDelete(q)
       PROVE  CursorWindow' /\ RequestWindows'
  <2>1. /\ requests[q].kind = "delete" /\ db' \subseteq db
        /\ UNCHANGED <<posted, tweetList, lastCreated>>
    BY <1>15 DEF AnswerDelete, Waiting
  <2>2. PICK got : Answer(q, got)
    BY <1>15 DEF AnswerDelete
  <2>3. Window(q)'
    BY <1>0, <2>1, <2>2, AnswerEffect DEF Window
  <2> QED
    BY <1>0, <2>1, <2>2, <2>3, AnswerWindow
<1>16. ASSUME NEW q \in Slot, CompletePage(q)
       PROVE  CursorWindow' /\ RequestWindows'
  BY <1>0, <1>16, FirstPageWindow, NextPageWindow
<1>17. ASSUME NEW q \in Slot, CompleteLatest(q)
       PROVE  CursorWindow' /\ RequestWindows'
  BY <1>0, <1>17, LatestCompletes
<1>18. ASSUME NEW q \in Slot, CompleteDelete(q)
       PROVE  CursorWindow' /\ RequestWindows'
  BY <1>0, <1>18, DeleteCompletes
<1>19. CASE UNCHANGED vars
  BY <1>a, <1>19 DEF vars
<1> QED
  BY <1>1, <1>2, <1>3, <1>4, <1>5, <1>6, <1>7, <1>8, <1>9, <1>10, <1>11, <1>12,
     <1>13, <1>14, <1>15, <1>16, <1>17, <1>18, <1>19
     DEF Next, User, Elsewhere, Database, Completion

LEMMA WindowInvariant == Spec => [](Known /\ WindowInv)
<1>1. Init => Known /\ WindowInv
  BY InitKnown, InitWindow
<1>2. ScreenInv /\ Known /\ WindowInv /\ [Next]_vars => (Known /\ WindowInv)'
  BY NextKnown, NextWindow DEF ScreenInv
<1> QED
  BY <1>1, <1>2, ScreenInvariant, PTL DEF Spec

LEMMA MissingIsBeside ==
    ASSUME ScreenInv, WindowInv, InOrder, NEW t \in Missing
    PROVE  Beside(t)
<1>1. lastCreated # Nil
  BY DEF ScreenInv, NothingBeforeFirstPage, Missing, Shown, ToSet
<1>2. t \in db /\ lastCreated <= t /\ t \notin Shown /\ \E u \in Shown : t <= u
  BY DEF Missing
<1> QED
  BY <1>1, <1>2 DEF WindowInv, CursorWindow, Covered, Reached, Listed

(* LossOnlyBesideDeletion: as long as tweets arrive in timestamp order,    *)
(* what the positional cut of the anchor costs when tweets are deleted on  *)
(* this device or another is a tweet next to a deleted one and no other,   *)
(* however pages, refreshes and deletions overlap.                         *)
THEOREM LostOnlyBesideDeleted == Spec => []LossOnlyBesideDeletion
<1>1. ScreenInv /\ WindowInv => LossOnlyBesideDeletion
  BY MissingIsBeside DEF LossOnlyBesideDeletion, Beside
<1> QED
  BY <1>1, ScreenInvariant, WindowInvariant, PTL

(* NoGap: as long as tweets arrive in timestamp order and none is deleted, *)
(* pages and refreshes pass no tweet over, whatever requests overlap and   *)
(* in whatever order their completions run.                                *)
THEOREM NoTweetPassedOver == Spec => []NoGap
<1>1. ScreenInv /\ WindowInv => NoGap
  BY MissingIsBeside DEF NoGap, Beside
<1> QED
  BY <1>1, ScreenInvariant, WindowInvariant, PTL

-----------------------------------------------------------------------------
(* Deleted tweets *)

LEMMA GoneIs ==
    ASSUME NEW t
    PROVE  Gone(t) <=> /\ t \notin Shown
                       /\ \A q \in Slot : requests[q].kind \in {"page", "latest"} => t \notin requests[q].got
  BY DEF Gone, Pending

LEMMA GoneNext ==
    ASSUME NEW t
    PROVE  Gone(t)' <=> /\ t \notin Shown'
                        /\ \A q \in Slot : requests'[q].kind \in {"page", "latest"} => t \notin requests'[q].got
  BY DEF Gone, Pending

(* A request that is sent has no answer yet. *)
LEMMA SendGone ==
    ASSUME TypeOK, NEW t, Gone(t), NEW kind, NEW at, Send(kind, at), UNCHANGED tweetList
    PROVE  Gone(t)'
<1>1. PICK q \in Slot : /\ requests'[q].got = {}
                        /\ \A p \in Slot : p # q => requests'[p] = requests[p]
  BY SendEffect
<1> QED
  BY <1>1, GoneIs, GoneNext DEF Shown

LEMMA RefreshGone ==
    ASSUME TypeOK, NEW t, Gone(t), NEW asked, Refresh(asked), UNCHANGED tweetList
    PROVE  Gone(t)'
<1>1. CASE tweetList = <<>>
  BY <1>1, GoneIs, GoneNext DEF Refresh, Shown
<1>2. CASE tweetList # <<>>
  BY <1>2, SendGone DEF Refresh
<1> QED
  BY <1>1, <1>2

(* A completion shows nothing but what its answer held. *)
LEMMA CompleteGone ==
    ASSUME TypeOK, NEW t, Gone(t), NEW q \in Slot, Completion(q)
    PROVE  Gone(t)'
<1>1. CASE CompletePage(q)
  <2>1. PICK s \in Sorted(requests[q].got) : tweetList' = tweetList \o DropPageAnchor(s)
    BY <1>1 DEF CompletePage
  <2>2. Shown' = Shown \cup ToSet(DropPageAnchor(s))
    BY <2>1, PageIsSeq, ConcatSet DEF Shown, TypeOK
  <2>3. requests'[q].kind = "idle" /\ \A p \in Slot : p # q => requests'[p] = requests[p]
    BY <1>1, FinishEffect DEF CompletePage, Idle
  <2> QED
    BY <1>1, <2>2, <2>3, CutSet, GoneIs, GoneNext DEF CompletePage, Answered
<1>2. CASE CompleteLatest(q)
  <2>1. PICK s \in Sorted(requests[q].got) : tweetList' = DropLatestAnchor(s) \o tweetList
    BY <1>2 DEF CompleteLatest
  <2>2. Shown' = Shown \cup ToSet(DropLatestAnchor(s))
    BY <2>1, PageIsSeq, ConcatSet DEF Shown, TypeOK
  <2>3. requests'[q].kind = "idle" /\ \A p \in Slot : p # q => requests'[p] = requests[p]
    BY <1>2, FinishEffect DEF CompleteLatest, Idle
  <2> QED
    BY <1>2, <2>2, <2>3, CutSet, GoneIs, GoneNext DEF CompleteLatest, Answered
<1>3. CASE CompleteDelete(q)
  <2>1. \/ \E i \in 1 .. Len(tweetList) : tweetList' = RemoveAt(tweetList, i)
        \/ UNCHANGED tweetList
    BY <1>3 DEF CompleteDelete, FirstIndex, TypeOK
  <2>2. Shown' \subseteq Shown
    BY <2>1, RemoveAtSet DEF Shown, TypeOK
  <2>3. requests'[q].kind = "idle" /\ \A p \in Slot : p # q => requests'[p] = requests[p]
    BY <1>3, FinishEffect DEF CompleteDelete, Idle
  <2> QED
    BY <2>2, <2>3, GoneIs, GoneNext
<1> QED
  BY <1>1, <1>2, <1>3 DEF Completion

(* An answer holds what is in the database. *)
LEMMA AnswerGone ==
    ASSUME TypeOK, NEW t \in posted \ db, Gone(t), NEW q \in Slot, Database(q)
    PROVE  Gone(t)'
<1> USE DEF table
<1>1. CASE AnswerPage(q)
  <2>1. t \notin PageQuery(requests[q].at)
    BY DEF PageQuery, LimitToLast
  <2>2. t \notin requests'[q].got /\ \A p \in Slot : p # q => requests'[p] = requests[p]
    BY <1>1, <2>1, AnswerEffect DEF AnswerPage
  <2> QED
    BY <1>1, <2>2, GoneIs, GoneNext DEF AnswerPage, Shown
<1>2. CASE AnswerLatest(q)
  <2>1. t \notin LatestQuery(requests[q].at)
    BY DEF LatestQuery
  <2>2. t \notin requests'[q].got /\ \A p \in Slot : p # q => requests'[p] = requests[p]
    BY <1>2, <2>1, AnswerEffect DEF AnswerLatest
  <2> QED
    BY <1>2, <2>2, GoneIs, GoneNext DEF AnswerLatest, Shown
<1>3. CASE AnswerDelete(q)
  <2>1. requests'[q].kind = "delete" /\ \A p \in Slot : p # q => requests'[p] = requests[p]
    BY <1>3, AnswerEffect DEF AnswerDelete, Waiting
  <2> QED
    BY <1>3, <2>1, GoneIs, GoneNext DEF AnswerDelete, Shown
<1> QED
  BY <1>1, <1>2, <1>3 DEF Database

(* Once neither a row nor an answer in flight holds a deleted tweet, none  *)
(* ever does again.                                                        *)
THEOREM DeletedNeverReturns == Spec => DeletedStaysGone
<1>1. ASSUME TypeOK, [Next]_vars, NEW t \in posted \ db, Gone(t) PROVE Gone(t)'
  <2> USE <1>1 DEF table
  <2>1. CASE WillDisplay
    BY <2>1, SendGone DEF WillDisplay, FetchTweets
  <2>2. CASE PullToRefresh
    BY <2>2, RefreshGone DEF PullToRefresh
  <2>3. CASE DeleteClicked
    BY <2>3, SendGone DEF DeleteClicked
  <2>4. CASE LoginDidComplete
    BY <2>4, SendGone DEF LoginDidComplete, FetchTweets
  <2>5. CASE DidFinishTweet
    BY <2>5, RefreshGone DEF DidFinishTweet
  <2>6. CASE UNCHANGED <<tweetList, requests>>
    BY <2>6, GoneIs, GoneNext DEF Shown
  <2>7. CASE SignOut \/ NewTweetClicked \/ CancelNewTweet \/ PostOwn \/ PostElsewhere
             \/ DeleteElsewhere \/ CompleteDetails \/ UNCHANGED vars
    BY <2>6, <2>7 DEF SignOut, NewTweetClicked, CancelNewTweet, PostOwn, PostElsewhere,
       DeleteElsewhere, CompleteDetails, vars
  <2>8. ASSUME NEW q \in Slot, Database(q) \/ Completion(q) PROVE Gone(t)'
    BY <2>8, AnswerGone, CompleteGone
  <2> QED
    BY <2>1, <2>2, <2>3, <2>4, <2>5, <2>7, <2>8 DEF Next, User, Elsewhere
<1>2. TypeOK /\ [Next]_vars => [\A t \in posted \ db : Gone(t) => Gone(t)']_vars
  BY <1>1
<1> QED
  BY <1>2, TypeCorrect, PTL DEF Spec, DeletedStaysGone

=============================================================================

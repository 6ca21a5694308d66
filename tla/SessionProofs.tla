--------------------------- MODULE SessionProofs ----------------------------
(***************************************************************************)
(* Theorems about Session and SessionRows, for any users, any number of    *)
(* attempts under way at the same time, of one form or of several, and any *)
(* queue of requests for details.                                          *)
(***************************************************************************)
EXTENDS SessionRows, SequenceTheorems, TLAPS

-----------------------------------------------------------------------------
(* The inductive invariants *)

OnHome == screen \in {"home", "compose"}

(* The screen from which an attempt was started. *)
ScreenOf(kind) == IF kind = "google" THEN "login" ELSE kind

(* All attempts that are awaited are of the form on top, and one with      *)
(* Google is alone, under its spinner; a user is signed in when one of     *)
(* them has authenticated.                                                 *)
OneForm ==
    /\ \A q \in Slot : Awaited(q) =>
        /\ screen = ScreenOf(attempts[q].kind)
        /\ attempts[q].kind = "google" => busy
        /\ attempts[q].step # "auth" => currentUser # Nil
    /\ \A q, r \in Slot : Awaited(q) /\ Awaited(r) =>
        /\ attempts[q].form = attempts[r].form
        /\ attempts[q].kind = "google" => q = r

(* Who has authenticated has an account, and so has a userID. *)
HaveAccounts ==
    \A q \in Slot : Active(q) =>
        /\ attempts[q].step # "auth" => attempts[q].user \in accounts
        /\ attempts[q].userID # Nil => attempts[q].userID \in accounts

SignedIn ==
    /\ currentUser # Nil => currentUser \in accounts
    /\ OnHome => currentUser # Nil

LoginInv == TypeOK /\ OneForm /\ HaveAccounts /\ SignedIn

(* Attempts that share a form are known as doubled. *)
SharedIsDoubled ==
    \A q, r \in Slot :
        Active(q) /\ Active(r) /\ q # r /\ attempts[q].form = attempts[r].form =>
            attempts[q].user \in doubled

(* The userID of a form without a second attempt is its user's, until it   *)
(* is taken; that of a form with one is of a doubled attempt.              *)
OwnUserID ==
    \A q \in Slot : Active(q) =>
        /\ attempts[q].user \in doubled => attempts[q].userID \in doubled \cup {Nil}
        /\ attempts[q].user \notin doubled =>
            /\ attempts[q].userID \in {attempts[q].user, Nil}
            /\ attempts[q].step = "picture" => attempts[q].userID = attempts[q].user
            /\ attempts[q].step = "record" => attempts[q].userID = Nil

(* What Home was handed is shared only with doubled attempts. *)
FormsInv == SharedIsDoubled /\ OwnUserID /\ (loggedInUser.form # Nil => doubled # {})

(* The attempts of a session with one attempt at a time: it is awaited,    *)
(* and when it has authenticated it is that of the user signed in.         *)
NoneAbandoned ==
    \A q \in Slot : Active(q) =>
        attempts[q].shown /\ (attempts[q].step # "auth" => attempts[q].user = currentUser)

(* On Home the newest request for details is for the user signed in, and   *)
(* that user has a record, unless the app was launched without one.  What  *)
(* Home knows of the user carries no other uid; with no request left it is *)
(* all about that user.                                                    *)
HomeKnowsUser ==
    OnHome =>
        /\ details # <<>> => details[Len(details)] = currentUser
        /\ \/ currentUser \in profiles
           \/ loggedInUser = NoModel /\ Len(details) <= 1
        /\ loggedInUser.userID \in {currentUser, Nil}
        /\ details = <<>> /\ loggedInUser # NoModel =>
              loggedInUser.profile = currentUser /\ loggedInUser.userID = currentUser

DraftIsTheUsers == screen = "compose" => draftUid \in {currentUser, Nil}

IdentityInv == OneAttemptAtATime => NoneAbandoned /\ HomeKnowsUser /\ DraftIsTheUsers

(* A sign-up that has an account and no record yet. *)
SigningUp(q, u) ==
    /\ Active(q) /\ attempts[q].user = u
    /\ attempts[q].kind # "signIn" /\ attempts[q].step # "auth"

RecordsInv ==
    \A u \in accounts \ profiles : u \in broken \cup doubled \/ \E q \in Slot : SigningUp(q, u)

(* A row's button was right for whoever it was displayed to. *)
RowInv ==
    OneAttemptAtATime =>
        /\ row.deleteButton => row.by = Author
        /\ row.settled /\ row.by = Author => row.deleteButton

-----------------------------------------------------------------------------
(* What the steps do to the attempts *)

Kind == Sheet \cup {"google"}

Step == {"auth", "fetch", "picture", "record"}

LEMMA IdleIsNone == Idle \notin Attempt
  BY DEF Idle, Attempt, Sheet

LEMMA ActiveType ==
    ASSUME TypeOK, NEW q \in Slot, Active(q)
    PROVE  /\ attempts[q] \in Attempt
           /\ attempts[q].kind \in Kind /\ attempts[q].user \in User
           /\ attempts[q].form \in Form /\ attempts[q].userID \in User \cup {Nil}
           /\ attempts[q].step \in Step /\ attempts[q].shown \in BOOLEAN
<1>1. attempts[q] \in Attempt
  BY DEF TypeOK, Active
<1> QED
  BY <1>1 DEF Attempt, Kind, Step

(* The forms an attempt may begin with are forms. *)
LEMMA NewFormIsFree ==
    ASSUME NEW f \in NewForms
    PROVE  f \in Form /\ Sharing(f) = {}
<1> DEFINE free == {g \in Form : Sharing(g) = {} /\ loggedInUser.form # g}
<1>1. free # {} /\ f = CHOOSE g \in free : TRUE
  BY DEF NewForms
<1> QED
  BY <1>1

LEMMA SheetFormIsForm ==
    ASSUME TypeOK, NEW f \in SheetForms
    PROVE  /\ f \in Form
           /\ \/ Sharing(f) = {} /\ \A q \in Slot : ~Awaited(q)
              \/ \E q \in Slot : Awaited(q) /\ attempts[q].form = f
  BY NewFormIsFree, ActiveType DEF SheetForms, Awaited

LEMMA BeginEffect ==
    ASSUME TypeOK, NEW kind \in Kind, NEW u \in User, NEW f \in Form, Begin(kind, u, f)
    PROVE  /\ attempts' \in [Slot -> Attempt \cup {Idle}] /\ busy'
           /\ doubled \subseteq doubled' /\ doubled' \subseteq User
           /\ \A r \in Slot : Active(r) /\ attempts[r].form = f =>
                u \in doubled' /\ attempts[r].user \in doubled'
           /\ \E q \in Slot :
                /\ ~Active(q) /\ Active(q)'
                /\ attempts'[q].kind = kind /\ attempts'[q].user = u
                /\ attempts'[q].form = f /\ attempts'[q].userID = Nil
                /\ attempts'[q].step = "auth" /\ attempts'[q].shown
                /\ \A r \in Slot : r # q => attempts'[r] = attempts[r]
<1> DEFINE new == [kind |-> kind, user |-> u, form |-> f, userID |-> Nil,
                   step |-> "auth", shown |-> TRUE]
<1>1. new \in Attempt
  BY DEF Attempt, Kind
<1>2. new # Idle
  BY <1>1, IdleIsNone
<1>3. PICK q \in Slot : ~Active(q) /\ attempts' = [attempts EXCEPT ![q] = new]
  BY DEF Begin
<1>4. attempts'[q] = new /\ \A r \in Slot : r # q => attempts'[r] = attempts[r]
  BY <1>3 DEF TypeOK
<1>5. attempts' \in [Slot -> Attempt \cup {Idle}]
  BY <1>1, <1>3 DEF TypeOK
<1>6. /\ new.kind = kind /\ new.user = u /\ new.form = f /\ new.userID = Nil
      /\ new.step = "auth" /\ new.shown = TRUE
  OBVIOUS
<1>7. busy'
  BY DEF Begin
<1>8. doubled \subseteq doubled' /\ doubled' \subseteq User
  BY ActiveType DEF Begin, Sharing, TypeOK
<1>9. \A r \in Slot : Active(r) /\ attempts[r].form = f => u \in doubled' /\ attempts[r].user \in doubled'
  BY DEF Begin, Sharing
<1> HIDE DEF new
<1> QED
  BY <1>2, <1>3, <1>4, <1>5, <1>6, <1>7, <1>8, <1>9 DEF Active

LEMMA GotoEffect ==
    ASSUME TypeOK, NEW q \in Slot, Active(q), NEW step \in Step, NEW u \in User,
           NEW userID \in User \cup {Nil}, Goto(q, step, u, userID)
    PROVE  /\ attempts' \in [Slot -> Attempt \cup {Idle}]
           /\ \A r \in Slot :
                /\ Active(r)' <=> Active(r)
                /\ Active(r) =>
                    /\ attempts'[r].kind = attempts[r].kind /\ attempts'[r].form = attempts[r].form
                    /\ attempts'[r].shown = attempts[r].shown
                    /\ attempts'[r].step = IF r = q THEN step ELSE attempts[r].step
                    /\ attempts'[r].user = IF r = q THEN u ELSE attempts[r].user
                    /\ attempts'[r].userID =
                          IF attempts[r].form = attempts[q].form THEN userID ELSE attempts[r].userID
           /\ loggedInUser' \in Model \cup {NoModel}
           /\ loggedInUser'.form = loggedInUser.form
           /\ loggedInUser.form = Nil => loggedInUser' = loggedInUser
           /\ UNCHANGED <<screen, busy, details, newTweetButton, draftUid>>
<1> DEFINE f == attempts[q].form
<1>1. f \in Form /\ f # Nil
  BY ActiveType, SessionAssumption
<1>2. /\ attempts' = [r \in Slot |->
               IF ~Active(r) THEN Idle
               ELSE [WithUserID(attempts[r], f, userID) EXCEPT
                        !.step = IF r = q THEN step ELSE @, !.user = IF r = q THEN u ELSE @]]
      /\ loggedInUser' = WithUserID(loggedInUser, f, userID)
      /\ UNCHANGED <<screen, busy, details, newTweetButton, draftUid>>
  BY DEF Goto, home
<1> HIDE DEF f
<1>3. ASSUME NEW r \in Slot, Active(r)
      PROVE  /\ attempts'[r] \in Attempt
             /\ attempts'[r].kind = attempts[r].kind /\ attempts'[r].form = attempts[r].form
             /\ attempts'[r].shown = attempts[r].shown
             /\ attempts'[r].step = IF r = q THEN step ELSE attempts[r].step
             /\ attempts'[r].user = IF r = q THEN u ELSE attempts[r].user
             /\ attempts'[r].userID = IF attempts[r].form = f THEN userID ELSE attempts[r].userID
  <2> DEFINE s == IF r = q THEN step ELSE attempts[r].step
             v == IF r = q THEN u ELSE attempts[r].user
  <2>1. attempts[r] \in Attempt /\ s \in Step /\ v \in User
    BY <1>3, ActiveType
  <2>2. /\ WithUserID(attempts[r], f, userID).step = attempts[r].step
        /\ WithUserID(attempts[r], f, userID).user = attempts[r].user
    BY <2>1 DEF WithUserID, Attempt
  <2>3. attempts'[r] = [WithUserID(attempts[r], f, userID) EXCEPT !.step = s, !.user = v]
    BY <1>2, <1>3, <2>1, <2>2 DEF WithUserID, Attempt
  <2> HIDE DEF s, v
  <2>4. /\ attempts'[r] \in Attempt
        /\ attempts'[r].kind = attempts[r].kind /\ attempts'[r].form = attempts[r].form
        /\ attempts'[r].shown = attempts[r].shown /\ attempts'[r].step = s /\ attempts'[r].user = v
        /\ attempts'[r].userID = IF attempts[r].form = f THEN userID ELSE attempts[r].userID
    <3>1. CASE attempts[r].form = f
      BY <2>1, <2>3, <3>1 DEF WithUserID, Attempt, Step
    <3>2. CASE attempts[r].form # f
      BY <2>1, <2>3, <3>2 DEF WithUserID, Attempt, Step
    <3> QED
      BY <3>1, <3>2
  <2> QED
    BY <2>4 DEF s, v
<1>4. \A r \in Slot : ~Active(r) => attempts'[r] = Idle
  BY <1>2
<1>5. attempts' \in [Slot -> Attempt \cup {Idle}]
  BY <1>2, <1>3, <1>4
<1>6. \A r \in Slot : Active(r)' <=> Active(r)
  BY <1>3, <1>4, IdleIsNone DEF Active
<1>7. /\ loggedInUser' \in Model \cup {NoModel} /\ loggedInUser'.form = loggedInUser.form
      /\ loggedInUser.form = Nil => loggedInUser' = loggedInUser
  <2>1. CASE loggedInUser.form = f
    <3>1. loggedInUser \in Model
      BY <1>1, <2>1 DEF TypeOK, NoModel
    <3> QED
      BY <1>1, <1>2, <2>1, <3>1 DEF WithUserID, Model
  <2>2. CASE loggedInUser.form # f
    BY <1>2, <2>2 DEF WithUserID, TypeOK
  <2> QED
    BY <2>1, <2>2
<1> QED
  BY <1>2, <1>3, <1>5, <1>6, <1>7 DEF f

LEMMA EndEffect ==
    ASSUME TypeOK, NEW q \in Slot, End(q)
    PROVE  /\ attempts' \in [Slot -> Attempt \cup {Idle}]
           /\ ~Active(q)'
           /\ \A r \in Slot : r # q => attempts'[r] = attempts[r]
  BY DEF End, TypeOK, Active

LEMMA AbandonEffect ==
    ASSUME TypeOK, NEW q \in Slot
    PROVE  LET a == Abandon(attempts[q])
           IN  /\ a \in Attempt \cup {Idle}
               /\ a # Idle <=> Active(q)
               /\ Active(q) => /\ a.kind = attempts[q].kind /\ a.user = attempts[q].user
                               /\ a.form = attempts[q].form /\ a.userID = attempts[q].userID
                               /\ a.step = attempts[q].step
                               /\ a.shown = (attempts[q].shown /\ attempts[q].kind \notin Sheet)
<1> DEFINE b == [attempts[q] EXCEPT !.shown = FALSE]
<1>1. CASE ~Active(q)
  BY <1>1 DEF Active, Abandon
<1>2. CASE Active(q) /\ attempts[q].kind \notin Sheet
  BY <1>2, ActiveType DEF Active, Abandon
<1>3. CASE Active(q) /\ attempts[q].kind \in Sheet
  <2>1. Abandon(attempts[q]) = b
    BY <1>3 DEF Abandon, Active
  <2>2. /\ b \in Attempt /\ b.kind = attempts[q].kind /\ b.user = attempts[q].user
        /\ b.form = attempts[q].form /\ b.userID = attempts[q].userID
        /\ b.step = attempts[q].step /\ b.shown = FALSE
    BY <1>3, ActiveType DEF Attempt
  <2> HIDE DEF b
  <2> QED
    BY <1>3, <2>1, <2>2, IdleIsNone
<1> QED
  BY <1>1, <1>2, <1>3

(* The callback of a form with a user ends the attempt, and leaves the     *)
(* others without their form when it is the form on top.                   *)
LEMMA ReportUserEffect ==
    ASSUME TypeOK, NEW q \in Slot, Active(q), NEW model, ReportUser(q, model)
    PROVE  /\ attempts' \in [Slot -> Attempt \cup {Idle}] /\ ~Active(q)'
           /\ \A r \in Slot : r # q =>
                /\ Active(r)' <=> Active(r)
                /\ Active(r) =>
                    /\ attempts'[r].kind = attempts[r].kind /\ attempts'[r].user = attempts[r].user
                    /\ attempts'[r].form = attempts[r].form /\ attempts'[r].userID = attempts[r].userID
                    /\ attempts'[r].step = attempts[r].step
                    /\ attempts'[r].shown =
                          (attempts[r].shown /\ (attempts[q].shown => attempts[r].kind \notin Sheet))
           /\ attempts[q].shown =>
                /\ ~busy' /\ busy' \in BOOLEAN /\ screen' = "home" /\ loggedInUser' = model
                /\ details' = Append(details, currentUser)
           /\ ~attempts[q].shown => UNCHANGED <<busy, screen, loggedInUser, details>>
           /\ UNCHANGED <<newTweetButton, draftUid>>
<1>1. CASE attempts[q].shown
  <2>1. attempts' = [r \in Slot |-> IF r = q THEN Idle ELSE Abandon(attempts[r])]
    BY <1>1 DEF ReportUser
  <2>2. attempts' \in [Slot -> Attempt \cup {Idle}] /\ ~Active(q)'
    BY <2>1, AbandonEffect DEF Active
  <2>3. \A r \in Slot : r # q => attempts'[r] = Abandon(attempts[r])
    BY <2>1
  <2> QED
    BY <1>1, <2>2, <2>3, AbandonEffect DEF ReportUser, LoginDidComplete, SetLoggedInUser, Active
<1>2. CASE ~attempts[q].shown
  <2>1. \A r \in Slot : Active(r) => attempts[r].shown \in BOOLEAN
    BY ActiveType
  <2> QED
    BY <1>2, <2>1, EndEffect DEF ReportUser, Active
<1> QED
  BY <1>1, <1>2, ActiveType

-----------------------------------------------------------------------------
(* Signed in *)

LEMMA InitLogin == Init => LoginInv
<1> SUFFICES ASSUME Init PROVE LoginInv
  OBVIOUS
<1>1. details \in Seq(User)
  BY SessionAssumption DEF Init, FirstDetails
<1>2. attempts \in [Slot -> Attempt \cup {Idle}] /\ \A q \in Slot : ~Active(q)
  BY DEF Init, Active
<1>3. screen \in Sheet \cup {"login", "home", "compose"} /\ (OnHome => currentUser # Nil)
  BY DEF Init, FirstScreen, OnHome
<1> QED
  BY <1>1, <1>2, <1>3, SessionAssumption
     DEF Init, LoginInv, TypeOK, OneForm, HaveAccounts, SignedIn, Awaited, NoModel

(* No form waits on Home. *)
LEMMA NoneAwaitedOnHome ==
    ASSUME LoginInv, OnHome, NEW q \in Slot
    PROVE  ~Awaited(q)
  BY ActiveType DEF LoginInv, OneForm, Awaited, ScreenOf, OnHome, Kind, Sheet

(* A form takes an error, or a user, from an attempt that is over. *)
LEMMA LoginAfterError ==
    ASSUME LoginInv, NEW q \in Slot, Active(q), ReportError(q),
           UNCHANGED <<accounts, profiles, currentUser, abandoned, doubled>>, broken' \subseteq User
    PROVE  LoginInv'
<1>1. /\ attempts' \in [Slot -> Attempt \cup {Idle}] /\ ~Active(q)'
      /\ \A r \in Slot : r # q => attempts'[r] = attempts[r]
  BY EndEffect DEF LoginInv, ReportError
<1>2. busy' \in BOOLEAN /\ (busy /\ ~attempts[q].shown => busy')
  BY ActiveType DEF ReportError, SpinnerAfterError, LoginInv, TypeOK
<1>3. UNCHANGED <<loggedInUser, screen, details, newTweetButton, draftUid>>
  BY DEF ReportError, home
<1>4. TypeOK'
  BY <1>1, <1>2, <1>3 DEF LoginInv, TypeOK
<1>5. ASSUME NEW r \in Slot, Awaited(r)'
      PROVE  /\ Awaited(r) /\ attempts'[r] = attempts[r] /\ r # q
             /\ attempts[r].kind = "google" => busy'
  BY <1>1, <1>2, <1>5 DEF LoginInv, OneForm, Awaited, Active
<1>6. OneForm'
  BY <1>3, <1>5 DEF LoginInv, OneForm
<1>7. HaveAccounts' /\ SignedIn'
  BY <1>1, <1>3 DEF LoginInv, HaveAccounts, SignedIn, OnHome, Active
<1> QED
  BY <1>4, <1>6, <1>7 DEF LoginInv

LEMMA LoginAfterUser ==
    ASSUME LoginInv, NEW q \in Slot, Active(q), attempts[q].step # "auth",
           NEW model \in Model, ReportUser(q, model),
           UNCHANGED <<accounts, currentUser, abandoned, doubled, broken>>,
           profiles' \subseteq accounts
    PROVE  LoginInv'
<1> USE DEF LoginInv
<1>1. /\ attempts' \in [Slot -> Attempt \cup {Idle}] /\ ~Active(q)'
      /\ \A r \in Slot : r # q =>
            /\ Active(r)' <=> Active(r)
            /\ Active(r) =>
                /\ attempts'[r].kind = attempts[r].kind /\ attempts'[r].user = attempts[r].user
                /\ attempts'[r].form = attempts[r].form /\ attempts'[r].userID = attempts[r].userID
                /\ attempts'[r].step = attempts[r].step
                /\ attempts'[r].shown =
                      (attempts[r].shown /\ (attempts[q].shown => attempts[r].kind \notin Sheet))
  BY ReportUserEffect
<1>2. HaveAccounts'
  BY <1>1 DEF HaveAccounts
<1>3. CASE attempts[q].shown
  <2>1. /\ ~busy' /\ busy' \in BOOLEAN /\ screen' = "home" /\ loggedInUser' = model
        /\ details' = Append(details, currentUser) /\ UNCHANGED <<newTweetButton, draftUid>>
    BY <1>3, ReportUserEffect
  <2>2. Awaited(q) /\ currentUser # Nil /\ currentUser \in User
    BY <1>3 DEF Awaited, OneForm, TypeOK
  <2>3. details' \in Seq(User)
    BY <2>1, <2>2, AppendProperties DEF TypeOK
  <2>4. TypeOK'
    BY <1>1, <2>1, <2>3 DEF TypeOK
  <2>5. ASSUME NEW r \in Slot, Awaited(r)' PROVE FALSE
    <3>1. r # q /\ Awaited(r) /\ attempts[r].kind \notin Sheet
      BY <1>1, <1>3, <2>5 DEF Awaited
    <3>2. attempts[r].kind = "google"
      BY <3>1, ActiveType DEF Awaited, Kind
    <3> QED
      BY <2>2, <3>1, <3>2 DEF OneForm
  <2>6. OneForm' /\ SignedIn'
    BY <2>1, <2>2, <2>5 DEF OneForm, SignedIn
  <2> QED
    BY <1>2, <2>4, <2>6
<1>4. CASE ~attempts[q].shown
  <2>1. UNCHANGED <<busy, screen, loggedInUser, details, newTweetButton, draftUid>>
    BY <1>4, ReportUserEffect
  <2>2. TypeOK'
    BY <1>1, <2>1 DEF TypeOK
  <2>3. ASSUME NEW r \in Slot, Awaited(r)'
        PROVE  /\ Awaited(r) /\ attempts'[r].kind = attempts[r].kind
               /\ attempts'[r].form = attempts[r].form /\ attempts'[r].step = attempts[r].step
    BY <1>1, <1>4, <2>3 DEF Awaited
  <2>4. OneForm'
    BY <2>1, <2>3 DEF OneForm
  <2>5. SignedIn'
    BY <2>1 DEF SignedIn, OnHome
  <2> QED
    BY <1>2, <2>2, <2>4, <2>5
<1> QED
  BY <1>3, <1>4

(* An attempt begins on the form on top, or on a new one when no other is  *)
(* awaited.                                                                *)
LEMMA LoginAfterBegin ==
    ASSUME LoginInv, NEW kind \in Kind, NEW u \in User, NEW f \in Form, Begin(kind, u, f),
           screen = ScreenOf(kind),
           \/ \A q \in Slot : ~Awaited(q)
           \/ kind # "google" /\ \E q \in Slot : Awaited(q) /\ attempts[q].form = f,
           UNCHANGED <<server, currentUser, loggedInUser, screen, home, abandoned, broken>>
    PROVE  LoginInv'
<1> USE DEF LoginInv
<1>1. attempts' \in [Slot -> Attempt \cup {Idle}] /\ busy' /\ doubled' \subseteq User
  BY BeginEffect
<1>2. PICK q \in Slot :
        /\ ~Active(q) /\ Active(q)'
        /\ attempts'[q].kind = kind /\ attempts'[q].user = u
        /\ attempts'[q].form = f /\ attempts'[q].userID = Nil
        /\ attempts'[q].step = "auth" /\ attempts'[q].shown
        /\ \A r \in Slot : r # q => attempts'[r] = attempts[r]
  BY BeginEffect
<1>3. TypeOK'
  BY <1>1 DEF TypeOK, server, home, Begin
<1>4. ASSUME NEW r \in Slot, r # q, Awaited(r)'
      PROVE  /\ Awaited(r) /\ attempts'[r] = attempts[r] /\ attempts[r].form = f
             /\ attempts[r].kind # "google" /\ kind # "google"
  <2>1. Awaited(r) /\ attempts'[r] = attempts[r]
    BY <1>2, <1>4 DEF Awaited, Active
  <2>2. attempts[r].form = f /\ kind # "google"
    BY <2>1 DEF OneForm
  <2>3. attempts[r].kind # "google"
    BY <2>1, <2>2 DEF OneForm, ScreenOf, Kind, Sheet
  <2> QED
    BY <2>1, <2>2, <2>3
<1>5. OneForm'
  BY <1>1, <1>2, <1>4 DEF OneForm
<1>6. HaveAccounts' /\ SignedIn'
  BY <1>2 DEF HaveAccounts, SignedIn, OnHome, Active, server
<1> QED
  BY <1>3, <1>5, <1>6

LEMMA LoginInductive == LoginInv /\ [Next]_vars => LoginInv'
<1> SUFFICES ASSUME LoginInv, [Next]_vars PROVE LoginInv'
  OBVIOUS
<1> USE DEF LoginInv
<1>1. ASSUME NEW kind \in Sheet, OpenSheet(kind) PROVE LoginInv'
  <2>1. \A q \in Slot : ~Awaited(q)
    BY <1>1, ActiveType DEF OpenSheet, OneForm, Awaited, ScreenOf, Kind, Sheet
  <2>2. TypeOK'
    BY <1>1 DEF OpenSheet, TypeOK, server, home, history
  <2> QED
    BY <1>1, <2>1, <2>2 DEF OpenSheet, OneForm, HaveAccounts, SignedIn, OnHome, Awaited, Active,
       server, Sheet
<1>2. ASSUME NEW u \in User, SubmitSheet(u) PROVE LoginInv'
  <2>1. PICK f \in SheetForms : Begin(screen, u, f)
    BY <1>2 DEF SubmitSheet
  <2>2. screen \in Kind /\ screen = ScreenOf(screen) /\ screen # "google"
    BY <1>2 DEF SubmitSheet, Sheet, Kind, ScreenOf
  <2> QED
    BY <1>2, <2>1, <2>2, SheetFormIsForm, LoginAfterBegin DEF SubmitSheet
<1>3. ASSUME NEW u \in User, GoogleSignIn(u) PROVE LoginInv'
  <2>1. \A q \in Slot : ~Awaited(q)
    BY <1>3, ActiveType DEF GoogleSignIn, OneForm, Awaited, ScreenOf, Kind, Sheet
  <2>2. PICK f \in NewForms : Begin("google", u, f)
    BY <1>3 DEF GoogleSignIn
  <2> QED
    BY <1>3, <2>1, <2>2, NewFormIsFree, LoginAfterBegin DEF GoogleSignIn, Kind, ScreenOf
<1>4. CASE DismissSheet
  <2>1. /\ attempts' \in [Slot -> Attempt \cup {Idle}]
        /\ \A q \in Slot : attempts'[q] = Abandon(attempts[q])
    BY <1>4, AbandonEffect DEF DismissSheet
  <2>2. TypeOK'
    BY <1>4, <2>1 DEF DismissSheet, TypeOK, server, home
  <2>3. \A q \in Slot : ~Awaited(q)'
    BY <1>4, <2>1, AbandonEffect DEF DismissSheet, Awaited, Active, OneForm, ScreenOf, Sheet
  <2>4. HaveAccounts'
    BY <1>4, <2>1, AbandonEffect DEF DismissSheet, HaveAccounts, Active, server
  <2>5. SignedIn'
    BY <1>4 DEF DismissSheet, SignedIn, OnHome, server
  <2> QED
    BY <2>2, <2>3, <2>4, <2>5 DEF OneForm
<1>5. CASE SignOut
  <2>1. \A q \in Slot : ~Awaited(q)
    BY <1>5, NoneAwaitedOnHome DEF SignOut, OnHome
  <2>2. TypeOK'
    BY <1>5 DEF SignOut, TypeOK, server, home, history
  <2> QED
    BY <1>5, <2>1, <2>2 DEF SignOut, OneForm, HaveAccounts, SignedIn, OnHome, Awaited, Active, server
<1>6. CASE NewTweetClicked \/ CloseCompose
  <2>1. \A q \in Slot : ~Awaited(q)
    BY <1>6, NoneAwaitedOnHome DEF NewTweetClicked, CloseCompose, OnHome
  <2>2. loggedInUser.userID \in User \cup {Nil}
    BY DEF TypeOK, Model, NoModel
  <2>3. TypeOK'
    BY <1>6, <2>2 DEF NewTweetClicked, CloseCompose, TypeOK, server, history
  <2> QED
    BY <1>6, <2>1, <2>3 DEF NewTweetClicked, CloseCompose, OneForm, HaveAccounts, SignedIn, OnHome,
       Awaited, Active, server
<1>7. CASE DetailsFetched
  <2>1. Head(details) \in User /\ Tail(details) \in Seq(User)
    BY <1>7, HeadTailProperties DEF DetailsFetched, TypeOK
  <2>2. [profile |-> Head(details), userID |-> currentUser, form |-> Nil] \in Model
    BY <2>1 DEF Model, TypeOK
  <2>3. TypeOK'
    BY <1>7, <2>1, <2>2 DEF DetailsFetched, TypeOK, server, history
  <2> QED
    BY <1>7, <2>3 DEF DetailsFetched, OneForm, HaveAccounts, SignedIn, OnHome, Awaited, Active, server
<1>8. ASSUME NEW q \in Slot, Authenticated(q) PROVE LoginInv'
  <2> DEFINE a == attempts[q]
             userID == IF a.kind = "signIn" THEN a.userID ELSE a.user
  <2>1. Active(q) /\ a.user \in User /\ a.user # Nil /\ userID \in User \cup {Nil}
    BY <1>8, ActiveType, SessionAssumption DEF Authenticated, At
  <2>2. Goto(q, NextStep(a.kind), a.user, userID) /\ NextStep(a.kind) \in Step
    BY <1>8 DEF Authenticated, NextStep, Step
  <2>3. /\ accounts' = accounts \cup {a.user} /\ currentUser' = a.user
        /\ UNCHANGED <<profiles, abandoned, doubled, broken>>
    BY <1>8 DEF Authenticated, history
  <2>4. userID # Nil => userID \in accounts'
    BY <2>1, <2>3 DEF HaveAccounts
  <2> HIDE DEF a, userID
  <2>5. /\ attempts' \in [Slot -> Attempt \cup {Idle}]
        /\ \A r \in Slot :
            /\ Active(r)' <=> Active(r)
            /\ Active(r) =>
                /\ attempts'[r].kind = attempts[r].kind /\ attempts'[r].form = attempts[r].form
                /\ attempts'[r].shown = attempts[r].shown
                /\ attempts'[r].user = IF r = q THEN a.user ELSE attempts[r].user
                /\ r # q => attempts'[r].step = attempts[r].step
                /\ attempts'[r].userID \in {userID, attempts[r].userID}
        /\ loggedInUser' \in Model \cup {NoModel}
        /\ UNCHANGED <<screen, busy, details, newTweetButton, draftUid>>
    BY <2>1, <2>2, GotoEffect
  <2>6. TypeOK'
    BY <2>1, <2>3, <2>5 DEF TypeOK
  <2>7. OneForm'
    BY <2>1, <2>3, <2>5 DEF OneForm, Awaited
  <2>8. HaveAccounts' /\ SignedIn'
    BY <2>1, <2>3, <2>4, <2>5 DEF HaveAccounts, SignedIn, OnHome
  <2> QED
    BY <2>6, <2>7, <2>8
<1>9. ASSUME NEW q \in Slot, AuthFails(q) \/ AddUpdateFails(q) PROVE LoginInv'
  <2>1. Active(q) /\ attempts[q].user \in User
    BY <1>9, ActiveType DEF AuthFails, AddUpdateFails, At
  <2> QED
    BY <1>9, <2>1, LoginAfterError DEF AuthFails, AddUpdateFails, TypeOK, server, history
<1>10. ASSUME NEW q \in Slot, PictureUploaded(q) PROVE LoginInv'
  <2>1. /\ Active(q) /\ attempts[q].step = "picture" /\ attempts[q].userID \in User \cup {Nil}
        /\ UNCHANGED <<accounts, profiles, currentUser, abandoned, doubled, broken>>
    BY <1>10, ActiveType DEF PictureUploaded, At, server, history
  <2>2. CASE attempts[q].userID # Nil
    <3> DEFINE u == attempts[q].userID
    <3>1. u \in User /\ u \in accounts /\ Goto(q, "record", u, Nil) /\ "record" \in Step
      BY <1>10, <2>1, <2>2 DEF PictureUploaded, HaveAccounts, Step
    <3> HIDE DEF u
    <3>2. /\ attempts' \in [Slot -> Attempt \cup {Idle}]
          /\ \A r \in Slot :
              /\ Active(r)' <=> Active(r)
              /\ Active(r) =>
                  /\ attempts'[r].kind = attempts[r].kind /\ attempts'[r].form = attempts[r].form
                  /\ attempts'[r].shown = attempts[r].shown
                  /\ attempts'[r].user = IF r = q THEN u ELSE attempts[r].user
                  /\ attempts'[r].step = IF r = q THEN "record" ELSE attempts[r].step
                  /\ attempts'[r].userID \in {Nil, attempts[r].userID}
          /\ loggedInUser' \in Model \cup {NoModel}
          /\ UNCHANGED <<screen, busy, details, newTweetButton, draftUid>>
      BY <2>1, <3>1, GotoEffect
    <3>3. TypeOK'
      BY <2>1, <3>2 DEF TypeOK
    <3>4. OneForm'
      BY <2>1, <3>2 DEF OneForm, Awaited
    <3>5. HaveAccounts' /\ SignedIn'
      BY <2>1, <3>1, <3>2 DEF HaveAccounts, SignedIn, OnHome
    <3> QED
      BY <3>3, <3>4, <3>5
  <2>3. CASE attempts[q].userID = Nil
    BY <1>10, <2>1, <2>3, LoginAfterError DEF PictureUploaded, TypeOK
  <2> QED
    BY <2>2, <2>3
<1>11. ASSUME NEW q \in Slot, ProfileFetched(q) PROVE LoginInv'
  <2>1. Active(q) /\ attempts[q].step # "auth" /\ attempts[q].user \in User
    BY <1>11, ActiveType DEF ProfileFetched, At
  <2>2. CASE attempts[q].user \in profiles
    <3>1. [profile |-> attempts[q].user, userID |-> currentUser, form |-> Nil] \in Model
      BY <2>1 DEF Model, TypeOK
    <3> QED
      BY <1>11, <2>1, <2>2, <3>1, LoginAfterUser DEF ProfileFetched, TypeOK, server, history
  <2>3. CASE attempts[q].user \notin profiles
    BY <1>11, <2>1, <2>3, LoginAfterError DEF ProfileFetched, TypeOK, server, history
  <2> QED
    BY <2>2, <2>3
<1>12. ASSUME NEW q \in Slot, ProfilePosted(q) PROVE LoginInv'
  <2> DEFINE model == [profile |-> attempts[q].user, userID |-> attempts[q].userID,
                       form |-> IF Sharing(attempts[q].form) = {q} THEN Nil ELSE attempts[q].form]
  <2>1. Active(q) /\ attempts[q].step # "auth" /\ ReportUser(q, model)
    BY <1>12 DEF ProfilePosted, At
  <2>2. model \in Model
    BY <2>1, ActiveType DEF Model
  <2>3. /\ profiles' \subseteq accounts
        /\ UNCHANGED <<accounts, currentUser, abandoned, doubled, broken>>
    BY <1>12, <2>1 DEF ProfilePosted, TypeOK, HaveAccounts, history
  <2> HIDE DEF model
  <2> QED
    BY <2>1, <2>2, <2>3, LoginAfterUser
<1>13. CASE Relaunch
  <2>1. attempts' \in [Slot -> Attempt \cup {Idle}] /\ \A q \in Slot : ~Active(q)'
    BY <1>13 DEF Relaunch, Active
  <2>2. details' \in Seq(User) /\ screen' \in {"login", "home"}
    BY <1>13 DEF Relaunch, FirstDetails, FirstScreen, TypeOK
  <2>3. broken' \subseteq User
    BY <1>13, ActiveType DEF Relaunch, TypeOK
  <2>4. TypeOK'
    BY <1>13, <2>1, <2>2, <2>3 DEF Relaunch, TypeOK, server
  <2>5. OneForm' /\ HaveAccounts' /\ SignedIn'
    BY <1>13, <2>1, <2>2 DEF Relaunch, FirstScreen, OneForm, Awaited, HaveAccounts, SignedIn, OnHome, server
  <2> QED
    BY <2>4, <2>5
<1>14. CASE UNCHANGED vars
  BY <1>14 DEF vars, TypeOK, OneForm, HaveAccounts, SignedIn, OnHome, Awaited, Active
<1> QED
  BY <1>1, <1>2, <1>3, <1>4, <1>5, <1>6, <1>7, <1>8, <1>9, <1>10, <1>11, <1>12, <1>13, <1>14
     DEF Next, Running, Backend

LEMMA LoginInvariant == Spec => []LoginInv
  BY InitLogin, LoginInductive, PTL DEF Spec

(* Home and compose are only shown to a user who is signed in, whatever    *)
(* abandoned and doubled attempts, errors and launches came before.        *)
THEOREM HomeIsSignedIn == Spec => []HomeMeansSignedIn
<1>1. LoginInv => HomeMeansSignedIn
  BY DEF LoginInv, SignedIn, OnHome, HomeMeansSignedIn
<1> QED
  BY <1>1, LoginInvariant, PTL

-----------------------------------------------------------------------------
(* The spinner *)

LEMMA SpinnerAfterReport ==
    ASSUME TypeOK, SpinnerHasAttempt, NEW q \in Slot, Active(q),
           ReportError(q) \/ \E model : ReportUser(q, model)
    PROVE  SpinnerHasAttempt'
<1>1. attempts[q].shown => ~busy'
  BY ReportUserEffect DEF ReportError, SpinnerAfterError
<1>2. CASE ~attempts[q].shown
  <2>1. busy' => busy
    BY <1>2, ReportUserEffect DEF ReportError, SpinnerAfterError
  <2>2. \A r \in Slot : Awaited(r) => r # q
    BY <1>2 DEF Awaited
  <2>3. \A r \in Slot : Awaited(r) => Awaited(r)'
    BY <1>2, <2>2, EndEffect DEF ReportError, ReportUser, Awaited, Active
  <2> QED
    BY <2>1, <2>3 DEF SpinnerHasAttempt
<1> QED
  BY <1>1, <1>2 DEF SpinnerHasAttempt

LEMMA SpinnerAfterGoto ==
    ASSUME TypeOK, SpinnerHasAttempt, NEW q \in Slot, Active(q), NEW step \in Step, NEW u \in User,
           NEW userID \in User \cup {Nil}, Goto(q, step, u, userID)
    PROVE  SpinnerHasAttempt'
<1>1. busy' = busy /\ \A r \in Slot : Awaited(r) => Awaited(r)'
  BY GotoEffect DEF Awaited
<1> QED
  BY <1>1 DEF SpinnerHasAttempt

LEMMA SpinnerInductive == TypeOK /\ SpinnerHasAttempt /\ [Next]_vars => SpinnerHasAttempt'
<1> SUFFICES ASSUME TypeOK, SpinnerHasAttempt, [Next]_vars PROVE SpinnerHasAttempt'
  OBVIOUS
<1>1. CASE \/ \E kind \in Sheet : OpenSheet(kind)
           \/ SignOut \/ NewTweetClicked \/ CloseCompose \/ DetailsFetched \/ UNCHANGED vars
  <2>1. UNCHANGED <<attempts, busy>>
    BY <1>1 DEF OpenSheet, SignOut, NewTweetClicked, CloseCompose, DetailsFetched, vars
  <2> QED
    BY <2>1 DEF SpinnerHasAttempt, Awaited, Active
<1>2. ASSUME NEW u \in User, SubmitSheet(u) \/ GoogleSignIn(u) PROVE SpinnerHasAttempt'
  <2>1. PICK kind \in Kind, f \in Form : Begin(kind, u, f)
    BY <1>2, SheetFormIsForm, NewFormIsFree DEF SubmitSheet, GoogleSignIn, Kind
  <2>2. \E q \in Slot : Active(q)' /\ attempts'[q].shown
    BY <2>1, BeginEffect
  <2> QED
    BY <2>2 DEF SpinnerHasAttempt, Awaited
<1>3. CASE DismissSheet \/ Relaunch
  BY <1>3 DEF DismissSheet, Relaunch, SpinnerHasAttempt
<1>4. ASSUME NEW q \in Slot, Authenticated(q) PROVE SpinnerHasAttempt'
  <2> DEFINE a == attempts[q]
             userID == IF a.kind = "signIn" THEN a.userID ELSE a.user
  <2>1. Active(q) /\ a.user \in User /\ userID \in User \cup {Nil} /\ NextStep(a.kind) \in Step
    BY <1>4, ActiveType DEF Authenticated, At, NextStep, Step
  <2>2. Goto(q, NextStep(a.kind), a.user, userID)
    BY <1>4 DEF Authenticated
  <2> HIDE DEF userID
  <2> QED
    BY <2>1, <2>2, SpinnerAfterGoto
<1>5. ASSUME NEW q \in Slot, PictureUploaded(q) PROVE SpinnerHasAttempt'
  <2>1. Active(q) /\ attempts[q].userID \in User \cup {Nil} /\ "record" \in Step
    BY <1>5, ActiveType DEF PictureUploaded, At, Step
  <2>2. \/ attempts[q].userID \in User /\ Goto(q, "record", attempts[q].userID, Nil)
        \/ ReportError(q)
    BY <1>5, <2>1 DEF PictureUploaded
  <2> QED
    BY <2>1, <2>2, SpinnerAfterGoto, SpinnerAfterReport
<1>6. ASSUME NEW q \in Slot,
             AuthFails(q) \/ ProfileFetched(q) \/ ProfilePosted(q) \/ AddUpdateFails(q)
      PROVE  SpinnerHasAttempt'
  <2>1. Active(q)
    BY <1>6 DEF AuthFails, ProfileFetched, ProfilePosted, AddUpdateFails, At
  <2>2. ReportError(q) \/ \E model : ReportUser(q, model)
    BY <1>6 DEF AuthFails, ProfileFetched, ProfilePosted, AddUpdateFails
  <2> QED
    BY <2>1, <2>2, SpinnerAfterReport
<1> QED
  BY <1>1, <1>2, <1>3, <1>4, <1>5, <1>6 DEF Next, Running, Backend

(* No attempt, however it ends and whoever waits for it, leaves the        *)
(* spinner of a login screen behind: while it is shown, an attempt is      *)
(* under way whose callback takes it away.                                 *)
THEOREM SpinnerIsAwaited == Spec => []SpinnerHasAttempt
<1>1. Init => SpinnerHasAttempt
  BY DEF Init, SpinnerHasAttempt
<1>2. LoginInv => TypeOK
  BY DEF LoginInv
<1> QED
  BY <1>1, <1>2, SpinnerInductive, LoginInvariant, PTL DEF Spec

-----------------------------------------------------------------------------
(* The models of the forms *)

(* Steps that leave the models alone; attempts may end. *)
LEMMA FormsKept ==
    ASSUME FormsInv, doubled \subseteq doubled',
           \A q \in Slot : Active(q)' =>
                /\ Active(q) /\ attempts'[q].form = attempts[q].form
                /\ attempts'[q].user = attempts[q].user /\ attempts'[q].userID = attempts[q].userID
                /\ attempts'[q].step = attempts[q].step,
           loggedInUser'.form = Nil \/ loggedInUser'.form = loggedInUser.form \/ doubled' # {}
    PROVE  FormsInv'
<1>1. SharedIsDoubled'
  BY DEF FormsInv, SharedIsDoubled
<1>2. OwnUserID'
  BY DEF FormsInv, OwnUserID
<1>3. loggedInUser'.form # Nil => doubled' # {}
  BY DEF FormsInv
<1> QED
  BY <1>1, <1>2, <1>3 DEF FormsInv

LEMMA FormsAfterBegin ==
    ASSUME TypeOK, FormsInv, NEW kind \in Kind, NEW u \in User, NEW f \in Form, Begin(kind, u, f),
           loggedInUser' = loggedInUser
    PROVE  FormsInv'
<1>1. /\ doubled \subseteq doubled'
      /\ \A r \in Slot : Active(r) /\ attempts[r].form = f => u \in doubled' /\ attempts[r].user \in doubled'
  BY BeginEffect
<1>2. PICK q \in Slot :
        /\ ~Active(q) /\ attempts'[q].user = u /\ attempts'[q].form = f
        /\ attempts'[q].userID = Nil /\ attempts'[q].step = "auth"
        /\ \A r \in Slot : r # q => attempts'[r] = attempts[r]
  BY BeginEffect
<1>3. \A r \in Slot : r # q => (Active(r)' <=> Active(r))
  BY <1>2 DEF Active
<1>4. SharedIsDoubled'
  BY <1>1, <1>2, <1>3 DEF FormsInv, SharedIsDoubled
<1>5. OwnUserID'
  BY <1>1, <1>2, <1>3 DEF FormsInv, OwnUserID
<1> QED
  BY <1>1, <1>4, <1>5 DEF FormsInv

LEMMA FormsInductive == LoginInv /\ FormsInv /\ [Next]_vars => FormsInv'
<1> SUFFICES ASSUME LoginInv, FormsInv, [Next]_vars PROVE FormsInv'
  OBVIOUS
<1>0. TypeOK
  BY DEF LoginInv
<1>1. CASE \/ \E kind \in Sheet : OpenSheet(kind)
           \/ SignOut \/ NewTweetClicked \/ CloseCompose \/ UNCHANGED vars
  <2>1. UNCHANGED <<attempts, doubled, loggedInUser>>
    BY <1>1 DEF OpenSheet, SignOut, NewTweetClicked, CloseCompose, vars, history
  <2> QED
    BY <2>1, FormsKept DEF Active
<1>2. CASE DetailsFetched
  <2>1. /\ UNCHANGED <<attempts, doubled>>
        /\ loggedInUser' \in {loggedInUser, [profile |-> Head(details), userID |-> currentUser, form |-> Nil]}
    BY <1>2 DEF DetailsFetched, history
  <2>2. loggedInUser'.form \in {loggedInUser.form, Nil}
    BY <2>1
  <2> QED
    BY <2>1, <2>2, FormsKept DEF Active
<1>3. ASSUME NEW u \in User, SubmitSheet(u) \/ GoogleSignIn(u) PROVE FormsInv'
  <2>1. PICK kind \in Kind, f \in Form : Begin(kind, u, f)
    BY <1>0, <1>3, SheetFormIsForm, NewFormIsFree DEF SubmitSheet, GoogleSignIn, Kind
  <2> QED
    BY <1>0, <1>3, <2>1, FormsAfterBegin DEF SubmitSheet, GoogleSignIn
<1>4. CASE DismissSheet
  <2>1. UNCHANGED <<doubled, loggedInUser>> /\ \A q \in Slot : attempts'[q] = Abandon(attempts[q])
    BY <1>4 DEF DismissSheet
  <2> QED
    BY <1>0, <2>1, AbandonEffect, FormsKept DEF Active
<1>5. ASSUME NEW q \in Slot, Authenticated(q) PROVE FormsInv'
  <2> DEFINE a == attempts[q]
             userID == IF a.kind = "signIn" THEN a.userID ELSE a.user
             step == NextStep(a.kind)
  <2>1. Active(q) /\ a.user \in User /\ userID \in User \cup {Nil}
    BY <1>0, <1>5, ActiveType DEF Authenticated, At
  <2>2. Goto(q, step, a.user, userID) /\ step \in Step /\ step # "record" /\ doubled' = doubled
    BY <1>5 DEF Authenticated, NextStep, Step, history
  <2>3. userID \in {a.user, a.userID} /\ (step = "picture" => userID = a.user)
    BY DEF NextStep
  <2> HIDE DEF userID, step
  <2>4. /\ \A r \in Slot :
            /\ Active(r)' <=> Active(r)
            /\ Active(r) =>
                /\ attempts'[r].form = attempts[r].form /\ attempts'[r].user = attempts[r].user
                /\ attempts'[r].step = IF r = q THEN step ELSE attempts[r].step
                /\ attempts'[r].userID = IF attempts[r].form = a.form THEN userID ELSE attempts[r].userID
        /\ loggedInUser'.form = loggedInUser.form
    BY <1>0, <2>1, <2>2, GotoEffect
  <2>5. SharedIsDoubled'
    BY <2>2, <2>4 DEF FormsInv, SharedIsDoubled
  <2>6. ASSUME NEW r \in Slot, Active(r), r # q, attempts[r].form = a.form
        PROVE  a.user \in doubled /\ attempts[r].user \in doubled
    BY <2>1, <2>6 DEF FormsInv, SharedIsDoubled
  <2>7. OwnUserID'
    <3> SUFFICES ASSUME NEW r \in Slot, Active(r)
                 PROVE  /\ attempts'[r].user \in doubled => attempts'[r].userID \in doubled \cup {Nil}
                        /\ attempts'[r].user \notin doubled =>
                            /\ attempts'[r].userID \in {attempts'[r].user, Nil}
                            /\ attempts'[r].step = "picture" => attempts'[r].userID = attempts'[r].user
                            /\ attempts'[r].step = "record" => attempts'[r].userID = Nil
      BY <2>2, <2>4 DEF OwnUserID
    <3>1. a.user \in doubled => userID \in doubled \cup {Nil}
      BY <2>1, <2>3 DEF FormsInv, OwnUserID
    <3>2. CASE r = q
      BY <2>1, <2>2, <2>3, <2>4, <3>1, <3>2 DEF FormsInv, OwnUserID
    <3>3. CASE r # q /\ attempts[r].form = a.form
      BY <2>4, <2>6, <3>1, <3>3
    <3>4. CASE r # q /\ attempts[r].form # a.form
      BY <2>4, <3>4 DEF FormsInv, OwnUserID
    <3> QED
      BY <3>2, <3>3, <3>4
  <2> QED
    BY <2>2, <2>4, <2>5, <2>7 DEF FormsInv
<1>6. ASSUME NEW q \in Slot, PictureUploaded(q) PROVE FormsInv'
  <2>1. Active(q) /\ attempts[q].step = "picture" /\ doubled' = doubled
    BY <1>6 DEF PictureUploaded, At, history
  <2>2. CASE attempts[q].userID # Nil
    <3> DEFINE a == attempts[q]
    <3>1. a.userID \in User /\ Goto(q, "record", a.userID, Nil) /\ "record" \in Step
      BY <1>0, <1>6, <2>1, <2>2, ActiveType DEF PictureUploaded, Step
    <3>2. /\ \A r \in Slot :
              /\ Active(r)' <=> Active(r)
              /\ Active(r) =>
                  /\ attempts'[r].form = attempts[r].form
                  /\ attempts'[r].user = IF r = q THEN a.userID ELSE attempts[r].user
                  /\ attempts'[r].step = IF r = q THEN "record" ELSE attempts[r].step
                  /\ attempts'[r].userID = IF attempts[r].form = a.form THEN Nil ELSE attempts[r].userID
          /\ loggedInUser'.form = loggedInUser.form
      BY <1>0, <2>1, <3>1, GotoEffect
    <3>3. a.user \in doubled => a.userID \in doubled
      BY <2>1, <2>2 DEF FormsInv, OwnUserID
    <3>4. SharedIsDoubled'
      BY <2>1, <3>2, <3>3 DEF FormsInv, SharedIsDoubled
    <3>5. ASSUME NEW r \in Slot, Active(r), r # q, attempts[r].form = a.form
          PROVE  attempts[r].user \in doubled
      BY <2>1, <3>5 DEF FormsInv, SharedIsDoubled
    <3>6. OwnUserID'
      <4> SUFFICES ASSUME NEW r \in Slot, Active(r)
                   PROVE  /\ attempts'[r].user \in doubled => attempts'[r].userID \in doubled \cup {Nil}
                          /\ attempts'[r].user \notin doubled =>
                              /\ attempts'[r].userID \in {attempts'[r].user, Nil}
                              /\ attempts'[r].step = "picture" => attempts'[r].userID = attempts'[r].user
                              /\ attempts'[r].step = "record" => attempts'[r].userID = Nil
        BY <2>1, <3>2 DEF OwnUserID
      <4>1. CASE r = q
        BY <2>1, <3>2, <4>1
      <4>2. CASE r # q /\ attempts[r].form = a.form
        BY <3>2, <3>5, <4>2
      <4>3. CASE r # q /\ attempts[r].form # a.form
        BY <3>2, <4>3 DEF FormsInv, OwnUserID
      <4> QED
        BY <4>1, <4>2, <4>3
    <3> QED
      BY <2>1, <3>2, <3>4, <3>6 DEF FormsInv
  <2>3. CASE attempts[q].userID = Nil
    <3>1. End(q) /\ loggedInUser' = loggedInUser
      BY <1>6, <2>3 DEF PictureUploaded, ReportError
    <3> QED
      BY <1>0, <2>1, <3>1, EndEffect, FormsKept DEF Active
  <2> QED
    BY <2>2, <2>3
<1>7. ASSUME NEW q \in Slot, AuthFails(q) \/ AddUpdateFails(q) PROVE FormsInv'
  <2>1. End(q) /\ UNCHANGED <<loggedInUser, doubled>>
    BY <1>7 DEF AuthFails, AddUpdateFails, ReportError, history
  <2> QED
    BY <1>0, <2>1, EndEffect, FormsKept DEF Active
<1>8. ASSUME NEW q \in Slot, ProfileFetched(q) PROVE FormsInv'
  <2> DEFINE model == [profile |-> attempts[q].user, userID |-> currentUser, form |-> Nil]
  <2>1. Active(q) /\ doubled' = doubled /\ model.form = Nil
    BY <1>8 DEF ProfileFetched, At, history
  <2>2. CASE attempts[q].user \in profiles
    <3>1. ReportUser(q, model)
      BY <1>8, <2>2 DEF ProfileFetched
    <3> HIDE DEF model
    <3>2. loggedInUser' \in {loggedInUser, model}
      BY <1>0, <2>1, <3>1, ReportUserEffect, ActiveType
    <3> QED
      BY <1>0, <2>1, <3>1, <3>2, ReportUserEffect, FormsKept
  <2>3. CASE attempts[q].user \notin profiles
    <3>1. End(q) /\ loggedInUser' = loggedInUser
      BY <1>8, <2>3 DEF ProfileFetched, ReportError
    <3> QED
      BY <1>0, <2>1, <3>1, EndEffect, FormsKept DEF Active
  <2> QED
    BY <2>2, <2>3
<1>9. ASSUME NEW q \in Slot, ProfilePosted(q) PROVE FormsInv'
  <2> DEFINE f == attempts[q].form
             model == [profile |-> attempts[q].user, userID |-> attempts[q].userID,
                       form |-> IF Sharing(f) = {q} THEN Nil ELSE f]
  <2>1. Active(q) /\ ReportUser(q, model) /\ doubled' = doubled
    BY <1>9 DEF ProfilePosted, At, history
  <2>2. model.form = Nil \/ doubled # {}
    <3>1. CASE Sharing(f) = {q}
      BY <3>1
    <3>2. CASE Sharing(f) # {q}
      <4>1. q \in Sharing(f)
        BY <2>1 DEF Sharing
      <4>2. PICK r \in Slot : Active(r) /\ attempts[r].form = f /\ r # q
        BY <3>2, <4>1 DEF Sharing
      <4> QED
        BY <2>1, <4>2 DEF FormsInv, SharedIsDoubled
    <3> QED
      BY <3>1, <3>2
  <2> HIDE DEF model
  <2>3. loggedInUser' \in {loggedInUser, model}
    BY <1>0, <2>1, ReportUserEffect, ActiveType
  <2> QED
    BY <1>0, <2>1, <2>2, <2>3, ReportUserEffect, FormsKept
<1>10. CASE Relaunch
  <2>1. (\A q \in Slot : ~Active(q)') /\ doubled' = doubled /\ loggedInUser'.form = Nil
    BY <1>10 DEF Relaunch, Active, NoModel
  <2> QED
    BY <2>1, FormsKept
<1> QED
  BY <1>1, <1>2, <1>3, <1>4, <1>5, <1>6, <1>7, <1>8, <1>9, <1>10 DEF Next, Running, Backend

LEMMA InitForms == Init => FormsInv
  BY DEF Init, FormsInv, SharedIsDoubled, OwnUserID, Active, NoModel

LEMMA FormsInvariant == Spec => []FormsInv
  BY InitForms, FormsInductive, LoginInvariant, PTL DEF Spec

-----------------------------------------------------------------------------
(* One identity *)

LEMMA InitIdentity == Init => IdentityInv
<1> SUFFICES ASSUME Init PROVE IdentityInv
  OBVIOUS
<1>1. NoneAbandoned
  BY DEF Init, NoneAbandoned, Active
<1>2. NoModel.userID = Nil
  BY DEF NoModel
<1>3. HomeKnowsUser
  BY <1>2 DEF Init, FirstScreen, FirstDetails, OnHome, HomeKnowsUser
<1> QED
  BY <1>1, <1>3 DEF Init, FirstScreen, IdentityInv, DraftIsTheUsers

(* While an attempt of a session with one at a time is under way, Home is  *)
(* not in front and there is no other.                                     *)
LEMMA OneActive ==
    ASSUME LoginInv, FormsInv, doubled = {}, NoneAbandoned, NEW q \in Slot, Active(q)
    PROVE  /\ Awaited(q) /\ ~OnHome
           /\ \A r \in Slot : r # q => ~Active(r)
<1>1. \A r \in Slot : Active(r) => Awaited(r)
  BY DEF NoneAbandoned, Awaited
<1>2. ~OnHome
  BY <1>1, NoneAwaitedOnHome
<1>3. \A r \in Slot : Active(r) => attempts[r].form = attempts[q].form
  BY <1>1 DEF LoginInv, OneForm
<1> QED
  BY <1>1, <1>2, <1>3 DEF FormsInv, SharedIsDoubled

(* The history of the attempts is not forgotten. *)
LEMMA HistoryKept == [Next]_vars /\ OneAttemptAtATime' => OneAttemptAtATime
<1> SUFFICES ASSUME [Next]_vars, ~abandoned', doubled' = {} PROVE ~abandoned /\ doubled = {}
  BY DEF OneAttemptAtATime
<1>1. ASSUME NEW kind, NEW u, NEW f, Begin(kind, u, f), abandoned' = abandoned
      PROVE  ~abandoned /\ doubled = {}
  BY <1>1 DEF Begin
<1>2. CASE \E u \in User : SubmitSheet(u) \/ GoogleSignIn(u)
  BY <1>1, <1>2 DEF SubmitSheet, GoogleSignIn
<1>3. CASE DismissSheet
  BY <1>3 DEF DismissSheet
<1>4. CASE \/ \E kind \in Sheet : OpenSheet(kind)
           \/ SignOut \/ NewTweetClicked \/ CloseCompose \/ DetailsFetched \/ Relaunch \/ UNCHANGED vars
  BY <1>4 DEF OpenSheet, SignOut, NewTweetClicked, CloseCompose, DetailsFetched, Relaunch, vars, history
<1>5. ASSUME NEW q \in Slot, Backend(q) PROVE ~abandoned /\ doubled = {}
  BY <1>5 DEF Backend, Authenticated, AuthFails, ProfileFetched, PictureUploaded, ProfilePosted,
     AddUpdateFails, history
<1> QED
  BY <1>2, <1>3, <1>4, <1>5 DEF Next, Running

LEMMA IdentityAfterError ==
    ASSUME LoginInv, FormsInv, doubled = {}, NoneAbandoned, NEW q \in Slot, Active(q), ReportError(q),
           UNCHANGED <<profiles, currentUser>>
    PROVE  NoneAbandoned' /\ HomeKnowsUser' /\ DraftIsTheUsers'
<1>1. \A r \in Slot : ~Active(r)'
  BY OneActive, EndEffect DEF LoginInv, ReportError, Active
<1>2. ~OnHome /\ screen' = screen
  BY OneActive DEF ReportError
<1> QED
  BY <1>1, <1>2 DEF NoneAbandoned, HomeKnowsUser, DraftIsTheUsers, OnHome

LEMMA IdentityAfterUser ==
    ASSUME LoginInv, FormsInv, doubled = {}, NoneAbandoned, NEW q \in Slot, Active(q),
           attempts[q].step # "auth", NEW model, ReportUser(q, model),
           currentUser' = currentUser, attempts[q].user \in profiles',
           model.userID \in {currentUser, Nil}
    PROVE  NoneAbandoned' /\ HomeKnowsUser' /\ DraftIsTheUsers'
<1>1. attempts[q].shown /\ attempts[q].user = currentUser
  BY DEF NoneAbandoned
<1>2. \A r \in Slot : ~Active(r)'
  BY OneActive, ReportUserEffect DEF LoginInv
<1>3. screen' = "home" /\ loggedInUser' = model /\ details' = Append(details, currentUser)
  BY <1>1, ReportUserEffect DEF LoginInv
<1>4. details \in Seq(User) /\ currentUser \in User
  BY <1>1, ActiveType DEF LoginInv, TypeOK
<1>5. details' # <<>> /\ details'[Len(details')] = currentUser
  <2>1. /\ details' # <<>> /\ Len(details') = Len(details) + 1
        /\ details'[Len(details) + 1] = currentUser
    BY <1>3, <1>4, AppendProperties
  <2> QED
    BY <2>1
<1>6. HomeKnowsUser'
  BY <1>1, <1>3, <1>5 DEF HomeKnowsUser
<1> QED
  BY <1>2, <1>3, <1>6 DEF NoneAbandoned, DraftIsTheUsers

LEMMA IdentityInductive == LoginInv /\ FormsInv /\ IdentityInv /\ [Next]_vars => IdentityInv'
<1> SUFFICES ASSUME LoginInv, FormsInv, IdentityInv, [Next]_vars, OneAttemptAtATime'
             PROVE  NoneAbandoned' /\ HomeKnowsUser' /\ DraftIsTheUsers'
  BY DEF IdentityInv
<1>0. /\ doubled = {} /\ ~abandoned' /\ NoneAbandoned /\ HomeKnowsUser /\ DraftIsTheUsers
      /\ loggedInUser.form = Nil
  BY HistoryKept DEF IdentityInv, OneAttemptAtATime, FormsInv
<1> USE DEF Active
<1>1. ASSUME NEW kind \in Sheet, OpenSheet(kind)
      PROVE  NoneAbandoned' /\ HomeKnowsUser' /\ DraftIsTheUsers'
  BY <1>0, <1>1 DEF OpenSheet, NoneAbandoned, HomeKnowsUser, DraftIsTheUsers, OnHome, Sheet
<1>2. ASSUME NEW u \in User, SubmitSheet(u) \/ GoogleSignIn(u)
      PROVE  NoneAbandoned' /\ HomeKnowsUser' /\ DraftIsTheUsers'
  <2>1. PICK kind \in Kind, f \in Form : Begin(kind, u, f)
    BY <1>2, SheetFormIsForm, NewFormIsFree DEF SubmitSheet, GoogleSignIn, Kind, LoginInv
  <2>2. PICK q \in Slot :
          /\ attempts'[q].step = "auth" /\ attempts'[q].shown
          /\ \A r \in Slot : r # q => attempts'[r] = attempts[r]
    BY <2>1, BeginEffect DEF LoginInv
  <2>3. currentUser' = currentUser /\ screen' = screen /\ ~OnHome
    BY <1>2 DEF SubmitSheet, GoogleSignIn, OnHome, Sheet
  <2> QED
    BY <1>0, <2>2, <2>3 DEF NoneAbandoned, HomeKnowsUser, DraftIsTheUsers, OnHome
<1>3. CASE DismissSheet
  <2>1. attempts' = attempts /\ currentUser' = currentUser /\ screen' = "login"
    BY <1>0, <1>3 DEF DismissSheet
  <2> QED
    BY <1>0, <2>1 DEF NoneAbandoned, HomeKnowsUser, DraftIsTheUsers, OnHome
<1>4. CASE SignOut
  <2>1. \A q \in Slot : ~Active(q)
    BY <1>0, <1>4, OneActive DEF SignOut, OnHome
  <2> QED
    BY <1>4, <2>1 DEF SignOut, NoneAbandoned, HomeKnowsUser, DraftIsTheUsers, OnHome
<1>5. CASE NewTweetClicked
  BY <1>0, <1>5 DEF NewTweetClicked, NoneAbandoned, HomeKnowsUser, DraftIsTheUsers, OnHome, server
<1>6. CASE CloseCompose
  BY <1>0, <1>6 DEF CloseCompose, NoneAbandoned, HomeKnowsUser, DraftIsTheUsers, OnHome, server
<1>7. CASE DetailsFetched
  <2>1. NoneAbandoned /\ HomeKnowsUser /\ DraftIsTheUsers
    BY <1>0
  <2>2. /\ details # <<>> /\ details' = Tail(details)
        /\ UNCHANGED <<profiles, currentUser, screen, attempts, draftUid>>
    BY <1>7 DEF DetailsFetched, server
  <2>3. /\ details \in Seq(User) /\ Len(details) \in Nat \ {0} /\ details[1] = Head(details)
        /\ Len(details') = Len(details) - 1
        /\ details' # <<>> <=> Len(details) > 1
        /\ details' # <<>> => details'[Len(details')] = details[Len(details)]
    <3>1. details \in Seq(User)
      BY DEF LoginInv, TypeOK
    <3>2. Tail(details) \in Seq(User) /\ Len(Tail(details)) = Len(details) - 1
      BY <3>1, <2>2, HeadTailProperties
    <3>3. Len(details) \in Nat \ {0} /\ details[1] = Head(details)
      BY <3>1, <2>2, EmptySeq
    <3>4. \A i \in 1 .. Len(details) - 1 : Tail(details)[i] = details[i + 1]
      BY <3>1, <2>2, HeadTailProperties
    <3>5. Tail(details) = <<>> <=> Len(details) = 1
      <4>1. Len(<<>>) = 0
        BY EmptySeq
      <4>2. Tail(details) # <<>> => Len(Tail(details)) # 0
        BY <3>2, EmptySeq
      <4>3. Tail(details) = <<>> => Len(Tail(details)) = 0
        BY <4>1
      <4> DEFINE n == Len(Tail(details))
                 e == Tail(details) = <<>>
      <4>4. e <=> n = 0
        BY <4>2, <4>3
      <4>5. n = Len(details) - 1
        BY <3>2
      <4> HIDE DEF n, e
      <4>6. e <=> Len(details) = 1
        BY <3>3, <4>4, <4>5
      <4> QED
        BY <4>6 DEF e
    <3>6. Len(details) > 1 => Tail(details)[Len(details) - 1] = details[Len(details)]
      BY <3>3, <3>4
    <3> QED
      BY <3>1, <3>2, <3>3, <3>5, <3>6, <2>2
  <2> DEFINE model == [profile |-> Head(details), userID |-> currentUser, form |-> Nil]
  <2>4. /\ loggedInUser' \in {loggedInUser, model}
        /\ Head(details) \in profiles => loggedInUser' = model
        /\ Head(details) \notin profiles => loggedInUser' = loggedInUser
    BY <1>7 DEF DetailsFetched
  <2>5. model.userID = currentUser /\ model.profile = Head(details)
    OBVIOUS
  <2>6. ASSUME OnHome
        PROVE  /\ details[Len(details)] = currentUser
               /\ currentUser \in profiles \/ (loggedInUser = NoModel /\ Len(details) = 1)
               /\ loggedInUser.userID \in {currentUser, Nil}
    BY <2>1, <2>2, <2>3, <2>6 DEF HomeKnowsUser
  <2>7. ASSUME OnHome, details' = <<>>
        PROVE  /\ loggedInUser' # NoModel =>
                    loggedInUser'.profile = currentUser /\ loggedInUser'.userID = currentUser
               /\ currentUser \in profiles \/ loggedInUser' = NoModel
    <3>1. Len(details) = 1 /\ Head(details) = currentUser
      BY <2>3, <2>6, <2>7
    <3> QED
      BY <2>4, <2>6, <2>7, <3>1
  <2>8. HomeKnowsUser'
    <3> HIDE DEF model
    <3> SUFFICES ASSUME OnHome
                 PROVE  /\ details' # <<>> => details'[Len(details')] = currentUser
                        /\ \/ currentUser \in profiles
                           \/ loggedInUser' = NoModel /\ Len(details') <= 1
                        /\ loggedInUser'.userID \in {currentUser, Nil}
                        /\ details' = <<>> /\ loggedInUser' # NoModel =>
                              loggedInUser'.profile = currentUser /\ loggedInUser'.userID = currentUser
      BY <2>2 DEF HomeKnowsUser, OnHome
    <3>1. loggedInUser'.userID \in {currentUser, Nil}
      BY <2>4, <2>5, <2>6
    <3>2. currentUser \in profiles \/ (loggedInUser' = NoModel /\ Len(details') <= 1)
      <4>1. CASE details' = <<>>
        BY <2>3, <2>7, <4>1
      <4>2. CASE details' # <<>>
        BY <2>3, <2>6, <4>2
      <4> QED
        BY <4>1, <4>2
    <3> QED
      BY <2>3, <2>6, <2>7, <3>1, <3>2
  <2> QED
    BY <2>1, <2>2, <2>8 DEF NoneAbandoned, DraftIsTheUsers
<1>8. ASSUME NEW q \in Slot, Authenticated(q)
      PROVE  NoneAbandoned' /\ HomeKnowsUser' /\ DraftIsTheUsers'
  <2> DEFINE a == attempts[q]
             userID == IF a.kind = "signIn" THEN a.userID ELSE a.user
  <2>1. Active(q) /\ a.user \in User /\ userID \in User \cup {Nil} /\ NextStep(a.kind) \in Step
    BY <1>8, ActiveType DEF Authenticated, At, NextStep, Step, LoginInv
  <2>2. Goto(q, NextStep(a.kind), a.user, userID) /\ currentUser' = a.user
    BY <1>8 DEF Authenticated
  <2>3. ~OnHome /\ \A r \in Slot : r # q => ~Active(r)
    BY <1>0, <2>1, OneActive
  <2> HIDE DEF userID
  <2>4. /\ attempts'[q].user = a.user /\ attempts'[q].shown = a.shown /\ screen' = screen
        /\ \A r \in Slot : Active(r)' <=> Active(r)
    BY <2>1, <2>2, GotoEffect DEF LoginInv
  <2> QED
    BY <1>0, <2>1, <2>2, <2>3, <2>4 DEF NoneAbandoned, HomeKnowsUser, DraftIsTheUsers, OnHome
<1>9. ASSUME NEW q \in Slot, PictureUploaded(q)
      PROVE  NoneAbandoned' /\ HomeKnowsUser' /\ DraftIsTheUsers'
  <2>1. /\ Active(q) /\ attempts[q].step = "picture" /\ attempts[q].user \in User
        /\ UNCHANGED <<profiles, currentUser>>
    BY <1>9, ActiveType DEF PictureUploaded, At, LoginInv, server
  <2>2. attempts[q].userID = attempts[q].user /\ attempts[q].user # Nil
    BY <1>0, <2>1, SessionAssumption DEF FormsInv, OwnUserID
  <2>3. Goto(q, "record", attempts[q].user, Nil)
    BY <1>9, <2>2 DEF PictureUploaded
  <2>4. ~OnHome /\ \A r \in Slot : r # q => ~Active(r)
    BY <1>0, <2>1, OneActive
  <2>5. /\ attempts'[q].user = attempts[q].user /\ attempts'[q].shown = attempts[q].shown
        /\ screen' = screen
        /\ \A r \in Slot : Active(r)' <=> Active(r)
    BY <2>1, <2>3, GotoEffect DEF LoginInv, Step
  <2> QED
    BY <1>0, <2>1, <2>4, <2>5 DEF NoneAbandoned, HomeKnowsUser, DraftIsTheUsers, OnHome
<1>10. ASSUME NEW q \in Slot, AuthFails(q) \/ AddUpdateFails(q)
       PROVE  NoneAbandoned' /\ HomeKnowsUser' /\ DraftIsTheUsers'
  BY <1>0, <1>10, IdentityAfterError DEF AuthFails, AddUpdateFails, At, server
<1>11. ASSUME NEW q \in Slot, ProfileFetched(q)
       PROVE  NoneAbandoned' /\ HomeKnowsUser' /\ DraftIsTheUsers'
  <2>1. Active(q) /\ attempts[q].step # "auth" /\ UNCHANGED <<profiles, currentUser>>
    BY <1>11 DEF ProfileFetched, At, server
  <2>2. CASE attempts[q].user \in profiles
    <3> DEFINE model == [profile |-> attempts[q].user, userID |-> currentUser, form |-> Nil]
    <3>1. model.userID = currentUser
      OBVIOUS
    <3>2. ReportUser(q, model)
      BY <1>11, <2>2 DEF ProfileFetched
    <3> HIDE DEF model
    <3> QED
      BY <1>0, <2>1, <2>2, <3>1, <3>2, IdentityAfterUser
  <2>3. CASE attempts[q].user \notin profiles
    BY <1>0, <1>11, <2>1, <2>3, IdentityAfterError DEF ProfileFetched
  <2> QED
    BY <2>2, <2>3
<1>12. ASSUME NEW q \in Slot, ProfilePosted(q)
       PROVE  NoneAbandoned' /\ HomeKnowsUser' /\ DraftIsTheUsers'
  <2> DEFINE model == [profile |-> attempts[q].user, userID |-> attempts[q].userID,
                       form |-> IF Sharing(attempts[q].form) = {q} THEN Nil ELSE attempts[q].form]
  <2>1. /\ Active(q) /\ attempts[q].step = "record" /\ ReportUser(q, model)
        /\ currentUser' = currentUser /\ attempts[q].user \in profiles'
    BY <1>12 DEF ProfilePosted, At
  <2>2. model.userID = Nil
    BY <1>0, <2>1 DEF FormsInv, OwnUserID
  <2> HIDE DEF model
  <2> QED
    BY <1>0, <2>1, <2>2, IdentityAfterUser
<1>13. CASE Relaunch
  <2>1. \A q \in Slot : ~Active(q)'
    BY <1>13 DEF Relaunch
  <2>2. /\ screen' # "compose" /\ loggedInUser' = NoModel /\ NoModel.userID = Nil
        /\ screen' = "home" => details' = <<currentUser>>
        /\ currentUser' = currentUser
    BY <1>13 DEF Relaunch, FirstScreen, FirstDetails, NoModel
  <2> QED
    BY <2>1, <2>2 DEF NoneAbandoned, HomeKnowsUser, DraftIsTheUsers, OnHome
<1>14. CASE UNCHANGED vars
  BY <1>0, <1>14 DEF vars, NoneAbandoned, HomeKnowsUser, DraftIsTheUsers, OnHome
<1> QED
  BY <1>1, <1>2, <1>3, <1>4, <1>5, <1>6, <1>7, <1>8, <1>9, <1>10, <1>11, <1>12, <1>13, <1>14
     DEF Next, Running, Backend

LEMMA IdentityInvariant == Spec => []IdentityInv
  BY InitIdentity, IdentityInductive, LoginInvariant, FormsInvariant, PTL DEF Spec

(* As long as no sheet was swiped away during its attempt and none began a *)
(* second one during it, the user Home acts for once its requests are      *)
(* answered is the one signed in.                                          *)
THEOREM SessionHasOneIdentity == Spec => []OneIdentity
<1>1. IdentityInv => OneIdentity
  BY DEF IdentityInv, HomeKnowsUser, OnHome, OneIdentity
<1> QED
  BY <1>1, IdentityInvariant, PTL

(* And then no draft carries another user's uid. *)
THEOREM DraftsAreNotForeign == Spec => []NoForeignTweet
<1>1. IdentityInv => NoForeignTweet
  BY DEF IdentityInv, DraftIsTheUsers, NoForeignTweet
<1> QED
  BY <1>1, IdentityInvariant, PTL

-----------------------------------------------------------------------------
(* Records *)

(* Only the sign-up's own steps end it. *)
LEMMA RecordsKept ==
    ASSUME TypeOK, RecordsInv, accounts' = accounts, profiles \subseteq profiles',
           broken \subseteq broken', doubled \subseteq doubled',
           \A q \in Slot, u \in User : SigningUp(q, u) => \/ SigningUp(q, u)'
                                                          \/ u \in profiles' \cup broken' \cup doubled'
    PROVE  RecordsInv'
  BY DEF RecordsInv, TypeOK

LEMMA RecordsInductive == LoginInv /\ FormsInv /\ RecordsInv /\ [Next]_vars => RecordsInv'
<1> SUFFICES ASSUME LoginInv, FormsInv, RecordsInv, [Next]_vars PROVE RecordsInv'
  OBVIOUS
<1>0. TypeOK
  BY DEF LoginInv
<1>1. CASE \/ \E kind \in Sheet : OpenSheet(kind)
           \/ SignOut \/ NewTweetClicked \/ CloseCompose \/ DetailsFetched \/ UNCHANGED vars
  <2>1. UNCHANGED <<accounts, profiles, attempts, doubled, broken>>
    BY <1>1 DEF OpenSheet, SignOut, NewTweetClicked, CloseCompose, DetailsFetched, vars, server, history
  <2> QED
    BY <2>1 DEF RecordsInv, SigningUp, Active
<1>2. ASSUME NEW u \in User, SubmitSheet(u) \/ GoogleSignIn(u) PROVE RecordsInv'
  <2>1. PICK kind \in Kind, f \in Form : Begin(kind, u, f)
    BY <1>0, <1>2, SheetFormIsForm, NewFormIsFree DEF SubmitSheet, GoogleSignIn, Kind
  <2>2. PICK q \in Slot : ~Active(q) /\ \A r \in Slot : r # q => attempts'[r] = attempts[r]
    BY <1>0, <2>1, BeginEffect
  <2>3. UNCHANGED <<accounts, profiles, broken>> /\ doubled \subseteq doubled'
    BY <1>0, <1>2, <2>1, BeginEffect DEF SubmitSheet, GoogleSignIn, server
  <2> QED
    BY <1>0, <2>2, <2>3, RecordsKept DEF SigningUp, Active
<1>3. CASE DismissSheet
  <2>1. /\ UNCHANGED <<accounts, profiles, doubled, broken>>
        /\ \A q \in Slot : attempts'[q] = Abandon(attempts[q])
    BY <1>3 DEF DismissSheet, server
  <2> QED
    BY <1>0, <2>1, AbandonEffect, RecordsKept DEF SigningUp, Active
<1>4. ASSUME NEW q \in Slot, Authenticated(q) PROVE RecordsInv'
  <2> DEFINE a == attempts[q]
             userID == IF a.kind = "signIn" THEN a.userID ELSE a.user
  <2>1. /\ Active(q) /\ a.step = "auth" /\ a.user \in User /\ userID \in User \cup {Nil}
        /\ NextStep(a.kind) \in Step /\ NextStep(a.kind) # "auth"
    BY <1>0, <1>4, ActiveType DEF Authenticated, At, NextStep, Step
  <2>2. Goto(q, NextStep(a.kind), a.user, userID)
    BY <1>4 DEF Authenticated
  <2> HIDE DEF userID
  <2>3. \A r \in Slot :
          /\ Active(r)' <=> Active(r)
          /\ Active(r) =>
              /\ attempts'[r].kind = attempts[r].kind /\ attempts'[r].user = attempts[r].user
              /\ attempts'[r].step = IF r = q THEN NextStep(a.kind) ELSE attempts[r].step
    BY <1>0, <2>1, <2>2, GotoEffect
  <2>4. /\ accounts' = accounts \cup {a.user} /\ UNCHANGED <<profiles, doubled, broken>>
        /\ a.kind = "signIn" => a.user \in accounts
    BY <1>4 DEF Authenticated, history
  <2>5. \A r \in Slot, u \in User : SigningUp(r, u) => SigningUp(r, u)'
    BY <2>1, <2>3 DEF SigningUp
  <2>6. a.user \in accounts \/ SigningUp(q, a.user)'
    BY <2>1, <2>3, <2>4 DEF SigningUp
  <2>7. ASSUME NEW u \in accounts' \ profiles'
        PROVE  u \in broken' \cup doubled' \/ \E r \in Slot : SigningUp(r, u)'
    <3>1. CASE u \in accounts
      BY <1>0, <2>4, <2>5, <2>7, <3>1 DEF RecordsInv, TypeOK
    <3>2. CASE u \notin accounts
      BY <2>1, <2>3, <2>4, <2>6, <2>7, <3>2
    <3> QED
      BY <3>1, <3>2
  <2> QED
    BY <2>7 DEF RecordsInv
<1>5. ASSUME NEW q \in Slot, PictureUploaded(q) PROVE RecordsInv'
  <2>1. /\ Active(q) /\ attempts[q].step = "picture" /\ attempts[q].user \in User
        /\ UNCHANGED <<accounts, profiles, doubled, broken>>
    BY <1>0, <1>5, ActiveType DEF PictureUploaded, At, server, history
  <2>2. attempts[q].user \in doubled \/ attempts[q].userID = attempts[q].user
    BY <2>1 DEF FormsInv, OwnUserID
  <2>3. CASE attempts[q].userID # Nil
    <3> DEFINE v == attempts[q].userID
    <3>1. v \in User /\ Goto(q, "record", v, Nil) /\ "record" \in Step
      BY <1>0, <1>5, <2>1, <2>3, ActiveType DEF PictureUploaded, Step
    <3>2. \A r \in Slot :
            /\ Active(r)' <=> Active(r)
            /\ Active(r) =>
                /\ attempts'[r].kind = attempts[r].kind
                /\ attempts'[r].user = IF r = q THEN v ELSE attempts[r].user
                /\ attempts'[r].step = IF r = q THEN "record" ELSE attempts[r].step
      BY <1>0, <2>1, <3>1, GotoEffect
    <3>3. \A r \in Slot, u \in User : SigningUp(r, u) => SigningUp(r, u)' \/ u \in doubled'
      BY <2>1, <2>2, <3>2 DEF SigningUp
    <3> QED
      BY <1>0, <2>1, <3>3, RecordsKept
  <2>4. CASE attempts[q].userID = Nil
    <3>1. End(q) /\ attempts[q].user \in doubled
      BY <1>5, <2>1, <2>2, <2>4, SessionAssumption DEF PictureUploaded, ReportError
    <3> QED
      BY <1>0, <2>1, <3>1, EndEffect, RecordsKept DEF SigningUp, Active
  <2> QED
    BY <2>3, <2>4
<1>6. ASSUME NEW q \in Slot, AuthFails(q) \/ ProfileFetched(q) \/ ProfilePosted(q) \/ AddUpdateFails(q)
      PROVE  RecordsInv'
  <2>1. /\ Active(q) /\ UNCHANGED <<accounts, doubled>>
        /\ profiles \subseteq profiles' /\ broken \subseteq broken'
        /\ \A u \in User : SigningUp(q, u) => u \in profiles' \cup broken'
    BY <1>6 DEF AuthFails, ProfileFetched, ProfilePosted, AddUpdateFails, At, SigningUp, server, history
  <2>2. \/ End(q)
        \/ \E model : ReportUser(q, model)
    BY <1>6 DEF AuthFails, ProfileFetched, ProfilePosted, AddUpdateFails, ReportError
  <2>3. \A r \in Slot, u \in User : r # q /\ SigningUp(r, u) => SigningUp(r, u)'
    <3>1. CASE End(q)
      BY <1>0, <3>1, EndEffect DEF SigningUp, Active
    <3>2. ASSUME NEW model, ReportUser(q, model)
          PROVE  \A r \in Slot, u \in User : r # q /\ SigningUp(r, u) => SigningUp(r, u)'
      BY <1>0, <2>1, <3>2, ReportUserEffect DEF SigningUp
    <3> QED
      BY <2>2, <3>1, <3>2
  <2> QED
    BY <1>0, <2>1, <2>3, RecordsKept
<1>7. CASE Relaunch
  <2>1. /\ UNCHANGED <<accounts, profiles, doubled>> /\ broken \subseteq broken'
        /\ \A q \in Slot : Active(q) => attempts[q].user \in broken'
    BY <1>7 DEF Relaunch, server
  <2> QED
    BY <1>0, <2>1, RecordsKept DEF SigningUp
<1> QED
  BY <1>1, <1>2, <1>3, <1>4, <1>5, <1>6, <1>7 DEF Next, Running, Backend

(* An account lacks its record only while its sign-up goes on, after one   *)
(* of the sign-up's steps failed or when it shared its form, whoever else  *)
(* signs in or up meanwhile and whatever sheets are swiped away.           *)
THEOREM NoRecordForgotten == Spec => []PartialOnlyFromErrors
<1>1. Init => RecordsInv
  BY DEF Init, RecordsInv
<1>2. RecordsInv => PartialOnlyFromErrors
  BY DEF RecordsInv, SigningUp, PartialOnlyFromErrors
<1> QED
  BY <1>1, <1>2, RecordsInductive, LoginInvariant, FormsInvariant, PTL DEF Spec

-----------------------------------------------------------------------------
(* The row *)

LEMMA RowsStep == [RowsNext]_rowVars => [Next]_vars
  BY DEF RowsNext, rowVars, CellForRow, Next

LEMMA RowInductive ==
    LoginInv /\ IdentityInv /\ RowInv /\ [RowsNext]_rowVars => RowInv'
<1> SUFFICES ASSUME LoginInv, IdentityInv, RowInv, [RowsNext]_rowVars, OneAttemptAtATime'
             PROVE  /\ row'.deleteButton => row'.by = Author
                    /\ row'.settled /\ row'.by = Author => row'.deleteButton
  BY DEF RowInv
<1>0. OneAttemptAtATime
  BY RowsStep, HistoryKept
<1>1. CASE (Running /\ UNCHANGED row) \/ UNCHANGED rowVars
  BY <1>0, <1>1 DEF RowInv, rowVars
<1>2. CASE Relaunch /\ row' = NoRow
  BY <1>2 DEF NoRow
<1>3. CASE CellForRow
  <2>1. screen = "home"
    BY <1>3 DEF CellForRow
  <2>2. /\ loggedInUser.userID \in {currentUser, Nil}
        /\ details = <<>> /\ loggedInUser # NoModel => loggedInUser.userID = currentUser
    BY <1>0, <2>1 DEF IdentityInv, HomeKnowsUser, OnHome
  <2>3. /\ row'.by = currentUser /\ row'.deleteButton = (loggedInUser.userID = Author)
        /\ row'.settled = (details = <<>> /\ loggedInUser # NoModel)
    BY <1>3 DEF CellForRow, ShowsDeleteButton, IsAuthor
  <2>4. Author # Nil
    BY AuthorAssumption, SessionAssumption
  <2> QED
    BY <2>2, <2>3, <2>4
<1> QED
  BY <1>1, <1>2, <1>3 DEF RowsNext

(* A row displayed to the user signed in offers to delete exactly that     *)
(* user's own tweets, though the sessions before left their model and      *)
(* their late answers behind, as long as no sheet was swiped away during   *)
(* its attempt and none began a second one.                                *)
THEOREM AuthorsDelete == RowsSpec => []DeleteIsTheAuthors
<1>1. RowsInit => LoginInv /\ FormsInv /\ IdentityInv /\ RowInv
  BY InitLogin, InitForms, InitIdentity DEF RowsInit, RowInv, NoRow
<1>2. LoginInv /\ FormsInv /\ IdentityInv /\ RowInv /\ [RowsNext]_rowVars =>
        (LoginInv /\ FormsInv /\ IdentityInv /\ RowInv)'
  BY RowsStep, LoginInductive, FormsInductive, IdentityInductive, RowInductive
<1>3. RowInv => DeleteIsTheAuthors
  BY DEF RowInv, DeleteIsTheAuthors
<1> QED
  BY <1>1, <1>2, <1>3, PTL DEF RowsSpec
=============================================================================

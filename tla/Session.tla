------------------------------ MODULE Session ------------------------------
(***************************************************************************)
(* Signing up, in and out, and whose tweets are posted: the login screen   *)
(* with its sign-in and sign-up sheets, FirebaseAuthenticationManager and  *)
(* GoogleSignInManager, and what HomeViewController and PostTweetModel     *)
(* take from the session.  Home is reduced to the session: its spinner and *)
(* its timeline are in Timeline.  A user stands for an email address, the  *)
(* uid of its account and the record Users/<uid>.  A form stands for the   *)
(* UserModel of a sheet, which its attempts share and hand to Home in the  *)
(* end; what is typed into it is in LoginForm.                             *)
(***************************************************************************)
EXTENDS Naturals, SequencesExt

CONSTANTS
    User,
    Google,      \* the users who can sign in with Google, too
    Registered,  \* the users with an account and a record at first
    Slot,        \* login attempts that can be under way at the same time
    Form,        \* UserModels of forms that can be referred to at the same time
    Nil,         \* no user, no form
    Dismissals,  \* may a sheet be swiped away
    Mixed,       \* may that happen to attempts and, before or after, a form be shared
    Kills,       \* can the app be killed and launched again
    MaxDetails   \* no login completes with this many detail requests in flight

ASSUME SessionAssumption ==
    /\ Google \subseteq User /\ Registered \subseteq User /\ Nil \notin User \cup Form
    /\ Dismissals \in BOOLEAN /\ Mixed \in BOOLEAN /\ Kills \in BOOLEAN
    /\ MaxDetails \in Nat \ {0}

VARIABLES
    accounts,       \* the accounts of Firebase Auth
    profiles,       \* the users with a record under Users/
    currentUser,    \* Auth.auth().currentUser, kept across launches
    loggedInUser,   \* Utils.shared.loggedInUser: whose record it is, its userID
    screen,         \* the view controller on top
    busy,           \* activityView of a login screen is shown
    attempts,       \* the login attempts under way
    details,        \* getLoggedInUserDetail requests, answered in order
    newTweetButton, \* newTweetButton is visible
    draftUid,       \* uid of the PostTweetModel on the compose screen
    abandoned,      \* history: a sheet was swiped away during an attempt
    doubled,        \* history: the users of attempts that shared their form
    broken          \* history: a step of a sign-up of these users failed

vars == <<accounts, profiles, currentUser, loggedInUser, screen, busy, attempts,
          details, newTweetButton, draftUid, abandoned, doubled, broken>>

server == <<accounts, profiles>>

home == <<details, newTweetButton, draftUid>>

history == <<abandoned, doubled, broken>>

Sheet == {"signIn", "create"}

(* A model with a form is the form's own, which attempts under way share. *)
Model == [profile : User, userID : User \cup {Nil}, form : Form \cup {Nil}]

NoModel == [profile |-> Nil, userID |-> Nil, form |-> Nil]

(* user is the one it was started for, from step "record" on the one whose *)
(* record is written; userID is the one in the form's model, from the step *)
(* on that sets it: no attempt reads it before.                            *)
Attempt ==
    [kind : Sheet \cup {"google"}, user : User, form : Form, userID : User \cup {Nil},
     step : {"auth", "fetch", "picture", "record"}, shown : BOOLEAN]

Idle == [kind |-> "idle"]

Active(q) == attempts[q] # Idle

(* The form that started the attempt is still there to take its result. *)
Awaited(q) == Active(q) /\ attempts[q].shown

Sharing(f) == {q \in Slot : Active(q) /\ attempts[q].form = f}

Begin(kind, u, f) ==
    /\ \E q \in Slot :
        /\ ~Active(q)
        /\ attempts' = [attempts EXCEPT ![q] =
               [kind |-> kind, user |-> u, form |-> f, userID |-> Nil,
                step |-> "auth", shown |-> TRUE]]
    /\ Mixed \/ ~abandoned \/ Sharing(f) = {}
    /\ busy' = TRUE
    /\ doubled' = IF Sharing(f) = {} THEN doubled
                  ELSE doubled \cup {u} \cup {attempts[q].user : q \in Sharing(f)}

(* One of the models that nobody refers to; they are all alike.  What an   *)
(* attempt that is over left in the model of its sheet is never read.      *)
NewForms ==
    LET free == {f \in Form : Sharing(f) = {} /\ loggedInUser.form # f}
    IN  IF free = {} THEN {} ELSE {CHOOSE f \in free : TRUE}

(* The model of the sheet on top. *)
SheetForms ==
    IF \E q \in Slot : Awaited(q)
    THEN {attempts[q].form : q \in {r \in Slot : Awaited(r)}}
    ELSE NewForms

-----------------------------------------------------------------------------
(* The login screen and its sheets *)

OpenSheet(kind) ==
    /\ screen = "login" /\ ~busy
    /\ screen' = kind
    /\ UNCHANGED <<server, currentUser, loggedInUser, busy, attempts, home, history>>

(* The attempt ends with its sheet. *)
AbandonAll(a) == Idle

Abandon(a) == IF a # Idle /\ a.kind \in Sheet THEN [a EXCEPT !.shown = FALSE] ELSE a

(* The sheets are presented as cards.  Their callbacks hold them weakly:   *)
(* an attempt goes on, but nobody is left to take its result.              *)
DismissSheet ==
    /\ Dismissals
    /\ screen \in Sheet
    /\ screen' = "login"
    /\ busy' = FALSE
    /\ attempts' = [q \in Slot |-> Abandon(attempts[q])]
    /\ abandoned' = (abandoned \/ attempts' # attempts)
    /\ Mixed \/ ~abandoned' \/ doubled = {}
    /\ UNCHANGED <<server, currentUser, loggedInUser, home, doubled, broken>>

(* signinButtonClicked and createAccountClicked with a form that passes    *)
(* validation; one that does not only shows an alert.  Nothing keeps a     *)
(* second attempt from starting during one: the spinner covers the button, *)
(* but a swipe let go focuses a field and its Return key submits again,    *)
(* and the first error takes the spinner off the attempt that is left.     *)
SubmitSheet(u) ==
    /\ screen \in Sheet
    /\ \E f \in SheetForms : Begin(screen, u, f)
    /\ UNCHANGED <<server, currentUser, loggedInUser, screen, home, abandoned, broken>>

(* googleSignInViewClicked, to the point where Google named the user; an   *)
(* error or a missing token before that only shows an alert.  The attempt  *)
(* makes a UserModel of its own.                                           *)
GoogleSignIn(u) ==
    /\ screen = "login" /\ ~busy
    /\ u \in Google
    /\ \E f \in NewForms : Begin("google", u, f)
    /\ UNCHANGED <<server, currentUser, loggedInUser, screen, home, abandoned, broken>>

-----------------------------------------------------------------------------
(* The attempts *)

At(q, kinds, step) ==
    Active(q) /\ attempts[q].kind \in kinds /\ attempts[q].step = step

(* What an attempt or Home has of form f's model, after its userID is set. *)
WithUserID(m, f, userID) == IF m.form = f THEN [m EXCEPT !.userID = userID] ELSE m

(* The attempt goes on, for user u; all who share its form see the userID  *)
(* it sets.                                                                *)
Goto(q, step, u, userID) ==
    LET f == attempts[q].form
    IN  /\ attempts' = [r \in Slot |->
               IF ~Active(r) THEN Idle
               ELSE [WithUserID(attempts[r], f, userID) EXCEPT
                        !.step = IF r = q THEN step ELSE @, !.user = IF r = q THEN u ELSE @]]
        /\ loggedInUser' = WithUserID(loggedInUser, f, userID)
        /\ UNCHANGED <<screen, busy, home>>

End(q) == attempts' = [attempts EXCEPT ![q] = Idle]

(* The spinner is left when an error is shown. *)
SpinnerKept(q) == busy

SpinnerAfterError(q) == busy /\ ~attempts[q].shown

(* The callback of the view controller, with an error or with a user. *)
ReportError(q) ==
    /\ End(q)
    /\ busy' = SpinnerAfterError(q)
    /\ UNCHANGED <<loggedInUser, screen, home>>

(* The Home screen does not ask for the details. *)
ForgetDetails == UNCHANGED details

(* The Home screen's delegate method asks for the user's details; the page *)
(* it also asks for is in Timeline.                                        *)
LoginDidComplete ==
    /\ Len(details) < MaxDetails
    /\ details' = Append(details, currentUser)

(* The user before stays. *)
KeepUser(model) == UNCHANGED loggedInUser

SetLoggedInUser(model) == loggedInUser' = model

(* Home dismisses the login screen with its sheet; other attempts of the   *)
(* sheet are left without it.                                              *)
ReportUser(q, model) ==
    /\ IF attempts[q].shown
       THEN /\ busy' = FALSE /\ screen' = "home"
            /\ attempts' = [r \in Slot |-> IF r = q THEN Idle ELSE Abandon(attempts[r])]
            /\ SetLoggedInUser(model)
            /\ LoginDidComplete
       ELSE End(q) /\ UNCHANGED <<busy, screen, loggedInUser, details>>
    /\ UNCHANGED <<newTweetButton, draftUid>>

NextStep(kind) == IF kind = "signIn" THEN "fetch" ELSE "picture"

(* Firebase Auth accepts the attempt.  Signing up needs a new address,     *)
(* signing in an account; with Google a user gets one by signing in.  An   *)
(* address has one account, however it was made, and may have a password.  *)
Authenticated(q) ==
    /\ At(q, Sheet \cup {"google"}, "auth")
    /\ LET a == attempts[q] IN
        /\ a.kind = "signIn" => a.user \in accounts
        /\ a.kind = "create" => a.user \notin accounts
        /\ accounts' = accounts \cup {a.user}
        /\ currentUser' = a.user
        /\ Goto(q, NextStep(a.kind), a.user, IF a.kind = "signIn" THEN a.userID ELSE a.user)
    /\ UNCHANGED <<profiles, history>>

(* An error of any kind, the address in use or no account among them. *)
AuthFails(q) ==
    /\ At(q, Sheet \cup {"google"}, "auth")
    /\ ReportError(q)
    /\ UNCHANGED <<server, currentUser, history>>

(* The record is that of the user signed in by this attempt; its userID is *)
(* filled in from whoever is signed in when it arrives.                    *)
ProfileFetched(q) ==
    /\ At(q, {"signIn"}, "fetch")
    /\ IF attempts[q].user \in profiles
       THEN ReportUser(q, [profile |-> attempts[q].user, userID |-> currentUser, form |-> Nil])
       ELSE ReportError(q)
    /\ UNCHANGED <<server, currentUser, history>>

(* addUpdate has put the picture into the store; continueAddUpdate takes   *)
(* the userID out of the model, where another attempt of the form may have *)
(* changed it, or have taken it away already.                              *)
PictureUploaded(q) ==
    /\ At(q, {"create", "google"}, "picture")
    /\ LET userID == attempts[q].userID IN
        IF userID # Nil THEN Goto(q, "record", userID, Nil) ELSE ReportError(q)
    /\ UNCHANGED <<server, currentUser, history>>

(* The record is written for that userID.  What is handed back is the      *)
(* form's model itself, without a userID unless another attempt of the     *)
(* form has set it again.                                                  *)
ProfilePosted(q) ==
    /\ At(q, {"create", "google"}, "record")
    /\ profiles' = profiles \cup {attempts[q].user}
    /\ ReportUser(q, [profile |-> attempts[q].user, userID |-> attempts[q].userID,
                      form |-> IF Sharing(attempts[q].form) = {q} THEN Nil
                               ELSE attempts[q].form])
    /\ UNCHANGED <<accounts, currentUser, history>>

(* The picture cannot be read or uploaded, or the record not be written:   *)
(* the account stays.                                                      *)
AddUpdateFails(q) ==
    /\ At(q, {"create", "google"}, "picture") \/ At(q, {"create", "google"}, "record")
    /\ ReportError(q)
    /\ broken' = broken \cup {attempts[q].user}
    /\ UNCHANGED <<server, currentUser, abandoned, doubled>>

-----------------------------------------------------------------------------
(* The Home screen *)

(* fetchLoggedInUserDetails completes. *)
DetailsFetched ==
    /\ details # <<>>
    /\ details' = Tail(details)
    /\ IF Head(details) \in profiles
       THEN /\ loggedInUser' = [profile |-> Head(details), userID |-> currentUser, form |-> Nil]
            /\ newTweetButton' = TRUE
       ELSE UNCHANGED <<loggedInUser, newTweetButton>>
    /\ UNCHANGED <<server, currentUser, screen, busy, attempts, draftUid, history>>

(* Whether Auth could sign the user out or not, the login screen opens;    *)
(* loggedInUser and the button stay.  It is presented in a later turn of   *)
(* the main queue, here in the same step; that an alert shown in between   *)
(* may keep UIKit from presenting it is left out.                          *)
SignOut ==
    /\ screen = "home"
    /\ currentUser' \in {currentUser, Nil}
    /\ screen' = "login"
    /\ UNCHANGED <<server, loggedInUser, busy, attempts, home, history>>

(* PostTweetModel takes its uid when the compose screen is opened. *)
NewTweetClicked ==
    /\ screen = "home" /\ newTweetButton
    /\ screen' = "compose"
    /\ draftUid' = loggedInUser.userID
    /\ UNCHANGED <<server, currentUser, loggedInUser, busy, attempts, details,
                   newTweetButton, history>>

(* The tweet is posted, or the screen cancelled. *)
CloseCompose ==
    /\ screen = "compose"
    /\ screen' = "home"
    /\ draftUid' = Nil
    /\ UNCHANGED <<server, currentUser, loggedInUser, busy, attempts, details,
                   newTweetButton, history>>

-----------------------------------------------------------------------------
(* Nobody asks whether a user is signed in. *)
FirstScreenHome(u) == "home"

(* viewDidLoad of the Home screen, for a user u signed in or not. *)
FirstScreen(u) == IF u = Nil THEN "login" ELSE "home"

FirstDetails(u) == IF u = Nil THEN <<>> ELSE <<u>>

(* The app is killed and launched again; what was under way is lost. *)
Relaunch ==
    /\ Kills
    /\ screen' = FirstScreen(currentUser) /\ details' = FirstDetails(currentUser)
    /\ loggedInUser' = NoModel /\ newTweetButton' = FALSE /\ draftUid' = Nil
    /\ busy' = FALSE
    /\ attempts' = [q \in Slot |-> Idle]
    /\ broken' = broken \cup {attempts[q].user : q \in {s \in Slot : Active(s)}}
    /\ UNCHANGED <<server, currentUser, abandoned, doubled>>

Init ==
    /\ accounts = Registered /\ profiles = Registered
    /\ currentUser \in Registered \cup {Nil}
    /\ loggedInUser = NoModel
    /\ screen = FirstScreen(currentUser) /\ details = FirstDetails(currentUser)
    /\ busy = FALSE /\ attempts = [q \in Slot |-> Idle]
    /\ newTweetButton = FALSE /\ draftUid = Nil
    /\ abandoned = FALSE /\ doubled = {} /\ broken = {}

Backend(q) ==
    \/ Authenticated(q) \/ AuthFails(q) \/ ProfileFetched(q)
    \/ PictureUploaded(q) \/ ProfilePosted(q) \/ AddUpdateFails(q)

Running ==
    \/ \E kind \in Sheet : OpenSheet(kind)
    \/ \E u \in User : SubmitSheet(u) \/ GoogleSignIn(u)
    \/ DismissSheet \/ SignOut \/ NewTweetClicked \/ CloseCompose
    \/ DetailsFetched
    \/ \E q \in Slot : Backend(q)

Next == Running \/ Relaunch

Spec == Init /\ [][Next]_vars

(* Every request calls back. *)
FairSpec == Spec /\ WF_vars(DetailsFetched) /\ \A q \in Slot : WF_vars(Backend(q))

Rested == \A q \in Slot : ~Active(q)

(* A user who keeps trying both to sign up and to sign in, on a connection *)
(* on which what is tried again and again succeeds once.                   *)
PersistentSpec ==
    /\ FairSpec
    /\ \A kind \in Sheet :
        /\ SF_vars(Rested /\ OpenSheet(kind))
        /\ \A u \in User : SF_vars(screen = kind /\ SubmitSheet(u))
    /\ SF_vars(Rested /\ DismissSheet) /\ \A u \in User : SF_vars(GoogleSignIn(u))
    /\ \A q \in Slot :
        /\ SF_vars(Authenticated(q)) /\ SF_vars(ProfileFetched(q))
        /\ SF_vars(PictureUploaded(q)) /\ SF_vars(ProfilePosted(q))

-----------------------------------------------------------------------------
(* Properties *)

TypeOK ==
    /\ accounts \subseteq User /\ profiles \subseteq accounts
    /\ doubled \subseteq User /\ broken \subseteq User
    /\ currentUser \in User \cup {Nil}
    /\ loggedInUser \in Model \cup {NoModel}
    /\ screen \in Sheet \cup {"login", "home", "compose"}
    /\ attempts \in [Slot -> Attempt \cup {Idle}]
    /\ details \in Seq(User)
    /\ busy \in BOOLEAN /\ newTweetButton \in BOOLEAN /\ abandoned \in BOOLEAN
    /\ draftUid \in User \cup {Nil}

(* Home and compose are only reached, and stayed on, with a user signed    *)
(* in: late callbacks of attempts never leave the Home screen without one. *)
HomeMeansSignedIn == screen \in {"home", "compose"} => currentUser \in accounts

(* No sheet was swiped away during an attempt, none began a second attempt *)
(* during one.                                                             *)
OneAttemptAtATime == ~abandoned /\ doubled = {}

(* As long as no sheet was swiped away during an attempt and none began a  *)
(* second one during it, the session settles on one identity: with no      *)
(* request for details left, the user Home acts for is the one signed in,  *)
(* even if answers for the user before arrived after the switch.           *)
OneIdentity ==
    (OneAttemptAtATime /\ screen = "home" /\ details = <<>> /\ loggedInUser # NoModel) =>
        loggedInUser.profile = currentUser /\ loggedInUser.userID = currentUser

(* Under the same condition no tweet is posted under another user's uid,   *)
(* at worst under none: the draft on the compose screen, which may be sent *)
(* at any time, has the uid of the user signed in or none.                 *)
NoForeignTweet ==
    (OneAttemptAtATime /\ screen = "compose") => draftUid \in {currentUser, Nil}

(* An account has its record, unless its sign-up is still going on, one of *)
(* its steps failed or it shared its form with another: no attempt forgets *)
(* the record, whoever else signs in or up on other forms meanwhile, and   *)
(* sheets swiped away are no exception.                                    *)
PartialOnlyFromErrors ==
    \A u \in accounts \ profiles :
        \/ u \in broken \cup doubled
        \/ \E q \in Slot : Active(q) /\ attempts[q].user = u

(* The spinner covers a login screen only while an attempt that will take  *)
(* it away is under way: an error, a second attempt of the sheet, a sheet  *)
(* swiped away and attempts that nobody waits for never leave the user     *)
(* under a spinner for good.  (As every request calls back, an attempt     *)
(* ends after three of them.)                                              *)
SpinnerHasAttempt == busy => \E q \in Slot : Awaited(q)

(* Whoever tries to sign up gets a record in the end, by trying again. *)
UserCanSignUp ==
    \A u \in User :
        (\E q \in Slot : At(q, {"create"}, "auth") /\ attempts[q].user = u) ~> u \in profiles

(* A tweet that is composed carries its author's uid, by which it is       *)
(* recognised as theirs when they want to delete it.                       *)
TweetsAreOwned == screen = "compose" => draftUid = currentUser
=============================================================================

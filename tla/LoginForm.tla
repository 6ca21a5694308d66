----------------------------- MODULE LoginForm ------------------------------
(***************************************************************************)
(* The sign-in and the sign-up form: SigninViewController,                 *)
(* CreateAccountViewController and their view models, the keyboard of      *)
(* BaseViewController, and the attempts the forms start.                   *)
(*                                                                         *)
(* A form fills a UserModel, and the attempt is handed that same object:   *)
(* FirebaseAuthenticationManager reads and changes it between its          *)
(* requests, while it is still the form's.  A text is one of a few         *)
(* classes; two of them are valid so that a change can be seen.            *)
(***************************************************************************)
EXTENDS Integers, FiniteSets

CONSTANTS
    Attempt,         \* attempts that can be in flight at once
    NameTexts,       \* the texts the user types in the two name fields,
    EmailTexts,      \* in the email field
    PasswordTexts,   \* and in the password field
    KeyboardHeight,  \* the heights the keyboard comes in
    MaxReturns       \* how often the form appears again

Text == {"empty", "blank", "bad", "good", "alt"}

(* LoginField, the tags of the text fields. *)
displayName == 0
emailAddress == 1
userName == 2
password == 3
Field == 0 .. 3

ASSUME LoginFormAssumption ==
    /\ IsFiniteSet(Attempt)
    /\ NameTexts \cup EmailTexts \cup PasswordTexts \subseteq Text
    /\ KeyboardHeight \subseteq Nat \ {0}
    /\ \E h \in KeyboardHeight : \A g \in KeyboardHeight : g <= h
    /\ MaxReturns \in Nat

Nil == "nil"
NoField == -1

Error == {"photoMissing", "displayNameMissing", "emailAddressMissing", "userNameMissing",
          "passwordMissing", "passwordCriteriaMissing", "checkPhotoPermissions", "request"}

VARIABLES
    form,       \* which of the two forms this is
    text,       \* the text each field shows
    model,      \* the same fields of viewModel.userModel
    photo,      \* userModel.photoURL: none, a local file or the uploaded one
    userID,     \* userModel.userID: the attempt whose account it names
    focus,      \* the field that is first responder
    keyboard,   \* the keyboard's height, 0 when hidden
    room,       \* scrollViewContentHeightConstraint above desiredHeight
    isExpanded, \* BaseViewController.isExpanded
    alert,      \* the error an alert shows
    picker,     \* the image picker
    busy,       \* activityView covers the form
    attempts,   \* the attempts in flight
    returns,    \* times the form appeared again
    returned,   \* history: it appeared again during an attempt
    closed      \* a login completed and the form was dismissed

fields == <<text, model, photo, userID>>
typing == <<focus, keyboard, room, isExpanded>>
vars == <<form, fields, typing, alert, picker, busy, attempts, returns, returned, closed>>

Fields == IF form = "signIn" THEN {emailAddress, password} ELSE Field

FirstField == IF form = "signIn" THEN emailAddress ELSE displayName

-----------------------------------------------------------------------------
(* Validation *)

(* Not empty after trimmingCharacters(in: .whitespacesAndNewlines). *)
NotBlank(t) == t \notin {Nil, "empty", "blank"}

Valid(t) == t \in {"good", "alt"}

(* What the guard that throws error e asks of the model. *)
Holds(e, m) ==
    CASE e = "photoMissing" -> photo # Nil
      [] e = "displayNameMissing" -> NotBlank(m[displayName])
      [] e = "emailAddressMissing" -> Valid(m[emailAddress])
      [] e = "userNameMissing" -> NotBlank(m[userName])
      [] e = "passwordMissing" -> NotBlank(m[password])
      [] e = "passwordCriteriaMissing" -> Valid(m[password])

CreateGuards == <<"photoMissing", "displayNameMissing", "emailAddressMissing",
                  "userNameMissing", "passwordMissing", "passwordCriteriaMissing">>

(* As Guards, with the email address looked at last. *)
GuardsEmailLast ==
    IF form = "signIn"
    THEN <<"passwordMissing", "passwordCriteriaMissing", "emailAddressMissing">>
    ELSE CreateGuards

(* The errors of the form's guards, in the order in which they throw. *)
Guards ==
    IF form = "signIn"
    THEN <<"emailAddressMissing", "passwordMissing", "passwordCriteriaMissing">>
    ELSE CreateGuards

Failing(m) == {i \in DOMAIN Guards : ~Holds(Guards[i], m)}

(* The first guard that fails throws, and those after it are not reached. *)
Throws(m, e) ==
    \E i \in Failing(m) : (\A j \in Failing(m) : i <= j) /\ e = Guards[i]

-----------------------------------------------------------------------------
(* The keyboard *)

(* The keyboard is up for field f, with the height that goes with it. *)
Focus(f) ==
    /\ focus' = f
    /\ keyboard' \in KeyboardHeight
    /\ room' = IF isExpanded THEN room ELSE keyboard'
    /\ isExpanded' = TRUE

(* As EndEditing, but isExpanded is not reset. *)
StayExpanded ==
    /\ focus' = NoField /\ keyboard' = 0
    /\ room' = 0
    /\ UNCHANGED isExpanded

EndEditing ==
    /\ focus' = NoField /\ keyboard' = 0
    /\ room' = IF isExpanded THEN 0 ELSE room
    /\ isExpanded' = FALSE

-----------------------------------------------------------------------------
(* What the user does.  The keyboard is not covered by activityView. *)

InFront == ~closed /\ alert = Nil /\ picker # "open"

CanTouch == InFront /\ ~busy

Tap ==
    /\ CanTouch
    /\ \/ \E f \in Fields : Focus(f)
       \/ EndEditing
    /\ UNCHANGED <<form, fields, alert, picker, busy, attempts, returns, returned, closed>>

Typed(f) == CASE f = emailAddress -> EmailTexts
              [] f = password -> PasswordTexts
              [] OTHER -> NameTexts

(* The userName's case stores the text as displayName. *)
StoreInDisplayName(f, t) ==
    model' = [model EXCEPT ![IF f = userName THEN displayName ELSE f] = t]

Store(f, t) == model' = [model EXCEPT ![f] = t]

TextFieldChanged ==
    /\ InFront /\ focus # NoField
    /\ \E t \in Typed(focus) : text' = [text EXCEPT ![focus] = t] /\ Store(focus, t)
    /\ UNCHANGED <<form, photo, userID, typing, alert, picker, busy, attempts, returns,
                   returned, closed>>

Idle == [stage |-> "idle", email |-> Nil, uid |-> Nil, record |-> <<>>]

Started == [Idle EXCEPT !.stage = "auth", !.email = model[emailAddress]]

(* The keyboard stays up during the attempt. *)
KeepTyping == UNCHANGED typing

LeaveFields == EndEditing

(* signinButtonClicked and createAccountClicked. *)
Submit ==
    /\ \/ /\ \E e \in Error : Throws(model, e) /\ alert' = e
          /\ UNCHANGED <<typing, busy, attempts>>
       \/ /\ Failing(model) = {}
          /\ LeaveFields
          /\ busy' = TRUE
          /\ \E a \in Attempt :
                /\ attempts[a] = Idle
                /\ attempts' = [attempts EXCEPT ![a] = Started]
          /\ UNCHANGED alert
    /\ UNCHANGED <<form, fields, picker, returns, returned, closed>>

SubmitClicked == CanTouch /\ Submit

(* The field with the next tag, in either form. *)
NextTag(f) == f + 1

NextField(f) == IF form = "signIn" THEN password ELSE f + 1

(* textFieldShouldReturn *)
ReturnKey ==
    /\ InFront /\ focus # NoField
    /\ \/ focus = password /\ Submit
       \/ /\ focus # password
          /\ Focus(NextField(focus))
          /\ UNCHANGED <<form, fields, alert, picker, busy, attempts, returns, returned, closed>>

AlertOK ==
    /\ ~closed /\ alert # Nil
    /\ alert' = Nil
    /\ UNCHANGED <<form, fields, typing, picker, busy, attempts, returns, returned, closed>>

(* viewWillAppear and viewDidAppear move into the first field whenever     *)
(* they run.                                                               *)
Appear ==
    /\ returns < MaxReturns
    /\ returns' = returns + 1
    /\ returned' = (returned \/ busy)
    /\ Focus(FirstField)

(* A swipe that would dismiss the form is begun and let go. *)
SwipeCancelled ==
    /\ InFront
    /\ Appear
    /\ UNCHANGED <<form, fields, alert, picker, busy, attempts, closed>>

-----------------------------------------------------------------------------
(* The profile picture *)

ImageButtonClicked ==
    /\ CanTouch /\ form = "signUp" /\ picker = "none"
    /\ EndEditing
    /\ picker' = "asked"
    /\ UNCHANGED <<form, fields, alert, busy, attempts, returns, returned, closed>>

(* The permission arrives later; what the user did meanwhile stands.  An   *)
(* alert that is already shown keeps the picker from being presented.      *)
PermissionAnswered ==
    /\ picker = "asked"
    /\ \/ picker' = (IF InFront THEN "open" ELSE "none") /\ UNCHANGED alert
       \/ picker' = "none" /\ alert' = (IF InFront THEN "checkPhotoPermissions" ELSE alert)
    /\ UNCHANGED <<form, fields, typing, busy, attempts, returns, returned, closed>>

(* didFinishPickingMediaWithInfo: only the library gives an imageURL. *)
LibraryPicked ==
    /\ picker = "open"
    /\ picker' = "none"
    /\ photo' \in {photo, "local"}
    /\ UNCHANGED <<form, text, model, userID, typing, alert, busy, attempts, returns,
                   returned, closed>>

(* The camera covers the form, which appears again afterwards. *)
CameraClosed ==
    /\ picker = "open"
    /\ picker' = "none"
    /\ Appear
    /\ UNCHANGED <<form, fields, alert, busy, attempts, closed>>

-----------------------------------------------------------------------------
(* FirebaseAuthenticationManager, with the form's own model *)

At(a, stage) == attempts[a].stage = stage

Ended(a) == attempts' = [attempts EXCEPT ![a] = Idle]

(* The callback's error branch; the form may be gone. *)
ReportError(a) ==
    /\ Ended(a)
    /\ busy' = FALSE
    /\ alert' = IF InFront THEN "request" ELSE alert
    /\ UNCHANGED <<form, typing, picker, returns, returned, closed>>

Advance(a, next) ==
    /\ attempts' = [attempts EXCEPT ![a] = next]
    /\ UNCHANGED <<form, typing, alert, picker, busy, returns, returned, closed>>

AuthSucceeds(a) ==
    /\ At(a, "auth")
    /\ form = "signIn"
    /\ Advance(a, [attempts[a] EXCEPT !.stage = "fetch"])
    /\ UNCHANGED fields

(* A picture that cannot be read is not reported. *)
SilentUnlessRead(a) ==
    \/ photo # Nil /\ Advance(a, [attempts[a] EXCEPT !.stage = "upload"])
    \/ Ended(a) /\ UNCHANGED <<form, typing, alert, picker, busy, returns, returned, closed>>

(* The picture's file may turn out to be unreadable. *)
UploadPicture(a) ==
    \/ photo # Nil /\ Advance(a, [attempts[a] EXCEPT !.stage = "upload"])
    \/ ReportError(a)

AddUpdate(a) ==
    /\ At(a, "auth")
    /\ form = "signUp"
    /\ userID' = a
    /\ UploadPicture(a)
    /\ UNCHANGED <<text, model, photo>>

Record == [f \in {displayName, emailAddress, userName} |-> model[f]]

(* continueAddUpdate: the record is written under the model's userID, and  *)
(* the password and the userID are taken out of the model for it.          *)
ContinueAddUpdate(a) ==
    /\ At(a, "upload")
    /\ IF userID = Nil
       THEN ReportError(a) /\ UNCHANGED fields
       ELSE /\ Advance(a, [attempts[a] EXCEPT !.stage = "post", !.uid = userID, !.record = Record])
            /\ photo' = "remote"
            /\ model' = [model EXCEPT ![password] = Nil]
            /\ userID' = Nil
            /\ UNCHANGED text

RequestFails(a) ==
    /\ attempts[a] # Idle
    /\ ReportError(a)
    /\ UNCHANGED fields

(* The callback's user branch: the form and the login screen go. *)
LoginSucceeds(a) ==
    /\ At(a, "fetch") \/ At(a, "post")
    /\ Ended(a)
    /\ busy' = FALSE
    /\ closed' = TRUE
    /\ UNCHANGED <<form, fields, typing, alert, picker, returns, returned>>

-----------------------------------------------------------------------------
Init ==
    /\ form \in {"signIn", "signUp"}
    /\ text = [f \in Field |-> "empty"] /\ model = [f \in Field |-> Nil]
    /\ photo = Nil /\ userID = Nil
    /\ focus = FirstField /\ keyboard \in KeyboardHeight
    /\ room = keyboard /\ isExpanded = TRUE
    /\ alert = Nil /\ picker = "none" /\ busy = FALSE
    /\ attempts = [a \in Attempt |-> Idle]
    /\ returns = 0 /\ returned = FALSE /\ closed = FALSE

User ==
    \/ Tap \/ TextFieldChanged \/ SubmitClicked \/ ReturnKey \/ AlertOK \/ SwipeCancelled
    \/ ImageButtonClicked \/ LibraryPicked \/ CameraClosed

Manager(a) ==
    AuthSucceeds(a) \/ AddUpdate(a) \/ ContinueAddUpdate(a) \/ RequestFails(a) \/ LoginSucceeds(a)

Next == User \/ PermissionAnswered \/ \E a \in Attempt : Manager(a)

(* Every request is answered. *)
Spec == Init /\ [][Next]_vars /\ \A a \in Attempt : WF_vars(Manager(a))

-----------------------------------------------------------------------------
(* Properties *)

InFlight ==
    [stage : {"idle", "auth", "fetch", "upload", "post"}, email : Text \cup {Nil},
     uid : Attempt \cup {Nil},
     record : {<<>>} \cup [{displayName, emailAddress, userName} -> Text \cup {Nil}]]

TypeOK ==
    /\ form \in {"signIn", "signUp"}
    /\ text \in [Field -> Text] /\ model \in [Field -> Text \cup {Nil}]
    /\ photo \in {Nil, "local", "remote"} /\ userID \in Attempt \cup {Nil}
    /\ focus \in Fields \cup {NoField}
    /\ keyboard \in KeyboardHeight \cup {0} /\ room \in KeyboardHeight \cup {0}
    /\ isExpanded \in BOOLEAN
    /\ alert \in Error \cup {Nil} /\ picker \in {"none", "asked", "open"}
    /\ busy \in BOOLEAN
    /\ attempts \in [Attempt -> InFlight]
    /\ \A a \in Attempt : At(a, "idle") => attempts[a] = Idle
    /\ returns \in 0 .. MaxReturns /\ returned \in BOOLEAN /\ closed \in BOOLEAN

(* What a form sends is what it shows, although every attempt works on the *)
(* form's own UserModel: only the password can differ, and only by being   *)
(* gone from the model after a sign-up reached its last request.           *)
ModelIsShown ==
    \A f \in Fields :
        \/ text[f] = model[f]
        \/ text[f] = "empty" /\ model[f] = Nil
        \/ f = password /\ model[f] = Nil /\ form = "signUp"

Accepts(f, t) == t \in {"good", "alt"} \/ (t = "bad" /\ f \in {displayName, userName})

Complaint ==
    [e \in {"displayNameMissing", "emailAddressMissing", "userNameMissing", "passwordMissing",
            "passwordCriteriaMissing"} |->
        CASE e = "displayNameMissing" -> displayName
          [] e = "emailAddressMissing" -> emailAddress
          [] e = "userNameMissing" -> userName
          [] OTHER -> password]

(* An alert about a field is right about what the user sees: that field is *)
(* not acceptable and every field above it is.  The exception is the       *)
(* password field, whose text the model may have lost.                     *)
AlertTruthful ==
    alert \in DOMAIN Complaint =>
        LET f == Complaint[alert] IN
            /\ \A g \in Fields : g < f => Accepts(g, text[g])
            /\ Accepts(f, text[f]) => f = password /\ model[password] = Nil

(* The form has one attempt in flight exactly while it is covered, so the  *)
(* answer it gets is that of its own attempt: the button is covered and    *)
(* view.endEditing takes the Return key away.  A form that appears again   *)
(* during the attempt gives the Return key back, and only then may a       *)
(* second attempt start.                                                   *)
OneAttempt ==
    ~returned /\ ~closed =>
        /\ busy <=> \E a \in Attempt : attempts[a] # Idle
        /\ \A a, b \in Attempt : attempts[a] # Idle /\ attempts[b] # Idle => a = b

(* A user record is written with the fields that passed validation, with   *)
(* the email address the account was created for and under that account's  *)
(* uid, although all of them are read from the form's model two requests   *)
(* later; unless the form appeared again during an attempt.                *)
RecordMatchesAccount ==
    ~returned => \A a \in Attempt : At(a, "post") =>
        /\ attempts[a].uid = a
        /\ attempts[a].record[emailAddress] = attempts[a].email
        /\ \A f \in DOMAIN attempts[a].record : Accepts(f, attempts[a].record[f])

Tallest == CHOOSE h \in KeyboardHeight : \A g \in KeyboardHeight : g <= h
Lowest == CHOOSE h \in KeyboardHeight : \A g \in KeyboardHeight : h <= g

(* The scroll view's content is extended by the keyboard's height when it  *)
(* shows and cut back when it hides, over any sequence of both.  A second  *)
(* keyboardWillShow is ignored, so the keyboard can hide as much of the    *)
(* content as its heights differ, and never more.                          *)
ContentFits ==
    /\ keyboard = 0 => room = 0
    /\ keyboard - room <= Tallest - Lowest

(* activityView is taken away again, by an answer or an error, also when   *)
(* attempts overlap on one model.                                          *)
FormSpinnerStops == busy ~> ~busy
=============================================================================

-------------------------- MODULE LoginFormProofs ---------------------------
(***************************************************************************)
(* Proofs for the two forms of LoginForm.  The form keeps the model it has *)
(* handed to an attempt, so what holds during an attempt rests on what the *)
(* user cannot do meanwhile: the invariant says who can still change which *)
(* field.                                                                  *)
(***************************************************************************)
EXTENDS LoginForm, WellFoundedInduction, TLAPS

(* The content is extended exactly while the keyboard is shown. *)
Expanded ==
    IF isExpanded THEN keyboard \in KeyboardHeight /\ room \in KeyboardHeight
                  ELSE keyboard = 0 /\ room = 0

(* Only a sign-up writes a record. *)
SignsUp == \A a \in Attempt : At(a, "upload") \/ At(a, "post") => form = "signUp"

Covered == busy <=> \E a \in Attempt : attempts[a] # Idle

Alone == \A a, b \in Attempt : attempts[a] # Idle /\ attempts[b] # Idle => a = b

(* No field has the Return key while the form is covered. *)
NotTyping == busy => focus = NoField

Named == {displayName, emailAddress, userName}

Validated(a) ==
    /\ model[emailAddress] = attempts[a].email
    /\ \A f \in Named : Accepts(f, model[f])

(* Until its record is written, a sign-up finds in the form's model what   *)
(* it was started with.                                                    *)
Pending ==
    \A a \in Attempt :
        /\ form = "signUp" /\ (At(a, "auth") \/ At(a, "upload")) => Validated(a)
        /\ At(a, "upload") => userID = a

Undisturbed == ~returned => Covered /\ Alone /\ NotTyping /\ Pending

-----------------------------------------------------------------------------
(* The model's operators *)

LEMMA FieldsAreFields ==
    ASSUME form \in {"signIn", "signUp"}
    PROVE  /\ Fields \subseteq Field
           /\ FirstField \in Fields
           /\ \A f \in Fields \ {password} : NextField(f) \in Fields
           /\ NoField \notin Fields
           /\ password \in Fields
BY DEF Fields, FirstField, NextField, Field, NoField, displayName, emailAddress, userName, password

LEMMA TypedTexts ==
    ASSUME NEW f, NEW t \in Typed(f)
    PROVE  t \in Text
BY LoginFormAssumption DEF Typed

(* Whatever a guard throws is one of the errors the form has. *)
LEMMA GuardsOfForm ==
    ASSUME form \in {"signIn", "signUp"}
    PROVE  /\ form = "signIn" =>
                /\ DOMAIN Guards = 1 .. 3
                /\ Guards[1] = "emailAddressMissing"
                /\ Guards[2] = "passwordMissing"
                /\ Guards[3] = "passwordCriteriaMissing"
           /\ form = "signUp" =>
                /\ DOMAIN Guards = 1 .. 6
                /\ Guards[1] = "photoMissing"
                /\ Guards[2] = "displayNameMissing"
                /\ Guards[3] = "emailAddressMissing"
                /\ Guards[4] = "userNameMissing"
                /\ Guards[5] = "passwordMissing"
                /\ Guards[6] = "passwordCriteriaMissing"
BY DEF Guards, CreateGuards

(* A guard asks that the field its error complains about is acceptable;    *)
(* two of them ask it of the password.                                     *)
LEMMA GuardsAskAcceptance ==
    ASSUME TypeOK
    PROVE  /\ Holds("displayNameMissing", model) <=> Accepts(displayName, model[displayName])
           /\ Holds("emailAddressMissing", model) <=> Accepts(emailAddress, model[emailAddress])
           /\ Holds("userNameMissing", model) <=> Accepts(userName, model[userName])
           /\ Accepts(password, model[password]) => Holds("passwordMissing", model)
           /\ Accepts(password, model[password]) => Holds("passwordCriteriaMissing", model)
<1>1. \A f \in Field : model[f] \in Text \cup {Nil}
  BY DEF TypeOK
<1>2. /\ NotBlank(model[displayName]) <=> Accepts(displayName, model[displayName])
      /\ Valid(model[emailAddress]) <=> Accepts(emailAddress, model[emailAddress])
      /\ NotBlank(model[userName]) <=> Accepts(userName, model[userName])
      /\ Accepts(password, model[password]) => NotBlank(model[password])
      /\ Accepts(password, model[password]) => Valid(model[password])
  BY <1>1 DEF Accepts, NotBlank, Valid, Text, Nil, Field, displayName, emailAddress, userName,
     password
<1>3. QED  BY <1>2 DEF Holds

(* A sign-up whose guards all hold has a name, an email address and a user *)
(* name that are acceptable.                                               *)
LEMMA NoneFailing ==
    ASSUME TypeOK, form = "signUp", Failing(model) = {}
    PROVE  \A f \in Named : Accepts(f, model[f])
<1>1. \A i \in 1 .. 6 : Holds(Guards[i], model)
  BY GuardsOfForm DEF Failing
<1>2. Holds(Guards[2], model) /\ Holds(Guards[3], model) /\ Holds(Guards[4], model)
  BY <1>1
<1>3. QED  BY <1>2, GuardsOfForm, GuardsAskAcceptance DEF Named

LEMMA Complaints ==
    /\ DOMAIN Complaint = {"displayNameMissing", "emailAddressMissing", "userNameMissing",
                           "passwordMissing", "passwordCriteriaMissing"}
    /\ Complaint["displayNameMissing"] = displayName
    /\ Complaint["emailAddressMissing"] = emailAddress
    /\ Complaint["userNameMissing"] = userName
    /\ Complaint["passwordMissing"] = password
    /\ Complaint["passwordCriteriaMissing"] = password
BY DEF Complaint

(* The first guard that fails is about a field that is not acceptable, and *)
(* every field above it is acceptable.                                     *)
LEMMA FirstFailing ==
    ASSUME TypeOK, NEW e \in DOMAIN Complaint, Throws(model, e)
    PROVE  /\ \A g \in Fields : g < Complaint[e] => Accepts(g, model[g])
           /\ ~Accepts(Complaint[e], model[Complaint[e]])
<1>1. PICK i \in Failing(model) : (\A j \in Failing(model) : i <= j) /\ e = Guards[i]
  BY DEF Throws
<1>2. i \in DOMAIN Guards /\ ~Holds(e, model)
  BY <1>1 DEF Failing
<1>3. DOMAIN Guards \subseteq Int
  BY GuardsOfForm DEF TypeOK
<1>4. \A j \in DOMAIN Guards : j < i => Holds(Guards[j], model)
  BY <1>1, <1>2, <1>3 DEF Failing
<1>5. ~Accepts(Complaint[e], model[Complaint[e]])
  BY <1>2, Complaints, GuardsAskAcceptance
<1>6. ASSUME NEW g \in Fields, g < Complaint[e]
      PROVE  Accepts(g, model[g])
  <2>1. CASE form = "signIn"
    <3>1. g = emailAddress /\ i > 1
      BY <1>1, <1>2, <1>6, <2>1, Complaints, GuardsOfForm DEF Fields, displayName, emailAddress,
         userName, password
    <3>2. Holds("emailAddressMissing", model)
      BY <1>4, <2>1, <3>1, GuardsOfForm
    <3>3. QED  BY <3>1, <3>2, GuardsAskAcceptance
  <2>2. CASE form = "signUp"
    <3>1. \/ g = displayName /\ i > 2
          \/ g = emailAddress /\ i > 3
          \/ g = userName /\ i > 4
      <4>1. i \in 1 .. 6
        BY <1>2, <2>2, GuardsOfForm
      <4>2. e = <<"photoMissing", "displayNameMissing", "emailAddressMissing",
                  "userNameMissing", "passwordMissing", "passwordCriteriaMissing">>[i]
        BY <1>1, <2>2 DEF Guards, CreateGuards
      <4>3. QED
        BY <1>6, <2>2, <4>1, <4>2, Complaints DEF Fields, Field, displayName, emailAddress,
           userName, password
    <3>2. /\ i > 2 => Holds(Guards[2], model)
          /\ i > 3 => Holds(Guards[3], model)
          /\ i > 4 => Holds(Guards[4], model)
      BY <1>4, <2>2, GuardsOfForm
    <3>3. QED  BY <2>2, <3>1, <3>2, GuardsOfForm, GuardsAskAcceptance
  <2>3. QED  BY <2>1, <2>2 DEF TypeOK
<1>7. QED  BY <1>5, <1>6

-----------------------------------------------------------------------------
(* The keyboard *)

LEMMA FocusKeepsTypes ==
    ASSUME TypeOK, NEW f \in Fields, Focus(f), UNCHANGED form
    PROVE  /\ focus' \in Fields' \cup {NoField}
           /\ keyboard' \in KeyboardHeight \cup {0} /\ room' \in KeyboardHeight \cup {0}
           /\ isExpanded' \in BOOLEAN
BY DEF TypeOK, Focus, Fields

LEMMA EndEditingKeepsTypes ==
    ASSUME TypeOK, EndEditing, UNCHANGED form
    PROVE  /\ focus' \in Fields' \cup {NoField}
           /\ keyboard' \in KeyboardHeight \cup {0} /\ room' \in KeyboardHeight \cup {0}
           /\ isExpanded' \in BOOLEAN
BY DEF TypeOK, EndEditing, Fields

LEMMA AppearKeepsTypes ==
    ASSUME TypeOK, Appear, UNCHANGED form
    PROVE  /\ focus' \in Fields' \cup {NoField}
           /\ keyboard' \in KeyboardHeight \cup {0} /\ room' \in KeyboardHeight \cup {0}
           /\ isExpanded' \in BOOLEAN
           /\ returns' \in 0 .. MaxReturns /\ returned' \in BOOLEAN
<1>1. FirstField \in Fields
  BY FieldsAreFields DEF TypeOK
<1>2. returns' \in 0 .. MaxReturns /\ returned' \in BOOLEAN
  BY LoginFormAssumption DEF TypeOK, Appear
<1>3. QED  BY <1>1, <1>2, FocusKeepsTypes DEF Appear

-----------------------------------------------------------------------------
(* Types *)

LEMMA AttemptKeepsTypes ==
    ASSUME TypeOK, NEW a \in Attempt, NEW next \in InFlight, next.stage = "idle" => next = Idle,
           attempts' = [attempts EXCEPT ![a] = next]
    PROVE  /\ attempts' \in [Attempt -> InFlight]
           /\ \A b \in Attempt : At(b, "idle")' => attempts'[b] = Idle
BY DEF TypeOK, At

LEMMA IdleIsInFlight == Idle \in InFlight
BY DEF Idle, InFlight, Nil

LEMMA SubmitKeepsTypes ==
    ASSUME TypeOK, Submit
    PROVE  TypeOK'
<1>1. CASE /\ \E e \in Error : Throws(model, e) /\ alert' = e
           /\ UNCHANGED <<typing, busy, attempts>>
  BY <1>1 DEF TypeOK, Submit, fields, typing, Fields, At
<1>2. CASE /\ LeaveFields /\ busy' = TRUE /\ UNCHANGED alert
           /\ \E a \in Attempt :
                 attempts[a] = Idle /\ attempts' = [attempts EXCEPT ![a] = Started]
  <2>1. Started \in InFlight /\ Started.stage # "idle"
    <3>1. model[emailAddress] \in Text \cup {Nil}
      BY DEF TypeOK, Field, emailAddress
    <3>2. QED  BY <3>1 DEF Started, Idle, InFlight
  <2>2. /\ attempts' \in [Attempt -> InFlight]
        /\ \A b \in Attempt : At(b, "idle")' => attempts'[b] = Idle
    BY <1>2, <2>1, AttemptKeepsTypes
  <2>3. /\ focus' \in Fields' \cup {NoField}
        /\ keyboard' \in KeyboardHeight \cup {0} /\ room' \in KeyboardHeight \cup {0}
        /\ isExpanded' \in BOOLEAN
    BY <1>2, EndEditingKeepsTypes DEF LeaveFields, Submit
  <2>4. QED  BY <1>2, <2>2, <2>3 DEF TypeOK, Submit, fields
<1>3. QED  BY <1>1, <1>2 DEF Submit

(* The callback's error branch, and an attempt's move to its next request. *)
LEMMA ReportErrorKeepsTypes ==
    ASSUME TypeOK, NEW a \in Attempt, ReportError(a), UNCHANGED <<text, model, photo>>,
           userID' \in Attempt \cup {Nil}
    PROVE  TypeOK'
<1>1. /\ attempts' \in [Attempt -> InFlight]
      /\ \A b \in Attempt : At(b, "idle")' => attempts'[b] = Idle
  BY IdleIsInFlight, AttemptKeepsTypes DEF ReportError, Ended
<1>2. QED  BY <1>1 DEF TypeOK, ReportError, typing, Fields, Error

LEMMA AdvanceKeepsTypes ==
    ASSUME TypeOK, NEW a \in Attempt, NEW next \in InFlight, next.stage # "idle",
           Advance(a, next), text' = text,
           model' \in [Field -> Text \cup {Nil}], photo' \in {Nil, "local", "remote"},
           userID' \in Attempt \cup {Nil}
    PROVE  TypeOK'
<1>1. /\ attempts' \in [Attempt -> InFlight]
      /\ \A b \in Attempt : At(b, "idle")' => attempts'[b] = Idle
  BY AttemptKeepsTypes DEF Advance
<1>2. QED  BY <1>1 DEF TypeOK, Advance, typing, Fields

LEMMA TypesKept ==
    ASSUME TypeOK, [Next]_vars
    PROVE  TypeOK'
<1>1. CASE Tap
  <2>1. /\ focus' \in Fields' \cup {NoField}
        /\ keyboard' \in KeyboardHeight \cup {0} /\ room' \in KeyboardHeight \cup {0}
        /\ isExpanded' \in BOOLEAN
    BY <1>1, FocusKeepsTypes, EndEditingKeepsTypes DEF Tap
  <2>2. QED  BY <1>1, <2>1 DEF TypeOK, Tap, fields, At
<1>2. CASE TextFieldChanged
  <2>1. PICK t \in Typed(focus) : text' = [text EXCEPT ![focus] = t] /\ Store(focus, t)
    BY <1>2 DEF TextFieldChanged
  <2>2. text' \in [Field -> Text] /\ model' \in [Field -> Text \cup {Nil}]
    BY <2>1, TypedTexts DEF TypeOK, Store
  <2>3. QED  BY <1>2, <2>2 DEF TypeOK, TextFieldChanged, typing, Fields, At
<1>3. CASE SubmitClicked
  BY <1>3, SubmitKeepsTypes DEF SubmitClicked
<1>4. CASE ReturnKey
  <2>1. CASE Submit
    BY <2>1, SubmitKeepsTypes
  <2>2. CASE /\ focus # password
             /\ Focus(NextField(focus))
             /\ UNCHANGED <<form, fields, alert, picker, busy, attempts, returns, returned, closed>>
    <3>1. NextField(focus) \in Fields
      BY <1>4, <2>2, FieldsAreFields DEF TypeOK, ReturnKey
    <3>2. QED  BY <2>2, <3>1, FocusKeepsTypes DEF TypeOK, fields, At
  <2>3. QED  BY <1>4, <2>1, <2>2 DEF ReturnKey
<1>5. CASE AlertOK
  BY <1>5 DEF TypeOK, AlertOK, fields, typing, Fields, At
<1>6. CASE SwipeCancelled
  BY <1>6, AppearKeepsTypes DEF TypeOK, SwipeCancelled, fields, At
<1>7. CASE ImageButtonClicked
  BY <1>7, EndEditingKeepsTypes DEF TypeOK, ImageButtonClicked, fields, At
<1>8. CASE LibraryPicked
  BY <1>8 DEF TypeOK, LibraryPicked, typing, Fields, At
<1>9. CASE CameraClosed
  BY <1>9, AppearKeepsTypes DEF TypeOK, CameraClosed, fields, At
<1>10. CASE PermissionAnswered
  BY <1>10 DEF TypeOK, PermissionAnswered, fields, typing, Fields, At, Error
<1>11. ASSUME NEW a \in Attempt, Manager(a)
       PROVE  TypeOK'
  <2>1. attempts[a] \in InFlight
    BY DEF TypeOK
  <2>2. CASE AuthSucceeds(a)
    BY <2>1, <2>2, AdvanceKeepsTypes DEF TypeOK, AuthSucceeds, InFlight, fields
  <2>3. CASE AddUpdate(a)
    <3>1. CASE Advance(a, [attempts[a] EXCEPT !.stage = "upload"])
      BY <2>1, <2>3, <3>1, AdvanceKeepsTypes DEF TypeOK, AddUpdate, InFlight
    <3>2. CASE ReportError(a)
      BY <2>3, <3>2, ReportErrorKeepsTypes DEF AddUpdate
    <3>3. QED  BY <2>3, <3>1, <3>2 DEF AddUpdate, UploadPicture
  <2>4. CASE ContinueAddUpdate(a)
    <3>1. CASE userID = Nil
      BY <2>4, <3>1, ReportErrorKeepsTypes DEF TypeOK, ContinueAddUpdate, fields
    <3>2. CASE userID # Nil
      <4>1. Record \in [{displayName, emailAddress, userName} -> Text \cup {Nil}]
        BY DEF TypeOK, Record, Field, displayName, emailAddress, userName
      <4>2. [attempts[a] EXCEPT !.stage = "post", !.uid = userID, !.record = Record] \in InFlight
        BY <2>1, <4>1 DEF TypeOK, InFlight
      <4>3. [attempts[a] EXCEPT !.stage = "post", !.uid = userID, !.record = Record].stage = "post"
        BY <2>1 DEF InFlight
      <4>4. model' \in [Field -> Text \cup {Nil}]
        BY <2>4, <3>2 DEF TypeOK, ContinueAddUpdate
      <4>5. QED  BY <2>4, <3>2, <4>2, <4>3, <4>4, AdvanceKeepsTypes DEF ContinueAddUpdate
    <3>3. QED  BY <3>1, <3>2
  <2>5. CASE RequestFails(a)
    BY <2>5, ReportErrorKeepsTypes DEF TypeOK, RequestFails, fields
  <2>6. CASE LoginSucceeds(a)
    <3>1. /\ attempts' \in [Attempt -> InFlight]
          /\ \A b \in Attempt : At(b, "idle")' => attempts'[b] = Idle
      BY <2>6, IdleIsInFlight, AttemptKeepsTypes DEF LoginSucceeds, Ended
    <3>2. QED  BY <2>6, <3>1 DEF TypeOK, LoginSucceeds, fields, typing, Fields
  <2>7. QED  BY <1>11, <2>2, <2>3, <2>4, <2>5, <2>6 DEF Manager
<1>12. CASE UNCHANGED vars
  BY <1>12 DEF TypeOK, vars, fields, typing, Fields, At
<1>13. QED
  BY <1>1, <1>2, <1>3, <1>4, <1>5, <1>6, <1>7, <1>8, <1>9, <1>10, <1>11, <1>12 DEF Next, User

(* The forms' fields, the model they fill and the attempts keep their      *)
(* types; in particular the Return key moves between the form's own fields *)
(* only, and an attempt that has ended leaves nothing behind.              *)
THEOREM FormTypes == Spec => []TypeOK
<1>1. Init => TypeOK
  <2>1. SUFFICES ASSUME Init PROVE TypeOK
    OBVIOUS
  <2>2. FirstField \in Fields
    BY <2>1, FieldsAreFields DEF Init
  <2>3. attempts \in [Attempt -> InFlight] /\ \A a \in Attempt : attempts[a] = Idle
    BY <2>1, IdleIsInFlight DEF Init
  <2>4. returns \in 0 .. MaxReturns
    BY <2>1, LoginFormAssumption DEF Init
  <2>5. QED  BY <2>1, <2>2, <2>3, <2>4 DEF Init, TypeOK, Text
<1>2. QED  BY <1>1, TypesKept, PTL DEF Spec

-----------------------------------------------------------------------------
(* The content of the scroll view *)

(* The keyboard only comes up for a field or goes away. *)
LEMMA KeyboardSteps ==
    ASSUME [Next]_vars
    PROVE  (\E f : Focus(f)) \/ EndEditing \/ UNCHANGED typing
<1>1. CASE User
  BY <1>1 DEF User, Tap, TextFieldChanged, SubmitClicked, ReturnKey, Submit, LeaveFields, AlertOK,
     SwipeCancelled, Appear, ImageButtonClicked, LibraryPicked, CameraClosed
<1>2. CASE PermissionAnswered
  BY <1>2 DEF PermissionAnswered
<1>3. ASSUME NEW a \in Attempt, Manager(a)
      PROVE  UNCHANGED typing
  BY <1>3 DEF Manager, AuthSucceeds, AddUpdate, UploadPicture, ContinueAddUpdate, RequestFails,
     LoginSucceeds, Advance, ReportError
<1>4. CASE UNCHANGED vars
  BY <1>4 DEF vars
<1>5. QED  BY <1>1, <1>2, <1>3, <1>4 DEF Next

LEMMA LowestKeyboard ==
    /\ Tallest \in KeyboardHeight /\ \A g \in KeyboardHeight : g <= Tallest
    /\ Lowest \in KeyboardHeight /\ \A g \in KeyboardHeight : Lowest <= g
<1>1. KeyboardHeight \subseteq Nat /\ KeyboardHeight # {}
  BY LoginFormAssumption
<1>2. \E h \in KeyboardHeight : \A g \in KeyboardHeight : ~(<<g, h>> \in OpToRel(<, Nat))
  BY <1>1, WFMin, NatLessThanWellFounded
<1>3. \E h \in KeyboardHeight : \A g \in KeyboardHeight : h <= g
  <2>1. PICK h \in KeyboardHeight : \A g \in KeyboardHeight : ~(<<g, h>> \in OpToRel(<, Nat))
    BY <1>2
  <2>2. ASSUME NEW g \in KeyboardHeight
        PROVE  h <= g
    <3>1. g \in Nat /\ h \in Nat
      BY <1>1
    <3>2. <<g, h>> \in Nat \X Nat /\ <<g, h>>[1] = g /\ <<g, h>>[2] = h
      BY <3>1
    <3>3. ~(g < h)
      BY <2>1, <3>2 DEF OpToRel
    <3>4. QED  BY <3>1, <3>3
  <2>3. QED  BY <2>2
<1>4. QED  BY <1>3, LoginFormAssumption DEF Tallest, Lowest

LEMMA ExpandedKept ==
    ASSUME Expanded, [Next]_vars
    PROVE  Expanded'
<1>1. ASSUME NEW f, Focus(f)
      PROVE  Expanded'
  BY <1>1 DEF Expanded, Focus
<1>2. CASE EndEditing
  BY <1>2 DEF Expanded, EndEditing
<1>3. CASE UNCHANGED typing
  BY <1>3 DEF Expanded, typing
<1>4. QED  BY <1>1, <1>2, <1>3, KeyboardSteps

(* Over any sequence of keyboardWillAppear and keyboardWillDisappear the   *)
(* scroll view's content is cut back when the keyboard is gone, and the    *)
(* keyboard never hides more of it than its heights differ.                *)
THEOREM ContentAlwaysFits == Spec => []ContentFits
<1>1. Init => Expanded
  BY DEF Init, Expanded
<1>2. Expanded => ContentFits
  <2>1. SUFFICES ASSUME Expanded PROVE ContentFits
    OBVIOUS
  <2>2. KeyboardHeight \subseteq Nat \ {0}
    BY LoginFormAssumption
  <2>3. CASE isExpanded
    <3>1. keyboard \in KeyboardHeight /\ room \in KeyboardHeight
      BY <2>1, <2>3 DEF Expanded
    <3>2. /\ keyboard \in Nat \ {0} /\ room \in Nat /\ Tallest \in Nat /\ Lowest \in Nat
          /\ keyboard <= Tallest /\ Lowest <= room
      BY <2>2, <3>1, LowestKeyboard
    <3>3. QED  BY <3>2 DEF ContentFits
  <2>4. CASE ~isExpanded
    BY <2>1, <2>2, <2>4, LowestKeyboard DEF Expanded, ContentFits
  <2>5. QED  BY <2>3, <2>4
<1>3. QED  BY <1>1, <1>2, ExpandedKept, PTL DEF Spec

-----------------------------------------------------------------------------
(* What the form shows and what it sends *)

(* The texts change when the user types and the model when a record is     *)
(* written, and no alert is shown before the user types.                   *)
LEMMA TextSteps ==
    ASSUME [Next]_vars
    PROVE  /\ UNCHANGED form
           /\ \/ TextFieldChanged
              \/ \E a \in Attempt : ContinueAddUpdate(a) /\ userID # Nil
              \/ UNCHANGED <<text, model>>
<1>1. CASE User
  BY <1>1 DEF User, Tap, TextFieldChanged, SubmitClicked, ReturnKey, Submit, AlertOK,
     SwipeCancelled, ImageButtonClicked, LibraryPicked, CameraClosed, fields
<1>2. CASE PermissionAnswered
  BY <1>2 DEF PermissionAnswered, fields
<1>3. ASSUME NEW a \in Attempt, Manager(a)
      PROVE  /\ UNCHANGED form
             /\ \/ ContinueAddUpdate(a) /\ userID # Nil
                \/ UNCHANGED <<text, model>>
  BY <1>3 DEF Manager, AuthSucceeds, AddUpdate, UploadPicture, ContinueAddUpdate, RequestFails,
     LoginSucceeds, Advance, ReportError, fields
<1>4. CASE UNCHANGED vars
  BY <1>4 DEF vars, fields
<1>5. QED  BY <1>1, <1>2, <1>3, <1>4 DEF Next

LEMMA AlertSteps ==
    ASSUME [Next]_vars
    PROVE  \/ alert' \in {alert, Nil, "request", "checkPhotoPermissions"}
           \/ Throws(model, alert') /\ UNCHANGED <<form, text, model>>
<1>1. CASE SubmitClicked \/ ReturnKey
  BY <1>1 DEF SubmitClicked, ReturnKey, Submit, fields
<1>2. CASE User /\ ~SubmitClicked /\ ~ReturnKey
  BY <1>2 DEF User, Tap, TextFieldChanged, AlertOK, SwipeCancelled, ImageButtonClicked,
     LibraryPicked, CameraClosed
<1>3. CASE PermissionAnswered
  BY <1>3 DEF PermissionAnswered
<1>4. ASSUME NEW a \in Attempt, Manager(a)
      PROVE  alert' \in {alert, "request"}
  BY <1>4 DEF Manager, AuthSucceeds, AddUpdate, UploadPicture, ContinueAddUpdate, RequestFails,
     LoginSucceeds, Advance, ReportError
<1>5. CASE UNCHANGED vars
  BY <1>5 DEF vars
<1>6. QED  BY <1>1, <1>2, <1>3, <1>4, <1>5 DEF Next

(* Submit that passes the guards. *)
Starts ==
    /\ Submit
    /\ Failing(model) = {} /\ LeaveFields /\ busy' = TRUE
    /\ \E a \in Attempt : attempts[a] = Idle /\ attempts' = [attempts EXCEPT ![a] = Started]

(* A step outside the attempts: while the form is covered and no field has *)
(* the Return key, the user reaches neither the model nor the keyboard     *)
(* unless the form appears again.                                          *)
Bystander ==
    /\ UNCHANGED <<attempts, busy, userID>>
    /\ busy /\ focus = NoField /\ ~returned' => focus' = NoField /\ UNCHANGED model

LEMMA AttemptSteps ==
    ASSUME [Next]_vars
    PROVE  \/ Bystander
           \/ Starts /\ (~busy \/ focus # NoField)
           \/ \E a \in Attempt : Manager(a)
<1>1. CASE SubmitClicked \/ ReturnKey
  <2>1. CASE Submit
    <3>1. CASE UNCHANGED <<typing, busy, attempts>>
      BY <2>1, <3>1 DEF Submit, Bystander, typing, fields
    <3>2. CASE ~UNCHANGED <<typing, busy, attempts>>
      BY <1>1, <2>1, <3>2 DEF Submit, SubmitClicked, CanTouch, ReturnKey, Starts
    <3>3. QED  BY <3>1, <3>2
  <2>2. CASE ReturnKey /\ ~Submit
    BY <2>2 DEF ReturnKey, Bystander, fields
  <2>3. QED  BY <1>1, <2>1, <2>2 DEF SubmitClicked
<1>2. CASE Tap \/ TextFieldChanged \/ AlertOK \/ ImageButtonClicked \/ LibraryPicked
  BY <1>2 DEF Tap, TextFieldChanged, AlertOK, ImageButtonClicked, LibraryPicked, CanTouch,
     Bystander, fields, typing
<1>3. CASE SwipeCancelled \/ CameraClosed
  BY <1>3 DEF SwipeCancelled, CameraClosed, Appear, Bystander, fields
<1>4. CASE PermissionAnswered
  BY <1>4 DEF PermissionAnswered, Bystander, fields, typing
<1>5. CASE UNCHANGED vars
  BY <1>5 DEF vars, Bystander, fields, typing
<1>6. QED  BY <1>1, <1>2, <1>3, <1>4, <1>5 DEF Next, User

LEMMA StartedStage == Started.stage = "auth" /\ Started.email = model[emailAddress]
BY DEF Started, Idle

(* An attempt's request: what its answer does to the attempts. *)
LEMMA ManagerSteps ==
    ASSUME TypeOK, NEW a \in Attempt, Manager(a)
    PROVE  /\ attempts[a] # Idle
           /\ \A b \in Attempt \ {a} : attempts'[b] = attempts[b]
           /\ \/ /\ attempts'[a] = Idle
                 /\ busy' = FALSE
                 /\ UNCHANGED model
              \/ /\ UNCHANGED busy
                 /\ attempts'[a].email = attempts[a].email
                 /\ \/ /\ attempts'[a].stage = "fetch"
                       /\ UNCHANGED fields
                    \/ /\ At(a, "auth") /\ form = "signUp" /\ attempts'[a].stage = "upload"
                       /\ userID' = a /\ UNCHANGED model
                    \/ /\ At(a, "upload") /\ attempts'[a].stage = "post"
                       /\ attempts'[a].uid = userID /\ attempts'[a].record = Record
                       /\ model' = [model EXCEPT ![password] = Nil]
<1>1. attempts \in [Attempt -> InFlight] /\ attempts[a] \in InFlight
  BY DEF TypeOK
<1>2. Idle.stage = "idle"
  BY DEF Idle
<1>3. CASE AuthSucceeds(a)
  BY <1>1, <1>2, <1>3 DEF AuthSucceeds, Advance, At, InFlight
<1>4. CASE AddUpdate(a)
  <2>1. CASE Advance(a, [attempts[a] EXCEPT !.stage = "upload"])
    BY <1>1, <1>2, <1>4, <2>1 DEF AddUpdate, Advance, At, InFlight
  <2>2. CASE ReportError(a)
    BY <1>1, <1>2, <1>4, <2>2 DEF AddUpdate, ReportError, Ended, At
  <2>3. QED  BY <1>4, <2>1, <2>2 DEF AddUpdate, UploadPicture
<1>5. CASE ContinueAddUpdate(a)
  <2>1. CASE userID = Nil
    BY <1>1, <1>2, <1>5, <2>1 DEF ContinueAddUpdate, ReportError, Ended, At, fields
  <2>2. CASE userID # Nil
    <3>1. attempts'[a] = [attempts[a] EXCEPT !.stage = "post", !.uid = userID, !.record = Record]
      BY <1>1, <1>5, <2>2 DEF ContinueAddUpdate, Advance
    <3>2. /\ attempts'[a].stage = "post" /\ attempts'[a].email = attempts[a].email
          /\ attempts'[a].uid = userID /\ attempts'[a].record = Record
      BY <1>1, <3>1 DEF InFlight
    <3>3. QED  BY <1>1, <1>2, <1>5, <2>2, <3>2 DEF ContinueAddUpdate, Advance, At
  <2>3. QED  BY <2>1, <2>2
<1>6. CASE RequestFails(a)
  BY <1>1, <1>6 DEF RequestFails, ReportError, Ended, fields
<1>7. CASE LoginSucceeds(a)
  BY <1>1, <1>2, <1>7 DEF LoginSucceeds, Ended, At, fields
<1>8. QED  BY <1>3, <1>4, <1>5, <1>6, <1>7 DEF Manager

LEMMA SignsUpKept ==
    ASSUME TypeOK, SignsUp, [Next]_vars
    PROVE  SignsUp'
<1>1. form' = form
  BY TextSteps
<1>2. attempts \in [Attempt -> InFlight]
  BY DEF TypeOK
<1>3. CASE Bystander
  BY <1>1, <1>3 DEF SignsUp, At, Bystander
<1>4. CASE Starts
  BY <1>1, <1>2, <1>4, StartedStage DEF SignsUp, At, Starts
<1>5. ASSUME NEW a \in Attempt, Manager(a)
      PROVE  SignsUp'
  <2>1. Idle.stage = "idle"
    BY DEF Idle
  <2>2. QED  BY <1>1, <1>5, <2>1, ManagerSteps DEF SignsUp, At
<1>6. QED  BY <1>3, <1>4, <1>5, AttemptSteps

LEMMA ModelIsShownKept ==
    ASSUME TypeOK, SignsUp, ModelIsShown, [Next]_vars
    PROVE  ModelIsShown'
<1>1. form' = form /\ Fields' = Fields
  BY TextSteps DEF Fields
<1>2. Fields \subseteq Field
  BY FieldsAreFields DEF TypeOK
<1>3. CASE TextFieldChanged
  <2>1. PICK t \in Typed(focus) : text' = [text EXCEPT ![focus] = t] /\ Store(focus, t)
    BY <1>3 DEF TextFieldChanged
  <2>2. QED
    BY <1>1, <1>2, <2>1 DEF TypeOK, ModelIsShown, Store
<1>4. ASSUME NEW a \in Attempt, ContinueAddUpdate(a), userID # Nil
      PROVE  ModelIsShown'
  <2>1. form = "signUp"
    BY <1>4 DEF SignsUp, ContinueAddUpdate
  <2>2. text' = text /\ model' = [model EXCEPT ![password] = Nil]
    BY <1>4 DEF ContinueAddUpdate
  <2>3. QED
    BY <1>1, <1>2, <2>1, <2>2 DEF TypeOK, ModelIsShown
<1>5. CASE UNCHANGED <<text, model>>
  BY <1>1, <1>5 DEF ModelIsShown
<1>6. QED  BY <1>3, <1>4, <1>5, TextSteps

(* A form sends what it shows: only a password can differ, and only by     *)
(* being gone from the model of a sign-up, for any number of attempts that *)
(* work on that model.                                                     *)
THEOREM FormSendsWhatItShows == Spec => []ModelIsShown
<1>1. Init => SignsUp /\ ModelIsShown
  <2>1. SUFFICES ASSUME Init PROVE SignsUp /\ ModelIsShown
    OBVIOUS
  <2>2. Fields \subseteq Field
    BY <2>1, FieldsAreFields DEF Init
  <2>3. ModelIsShown
    BY <2>1, <2>2 DEF Init, ModelIsShown
  <2>4. SignsUp
    BY <2>1 DEF Init, SignsUp, At, Idle
  <2>5. QED  BY <2>3, <2>4
<1>2. TypeOK /\ SignsUp /\ ModelIsShown /\ [Next]_vars => SignsUp' /\ ModelIsShown'
  BY SignsUpKept, ModelIsShownKept
<1>3. QED  BY <1>1, <1>2, FormTypes, PTL DEF Spec

(* A field that is not acceptable to the guards is not acceptable as it is *)
(* shown, except for a password that the model has lost.                   *)
LEMMA AlertTruthfulKept ==
    ASSUME TypeOK, ModelIsShown, AlertTruthful, [Next]_vars
    PROVE  AlertTruthful'
<1>1. SUFFICES ASSUME alert' \in DOMAIN Complaint
               PROVE  LET f == Complaint[alert'] IN
                        /\ \A g \in Fields' : g < f => Accepts(g, text'[g])
                        /\ Accepts(f, text'[f]) => f = password /\ model'[password] = Nil
  BY DEF AlertTruthful, Complaint, Accepts
<1>2. form' = form /\ Fields' = Fields
  BY TextSteps DEF Fields
<1>3. Fields \subseteq Field /\ password \in Fields
  BY FieldsAreFields DEF TypeOK
<1>4. CASE alert' = alert
  <2>1. ~TextFieldChanged
    BY <1>1, <1>4 DEF TextFieldChanged, InFront, Complaint, Nil
  <2>2. text' = text /\ (model[password] = Nil => model'[password] = Nil)
    <3>1. ASSUME NEW a \in Attempt, ContinueAddUpdate(a), userID # Nil
          PROVE  text' = text /\ model'[password] = Nil
      BY <1>3, <3>1 DEF ContinueAddUpdate, TypeOK
    <3>2. QED  BY <2>1, <3>1, TextSteps
  <2>3. QED  BY <1>1, <1>2, <1>4, <2>2 DEF AlertTruthful
<1>5. CASE Throws(model, alert') /\ UNCHANGED <<form, text, model>>
  <2>1. /\ \A g \in Fields : g < Complaint[alert'] => Accepts(g, model[g])
        /\ ~Accepts(Complaint[alert'], model[Complaint[alert']])
    BY <1>1, <1>5, FirstFailing
  <2>2. Complaint[alert'] \in Fields
    <3>1. PICK i \in DOMAIN Guards : alert' = Guards[i]
      BY <1>5 DEF Throws, Failing
    <3>2. CASE form = "signIn"
      BY <3>1, <3>2, GuardsOfForm, Complaints DEF Fields
    <3>3. CASE form = "signUp"
      BY <1>1, <3>3, Complaints DEF Fields, Field, displayName, emailAddress, userName, password
    <3>4. QED  BY <3>2, <3>3 DEF TypeOK
  <2>3. ASSUME NEW g \in Fields, g < Complaint[alert']
        PROVE  Accepts(g, text[g])
    <3>1. g # password
      BY <1>1, <2>3, Complaints DEF displayName, emailAddress, userName, password
    <3>2. Accepts(g, model[g])
      BY <2>1, <2>3
    <3>3. QED  BY <3>1, <3>2 DEF ModelIsShown, Accepts, Nil
  <2>4. ASSUME Accepts(Complaint[alert'], text[Complaint[alert']])
        PROVE  Complaint[alert'] = password /\ model[password] = Nil
    BY <2>1, <2>2, <2>4 DEF ModelIsShown, Accepts
  <2>5. QED  BY <1>2, <1>5, <2>3, <2>4
<1>6. QED
  BY <1>1, <1>4, <1>5, AlertSteps, Complaints DEF Nil

(* An alert about a field is right about what the user sees, for every     *)
(* order in which the fields were filled: the guards name the topmost      *)
(* field that is not acceptable.                                           *)
THEOREM AlertsAreTruthful == Spec => []AlertTruthful
<1>1. Init => AlertTruthful
  BY Complaints DEF Init, AlertTruthful, Nil
<1>2. TypeOK /\ ModelIsShown /\ AlertTruthful /\ [Next]_vars => AlertTruthful'
  BY AlertTruthfulKept
<1>3. QED  BY <1>1, <1>2, FormTypes, FormSendsWhatItShows, PTL DEF Spec

-----------------------------------------------------------------------------
(* One attempt at a time *)

LEMMA ReturnedStays ==
    ASSUME TypeOK, [Next]_vars, returned
    PROVE  returned'
<1>1. CASE User
  BY <1>1 DEF User, Tap, TextFieldChanged, SubmitClicked, ReturnKey, Submit, AlertOK,
     SwipeCancelled, Appear, ImageButtonClicked, LibraryPicked, CameraClosed
<1>2. CASE PermissionAnswered
  BY <1>2 DEF PermissionAnswered
<1>3. ASSUME NEW a \in Attempt, Manager(a)
      PROVE  UNCHANGED returned
  BY <1>3 DEF Manager, AuthSucceeds, AddUpdate, UploadPicture, ContinueAddUpdate, RequestFails,
     LoginSucceeds, Advance, ReportError
<1>4. CASE UNCHANGED vars
  BY <1>4 DEF vars
<1>5. QED  BY <1>1, <1>2, <1>3, <1>4 DEF Next

LEMMA UndisturbedKept ==
    ASSUME TypeOK, SignsUp, Undisturbed, [Next]_vars
    PROVE  Undisturbed'
<1>1. SUFFICES ASSUME ~returned' PROVE Covered' /\ Alone' /\ NotTyping' /\ Pending'
  BY DEF Undisturbed
<1>2. ~returned /\ Covered /\ Alone /\ NotTyping /\ Pending
  BY <1>1, ReturnedStays DEF Undisturbed
<1>3. form' = form
  BY TextSteps
<1>4. attempts \in [Attempt -> InFlight] /\ Idle.stage = "idle"
  BY DEF TypeOK, Idle
<1>5. CASE Bystander
  <2>1. Covered' /\ Alone'
    BY <1>2, <1>5 DEF Bystander, Covered, Alone
  <2>2. NotTyping'
    BY <1>1, <1>2, <1>5 DEF Bystander, NotTyping
  <2>3. Pending'
    <3>1. CASE busy
      <4>1. attempts' = attempts /\ userID' = userID /\ model' = model
        BY <1>1, <1>2, <1>5, <3>1 DEF Bystander, NotTyping
      <4>2. QED  BY <1>2, <1>3, <4>1 DEF Pending, Validated, At, Accepts
    <3>2. CASE ~busy
      BY <1>2, <1>4, <1>5, <3>2 DEF Bystander, Covered, Pending, At
    <3>3. QED  BY <3>1, <3>2
  <2>4. QED  BY <2>1, <2>2, <2>3
<1>6. CASE Starts /\ (~busy \/ focus # NoField)
  <2>1. PICK a \in Attempt : attempts[a] = Idle /\ attempts' = [attempts EXCEPT ![a] = Started]
    BY <1>6 DEF Starts
  <2>2. \A b \in Attempt : attempts[b] = Idle
    BY <1>2, <1>6 DEF NotTyping, Covered
  <2>3. /\ attempts'[a].stage = "auth" /\ attempts'[a].email = model[emailAddress]
        /\ attempts'[a] # Idle /\ \A b \in Attempt \ {a} : attempts'[b] = Idle
    BY <1>4, <2>1, <2>2, StartedStage
  <2>4. busy' = TRUE /\ focus' = NoField /\ model' = model
    BY <1>6 DEF Starts, Submit, LeaveFields, EndEditing, fields
  <2>5. Covered' /\ Alone' /\ NotTyping'
    BY <2>3, <2>4 DEF Covered, Alone, NotTyping
  <2>6. form = "signUp" => \A f \in Named : Accepts(f, model[f])
    BY <1>6, NoneFailing DEF Starts
  <2>7. Pending'
    BY <1>3, <1>4, <2>3, <2>4, <2>6 DEF Pending, Validated, At, Accepts, Named, emailAddress,
       displayName, userName
  <2>8. QED  BY <2>5, <2>7
<1>7. ASSUME NEW a \in Attempt, Manager(a)
      PROVE  Covered' /\ Alone' /\ NotTyping' /\ Pending'
  <2>1. /\ attempts[a] # Idle
        /\ \A b \in Attempt \ {a} : attempts[b] = Idle /\ attempts'[b] = Idle
    BY <1>2, <1>7, ManagerSteps DEF Alone
  <2>2. busy /\ focus' = NoField
    <3>1. focus' = focus
      BY <1>7 DEF Manager, AuthSucceeds, AddUpdate, UploadPicture, ContinueAddUpdate,
         RequestFails, LoginSucceeds, Advance, ReportError, typing
    <3>2. QED  BY <1>2, <2>1, <3>1 DEF Covered, NotTyping
  <2>3. CASE attempts'[a] = Idle /\ busy' = FALSE
    BY <1>4, <2>1, <2>3 DEF Covered, Alone, NotTyping, Pending, At
  <2>4. CASE /\ UNCHANGED busy
             /\ attempts'[a].email = attempts[a].email
             /\ \/ attempts'[a].stage = "fetch"
                \/ /\ At(a, "auth") /\ form = "signUp" /\ attempts'[a].stage = "upload"
                   /\ userID' = a /\ UNCHANGED model
                \/ attempts'[a].stage = "post"
    <3>1. attempts'[a] # Idle
      BY <1>4, <2>4
    <3>2. Covered' /\ Alone' /\ NotTyping'
      BY <2>1, <2>2, <2>4, <3>1 DEF Covered, Alone, NotTyping
    <3>3. Pending'
      BY <1>2, <1>3, <1>4, <2>1, <2>4 DEF Pending, Validated, At
    <3>4. QED  BY <3>2, <3>3
  <2>5. QED  BY <1>7, <2>3, <2>4, ManagerSteps
<1>8. QED  BY <1>5, <1>6, <1>7, AttemptSteps

(* Unless the form appears again during an attempt, the attempt has the    *)
(* form's model to itself until its record is written.                     *)
THEOREM FormInvariant == Spec => [](SignsUp /\ Undisturbed)
<1>1. Init => SignsUp /\ Undisturbed
  <2>1. SUFFICES ASSUME Init PROVE SignsUp /\ Undisturbed
    OBVIOUS
  <2>2. \A a \in Attempt : attempts[a] = Idle /\ attempts[a].stage = "idle"
    BY <2>1 DEF Init, Idle
  <2>3. QED
    BY <2>1, <2>2 DEF Init, SignsUp, Undisturbed, Covered, Alone, NotTyping, Pending, At
<1>2. TypeOK /\ SignsUp /\ Undisturbed /\ [Next]_vars => SignsUp' /\ Undisturbed'
  BY SignsUpKept, UndisturbedKept
<1>3. QED  BY <1>1, <1>2, FormTypes, PTL DEF Spec

(* The form has one attempt in flight exactly while it is covered, for any *)
(* number of attempts: a second one starts only after the form appeared    *)
(* again during the first.                                                 *)
THEOREM FormHasOneAttempt == Spec => []OneAttempt
<1>1. SignsUp /\ Undisturbed => OneAttempt
  BY DEF Undisturbed, Covered, Alone, OneAttempt
<1>2. QED  BY <1>1, FormInvariant, PTL

(* The record read from the form's model two requests after validation is  *)
(* still the one that was validated, under the account made for it.        *)
THEOREM RecordIsTheAccounts == Spec => []RecordMatchesAccount
<1>1. Init => RecordMatchesAccount
  BY DEF Init, RecordMatchesAccount, At, Idle
<1>2. ASSUME TypeOK, SignsUp, Undisturbed, RecordMatchesAccount, [Next]_vars
      PROVE  RecordMatchesAccount'
  <2>1. SUFFICES ASSUME ~returned', NEW b \in Attempt, At(b, "post")'
                 PROVE  /\ attempts'[b].uid = b
                        /\ attempts'[b].record[emailAddress] = attempts'[b].email
                        /\ \A f \in DOMAIN attempts'[b].record :
                              Accepts(f, attempts'[b].record[f])
    BY DEF RecordMatchesAccount, At, Accepts, displayName, userName, emailAddress
  <2>2. ~returned
    BY <1>2, <2>1, ReturnedStays
  <2>3. CASE attempts'[b] = attempts[b]
    BY <1>2, <2>1, <2>2, <2>3 DEF RecordMatchesAccount, At
  <2>4. CASE attempts'[b] # attempts[b]
    <3>1. ~Bystander /\ ~Starts
      <4>1. attempts \in [Attempt -> InFlight]
        BY <1>2 DEF TypeOK
      <4>2. QED  BY <2>1, <2>4, <4>1, StartedStage DEF Bystander, Starts, At
    <3>2. PICK a \in Attempt : Manager(a)
      BY <1>2, <3>1, AttemptSteps
    <3>3. a = b
      BY <1>2, <2>4, <3>2, ManagerSteps
    <3>4. /\ At(b, "upload") /\ attempts'[b].email = attempts[b].email
          /\ attempts'[b].uid = userID /\ attempts'[b].record = Record
      <4>1. Idle.stage = "idle"
        BY DEF Idle
      <4>2. QED  BY <1>2, <2>1, <3>2, <3>3, <4>1, ManagerSteps DEF At
    <3>5. userID = b /\ Validated(b)
      BY <1>2, <2>2, <3>4 DEF Undisturbed, Pending, SignsUp
    <3>6. QED  BY <3>4, <3>5 DEF Record, Validated, Named
  <2>5. QED  BY <2>3, <2>4
<1>3. QED  BY <1>1, <1>2, FormTypes, FormInvariant, PTL DEF Spec

=============================================================================

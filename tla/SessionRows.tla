---------------------------- MODULE SessionRows -----------------------------
(***************************************************************************)
(* Who may delete a tweet: the Session composed with a row of the Home     *)
(* screen's table.  TweetsTableViewCell.loadData decides when the row is   *)
(* displayed whether its delete button shows; nothing brings the button up *)
(* to date when the user changes, and the request is sent for whoever is   *)
(* signed in then.                                                         *)
(***************************************************************************)
EXTENDS Session

CONSTANT Author  \* the user whose tweet the row shows

ASSUME AuthorAssumption == Author \in User

VARIABLE row     \* the cell of the tweet

rowVars == <<vars, row>>

(* by and settled are history: the user signed in when the row was         *)
(* displayed, and whether that user's details had arrived.                 *)
Row == [by : User \cup {Nil}, settled : BOOLEAN, deleteButton : BOOLEAN]

NoRow == [by |-> Nil, settled |-> FALSE, deleteButton |-> FALSE]

IsAuthor == loggedInUser.userID = Author

(* A reused cell's button is not hidden again. *)
NeverHides == row.deleteButton \/ IsAuthor

(* A model without a userID equals no author's. *)
ShowsDeleteButton == IsAuthor

(* The table asks for the row's cell: a page arrived, or the user scrolled *)
(* back to it.                                                             *)
CellForRow ==
    /\ screen = "home"
    /\ row' = [by |-> currentUser,
               settled |-> details = <<>> /\ loggedInUser # NoModel,
               deleteButton |-> ShowsDeleteButton]
    /\ UNCHANGED vars

RowsInit == Init /\ row = NoRow

RowsNext ==
    \/ Running /\ UNCHANGED row
    \/ Relaunch /\ row' = NoRow
    \/ CellForRow

RowsSpec == RowsInit /\ [][RowsNext]_rowVars

-----------------------------------------------------------------------------
(* Properties *)

RowTypeOK == TypeOK /\ row \in Row

(* Home offers to delete exactly the user's own tweets, in rows displayed  *)
(* since the user's details arrived: to the author always, whatever        *)
(* sessions went before, and to nobody else even while the details are     *)
(* under way.  A late answer for the user before and the model without     *)
(* userID of a sign-up do not count.  The exceptions are rows that were    *)
(* displayed to the user before, and sessions in which a sheet was swiped  *)
(* away during its attempt or began a second one.                          *)
DeleteIsTheAuthors ==
    (OneAttemptAtATime /\ screen = "home" /\ row.by = currentUser) =>
        /\ row.deleteButton => currentUser = Author
        /\ row.settled /\ currentUser = Author => row.deleteButton
=============================================================================

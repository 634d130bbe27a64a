----------------------------- MODULE AdminPages -----------------------------
(***************************************************************************)
(* What admin pages show while answers are on their way: the customers     *)
(* page (app/admin/customers), the order inspector (app/admin/orders/      *)
(* detail) and the lists of orders, reviews, products and reports.  Staff  *)
(* pick another record or another filter before the last answer came; a    *)
(* page aborts the requests it no longer waits for, and the ones it does   *)
(* not abort answer in any order.  Staff look at one page at a time, and   *)
(* leaving it ends whatever it waited for.  The timer of an inspector, of  *)
(* no delay, runs before the next click, and nothing beneath an open       *)
(* dialog can be clicked.                                                  *)
(***************************************************************************)
CONSTANTS
  Entry,   \* the customers, or the orders, of a page
  Query    \* what a list can be asked for: its search, filters and page

VARIABLES
  page,       \* the page staff look at
  profiles,   \* the customers page
  inspector,  \* the order inspector
  list        \* a list page

pageVars == <<page, profiles, inspector, list>>

None == "NONE"

ASSUME PagesConstants == None \notin Entry

\* Mutant of Abandon: abort() is forgotten.
AbandonNothing(requests) == requests

\* AbortController.abort, and the request number of the reports: no request
\* made before is heard any more.
Abandon(requests) == {}
-----------------------------------------------------------------------------
(* The customers page: a list, and beside it the profile of one of them. *)

\* loadProfile: the request before is aborted, the customer is selected at
\* once, and the profile shown stays until the answer.
Loading(p, c) ==
  [p EXCEPT !.selected = c, !.asked = Abandon(@) \cup {c}, !.loading = TRUE, !.failed = FALSE]

NoProfiles ==
  [selected |-> None, shown |-> None, asked |-> {}, loading |-> FALSE, failed |-> FALSE,
   listed |-> {}, refreshing |-> {}, named |-> None, calm |-> FALSE]

\* As the page opens: the customer of its address, or the first.
OpenedProfiles(c) == Loading([NoProfiles EXCEPT !.listed = Entry], c)

NoDialog == profiles.named = None

PickCustomer(c) ==
  /\ NoDialog /\ c \in profiles.listed
  /\ profiles' = Loading(profiles, c)

\* The search filters the list where it is.
SearchCustomers(matching) ==
  /\ NoDialog
  /\ profiles' = [profiles EXCEPT !.listed = matching]

\* A chip of saved filters also empties the selection and the profile.
ChooseChip(matching) ==
  /\ NoDialog
  /\ profiles' = [profiles EXCEPT !.listed = matching, !.selected = None, !.shown = None]

\* An effect selects the first customer listed when the selected one is not.
SelectionIsDue == profiles.listed # {} /\ profiles.selected \notin profiles.listed

SelectFirst(c) ==
  /\ SelectionIsDue /\ c \in profiles.listed
  /\ profiles' = Loading(profiles, c)

ProfileArrives(c) ==
  /\ c \in profiles.asked
  /\ profiles' = [profiles EXCEPT !.asked = @ \ {c}, !.loading = FALSE, !.shown = c]

ProfileFails(c) ==
  /\ c \in profiles.asked
  /\ profiles' = [profiles EXCEPT !.asked = @ \ {c}, !.loading = FALSE, !.failed = TRUE]

\* Notes, confirmations, holds and merges are about the profile shown and end in a
\* refresh that selects its customer again, even if it is the one staff have left;
\* a saved form refreshes whoever was selected.
ChangeCustomer ==
  /\ NoDialog
  /\ \E c \in {profiles.shown, profiles.selected} \ {None} :
       profiles' = [profiles EXCEPT !.refreshing = @ \cup {c}]

\* refreshList: the list, then the profile.
RefreshArrives(c, listed) ==
  /\ c \in profiles.refreshing
  /\ profiles' = Loading([profiles EXCEPT !.refreshing = @ \ {c}, !.listed = listed], c)

RefreshFails(c) ==
  /\ c \in profiles.refreshing
  /\ profiles' = [profiles EXCEPT !.refreshing = @ \ {c}]

\* The dialog that confirms an anonymization names the profile as it is shown at
\* each moment; "named" is the customer it named when it opened.
StartAnonymization ==
  /\ NoDialog /\ profiles.shown # None
  /\ profiles' = [profiles EXCEPT !.named = profiles.shown,
                                  !.calm = /\ ~profiles.loading /\ profiles.refreshing = {}
                                           /\ ~SelectionIsDue]

CancelAnonymization ==
  /\ ~NoDialog
  /\ profiles' = [profiles EXCEPT !.named = None]

\* handleAnonymize is about the profile; it refreshes whoever is selected.
ConfirmAnonymization ==
  /\ ~NoDialog
  /\ profiles' = [profiles EXCEPT !.named = None,
                                  !.refreshing = @ \cup ({profiles.selected} \ {None})]

CustomersPage ==
  \/ \E c \in Entry :
       \/ PickCustomer(c) \/ SelectFirst(c)
       \/ ProfileArrives(c) \/ ProfileFails(c) \/ RefreshFails(c)
       \/ \E listed \in SUBSET Entry : RefreshArrives(c, listed)
  \/ \E listed \in SUBSET Entry : SearchCustomers(listed) \/ ChooseChip(listed)
  \/ ChangeCustomer \/ StartAnonymization \/ CancelAnonymization \/ ConfirmAnonymization
-----------------------------------------------------------------------------
(* The inspector of one order over the list of orders.  Its title is the   *)
(* order it was moved to; its body and its actions are the detail's.       *)

NoInspector ==
  [order |-> None, detail |-> None, timer |-> FALSE, asked |-> {}, acting |-> FALSE,
   noting |-> {}, reloads |-> {}, named |-> None, stray |-> FALSE]

OpenedInspector(o) == [NoInspector EXCEPT !.order = o, !.timer = TRUE]

\* The effect of order.id gives up the load of the order before.  It does not give
\* up the reload after an action, and the save of a note that will end in one.
MoveTo(o) ==
  /\ o # inspector.order /\ inspector.named = None /\ ~inspector.timer
  /\ inspector' =
       [inspector EXCEPT !.order = o, !.timer = TRUE, !.asked = Abandon(@),
                         !.stray = @ \/ inspector.noting # {} \/ inspector.reloads # {}]

LoadOrder ==
  /\ inspector.timer
  /\ inspector' = [inspector EXCEPT !.timer = FALSE, !.detail = None,
                                    !.asked = @ \cup {inspector.order}]

DetailArrives(o) ==
  /\ o \in inspector.asked
  /\ inspector' = [inspector EXCEPT !.asked = @ \ {o}, !.detail = o]

DetailFails(o) ==
  /\ o \in inspector.asked
  /\ inspector' = [inspector EXCEPT !.asked = @ \ {o}]

\* OrderActionBar: every action is confirmed in a dialog, which names the detail.
ChooseTransition ==
  /\ inspector.detail # None /\ inspector.named = None /\ ~inspector.timer
  /\ inspector' = [inspector EXCEPT !.named = inspector.detail]

CancelTransition ==
  /\ inspector.named # None /\ ~inspector.acting
  /\ inspector' = [inspector EXCEPT !.named = None]

\* The dialog stays until the answer.
ConfirmTransition ==
  /\ inspector.named # None /\ ~inspector.acting
  /\ inspector' = [inspector EXCEPT !.acting = TRUE]

TransitionAnswered ==
  /\ inspector.acting
  /\ \E reloads \in {inspector.reloads, inspector.reloads \cup {inspector.order}} :
       inspector' = [inspector EXCEPT !.acting = FALSE, !.named = None, !.reloads = reloads]

\* A note is about the order of the title, and no dialog covers its saving.
AddNote ==
  /\ inspector.detail # None /\ inspector.named = None /\ ~inspector.timer
  /\ inspector' = [inspector EXCEPT !.noting = @ \cup {inspector.order}]

NoteAnswered(o) ==
  /\ o \in inspector.noting
  /\ \E reloads \in {inspector.reloads, inspector.reloads \cup {o}} :
       inspector' = [inspector EXCEPT !.noting = @ \ {o}, !.reloads = reloads]

ReloadArrives(o) ==
  /\ o \in inspector.reloads
  /\ inspector' = [inspector EXCEPT !.reloads = @ \ {o}, !.detail = o]

ReloadFails(o) ==
  /\ o \in inspector.reloads
  /\ inspector' = [inspector EXCEPT !.reloads = @ \ {o}]

InspectorPage ==
  \/ \E o \in Entry :
       \/ MoveTo(o) \/ DetailArrives(o) \/ DetailFails(o) \/ NoteAnswered(o)
       \/ ReloadArrives(o) \/ ReloadFails(o)
  \/ LoadOrder \/ ChooseTransition \/ CancelTransition \/ ConfirmTransition
  \/ TransitionAnswered \/ AddNote
-----------------------------------------------------------------------------
(* The lists.  Bookkeeping: a list is "failed" when the last request did;  *)
(* the products page does not say so.                                      *)

Asking(l, q) ==
  [l EXCEPT !.asked = Abandon(@) \cup {q}, !.timer = FALSE, !.failed = FALSE, !.last = q]

NoList ==
  [kind |-> None, query |-> None, timer |-> FALSE, asked |-> {}, shown |-> None,
   failed |-> FALSE, last |-> None, bulk |-> None]

\* The products page asks as it opens, the others when their timer ends.
OpenedList(kind, q) ==
  LET opened == [NoList EXCEPT !.kind = kind, !.query = q] IN
  IF kind = "PRODUCTS" THEN Asking(opened, q) ELSE [opened EXCEPT !.timer = TRUE]

\* Orders and reports wait for their timer and give up nothing before it; a
\* filter sends the list of orders back to its first page in the same render.
ChangeOrders(q) ==
  /\ list.kind = "ORDERS" /\ q # list.query
  /\ list' = [list EXCEPT !.query = q, !.timer = TRUE]

ChangeReport(q) ==
  /\ list.kind = "REPORTS" /\ q # list.query
  /\ list' = [list EXCEPT !.query = q, !.timer = TRUE]

\* Reviews give up the request before at once, and ask when their timer ends.
ChangeReviews(q) ==
  /\ list.kind = "REVIEWS" /\ q # list.query
  /\ list' = [list EXCEPT !.query = q, !.timer = TRUE, !.asked = Abandon(@)]

\* Products give it up and ask at once.
ChangeProducts(q) ==
  /\ list.kind = "PRODUCTS" /\ q # list.query
  /\ list' = [Asking(list, q) EXCEPT !.query = q]

TimerEnds ==
  /\ list.timer
  /\ list' = Asking(list, list.query)

\* Retry and Refresh ask again, while nothing is asked.
AskAgain ==
  /\ list.kind \in {"ORDERS", "REPORTS"} /\ list.asked = {}
  /\ list' = [Asking(list, list.query) EXCEPT !.timer = list.timer]

ListArrives(q) ==
  /\ q \in list.asked
  /\ list' = [list EXCEPT !.asked = @ \ {q}, !.shown = q]

ListFails(q) ==
  /\ q \in list.asked
  /\ list' = [list EXCEPT !.asked = @ \ {q}, !.failed = TRUE]

\* Archiving a selection of orders takes a while, and then asks for the list that
\* was shown when it began: its refresh is the one of that render.
ArchiveOrders ==
  /\ list.kind = "ORDERS" /\ list.bulk = None
  /\ list' = [list EXCEPT !.bulk = list.query]

ArchiveAnswered ==
  /\ list.bulk # None
  /\ \/ list' = [list EXCEPT !.bulk = None]
     \/ list' = [Asking(list, list.bulk) EXCEPT !.bulk = None, !.timer = list.timer]

ListPage ==
  \/ \E q \in Query :
       \/ ChangeOrders(q) \/ ChangeReport(q) \/ ChangeReviews(q) \/ ChangeProducts(q)
       \/ ListArrives(q) \/ ListFails(q)
  \/ TimerEnds \/ AskAgain \/ ArchiveOrders \/ ArchiveAnswered
-----------------------------------------------------------------------------
PagesInit == page = None /\ profiles = NoProfiles /\ inspector = NoInspector /\ list = NoList

\* A page that opens replaces the one before, with whatever that one waited for.
Navigate ==
  \/ /\ page' = "CUSTOMERS" /\ \E c \in Entry : profiles' = OpenedProfiles(c)
     /\ inspector' = NoInspector /\ list' = NoList
  \/ /\ page' = "INSPECTOR" /\ \E o \in Entry : inspector' = OpenedInspector(o)
     /\ profiles' = NoProfiles /\ list' = NoList
  \/ /\ page' = "LIST"
     /\ \E kind \in {"ORDERS", "REVIEWS", "PRODUCTS", "REPORTS"}, q \in Query :
          list' = OpenedList(kind, q)
     /\ profiles' = NoProfiles /\ inspector' = NoInspector

PagesNext ==
  \/ Navigate
  \/ page = "CUSTOMERS" /\ CustomersPage /\ UNCHANGED <<page, inspector, list>>
  \/ page = "INSPECTOR" /\ InspectorPage /\ UNCHANGED <<page, profiles, list>>
  \/ page = "LIST" /\ ListPage /\ UNCHANGED <<page, profiles, inspector>>

PagesSpec == PagesInit /\ [][PagesNext]_pageVars
-----------------------------------------------------------------------------
Shown == Entry \cup {None}
Asked == Query \cup {None}

PagesTypeOK ==
  /\ page \in {None, "CUSTOMERS", "INSPECTOR", "LIST"}
  /\ profiles \in [selected : Shown, shown : Shown, asked : SUBSET Entry, loading : BOOLEAN,
                   failed : BOOLEAN, listed : SUBSET Entry, refreshing : SUBSET Entry,
                   named : Shown, calm : BOOLEAN]
  /\ inspector \in [order : Shown, detail : Shown, timer : BOOLEAN, asked : SUBSET Entry,
                    acting : BOOLEAN, noting : SUBSET Entry, reloads : SUBSET Entry,
                    named : Shown, stray : BOOLEAN]
  /\ list \in [kind : {None, "ORDERS", "REVIEWS", "PRODUCTS", "REPORTS"}, query : Asked,
               timer : BOOLEAN, asked : SUBSET Query, shown : Asked, failed : BOOLEAN,
               last : Asked, bulk : Asked]

\* An anonymization erases the customer its dialog named when it opened, unless the
\* page was still loading, refreshing or selecting then.
DialogKeepsItsName == ~NoDialog /\ profiles.calm => profiles.shown = profiles.named

\* The order an inspector shows and acts on is the one in its title, unless it was
\* moved on before a note was saved or a reload had come.
InspectorKeepsItsTitle ==
  ~inspector.timer /\ ~inspector.stray =>
    /\ inspector.detail \in {None, inspector.order}
    /\ inspector.named \in {None, inspector.order}

\* At rest the profile is the selected customer's, unless it failed to load.
ProfileIsSelected ==
  ~profiles.loading /\ ~profiles.failed /\ profiles.selected \in profiles.listed =>
    profiles.shown = profiles.selected

\* At rest a list is the one of its search, filters and page, unless it failed to
\* load or the end of an archiving asked for an earlier one.
ListIsAskedFor ==
  ~list.timer /\ list.asked = {} /\ ~list.failed /\ list.last = list.query =>
    list.shown = list.query

\* Whatever order the answers come in, staff see and act on what they picked last:
\* an answer to an earlier pick never takes the place of a later one's, but for the
\* requests the pages forget to give up.
PagesFollowStaff ==
  /\ DialogKeepsItsName
  /\ InspectorKeepsItsTitle
  /\ ProfileIsSelected
  /\ ListIsAskedFor
=============================================================================

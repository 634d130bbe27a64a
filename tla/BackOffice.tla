----------------------------- MODULE BackOffice -----------------------------
(***************************************************************************)
(* What staff do all day: orders at the desk, the automation of the day,   *)
(* the review board, the customers' records, their own sessions, the staff *)
(* list and the pages they look at.  Each keeps its state in tables, or in *)
(* a browser, of its own and each property is about one of them, so it is  *)
(* enough to follow one of them in a behaviour: focus says which, the      *)
(* others rest in an initial state.                                        *)
(***************************************************************************)
EXTENDS OrderDesk, OrderAutomation, ReviewBoard, CustomerRecords, SessionTabs, StaffAccess,
        AdminPages

VARIABLE focus

officeVars == <<deskVars, autoVars, reviewVars, customerVars, tabVars, staffVars, pageVars, focus>>

OfficeInit ==
  /\ focus \in {"DESK", "AUTOMATION", "REVIEWS", "CUSTOMERS", "SESSIONS", "STAFF", "PAGES"}
  /\ DeskInit /\ AutomationInit /\ ReviewInit /\ CustomersInit /\ SessionsInit /\ StaffInit
  /\ PagesInit
  /\ focus # "AUTOMATION" => \A o \in DayOrder : dayOrder[o].status = "NEW"
  /\ focus # "STAFF" => member[CHOOSE u \in Member : TRUE].listed

OfficeNext ==
  /\ \/ /\ focus = "DESK" /\ DeskNext
        /\ UNCHANGED <<autoVars, reviewVars, customerVars, tabVars, staffVars, pageVars>>
     \/ /\ focus = "AUTOMATION" /\ AutomationNext
        /\ UNCHANGED <<deskVars, reviewVars, customerVars, tabVars, staffVars, pageVars>>
     \/ /\ focus = "REVIEWS" /\ ReviewNext
        /\ UNCHANGED <<deskVars, autoVars, customerVars, tabVars, staffVars, pageVars>>
     \/ /\ focus = "CUSTOMERS" /\ CustomersNext
        /\ UNCHANGED <<deskVars, autoVars, reviewVars, tabVars, staffVars, pageVars>>
     \/ /\ focus = "SESSIONS" /\ SessionsNext
        /\ UNCHANGED <<deskVars, autoVars, reviewVars, customerVars, staffVars, pageVars>>
     \/ /\ focus = "STAFF" /\ StaffNext
        /\ UNCHANGED <<deskVars, autoVars, reviewVars, customerVars, tabVars, pageVars>>
     \/ /\ focus = "PAGES" /\ PagesNext
        /\ UNCHANGED <<deskVars, autoVars, reviewVars, customerVars, tabVars, staffVars>>
  /\ UNCHANGED focus

OfficeSpec == OfficeInit /\ [][OfficeNext]_officeVars
-----------------------------------------------------------------------------
\* The rows, pages and calls of the part in focus keep their types.
OfficeTypeOK ==
  /\ focus = "DESK" => DeskTypeOK
  /\ focus = "AUTOMATION" => AutomationTypeOK
  /\ focus = "REVIEWS" => ReviewTypeOK
  /\ focus = "CUSTOMERS" => CustomersTypeOK
  /\ focus = "SESSIONS" => SessionsTypeOK
  /\ focus = "STAFF" => StaffTypeOK
  /\ focus = "PAGES" => PagesTypeOK
=============================================================================

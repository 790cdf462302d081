----------------------- MODULE InvitationManagement ------------------------
(***************************************************************************)
(* components/InvitationManagementPanel.tsx: a list of invitations, loaded *)
(* page by page, and operations that change it at the host and load it     *)
(* again.  Loads are not numbered and overlap with everything.             *)
(*                                                                         *)
(* A request is the page it asks for; the size of a page and the search    *)
(* text go with it.  The fields of an invitation, the rows of an import,   *)
(* links that are copied and messages are left out.                        *)
(***************************************************************************)
EXTENDS PanelConstants

CONSTANT MaxPage  \* bound: pages of the list

VARIABLES
  mode,         \* editMode
  page,         \* the page as the panel counts it
  rows,         \* what the list shows: a page of some version, or Null
  loading,
  acting,       \* actionInvitationId
  importing,
  expanded,     \* expandedInvitationId
  info,         \* expandedInvitation
  task,         \* what each handler awaits
  version       \* the host: changes of the list

list == <<page, rows, loading>>
busy == <<acting, importing>>
detail == <<expanded, info>>
vars == <<mode, list, busy, detail, task, version>>

Rows == [page : 1..MaxPage, version : 0..MaxChanges]

\* The operation, its invitation, the page to load after it, the change it made, and
\* what a load has brought.
Task ==
  [step : {"idle", "request", "load", "loaded", "details"},
   about : Keys \cup {Null, "list", "invite", "import"}, page : 1..MaxPage,
   change : 0..MaxChanges, got : Rows \cup {Null}]

TypeOK ==
  /\ mode \in {"list", "invite", "import"}
  /\ page \in 1..MaxPage /\ rows \in Rows \cup {Null}
  /\ loading \in BOOLEAN /\ importing \in BOOLEAN
  /\ acting \in Keys \cup {Null}
  /\ expanded \in Keys \cup {Null} /\ info \in Keys \cup {Null}
  /\ task \in [Handlers -> Task]
  /\ version \in 0..MaxChanges

Idle == [step |-> "idle", about |-> Null, page |-> 1, change |-> 0, got |-> Null]

At(h, step) == task[h].step = step

Start(h, step, about, p) ==
  /\ At(h, "idle")
  /\ task' = [task EXCEPT ![h] = [Idle EXCEPT !.step = step, !.about = about, !.page = p]]

\* The first page is asked for at once (200-202).
Init ==
  /\ mode = "list" /\ page = 1 /\ rows = Null /\ loading = TRUE
  /\ acting = Null /\ importing = FALSE /\ expanded = Null /\ info = Null
  /\ task \in {[h \in Handlers |-> IF h = first THEN [Idle EXCEPT !.step = "load", !.about = "list"]
                                   ELSE Idle] : first \in Handlers}
  /\ version = 0

\* What is rendered and enabled: the search row (533-582), the buttons of a row
\* (598-670), the pager (702-712), and the forms (374-432, 434-529).
SearchRow == mode = "list"
RowShown == mode = "list" /\ ~loading /\ rows # Null
Pager == mode = "list" /\ ~loading
InviteForm == mode = "invite"
ImportForm == mode = "import" /\ ~importing

-----------------------------------------------------------------------------
(* The user *)

\* The tabs and the buttons that cancel (157-172, 360-368, 423, 521).
Turn(m) ==
  /\ mode' = m /\ mode # m
  /\ UNCHANGED <<list, busy, detail, task, version>>

\* Variant: the page is turned before it is there.
Load_TurnsAtOnce(h, p) ==
  /\ Start(h, "load", "list", p)
  /\ loading' = TRUE /\ page' = p
  /\ UNCHANGED <<mode, rows, busy, detail, version>>

\* load up to its request (174-184).
Load(h, p) ==
  /\ Start(h, "load", "list", p)
  /\ loading' = TRUE
  /\ UNCHANGED <<mode, page, rows, busy, detail, version>>

\* The return key, which is never disabled, the buttons for a search and those for a page
\* (535-577, 705-710).
Search(h) == SearchRow /\ Load(h, 1)

TurnPage(h) ==
  /\ Pager
  /\ \E p \in {page - 1, page + 1} \cap 1..MaxPage : Load(h, p)

\* submitInvite, whose button is never disabled (204-218, 426).
SubmitInvite(h) ==
  /\ InviteForm /\ Start(h, "request", "invite", page)
  /\ UNCHANGED <<mode, list, busy, detail, version>>

\* Variant: only the buttons of the invitation are disabled.
PerformAction_PerRow(h, k) ==
  /\ RowShown /\ acting # k
  /\ Start(h, "request", k, page)
  /\ acting' = k
  /\ UNCHANGED <<mode, list, importing, detail, version>>

\* performAction: resend, cancel or remove (253-261, 633-662).
PerformAction(h, k) ==
  /\ RowShown /\ acting = Null
  /\ Start(h, "request", k, page)
  /\ acting' = k
  /\ UNCHANGED <<mode, list, importing, detail, version>>

\* sendImport (289-298, 524).
SendImport(h) ==
  /\ ImportForm /\ Start(h, "request", "import", page)
  /\ importing' = TRUE
  /\ UNCHANGED <<mode, list, acting, detail, version>>

\* toggleDetails (231-244, 663-667).
ShowDetails(h, k) ==
  /\ RowShown /\ expanded # k
  /\ expanded' = k /\ info' = Null
  /\ Start(h, "details", k, 1)
  /\ UNCHANGED <<mode, list, busy, version>>

HideDetails ==
  /\ RowShown /\ expanded # Null
  /\ expanded' = Null /\ info' = Null
  /\ UNCHANGED <<mode, list, busy, task, version>>

-----------------------------------------------------------------------------
(* Answers *)

\* finally (270, 322); an invite has none.
Finally(h) ==
  /\ acting' = IF task[h].about \in Keys THEN Null ELSE acting
  /\ importing' = (importing /\ task[h].about # "import")
  /\ task' = [task EXCEPT ![h] = Idle]

\* Variant: the list is loaded alongside the request.
Granted_LoadsAlongside(h) ==
  /\ At(h, "request") /\ version < MaxChanges
  /\ version' = version + 1
  /\ loading' = TRUE
  /\ mode' = IF task[h].about = "invite" THEN "list" ELSE mode
  /\ task' = [task EXCEPT ![h].step = "loaded", ![h].change = version + 1,
                          ![h].got = [page |-> task[h].page, version |-> version]]
  /\ UNCHANGED <<page, rows, busy, detail>>

\* The host does it; then the list is loaded, with the page of the render the operation
\* began in (225-228, 267-268, 308-313).
Granted(h) ==
  /\ At(h, "request") /\ version < MaxChanges
  /\ version' = version + 1
  /\ loading' = TRUE
  /\ mode' = IF task[h].about = "invite" THEN "list" ELSE mode
  /\ task' = [task EXCEPT ![h].step = "load", ![h].change = version + 1]
  /\ UNCHANGED <<page, rows, busy, detail>>

\* It is refused, or its answer is lost (220-223, 262-265, 299-306, 317-321).
Refused(h) ==
  /\ At(h, "request") /\ Finally(h)
  /\ version' \in {version, version + 1} \cap 0..MaxChanges
  /\ UNCHANGED <<mode, list, detail>>

\* The list as it is when a load is served.
LoadServed(h) ==
  /\ At(h, "load")
  /\ task' = [task EXCEPT ![h].step = "loaded",
                          ![h].got = [page |-> task[h].page, version |-> version]]
  /\ UNCHANGED <<mode, list, busy, detail, version>>

\* (191-197)
Loaded(h) ==
  /\ At(h, "loaded") /\ Finally(h)
  /\ rows' = task[h].got /\ page' = task[h].page
  /\ loading' = FALSE
  /\ UNCHANGED <<mode, detail, version>>

\* (186-189, 195-197)
LoadFailed(h) ==
  /\ At(h, "load") /\ Finally(h)
  /\ loading' = FALSE
  /\ UNCHANGED <<mode, page, rows, detail, version>>

\* The details arrive, whatever is expanded by now, or they do not (244-250).
DetailsAnswered(h) ==
  /\ At(h, "details")
  /\ info' \in {info, task[h].about}
  /\ task' = [task EXCEPT ![h] = Idle]
  /\ UNCHANGED <<mode, list, busy, expanded, version>>

-----------------------------------------------------------------------------
Ask(h) ==
  \/ Search(h) \/ TurnPage(h) \/ SubmitInvite(h) \/ SendImport(h)
  \/ \E k \in Keys : PerformAction(h, k) \/ ShowDetails(h, k)

Answer(h) ==
  \/ Granted(h) \/ Refused(h) \/ LoadServed(h) \/ Loaded(h) \/ LoadFailed(h)
  \/ DetailsAnswered(h)

Next ==
  \/ \E m \in {"list", "invite", "import"} : Turn(m)
  \/ HideDetails
  \/ \E h \in Handlers : Ask(h) \/ Answer(h)

Spec == Init /\ [][Next]_vars

\* Requests are answered.
Fairness == \A h \in Handlers : WF_vars(Answer(h))

FairSpec == Spec /\ Fairness

-----------------------------------------------------------------------------
(* Properties *)

\* The page that is counted, from which the next one and the reload after an operation are
\* computed, is the page of the rows, in whatever order loads are answered (191-194).
RowsOfThePage == rows # Null => rows.page = page

\* One resend, cancel or removal at a time, across loads and tabs (637, 647, 657).
ActionsAlone ==
  \A g, h \in Handlers :
    task[g].about \in Keys /\ ~At(g, "details") /\ task[h].about \in Keys /\ ~At(h, "details")
      => g = h

\* When an operation on the list ends with its load, the rows have what it did (228, 268,
\* 313).  The message that says so is another matter: the load takes it away (176).
ShowsSuccess ==
  \A h \in Handlers :
    At(h, "loaded") /\ task'[h].step = "idle" => rows'.version >= task[h].change
SuccessIsShown == [][ShowsSuccess]_vars

\* Whatever overlaps, the list and its buttons come back (195-197, 270, 322).
Flags == <<acting # Null, importing, loading>>
BusyEnds == \A i \in 1..3 : Flags[i] ~> ~Flags[i]

=============================================================================

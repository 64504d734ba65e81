------------------------------- MODULE Console -------------------------------
(***************************************************************************)
(* The merchant's console: its pages over the API.                          *)
(***************************************************************************)
EXTENDS ListPages, FormPages, JobsPage

Init == ConsoleInit

ServerStep(k) == Read(k) \/ Write(k) \/ Handle(k) \/ Refuse(k)
Arrival(k) == ListArrives(k) \/ FailureArrives(k)

Pages ==
  \/ ProductsPage \/ InventoryPage \/ OrdersPage \/ ReturnsPage \/ PrivacyPage
  \/ ProductPage \/ NewProductPage \/ BrandsPage \/ CategoriesPage \/ LocationsPage
  \/ ImportsPage \/ ConnectPage
  \/ JobsPageStep

Next ==
  \/ \E k \in Slots : ServerStep(k) \/ Fault(k) \/ Arrival(k)
  \/ \E r \in Rows : Elsewhere(r)
  \/ Poll
  \/ Pages

Spec == Init /\ [][Next]_consoleVars

\* A request is answered and its answer handled; the timer ticks.
Fairness ==
  /\ \A k \in Slots : WF_consoleVars(ServerStep(k)) /\ WF_consoleVars(Arrival(k) \/ JobAnswered(k))
  /\ WF_consoleVars(Poll)

FairSpec == Spec /\ Fairness

TypeOK ==
  /\ page \in PageNames
  /\ row \in [Rows -> {Statuses[i] : i \in DOMAIN Statuses} \union {None, "new"}]
  /\ shipment \in [Rows -> ParcelStatus]
  /\ win \in Window
  /\ call \in [Slots -> CallRow \union {None}]
  /\ version \in Nat
  /\ clicks \in 0..MaxClicks[page] /\ faults \in 0..MaxFaults /\ others \in 0..MaxWrites

-----------------------------------------------------------------------------

Quiet == ~win.loading /\ \A k \in Slots : call[k] = None

\* Once a page is quiet its list answers the present query and shows what the
\* user wrote: everywhere unless answers overlapped, and also then on the pages
\* whose effect ignores the answer of the effect before it, which show the
\* present query as soon as they stop loading.
ListIsCurrent ==
  page # "imports" /\ win.here /\ ~win.failed =>
    /\ page \in Guarded /\ ~win.loading => win.list.query = win.query
    /\ Quiet /\ ~win.raced => win.list.query = win.query /\ win.list.version >= win.mine

\* The list is loading, and a button is disabled, only while a call is in
\* flight whose answer ends it, whatever was closed, cancelled or refused since.
WindowWaits ==
  win.here =>
    /\ win.loading => \E k \in Slots : call[k] # None /\ call[k].kind = "load"
    /\ \A f \in Flags : win.busy[f] # None => \E k \in Slots : call[k] # None /\ call[k].flag = f

\* A job shown as processing is not shown so for ever once it has ended, though
\* polls may fail, overlap and be answered out of order.
ProgressIsFollowed ==
  \A r \in Rows : OnJobs /\ ShowsProcessing(r) /\ row[r] # "QUEUED" ~> ~ShowsProcessing(r)
=============================================================================

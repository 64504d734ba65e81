------------------------------- MODULE JobsPage -------------------------------
(***************************************************************************)
(* The extraction page: jobs that advance by themselves, polled every three *)
(* seconds while one is shown that has not ended, uploads, and the review   *)
(* of one job's results.                                                    *)
(***************************************************************************)
EXTENDS ConsoleState

OnJobs == page = "extraction"
ShowsProcessing(r) == win.list # None /\ r \in DOMAIN win.list.rows /\ win.list.rows[r] = "QUEUED"

\* Mutant of Poll: a timeout that is set once per list and not again after a failed load.
PollOnce ==
  /\ OnJobs /\ win.here /\ (\E r \in Rows : ShowsProcessing(r)) /\ ~win.failed
  /\ Load(win)
  /\ UNCHANGED <<serverVars, clicks>>

\* The interval ticks, whatever else the page is waiting for.
Poll ==
  /\ OnJobs /\ win.here /\ \E r \in Rows : ShowsProcessing(r)
  /\ Load(win)
  /\ UNCHANGED <<serverVars, clicks>>

StartExtraction ==
  /\ OnJobs /\ win.busy["start"] = None
  /\ Send(win, "start", "on", Call("create", New, "QUEUED", win.query, "start", TRUE))

UploadAndStart ==
  /\ OnJobs /\ win.busy["upload"] = None
  /\ Send(win, "upload", "on", Call("presign", New, None, win.query, "upload", TRUE))

\* The next request of an upload is sent when the one before has succeeded.
UploadGoesOn(k) ==
  LET c == call[k] IN
  /\ OnJobs /\ At(k, Steps)
  /\ call' = [call EXCEPT ![k] = CASE c.kind = "presign" -> Call("put", New, None, c.back, "upload", TRUE)
                                   [] c.kind = "put" -> Call("confirm", New, None, c.back, "upload", TRUE)
                                   [] c.kind = "confirm" -> Call("create", New, "QUEUED", c.back, "upload", TRUE)]
  /\ UNCHANGED <<serverVars, win, clicks>>

OpenJob(r) ==
  /\ OnJobs /\ Shows(r) /\ Clicked
  /\ FreeIn(call) # {}
  /\ call' = [call EXCEPT ![FirstIn(FreeIn(call))] = Call("open", r, None, None, None, FALSE)]
  /\ UNCHANGED <<serverVars, win>>

CloseJob ==
  /\ OnJobs /\ win.panel # None /\ Clicked
  /\ win' = [Release(Release(win, "panel"), "barcode") EXCEPT !.panel = None]
  /\ call' = Detached(call, {"panel", "barcode"})
  /\ UNCHANGED serverVars

\* The panel that shows the job now is the one that is closed afterwards.
DeleteJob(r) ==
  /\ OnJobs /\ Shows(r) /\ win.busy["row"] # r
  /\ LET shown == win.panel # None /\ win.panel.of = r IN
     Send(win, "row", r, Call(IF shown THEN "delete shown" ELSE "delete", r, None, win.query, "row", TRUE))

\* "Accept" and "Look up & add" are about the job in the panel, which is opened
\* again and the list loaded before the button is enabled.
Review ==
  /\ OnJobs /\ win.panel # None
  /\ \/ win.busy["panel"] = None /\ Send(win, "panel", "on", Call("accept", win.panel.of, "same", win.query, "panel", TRUE))
     \/ win.busy["barcode"] = None /\ Send(win, "barcode", "on", Call("barcode", win.panel.of, "same", win.query, "barcode", TRUE))

Reviewed(k) ==
  LET c == call[k] IN
  /\ OnJobs /\ At(k, {"accept", "barcode"})
  /\ win' = Acknowledged(k)
  /\ call' = [call EXCEPT ![k] = Call("open", c.row, None, c.back, c.flag, TRUE)]
  /\ UNCHANGED <<serverVars, clicks>>

\* An answer to "Review" opens the panel, also one that was closed meanwhile;
\* after a change the list is loaded, whether the job could be opened or not.
JobOpened(k) ==
  LET c == call[k]
      w == IF c.ok THEN [win EXCEPT !.panel = c.got] ELSE win
  IN /\ OnJobs /\ c # None /\ c.kind = "open" /\ c.pc = "answered" /\ (c.ok \/ c.lists)
     /\ IF c.lists THEN LoadIn(k, w, Without(k), c.back, c.flag, TRUE)
        ELSE win' = w /\ call' = Without(k)
     /\ UNCHANGED <<serverVars, clicks>>

JobsChanged(k) ==
  LET c == call[k]
      closed == [Release(Release(Acknowledged(k), "panel"), "barcode") EXCEPT !.panel = None]
  IN /\ OnJobs /\ At(k, {"create", "delete", "delete shown"})
     /\ IF c.kind = "delete shown"
        THEN LoadIn(k, closed, Detached(Without(k), {"panel", "barcode"}), c.back, c.flag, TRUE)
        ELSE LoadIn(k, Acknowledged(k), Without(k), c.back, c.flag, TRUE)
     /\ UNCHANGED <<serverVars, clicks>>

JobAnswered(k) == Reviewed(k) \/ JobOpened(k) \/ JobsChanged(k) \/ UploadGoesOn(k)

JobsPageStep ==
  \/ StartExtraction \/ UploadAndStart \/ CloseJob \/ Review
  \/ \E r \in Rows : OpenJob(r) \/ DeleteJob(r)
  \/ \E k \in Slots : JobAnswered(k)
=============================================================================

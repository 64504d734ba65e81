---------------------------- MODULE ConsoleProofs ----------------------------
(***************************************************************************)
(* The console's list is that of the present query and its buttons come     *)
(* back, for any number of rows, calls under way, clicks, writes of others  *)
(* and faults, on every page.                                               *)
(***************************************************************************)
EXTENDS Console, FiniteSetTheorems, TLAPS

-----------------------------------------------------------------------------
(* The invariant.                                                           *)

PageStatuses == {Statuses[i] : i \in DOMAIN Statuses}

\* The buttons that the handlers of page p may release.
PageFlags(p) ==
  CASE p \in {"products", "returns"} -> {"row"}
    [] p \in {"inventory", "new product", "brands", "categories", "locations", "imports", "connect"} -> {"save"}
    [] p = "orders" -> {"panel", "section"}
    [] p = "privacy" -> {}
    [] OTHER -> Flags

\* The pages all of whose handlers load the list, if they are not loads or
\* looks at one row themselves.
AllLoad == {"inventory", "returns", "locations", "extraction"}

\* The handlers whose answer the page shows as its list.
Hydrates(c, p) ==
  \/ p = "product" /\ c.kind \in {"save", "publish"}
  \/ p = "connect" /\ c.kind = "account"

\* What a call is about and closes over.
Asks(c) ==
  /\ c.kind # "load" => c.row \in Rows
  /\ c.kind \in RowWrites => c.back \in Queries
  /\ c.kind \in Parcels => c.back \in Rows /\ c.sets \in ParcelStatus
  /\ c.lists => c.back \in Queries

\* Which handlers load the list or set it.
SetsTheList(c, p) ==
  /\ c.kind \in {"load", "refund"} \/ Hydrates(c, p) => c.lists
  /\ p \in AllLoad /\ c.kind \notin {"load", "open"} => c.lists
  /\ c.kind \in Parcels \union {"section"} => ~c.lists
  /\ c.kind = "open" /\ c.lists => p = "extraction"
  /\ p = "products" /\ c.lists => c.kind = "load"

\* Which button a handler releases; a form of the inventory that was closed
\* takes its handler's button with it.
ReleasesOwn(c, p, form) ==
  /\ c.flag \in PageFlags(p) \union {None}
  /\ c.kind \in Parcels \union {"section"} => c.flag \in {"section", None}
  /\ c.kind = "open" /\ ~c.lists => c.flag = None
  /\ c.kind = "load" /\ p \in Guarded => c.flag = None
  /\ c.kind \in Steps /\ p = "extraction" => c.flag \in {"upload", None}
  /\ p = "inventory" /\ c.flag # None =>
       /\ c.kind \in {"adjust", "create"}
       /\ form # None
       /\ (form.kind = "adjust") = (c.kind = "adjust")

\* An answer to a question about the list is one to the question's query.
Answered(c) == c.pc = "answered" /\ c.ok
AnswersTheQuery(c, v) ==
  /\ Answered(c) /\ c.kind \in RowWrites \union {"load"} =>
       c.got \in Lists /\ c.got.query = c.back /\ c.got.version <= v
  /\ Answered(c) /\ c.kind \in {"open", "section"} => c.got \in Glances

CallFits(c, p, form, v) ==
  c # None => Asks(c) /\ SetsTheList(c, p) /\ ReleasesOwn(c, p, form) /\ AnswersTheQuery(c, v)

CallsInv == \A k \in Slots : CallFits(call[k], page, win.form, version)

\* A row only ever gets a status of its page.
WritesInv ==
  \A k \in Slots : call[k] # None /\ call[k].kind \in RowWrites => call[k].sets \in PageStatuses \union {None, "same"}

\* Who may set the list, and with what.
MaySet(k) == call[k] # None /\ call[k].lists
Loads(k) == call[k] # None /\ call[k].kind = "load"
Told(k) == call[k] # None /\ Answered(call[k]) /\ (call[k].kind = "load" \/ Hydrates(call[k], page))
WillLoad(k) == MaySet(k) /\ call[k].kind = "open"

\* Whatever will set the list asks for the present query, unless answers
\* overlapped on a page that does not guard against it.
PresentIsAsked ==
  page \in Guarded \/ ~win.raced => \A k \in Slots : MaySet(k) => call[k].back = win.query

\* Where a handler shows its own answer, it is alone.
OneSetsTheList ==
  ~win.raced /\ page \in {"product", "connect"} =>
    \A j, k \in Slots : MaySet(j) /\ MaySet(k) => j = k

\* What comes, or what is loaded afterwards, is not older than what the user wrote.
AnswersAreFresh ==
  ~win.raced => \/ \E k \in Slots : WillLoad(k)
                \/ \A k \in Slots : Told(k) => call[k].got.version >= win.mine

ListIsFresh ==
  win.here /\ page # "imports" /\ ~win.failed /\ ~win.raced =>
    \/ \E k \in Slots : WillLoad(k) \/ Loads(k)
    \/ win.list # None /\ win.list.query = win.query /\ win.list.version >= win.mine

GuardedIsCurrent ==
  win.here /\ page \in Guarded /\ ~win.failed /\ ~win.loading =>
    win.list # None /\ win.list.query = win.query

ListInv ==
  /\ win.mine <= version
  /\ PresentIsAsked /\ OneSetsTheList /\ AnswersAreFresh /\ ListIsFresh /\ GuardedIsCurrent

ConsoleInv == TypeOK /\ CallsInv /\ WritesInv /\ ListInv /\ WindowWaits
-----------------------------------------------------------------------------
(* Proofs.  What a step of a page does to its list.                         *)

\* The same handler, which may have lost its button.
SameCall(c, d) ==
  /\ d.kind = c.kind /\ d.row = c.row /\ d.sets = c.sets /\ d.back = c.back /\ d.lists = c.lists
  /\ d.pc = c.pc /\ d.ok = c.ok /\ d.got = c.got

SameList ==
  /\ win'.query = win.query /\ win'.list = win.list /\ win'.loading = win.loading /\ win'.failed = win.failed
  /\ win'.mine = win.mine

\* A handler that will set the list asks for the present query, or goes on from
\* one that would have.
AsksNow(j) ==
  \/ MaySet(j) /\ call'[j].back = call[j].back
  \/ call'[j].back = win.query

\* A handler that is the first to set the list is alone.
ComesAlone ==
  \/ \A j \in Slots : call'[j] # None /\ call'[j].lists => MaySet(j)
  \/ /\ \A i \in Slots : ~MaySet(i)
     /\ \A i, j \in Slots : call'[i] # None /\ call'[i].lists /\ call'[j] # None /\ call'[j].lists => i = j

\* Only other calls come and go.
OthersComeAndGo ==
  /\ \A j \in Slots : Loads(j) \/ WillLoad(j) => call'[j] # None /\ SameCall(call[j], call'[j])
  /\ \A j \in Slots : call'[j] # None =>
       \/ call[j] # None /\ SameCall(call[j], call'[j])
       \/ call'[j].pc = "sent" /\ call'[j].kind # "load" /\ (call'[j].lists => AsksNow(j))

LEMMA QuietStep ==
  ASSUME ListInv, UNCHANGED <<page, version>>, SameList, OthersComeAndGo,
         page \in {"product", "connect"} /\ ~win'.raced => ComesAlone,
         win'.here => win.here, win.raced => win'.raced
  PROVE  ListInv'
<1> USE DEF ListInv, SameList
<1>1. win'.mine <= version'
  OBVIOUS
<1>2. PresentIsAsked'
  BY DEF PresentIsAsked, OthersComeAndGo, SameCall, MaySet, AsksNow
<1>3. OneSetsTheList'
  BY DEF OneSetsTheList, ComesAlone, MaySet
<1>4. AnswersAreFresh'
  <2> SUFFICES ASSUME ~win'.raced PROVE AnswersAreFresh'
    BY DEF AnswersAreFresh
  <2>1. CASE \E k \in Slots : WillLoad(k)
    BY <2>1 DEF AnswersAreFresh, OthersComeAndGo, SameCall, WillLoad, MaySet
  <2>2. CASE \A k \in Slots : Told(k) => call[k].got.version >= win.mine
    BY <2>2 DEF AnswersAreFresh, OthersComeAndGo, SameCall, Told, Answered, Hydrates
  <2> QED  BY <2>1, <2>2 DEF AnswersAreFresh
<1>5. ListIsFresh'
  BY DEF ListIsFresh, OthersComeAndGo, SameCall, WillLoad, MaySet, Loads
<1>6. GuardedIsCurrent'
  BY DEF GuardedIsCurrent
<1> QED  BY <1>1, <1>2, <1>3, <1>4, <1>5, <1>6

\* What is left of the calls when some end or lose their buttons; a look at a
\* row may begin.
FewerCalls(calls) ==
  \A j \in Slots : calls[j] # None => \/ call[j] # None /\ SameCall(call[j], calls[j])
                                      \/ calls[j].pc = "sent" /\ ~calls[j].lists

Loading(k, w, calls, q, flag, resumed) ==
  /\ \A j \in Slots : call'[j] = IF j = k THEN GetList(q, flag) ELSE calls[j]
  /\ win'.query = w.query /\ win'.list = w.list /\ win'.loading = TRUE /\ win'.mine = w.mine /\ win'.here = w.here
  /\ win'.raced = (ListsLater(calls) \/ (resumed /\ w.raced))

\* A handler that loads the list.
LEMMA LoadStep ==
  ASSUME ListInv, CallsInv, NEW k \in Slots, NEW w, NEW calls, NEW q, NEW flag, NEW resumed,
         UNCHANGED <<page, version>>,
         FewerCalls(calls), Loading(k, w, calls, q, flag, resumed),
         None \notin CallRow, GetList(q, flag) # None,
         w.mine <= version, w.raced = win.raced,
         page \in Guarded => q = w.query /\ (w.query = win.query \/ ~ListsLater(calls)),
         resumed => q = w.query \/ (~win.raced => q = w.query),
         ~resumed => q = w.query
  PROVE  ListInv'
<1> DEFINE c == GetList(q, flag)
<1>1. /\ c.kind = "load" /\ c.lists /\ c.pc = "sent" /\ c.back = q /\ c # None
  BY DEF GetList, Call
<1>2. \A j \in Slots : call'[j] = IF j = k THEN c ELSE calls[j]
  BY DEF Loading
<1>3. /\ win'.query = w.query /\ win'.list = w.list /\ win'.loading = TRUE /\ win'.mine = w.mine /\ win'.here = w.here
      /\ win'.raced = (ListsLater(calls) \/ (resumed /\ w.raced))
  BY DEF Loading
<1> HIDE DEF c
<1>4. ~win'.raced => \A j \in Slots : j # k => call'[j] = None \/ ~call'[j].lists
  BY <1>2, <1>3 DEF ListsLater
<1>5. win'.mine <= version'
  BY <1>3
<1>6. PresentIsAsked'
  <2>1. CASE page \in Guarded
    BY <2>1, <1>1, <1>2, <1>3 DEF PresentIsAsked, MaySet, ListInv, FewerCalls, SameCall, ListsLater
  <2>2. CASE ~win'.raced
    BY <2>2, <1>1, <1>2, <1>3, <1>4 DEF PresentIsAsked, MaySet
  <2> QED  BY <2>1, <2>2 DEF PresentIsAsked
<1>7. OneSetsTheList'
  BY <1>4 DEF OneSetsTheList, MaySet
<1>8. AnswersAreFresh'
  <2> SUFFICES ASSUME ~win'.raced, NEW j \in Slots, Told(j)' PROVE FALSE
    BY DEF AnswersAreFresh
  <2>1. j # k
    BY <1>1, <1>2 DEF Told, Answered
  <2>2. call[j] # None /\ call'[j].kind = call[j].kind /\ call'[j].lists = call[j].lists
    BY <2>1, <1>2 DEF Told, Answered, FewerCalls, SameCall
  <2>3. call[j].lists
    BY <2>2 DEF CallsInv, CallFits, SetsTheList, Told, Hydrates
  <2> QED  BY <2>1, <2>2, <2>3, <1>4 DEF Told
<1>9. ListIsFresh'
  BY <1>1, <1>2 DEF ListIsFresh, Loads
<1>10. GuardedIsCurrent'
  BY <1>3 DEF GuardedIsCurrent
<1> QED  BY <1>5, <1>6, <1>7, <1>8, <1>9, <1>10 DEF ListInv
\* What Release leaves alone.
LEMMA Released ==
  ASSUME NEW w \in Window, NEW flag
  PROVE  /\ Release(w, flag) \in Window
         /\ Release(w, flag).query = w.query /\ Release(w, flag).list = w.list /\ Release(w, flag).loading = w.loading
         /\ Release(w, flag).failed = w.failed /\ Release(w, flag).mine = w.mine /\ Release(w, flag).raced = w.raced
         /\ Release(w, flag).here = w.here /\ Release(w, flag).form = w.form /\ Release(w, flag).panel = w.panel
         /\ Release(w, flag).section = w.section
         /\ \A f \in Flags : Release(w, flag).busy[f] = IF f = flag THEN None ELSE w.busy[f]
<1> DEFINE busy == [f \in Flags |-> IF f = flag THEN None ELSE w.busy[f]]
<1>1. w.busy \in [Flags -> Rows \union {None, "on"}]
  BY DEF Window
<1>2. busy \in [Flags -> Rows \union {None, "on"}] /\ \A f \in Flags : busy[f] = IF f = flag THEN None ELSE w.busy[f]
  BY <1>1
<1>3. Release(w, flag) = [w EXCEPT !.busy = busy]
  BY DEF Release
<1> HIDE DEF busy
<1> QED  BY <1>2, <1>3 DEF Window

\* What Acknowledged does.
LEMMA Acknowledges ==
  ASSUME win \in Window, NEW k, call[k].got \in Lists, call[k].got.version <= version, win.mine <= version
  PROVE  /\ Acknowledged(k) \in Window
         /\ Acknowledged(k).query = win.query /\ Acknowledged(k).list = win.list /\ Acknowledged(k).loading = win.loading
         /\ Acknowledged(k).failed = win.failed /\ Acknowledged(k).raced = win.raced /\ Acknowledged(k).here = win.here
         /\ Acknowledged(k).form = win.form /\ Acknowledged(k).panel = win.panel /\ Acknowledged(k).busy = win.busy
         /\ Acknowledged(k).section = win.section
         /\ Acknowledged(k).mine <= version /\ Acknowledged(k).mine >= win.mine
         /\ Acknowledged(k).mine \in {win.mine, call[k].got.version} /\ Acknowledged(k).mine >= call[k].got.version
<1> DEFINE m == IF call[k].got.version > win.mine THEN call[k].got.version ELSE win.mine
<1>1. win.mine \in Nat /\ call[k].got.version \in Nat
  BY DEF Window, Lists
<1>2. m \in Nat /\ m <= version /\ m >= win.mine /\ m \in {win.mine, call[k].got.version} /\ m >= call[k].got.version
  BY <1>1
<1>3. Acknowledged(k) = [win EXCEPT !.mine = m]
  BY DEF Acknowledged
<1> HIDE DEF m
<1> QED  BY <1>2, <1>3 DEF Window

LEMMA GoneCall ==
  ASSUME TypeOK, NEW k \in Slots
  PROVE  /\ DOMAIN Without(k) = Slots /\ Without(k) \in [Slots -> CallRow \union {None}]
         /\ \A j \in Slots : Without(k)[j] = IF j = k THEN None ELSE call[j]
BY DEF TypeOK, Without

\* A list arrives.
LEMMA ListStep ==
  ASSUME ConsoleInv, NEW k \in Slots, ListArrives(k) PROVE ListInv'
<1> DEFINE c == call[k]
           w == Release(win, c.flag)
<1>1. c # None /\ c.kind = "load" /\ Answered(c) /\ c.lists /\ c.got \in Lists /\ c.got.query = c.back
  BY DEF ListArrives, At, ConsoleInv, CallsInv, CallFits, SetsTheList, AnswersTheQuery, Answered
<1>2. w \in Window /\ w.query = win.query /\ w.mine = win.mine /\ w.raced = win.raced /\ w.here = win.here
  BY Released DEF ConsoleInv, TypeOK
<1>3. win' = [w EXCEPT !.list = c.got, !.loading = FALSE, !.failed = FALSE] /\ UNCHANGED <<page, version>>
  BY DEF ListArrives, serverVars
<1>4. \A j \in Slots : call'[j] = IF j = k THEN None ELSE call[j]
  BY GoneCall DEF ListArrives, ConsoleInv
<1> HIDE DEF w
<1>5. /\ win'.query = win.query /\ win'.mine = win.mine /\ win'.raced = win.raced /\ win'.here = win.here
      /\ win'.list = c.got /\ win'.loading = FALSE /\ win'.failed = FALSE
  BY <1>2, <1>3 DEF Window
<1> HIDE DEF c
<1>6. ListInv
  BY DEF ConsoleInv
<1>7. win'.mine <= version'
  BY <1>3, <1>5, <1>6 DEF ListInv
<1>8. PresentIsAsked' /\ OneSetsTheList'
  BY <1>3, <1>4, <1>5, <1>6 DEF ListInv, PresentIsAsked, OneSetsTheList, MaySet
<1>9. (\E j \in Slots : WillLoad(j)) => \E j \in Slots : WillLoad(j)'
  BY <1>1, <1>4 DEF WillLoad, MaySet, c
<1>10. \A j \in Slots : Told(j)' => Told(j) /\ call'[j] = call[j]
  BY <1>3, <1>4 DEF Told
<1>11. AnswersAreFresh'
  BY <1>5, <1>6, <1>9, <1>10 DEF ListInv, AnswersAreFresh
<1>12. page \in Guarded \/ ~win.raced => c.got.query = win.query
  BY <1>1, <1>6 DEF ListInv, PresentIsAsked, MaySet, c
<1>13. ~win.raced => (\E j \in Slots : WillLoad(j)) \/ c.got.version >= win.mine
  BY <1>1, <1>6 DEF ListInv, AnswersAreFresh, Told, c
<1>14. None \notin Lists
  BY ConsoleAssumption
<1>15. ListIsFresh'
  BY <1>1, <1>5, <1>9, <1>12, <1>13, <1>14 DEF ListIsFresh
<1>16. GuardedIsCurrent'
  BY <1>1, <1>3, <1>5, <1>12, <1>14 DEF GuardedIsCurrent
<1> QED  BY <1>7, <1>8, <1>11, <1>15, <1>16 DEF ListInv

\* A load fails.
LEMMA FailureStep ==
  ASSUME ConsoleInv, NEW k \in Slots, FailureArrives(k), call[k].kind = "load" PROVE ListInv'
<1> DEFINE w == Release(win, call[k].flag)
<1>1. w \in Window /\ w.query = win.query /\ w.mine = win.mine /\ w.raced = win.raced
  BY Released DEF ConsoleInv, TypeOK
<1>2. win' = [w EXCEPT !.loading = FALSE, !.failed = TRUE] /\ UNCHANGED <<page, version>>
  BY DEF FailureArrives, serverVars
<1>3. \A j \in Slots : call'[j] = IF j = k THEN None ELSE call[j]
  BY GoneCall DEF FailureArrives, ConsoleInv
<1> HIDE DEF w
<1>4. win'.query = win.query /\ win'.mine = win.mine /\ win'.raced = win.raced /\ win'.failed = TRUE
  BY <1>1, <1>2 DEF Window
<1>5. ListInv
  BY DEF ConsoleInv
<1>6. win'.mine <= version' /\ PresentIsAsked' /\ OneSetsTheList' /\ ListIsFresh' /\ GuardedIsCurrent'
  BY <1>2, <1>3, <1>4, <1>5 DEF ListInv, PresentIsAsked, OneSetsTheList, MaySet, ListIsFresh, GuardedIsCurrent
<1>7. (\E j \in Slots : WillLoad(j)) => \E j \in Slots : WillLoad(j)'
  BY <1>3 DEF WillLoad, MaySet
<1>8. \A j \in Slots : Told(j)' => Told(j) /\ call'[j] = call[j]
  BY <1>2, <1>3 DEF Told
<1>9. AnswersAreFresh'
  BY <1>4, <1>5, <1>7, <1>8 DEF ListInv, AnswersAreFresh
<1> QED  BY <1>6, <1>9 DEF ListInv
\* A page shows the answer to its own write.
LEMMA ShownStep ==
  ASSUME ConsoleInv, NEW k \in Slots, call[k] # None, Hydrates(call[k], page), Answered(call[k]),
         UNCHANGED <<page, version>>, call' = Without(k),
         win'.query = win.query, win'.list = call[k].got, win'.loading = win.loading,
         win'.failed \in {win.failed, FALSE}, page \in Guarded => win'.failed = win.failed,
         win'.mine = Acknowledged(k).mine, win'.raced = win.raced, win'.here = win.here
  PROVE  ListInv'
<1> DEFINE c == call[k]
<1>1. /\ c # None /\ Hydrates(c, page) /\ Answered(c) /\ c.lists /\ c.got \in Lists
      /\ c.got.query = c.back /\ c.got.version <= version /\ c.kind # "open"
  BY DEF ConsoleInv, CallsInv, CallFits, SetsTheList, AnswersTheQuery, Answered, Hydrates, RowWrites
<1>2. ListInv /\ win.mine <= version /\ win \in Window
  BY DEF ConsoleInv, ListInv, TypeOK
<1>3. win'.mine <= version /\ win'.mine \in {win.mine, c.got.version}
  BY <1>1, <1>2, Acknowledges
<1>4. \A j \in Slots : call'[j] = IF j = k THEN None ELSE call[j]
  BY GoneCall DEF ConsoleInv
<1> HIDE DEF c
<1>5. page \in {"product", "connect"}
  BY <1>1 DEF Hydrates
<1>6. PresentIsAsked' /\ OneSetsTheList'
  BY <1>2, <1>4 DEF ListInv, PresentIsAsked, OneSetsTheList, MaySet
<1>7. page \in Guarded \/ ~win.raced => c.got.query = win.query
  BY <1>1, <1>2 DEF ListInv, PresentIsAsked, MaySet, c
<1>8. \A j \in Slots : ~win.raced /\ j # k => ~MaySet(j)
  BY <1>1, <1>2, <1>5 DEF ListInv, OneSetsTheList, MaySet, c
<1>9. ~win.raced => \A j \in Slots : ~WillLoad(j)
  BY <1>1, <1>8 DEF WillLoad, c
<1>10. \A j \in Slots : Told(j) => MaySet(j)
  BY DEF Told, MaySet, ConsoleInv, CallsInv, CallFits, SetsTheList
<1>11. \A j \in Slots : ~win.raced => ~Told(j)'
  BY <1>4, <1>8, <1>10 DEF Told
<1>12. AnswersAreFresh'
  BY <1>11 DEF AnswersAreFresh
<1>13. ~win.raced => c.got.version >= win.mine
  BY <1>1, <1>2, <1>9 DEF ListInv, AnswersAreFresh, Told, c
<1>14. None \notin Lists /\ win.mine \in Nat /\ c.got.version \in Nat
  BY <1>1, <1>2, ConsoleAssumption DEF Lists, Window
<1>15. ListIsFresh'
  BY <1>1, <1>3, <1>7, <1>13, <1>14 DEF ListIsFresh, c
<1>16. GuardedIsCurrent'
  BY <1>1, <1>7, <1>14 DEF GuardedIsCurrent, c
<1> QED  BY <1>3, <1>6, <1>12, <1>15, <1>16 DEF ListInv

\* A review is acknowledged before the job is opened again and the list loaded.
LEMMA ReviewedStep ==
  ASSUME ConsoleInv, NEW k \in Slots, Reviewed(k) PROVE ListInv'
<1> DEFINE c == call[k]
           d == Call("open", c.row, None, c.back, c.flag, TRUE)
<1>1. c # None /\ Answered(c) /\ c.kind \in {"accept", "barcode"} /\ c.lists /\ c.got \in Lists /\ c.got.version <= version
  BY DEF Reviewed, At, OnJobs, ConsoleInv, CallsInv, CallFits, SetsTheList, AllLoad, AnswersTheQuery, Answered, RowWrites
<1>2. ListInv /\ win.mine <= version /\ win \in Window /\ page = "extraction"
  BY DEF ConsoleInv, ListInv, TypeOK, Reviewed, OnJobs
<1>3. win' = Acknowledged(k) /\ UNCHANGED <<page, version>>
  BY DEF Reviewed, serverVars
<1>4. /\ win'.query = win.query /\ win'.mine <= version /\ win'.raced = win.raced
  BY <1>1, <1>2, <1>3, Acknowledges
<1>5. \A j \in Slots : call'[j] = IF j = k THEN d ELSE call[j]
  BY DEF Reviewed, ConsoleInv, TypeOK
<1>6. d.kind = "open" /\ d.back = c.back /\ d.lists /\ d.pc = "sent"
  BY DEF Call
<1>7. d # None
  <2>1. c.row \in Rows \union {None} /\ c.back \in Queries \union Rows \union {None} /\ c.flag \in Flags \union {None}
    BY <1>1 DEF ConsoleInv, TypeOK, CallRow
  <2>2. d \in CallRow
    BY <2>1 DEF CallRow, Call, Reads, RowStatus
  <2> QED  BY <2>2, ConsoleAssumption
<1> HIDE DEF c, d
<1>8. WillLoad(k)'
  BY <1>5, <1>6, <1>7 DEF WillLoad, MaySet
<1>9. PresentIsAsked'
  BY <1>1, <1>2, <1>3, <1>4, <1>5, <1>6 DEF ListInv, PresentIsAsked, MaySet, c
<1>10. OneSetsTheList' /\ GuardedIsCurrent'
  BY <1>2, <1>3 DEF OneSetsTheList, GuardedIsCurrent, Guarded
<1>11. AnswersAreFresh' /\ ListIsFresh'
  BY <1>8 DEF AnswersAreFresh, ListIsFresh
<1> QED  BY <1>3, <1>4, <1>9, <1>10, <1>11 DEF ListInv
-----------------------------------------------------------------------------
(* What the API answers.                                                    *)

LEMMA PageStatusesTyped == PageStatuses \subseteq RowStatus /\ \A i \in DOMAIN Statuses : Statuses[i] \in PageStatuses
<1>1. Statuses \in {<<"PAID", "REFUNDED">>, <<"REQUESTED", "APPROVED", "REJECTED", "REFUNDED">>,
                    <<"QUEUED", "AWAITING_REVIEW">>, <<"DRAFT", "ACTIVE">>, <<"LISTED">>}
  BY DEF Statuses
<1>2. \A i \in DOMAIN Statuses : Statuses[i] \in RowStatus
  BY <1>1 DEF RowStatus
<1> QED  BY <1>2 DEF PageStatuses

LEMMA SamePage == ASSUME page' = page PROVE PageStatuses' = PageStatuses
BY DEF PageStatuses, Statuses

LEMMA OrderTyped == /\ \A i \in DOMAIN Order : Order[i] \in Rows
                    /\ IsFiniteSet(DOMAIN Order) /\ Order[1] \in Rows /\ New \in Rows
<1>1. Order \in Seq(Rows) /\ Order # <<>>
  BY ConsoleAssumption
<1>2. Len(Order) \in Nat /\ DOMAIN Order = 1..Len(Order) /\ Len(Order) # 0
  BY <1>1
<1>3. IsFiniteSet(1..Len(Order))
  BY <1>2, FS_Interval
<1> QED  BY <1>2, <1>3 DEF Rows, New

LEMMA FoundTyped ==
  ASSUME NEW q \in Queries, NEW table \in [Rows -> RowStatus], NEW at \in Nat
  PROVE  Found(q, table, at) \in Lists /\ Found(q, table, at).query = q /\ Found(q, table, at).version = at
<1> DEFINE dom == IF page = "product" THEN {Order[1]} ELSE {Order[i] : i \in OnPage(q, table)}
           rows == [r \in dom |-> table[r]]
           total == Cardinality(Existing(table))
<1>1. Existing(table) \subseteq DOMAIN Order /\ OnPage(q, table) \subseteq DOMAIN Order
  BY DEF Existing, OnPage
<1>2. total \in Nat
  BY <1>1, OrderTyped, FS_Subset, FS_CardinalityType
<1>3. dom \in SUBSET Rows
  BY <1>1, OrderTyped
<1>4. Found(q, table, at) = [query |-> q, total |-> total, version |-> at, rows |-> rows]
  BY DEF Found
<1> HIDE DEF dom, total
<1>5. rows \in [dom -> RowStatus]
  BY <1>3
<1> HIDE DEF rows
<1>6. rows \in UNION {[rs -> RowStatus] : rs \in SUBSET Rows}
  BY <1>3, <1>5
<1> QED  BY <1>2, <1>4, <1>6 DEF Lists

Replied(c, ok, got) == [c EXCEPT !.pc = "answered", !.ok = ok, !.got = got]

LEMMA CallAnswered ==
  ASSUME NEW c \in CallRow, NEW ok \in BOOLEAN, NEW got \in Lists \union Glances \union {None}
  PROVE  /\ Replied(c, ok, got) \in CallRow
         /\ Replied(c, ok, got).kind = c.kind /\ Replied(c, ok, got).row = c.row /\ Replied(c, ok, got).sets = c.sets
         /\ Replied(c, ok, got).back = c.back /\ Replied(c, ok, got).flag = c.flag /\ Replied(c, ok, got).lists = c.lists
         /\ Replied(c, ok, got).pc = "answered" /\ Replied(c, ok, got).ok = ok /\ Replied(c, ok, got).got = got
<1> SUFFICES ASSUME NEW d, d = Replied(c, ok, got)
             PROVE  /\ d \in CallRow
                    /\ d.kind = c.kind /\ d.row = c.row /\ d.sets = c.sets
                    /\ d.back = c.back /\ d.flag = c.flag /\ d.lists = c.lists
                    /\ d.pc = "answered" /\ d.ok = ok /\ d.got = got
  OBVIOUS
<1>1. DOMAIN c = {"kind", "row", "sets", "back", "flag", "lists", "pc", "ok", "got"}
  BY DEF CallRow
<1>2. /\ d.kind = c.kind /\ d.row = c.row /\ d.sets = c.sets
      /\ d.back = c.back /\ d.flag = c.flag /\ d.lists = c.lists
      /\ d.pc = "answered" /\ d.ok = ok /\ d.got = got
  BY <1>1 DEF Replied
<1>3. d = [kind |-> d.kind, row |-> d.row, sets |-> d.sets, back |-> d.back, flag |-> d.flag, lists |-> d.lists,
           pc |-> d.pc, ok |-> d.ok, got |-> d.got]
  BY <1>1 DEF Replied
<1> QED  BY <1>2, <1>3 DEF CallRow

\* A call is answered.
LEMMA AnswerTyped ==
  ASSUME TypeOK, NEW k \in Slots, call[k] # None, NEW ok \in BOOLEAN, NEW got, Answer(k, ok, got),
         got \in Lists \union Glances \union {None}
  PROVE  /\ call' \in [Slots -> CallRow \union {None}]
         /\ \A j \in Slots : j # k => call'[j] = call[j]
         /\ call'[k] \in CallRow /\ call'[k] # None
         /\ call'[k].kind = call[k].kind /\ call'[k].row = call[k].row /\ call'[k].sets = call[k].sets
         /\ call'[k].back = call[k].back /\ call'[k].flag = call[k].flag /\ call'[k].lists = call[k].lists
         /\ call'[k].pc = "answered" /\ call'[k].ok = ok /\ call'[k].got = got
<1>1. call[k] \in CallRow
  BY DEF TypeOK
<1> DEFINE d == Replied(call[k], ok, got)
<1>2. /\ d \in CallRow
      /\ d.kind = call[k].kind /\ d.row = call[k].row /\ d.sets = call[k].sets
      /\ d.back = call[k].back /\ d.flag = call[k].flag /\ d.lists = call[k].lists
      /\ d.pc = "answered" /\ d.ok = ok /\ d.got = got
  BY <1>1, CallAnswered
<1>3. call' = [call EXCEPT ![k] = d]
  BY DEF Answer, Replied
<1>4. d # None
  BY <1>2, ConsoleAssumption
<1> HIDE DEF d
<1> QED  BY <1>2, <1>3, <1>4 DEF TypeOK

\* An answer that is true to its question keeps what is under way in order.
AnswersNow(k) ==
  /\ call'[k].ok /\ call[k].kind \in RowWrites \union {"load"} =>
       call'[k].got \in Lists /\ call'[k].got.query = call[k].back /\ call'[k].got.version = version'
  /\ call'[k].ok /\ call[k].kind \in {"open", "section"} => call'[k].got \in Glances

LEMMA ServerKeeps ==
  ASSUME ConsoleInv, NEW k \in Slots, call[k] # None, NEW ok \in BOOLEAN, NEW got, Answer(k, ok, got),
         got \in Lists \union Glances \union {None}, AnswersNow(k),
         UNCHANGED <<page, win>>, version' \in Nat, version' >= version
  PROVE  CallsInv' /\ WritesInv' /\ ListInv' /\ WindowWaits'
<1> DEFINE d == call'[k]
<1>1. /\ \A j \in Slots : j # k => call'[j] = call[j]
      /\ d # None /\ d.kind = call[k].kind /\ d.row = call[k].row /\ d.sets = call[k].sets
      /\ d.back = call[k].back /\ d.flag = call[k].flag /\ d.lists = call[k].lists
      /\ d.pc = "answered"
  BY AnswerTyped DEF ConsoleInv
<1>2. version \in Nat /\ win \in Window /\ win.mine \in Nat
  BY DEF ConsoleInv, TypeOK, Window
<1>3. \A j \in Slots : CallFits(call[j], page, win.form, version)
  BY DEF ConsoleInv, CallsInv
<1>4. ASSUME NEW j \in Slots PROVE CallFits(call'[j], page, win.form, version')
  <2>1. CASE j # k
    <3>1. call[j] # None /\ AnswersTheQuery(call[j], version) => AnswersTheQuery(call[j], version')
      BY <1>2 DEF AnswersTheQuery, Lists
    <3> QED  BY <2>1, <3>1, <1>1, <1>3 DEF CallFits
  <2>2. CASE j = k
    <3>1. Asks(call[k]) /\ SetsTheList(call[k], page) /\ ReleasesOwn(call[k], page, win.form)
      BY <1>3 DEF CallFits
    <3>2. Asks(d) /\ SetsTheList(d, page) /\ ReleasesOwn(d, page, win.form)
      BY <3>1, <1>1 DEF Asks, SetsTheList, ReleasesOwn, Hydrates
    <3>3. AnswersTheQuery(d, version')
      BY <1>1, <1>2 DEF AnswersTheQuery, AnswersNow, Answered
    <3> QED  BY <2>2, <3>2, <3>3 DEF CallFits
  <2> QED  BY <2>1, <2>2
<1>5. CallsInv'
  BY <1>4 DEF CallsInv
<1>6. WritesInv'
  BY <1>1, SamePage DEF ConsoleInv, WritesInv
<1>7. ListInv /\ win.mine <= version'
  BY <1>2 DEF ConsoleInv, ListInv
<1>8. \A j \in Slots : (MaySet(j)' = MaySet(j)) /\ (WillLoad(j)' = WillLoad(j)) /\ (Loads(j)' = Loads(j))
  BY <1>1 DEF MaySet, WillLoad, Loads
<1>9. PresentIsAsked' /\ OneSetsTheList' /\ ListIsFresh' /\ GuardedIsCurrent'
  BY <1>1, <1>7, <1>8 DEF ListInv, PresentIsAsked, OneSetsTheList, ListIsFresh, GuardedIsCurrent
<1>10. AnswersAreFresh'
  <2> SUFFICES ASSUME ~win.raced, \A j \in Slots : ~WillLoad(j), NEW j \in Slots, Told(j)'
               PROVE  call'[j].got.version >= win.mine
    BY <1>8 DEF AnswersAreFresh
  <2>1. CASE j # k
    BY <2>1, <1>1, <1>7 DEF ListInv, AnswersAreFresh, Told, Hydrates
  <2>2. CASE j = k
    BY <2>2, <1>1, <1>2, <1>7 DEF Told, Answered, AnswersNow, Hydrates, RowWrites
  <2> QED  BY <2>1, <2>2
<1>11. WindowWaits'
  BY <1>1 DEF ConsoleInv, WindowWaits
<1> QED  BY <1>5, <1>6, <1>7, <1>9, <1>10, <1>11 DEF ListInv
\* A request that writes leaves the rows in order.
LEMMA WriteTyped ==
  ASSUME ConsoleInv, NEW k \in Slots, Writes(k), page' = page
  PROVE  /\ call[k] # None /\ call[k].kind \in RowWrites /\ call[k].back \in Queries
         /\ row' \in [Rows -> PageStatuses \union {None, "new"}] /\ row' \in [Rows -> RowStatus]
         /\ version' \in Nat /\ version' >= version
<1>1. call[k] # None /\ call[k].kind \in RowWrites
  BY DEF Writes, Sent, ConsoleInv, TypeOK, CallRow
<1>2. call[k].back \in Queries /\ call[k].sets \in PageStatuses \union {None, "same"}
  BY <1>1 DEF ConsoleInv, CallsInv, CallFits, Asks, WritesInv
<1>3. row \in [Rows -> PageStatuses \union {None, "new"}]
  BY DEF ConsoleInv, TypeOK, PageStatuses
<1>4. row' \in [Rows -> PageStatuses \union {None, "new"}]
  BY <1>2, <1>3 DEF Writes
<1>5. PageStatuses \union {None, "new"} \subseteq RowStatus
  BY PageStatusesTyped DEF RowStatus
<1>6. row' \in [Rows -> RowStatus]
  BY <1>4, <1>5
<1>7. version' \in Nat /\ version' >= version
  BY DEF Writes, ConsoleInv, TypeOK
<1> QED  BY <1>1, <1>2, <1>4, <1>6, <1>7

LEMMA ServerStepKeeps ==
  ASSUME ConsoleInv, NEW k \in Slots, ServerStep(k) \/ Fault(k) PROVE ConsoleInv'
<1>1. /\ page' = page /\ win' = win /\ clicks' = clicks /\ others' = others
      /\ call[k] # None /\ call[k] \in CallRow /\ win \in Window /\ version \in Nat
  BY DEF ServerStep, Fault, Read, Write, Handle, Refuse, serverVars, Writes, Sent, ConsoleInv, TypeOK
<1>2. row \in [Rows -> PageStatuses \union {None, "new"}] /\ shipment \in [Rows -> ParcelStatus]
  BY DEF ConsoleInv, TypeOK, PageStatuses
<1>3. PageStatuses \union {None, "new"} \subseteq RowStatus
  BY PageStatusesTyped DEF RowStatus
<1>4. row \in [Rows -> RowStatus]
  BY <1>2, <1>3
<1>5. /\ call[k].kind # "load" => call[k].row \in Rows
      /\ call[k].kind = "load" => call[k].back \in Queries
      /\ call[k].kind \in Parcels => call[k].sets \in ParcelStatus
  BY <1>1 DEF ConsoleInv, CallsInv, CallFits, Asks, SetsTheList
<1>6. SUFFICES /\ row' \in [Rows -> PageStatuses \union {None, "new"}]
               /\ shipment' \in [Rows -> ParcelStatus]
               /\ version' \in Nat /\ version' >= version
               /\ faults' \in 0..MaxFaults
               /\ \E ok \in BOOLEAN : \E got \in Lists \union Glances \union {None} : Answer(k, ok, got) /\ AnswersNow(k)
  <2>1. PICK ok \in BOOLEAN, got \in Lists \union Glances \union {None} : Answer(k, ok, got) /\ AnswersNow(k)
    BY <1>6
  <2>2. call' \in [Slots -> CallRow \union {None}]
    BY <1>1, <2>1, AnswerTyped DEF ConsoleInv
  <2>3. PageStatuses' = PageStatuses
    BY <1>1, SamePage
  <2>4. TypeOK'
    BY <1>1, <1>6, <2>2, <2>3 DEF TypeOK, ConsoleInv, PageStatuses
  <2>5. CallsInv' /\ WritesInv' /\ ListInv' /\ WindowWaits'
    BY <1>1, <1>6, <2>1, ServerKeeps
  <2> QED  BY <2>4, <2>5 DEF ConsoleInv
<1>7. CASE Read(k)
  <2>1. UNCHANGED <<row, shipment, version, faults>>
    BY <1>7 DEF Read, serverVars
  <2>2. \E ok \in BOOLEAN : \E got \in Lists \union Glances \union {None} : Answer(k, ok, got) /\ AnswersNow(k)
    <3>1. CASE call[k].kind = "load"
      <4> DEFINE ok == call[k].back.page > 0 /\ (page = "product" => Present(row[Order[1]]))
                 got == IF ok THEN Found(call[k].back, row, version) ELSE None
      <4>1. ok \in BOOLEAN /\ Answer(k, ok, got)
        BY <1>7, <3>1 DEF Read
      <4>2. /\ Found(call[k].back, row, version) \in Lists /\ Found(call[k].back, row, version).query = call[k].back
            /\ Found(call[k].back, row, version).version = version
        BY <1>1, <1>4, <1>5, <3>1, FoundTyped
      <4>3. got \in Lists \union Glances \union {None} /\ (ok => got = Found(call[k].back, row, version))
        BY <4>2
      <4> HIDE DEF ok, got
      <4>4. call'[k].ok = ok /\ call'[k].got = got
        BY <1>1, <4>1, <4>3, AnswerTyped DEF ConsoleInv
      <4>5. AnswersNow(k)
        BY <2>1, <3>1, <4>2, <4>3, <4>4 DEF AnswersNow
      <4> QED  BY <4>1, <4>3, <4>5
    <3>2. CASE call[k].kind = "open"
      <4> DEFINE ok == Present(row[call[k].row])
                 got == [of |-> call[k].row, status |-> row[call[k].row]]
      <4>1. ok \in BOOLEAN /\ Answer(k, ok, got)
        BY <1>7, <3>2 DEF Read, Present
      <4>2. got \in Glances
        BY <1>4, <1>5, <3>2 DEF Glances
      <4> HIDE DEF ok, got
      <4>3. call'[k].got = got
        BY <1>1, <4>1, <4>2, AnswerTyped DEF ConsoleInv
      <4>4. AnswersNow(k)
        BY <3>2, <4>2, <4>3 DEF AnswersNow, RowWrites
      <4> QED  BY <4>1, <4>2, <4>4
    <3>3. CASE call[k].kind = "section"
      <4> DEFINE got == [of |-> call[k].row, status |-> shipment[call[k].row]]
      <4>1. Answer(k, TRUE, got)
        BY <1>7, <3>3 DEF Read
      <4>2. got \in Glances
        BY <1>2, <1>5, <3>3 DEF Glances
      <4> HIDE DEF got
      <4>3. call'[k].got = got
        BY <1>1, <4>1, <4>2, AnswerTyped DEF ConsoleInv
      <4>4. AnswersNow(k)
        BY <3>3, <4>2, <4>3 DEF AnswersNow, RowWrites
      <4> QED  BY <4>1, <4>2, <4>4
    <3> QED  BY <1>7, <3>1, <3>2, <3>3 DEF Read, Reads
  <2> QED  BY <1>1, <1>2, <2>1, <2>2 DEF ConsoleInv, TypeOK
<1>8. CASE Write(k)
  <2> DEFINE got == Found(call[k].back, row', version')
  <2>1. /\ Answer(k, TRUE, got) /\ Writes(k) /\ UNCHANGED <<shipment, faults>>
    BY <1>8 DEF Write
  <2>2. /\ call[k].kind \in RowWrites /\ call[k].back \in Queries
        /\ row' \in [Rows -> PageStatuses \union {None, "new"}] /\ row' \in [Rows -> RowStatus]
        /\ version' \in Nat /\ version' >= version
    BY <1>1, <2>1, WriteTyped
  <2>3. got \in Lists /\ got.query = call[k].back /\ got.version = version'
    BY <2>2, FoundTyped
  <2> HIDE DEF got
  <2>4. call'[k].got = got
    BY <1>1, <2>1, <2>3, AnswerTyped DEF ConsoleInv
  <2>5. AnswersNow(k)
    BY <2>2, <2>3, <2>4 DEF AnswersNow, RowWrites
  <2> QED  BY <1>2, <2>1, <2>2, <2>3, <2>5 DEF ConsoleInv, TypeOK
<1>9. CASE Handle(k)
  <2>1. Answer(k, TRUE, None) /\ UNCHANGED <<row, version, faults>> /\ call[k].kind \in Steps \union Parcels
    BY <1>9 DEF Handle
  <2>2. shipment' \in [Rows -> ParcelStatus]
    BY <1>2, <1>5, <1>9 DEF Handle, Parcels
  <2>3. AnswersNow(k)
    BY <2>1 DEF AnswersNow, RowWrites, Steps, Parcels
  <2>4. \E ok \in BOOLEAN : \E got \in Lists \union Glances \union {None} : Answer(k, ok, got) /\ AnswersNow(k)
    BY <2>1, <2>3
  <2> QED  BY <1>1, <1>2, <2>1, <2>2, <2>4 DEF ConsoleInv, TypeOK
<1>10. CASE Refuse(k)
  <2>1. Answer(k, FALSE, None) /\ UNCHANGED <<row, shipment, version, faults>>
    BY <1>10 DEF Refuse, serverVars
  <2>2. call'[k].ok = FALSE
    BY <1>1, <2>1, AnswerTyped DEF ConsoleInv
  <2>3. AnswersNow(k)
    BY <2>2 DEF AnswersNow
  <2>4. \E ok \in BOOLEAN : \E got \in Lists \union Glances \union {None} : Answer(k, ok, got) /\ AnswersNow(k)
    BY <2>1, <2>3
  <2> QED  BY <1>1, <1>2, <2>1, <2>4 DEF ConsoleInv, TypeOK
<1>11. CASE Fault(k)
  <2>1. Answer(k, FALSE, None) /\ UNCHANGED shipment
    BY <1>11 DEF Fault
  <2>2. call'[k].ok = FALSE
    BY <1>1, <2>1, AnswerTyped DEF ConsoleInv
  <2>3. faults' \in 0..MaxFaults
    BY <1>11, ConsoleAssumption DEF Fault, ConsoleInv, TypeOK
  <2>4. row' \in [Rows -> PageStatuses \union {None, "new"}] /\ version' \in Nat /\ version' >= version
    BY <1>1, <1>2, <1>11, WriteTyped DEF Fault
  <2> QED  BY <1>2, <2>1, <2>2, <2>3, <2>4 DEF AnswersNow
<1> QED  BY <1>7, <1>8, <1>9, <1>10, <1>11 DEF ServerStep

LEMMA ElsewhereKeeps ==
  ASSUME ConsoleInv, NEW r \in Rows, Elsewhere(r) PROVE ConsoleInv'
<1>1. /\ UNCHANGED <<page, shipment, win, call, clicks, faults>> /\ version' = version + 1 /\ version \in Nat /\ version' \in Nat
  BY DEF Elsewhere, ConsoleInv, TypeOK
<1>2. PICK s \in PageStatuses \union {None} : row' = [row EXCEPT ![r] = s]
  BY DEF Elsewhere, PageStatuses
<1>3. row \in [Rows -> PageStatuses \union {None, "new"}]
  BY DEF ConsoleInv, TypeOK, PageStatuses
<1>4. row' \in [Rows -> PageStatuses \union {None, "new"}]
  BY <1>2, <1>3
<1>5. others' \in 0..MaxWrites
  BY ConsoleAssumption DEF Elsewhere, ConsoleInv, TypeOK
<1>6. PageStatuses' = PageStatuses
  BY <1>1, SamePage
<1>7. TypeOK'
  BY <1>1, <1>4, <1>5, <1>6 DEF ConsoleInv, TypeOK, PageStatuses
<1>8. CallsInv'
  <2> SUFFICES ASSUME NEW k \in Slots, call[k] # None PROVE CallFits(call[k], page, win.form, version')
    BY <1>1 DEF CallsInv, CallFits
  <2>1. CallFits(call[k], page, win.form, version)
    BY DEF ConsoleInv, CallsInv
  <2>2. AnswersTheQuery(call[k], version')
    BY <1>1, <2>1 DEF CallFits, AnswersTheQuery, Lists
  <2> QED  BY <2>1, <2>2 DEF CallFits
<1>9. WritesInv'
  BY <1>1, <1>6 DEF ConsoleInv, WritesInv
<1>10. win.mine \in Nat
  BY DEF ConsoleInv, TypeOK, Window
<1>11. ListInv'
  BY <1>1, <1>10 DEF ConsoleInv, ListInv, PresentIsAsked, OneSetsTheList, AnswersAreFresh, ListIsFresh, GuardedIsCurrent,
                MaySet, Loads, Told, WillLoad
<1>12. WindowWaits'
  BY <1>1 DEF ConsoleInv, WindowWaits
<1> QED  BY <1>7, <1>8, <1>9, <1>11, <1>12 DEF ConsoleInv
-----------------------------------------------------------------------------
(* What a step of a page does to everything else.                           *)

\* A handler begins: it asks for what it may and has read nothing.
Begins(c, form) ==
  /\ c.pc = "sent"
  /\ Asks(c) /\ SetsTheList(c, page) /\ ReleasesOwn(c, page, form)
  /\ c.kind \in RowWrites => c.sets \in PageStatuses \union {None, "same"}

GoesOn(c, d) == c # None /\ SameCall(c, d) /\ d.flag \in {c.flag, None}

HandlersGoOn ==
  /\ \A j \in Slots : call'[j] # None => GoesOn(call[j], call'[j]) \/ Begins(call'[j], win'.form)
  /\ page = "inventory" => \/ win'.form = win.form
                           \/ \A j \in Slots : call'[j] # None => call'[j].flag = None

\* Every button that is disabled, and the list, has a handler that was there
\* before and goes on, or one that begins.
ButtonsWait ==
  win'.here =>
    /\ win.here
    /\ win'.loading => \/ \E j \in Slots : call'[j] # None /\ call'[j].kind = "load"
                       \/ win.loading /\ \A j \in Slots : Loads(j) => call'[j] # None /\ call'[j].kind = "load"
    /\ \A f \in Flags : win'.busy[f] # None =>
         \/ \E j \in Slots : call'[j] # None /\ call'[j].flag = f
         \/ /\ win.busy[f] # None
            /\ \A j \in Slots : call[j] # None /\ call[j].flag = f => call'[j] # None /\ call'[j].flag = f

Clicks == UNCHANGED clicks \/ Clicked

LEMMA PageStep ==
  ASSUME ConsoleInv, UNCHANGED serverVars, Clicks, win' \in Window, call' \in [Slots -> CallRow \union {None}],
         HandlersGoOn, ButtonsWait, ListInv'
  PROVE  ConsoleInv'
<1>1. UNCHANGED <<page, row, shipment, version, faults, others>>
  BY DEF serverVars
<1>2. PageStatuses' = PageStatuses
  BY <1>1, SamePage
<1>3. TypeOK'
  <2>1. page \in PageNames /\ MaxClicks[page] \in Nat /\ clicks \in Nat
    BY ConsoleAssumption DEF ConsoleInv, TypeOK
  <2>2. clicks' \in 0..MaxClicks[page]
    BY <2>1 DEF Clicks, Clicked, ConsoleInv, TypeOK
  <2> QED  BY <1>1, <1>2, <2>2 DEF ConsoleInv, TypeOK, PageStatuses
<1>4. CallsInv'
  <2> SUFFICES ASSUME NEW j \in Slots, call'[j] # None PROVE CallFits(call'[j], page, win'.form, version)
    BY <1>1 DEF CallsInv, CallFits
  <2>1. CASE GoesOn(call[j], call'[j])
    <3>1. /\ Asks(call[j]) /\ SetsTheList(call[j], page) /\ ReleasesOwn(call[j], page, win.form)
          /\ AnswersTheQuery(call[j], version)
      BY <2>1 DEF ConsoleInv, CallsInv, CallFits, GoesOn
    <3>2. Asks(call'[j]) /\ SetsTheList(call'[j], page) /\ AnswersTheQuery(call'[j], version)
      BY <2>1, <3>1 DEF GoesOn, SameCall, Asks, SetsTheList, Hydrates, AnswersTheQuery, Answered
    <3>3. ReleasesOwn(call'[j], page, win.form)
      BY <2>1, <3>1 DEF GoesOn, SameCall, ReleasesOwn
    <3>4. ReleasesOwn(call'[j], page, win'.form)
      BY <3>3 DEF ReleasesOwn, HandlersGoOn
    <3> QED  BY <3>2, <3>4 DEF CallFits
  <2>2. CASE Begins(call'[j], win'.form)
    BY <2>2 DEF Begins, CallFits, AnswersTheQuery, Answered
  <2> QED  BY <2>1, <2>2 DEF HandlersGoOn
<1>5. WritesInv'
  BY <1>2 DEF ConsoleInv, WritesInv, HandlersGoOn, GoesOn, SameCall, Begins
<1>6. WindowWaits'
  BY DEF ConsoleInv, WindowWaits, ButtonsWait, Loads
<1> QED  BY <1>3, <1>4, <1>5, <1>6 DEF ConsoleInv

\* A handler that a click starts.
LEMMA SendKeeps ==
  ASSUME ConsoleInv, NEW flag \in Flags, NEW thing \in Rows \union {"on"}, NEW c \in CallRow,
         Send(win, flag, thing, c), c.flag = flag, c.kind \notin Reads, c.lists => c.back = win.query,
         Begins(c, win.form)
  PROVE  ConsoleInv'
<1>1. win \in Window /\ call \in [Slots -> CallRow \union {None}] /\ c # None
  BY ConsoleAssumption DEF ConsoleInv, TypeOK
<1>2. PICK n \in Slots : call[n] = None /\ call' = [call EXCEPT ![n] = c]
  BY DEF Send, FreeIn, FirstIn
<1>3. \A j \in Slots : call'[j] = IF j = n THEN c ELSE call[j]
  BY <1>1, <1>2
<1>4. call' \in [Slots -> CallRow \union {None}]
  BY <1>1, <1>2
<1> DEFINE raced == win.raced \/ (page \in {"product", "connect"} /\ c.lists /\ ListsLater(call))
           busy == [win.busy EXCEPT ![flag] = thing]
<1>5. raced \in BOOLEAN /\ (win.raced => raced)
  BY <1>1 DEF Window, ListsLater
<1>6. busy \in [Flags -> Rows \union {None, "on"}] /\ \A f \in Flags : f # flag => busy[f] = win.busy[f]
  BY <1>1 DEF Window
<1>7. win' = [win EXCEPT !.busy = busy, !.raced = raced] /\ UNCHANGED serverVars /\ Clicked
  BY DEF Send
<1>8. ~raced /\ page \in {"product", "connect"} /\ c.lists => \A j \in Slots : ~MaySet(j)
  BY DEF MaySet, ListsLater
<1> HIDE DEF raced, busy
<1>9. /\ win' \in Window
      /\ win'.query = win.query /\ win'.list = win.list /\ win'.loading = win.loading /\ win'.failed = win.failed
      /\ win'.mine = win.mine /\ win'.here = win.here /\ win'.form = win.form /\ win'.raced = raced /\ win'.busy = busy
  BY <1>1, <1>5, <1>6, <1>7 DEF Window
<1>10. HandlersGoOn
  <2>1. \A j \in Slots : call[j] # None => GoesOn(call[j], call[j])
    BY DEF GoesOn, SameCall
  <2> QED  BY <1>3, <1>9, <2>1 DEF HandlersGoOn
<1>11. ButtonsWait
  BY <1>1, <1>2, <1>3, <1>6, <1>9 DEF ButtonsWait, Loads
<1>12. SameList
  BY <1>9 DEF SameList
<1>13. OthersComeAndGo
  BY <1>2, <1>3 DEF OthersComeAndGo, Loads, WillLoad, MaySet, SameCall, AsksNow, Begins, Reads
<1>14. page \in {"product", "connect"} /\ ~win'.raced => ComesAlone
  BY <1>3, <1>8, <1>9 DEF ComesAlone, MaySet
<1>15. ListInv'
  BY <1>5, <1>7, <1>9, <1>12, <1>13, <1>14, QuietStep DEF ConsoleInv, serverVars
<1> QED  BY <1>4, <1>7, <1>9, <1>10, <1>11, <1>15, PageStep DEF Clicks
\* The calls that a handler leaves when it loads the list, and their buttons.
LeftInOrder(w, calls, flag) ==
  /\ \A j \in Slots : calls[j] # None => GoesOn(call[j], calls[j])
  /\ page = "inventory" => /\ flag = None
                           /\ w.form = win.form \/ \A j \in Slots : calls[j] # None => calls[j].flag = None
  /\ w.here => win.here
  /\ \A f \in Flags : w.busy[f] # None =>
       \/ f = flag
       \/ \E j \in Slots : calls[j] # None /\ calls[j].flag = f
       \/ win.busy[f] # None /\ \A j \in Slots : call[j] # None /\ call[j].flag = f => calls[j] # None /\ calls[j].flag = f

\* A handler that loads the list, in a slot that is free.
LEMMA LoadKeeps ==
  ASSUME ConsoleInv, NEW k \in Slots, NEW w \in Window, NEW calls \in [Slots -> CallRow \union {None}],
         NEW q \in Queries, NEW flag, NEW resumed \in BOOLEAN,
         UNCHANGED serverVars, Clicks, LoadIn(k, w, calls, q, flag, resumed),
         calls[k] = None, flag \in PageFlags(page) \union {None}, page \in Guarded => flag = None,
         LeftInOrder(w, calls, flag),
         w.mine <= version, w.raced = win.raced,
         page \in Guarded => q = w.query /\ (w.query = win.query \/ ~ListsLater(calls)),
         q = w.query \/ (resumed /\ (~win.raced => q = w.query))
  PROVE  ConsoleInv'
<1> DEFINE c == GetList(q, flag)
<1>1. flag \in Flags \union {None}
  BY DEF PageFlags, Flags
<1>2. /\ c \in CallRow /\ c # None
      /\ c.kind = "load" /\ c.back = q /\ c.flag = flag /\ c.lists /\ c.pc = "sent"
  <2>1. "load" \in Reads \union Steps \union Parcels \union RowWrites /\ None \in Rows \union {None}
        /\ None \in RowStatus \union ParcelStatus \union {"same"} /\ q \in Queries \union Rows \union {None}
    BY DEF Reads, RowStatus
  <2>2. c = Call("load", None, None, q, flag, TRUE)
    BY DEF GetList
  <2> HIDE DEF c
  <2>3. c \in CallRow
    BY <1>1, <2>1, <2>2 DEF Call, CallRow
  <2> QED  BY <2>2, <2>3, ConsoleAssumption DEF Call
<1>3. \A j \in Slots : call'[j] = IF j = k THEN c ELSE calls[j]
  BY DEF LoadIn
<1>4. call' \in [Slots -> CallRow \union {None}]
  BY <1>2 DEF LoadIn
<1> DEFINE raced == ListsLater(calls) \/ (resumed /\ w.raced)
<1>5. raced \in BOOLEAN
  BY DEF ListsLater
<1>6. win' = [w EXCEPT !.loading = TRUE, !.raced = raced]
  BY DEF LoadIn
<1> HIDE DEF raced
<1>7. win' \in Window /\ win'.busy = w.busy /\ win'.here = w.here /\ win'.form = w.form
  BY <1>5, <1>6 DEF Window
<1>8. GetList(q, flag) # None
  BY <1>2
<1> HIDE DEF c
<1>9. Begins(c, w.form)
  BY <1>2 DEF Begins, Asks, SetsTheList, ReleasesOwn, Hydrates, RowWrites, Parcels, Steps, LeftInOrder
<1>10. HandlersGoOn
  BY <1>3, <1>7, <1>9, <1>2 DEF HandlersGoOn, LeftInOrder
<1>11. ButtonsWait
  <2>1. win'.here => win.here
    BY <1>7 DEF LeftInOrder
  <2>2. call'[k] # None /\ call'[k].kind = "load" /\ call'[k].flag = flag
    BY <1>2, <1>3
  <2>3. ASSUME NEW f \in Flags, win'.busy[f] # None
        PROVE  \/ \E j \in Slots : call'[j] # None /\ call'[j].flag = f
               \/ /\ win.busy[f] # None
                  /\ \A j \in Slots : call[j] # None /\ call[j].flag = f => call'[j] # None /\ call'[j].flag = f
    <3>1. \A j \in Slots : calls[j] # None => call'[j] = calls[j]
      BY <1>3
    <3> QED  BY <2>2, <2>3, <3>1, <1>7 DEF LeftInOrder
  <2> QED  BY <2>1, <2>2, <2>3 DEF ButtonsWait
<1>12. ListInv'
  <2>1. FewerCalls(calls)
    BY DEF FewerCalls, LeftInOrder, GoesOn
  <2>2. UNCHANGED <<page, version>> /\ ListInv /\ CallsInv
    BY DEF serverVars, ConsoleInv
  <2>3. /\ win'.query = w.query /\ win'.list = w.list /\ win'.loading = TRUE /\ win'.mine = w.mine /\ win'.raced = raced
    BY <1>5, <1>6 DEF Window
  <2>4. Loading(k, w, calls, q, flag, resumed)
    BY <1>3, <1>7, <2>3 DEF Loading, c, raced
  <2> QED  BY <2>1, <2>2, <2>4, <1>8, LoadStep, ConsoleAssumption
<1> QED  BY <1>4, <1>7, <1>10, <1>11, <1>12, PageStep
\* A handler that a click starts for the query of the page.
LEMMA StartKeeps ==
  ASSUME ConsoleInv, NEW kind \in RowWrites \union Steps, NEW r \in Rows, NEW sets \in PageStatuses \union {None, "same"},
         NEW flag \in PageFlags(page), NEW lists \in BOOLEAN, NEW thing \in Rows \union {"on"},
         Send(win, flag, thing, Call(kind, r, sets, win.query, flag, lists)),
         kind = "refund" => lists,
         page = "product" /\ kind \in {"save", "publish"} => lists,
         page = "connect" /\ kind = "account" => lists,
         page \in AllLoad => lists,
         page = "products" => ~lists,
         page = "extraction" /\ kind \in Steps => flag = "upload",
         page = "inventory" => /\ kind \in {"adjust", "create"}
                               /\ win.form # None
                               /\ (win.form.kind = "adjust") = (kind = "adjust")
  PROVE  ConsoleInv'
<1>1. PICK c : c = Call(kind, r, sets, win.query, flag, lists)
  OBVIOUS
<1>2. win.query \in Queries /\ flag \in Flags
  BY DEF ConsoleInv, TypeOK, Window, PageFlags, Flags
<1>3. sets \in RowStatus \union ParcelStatus \union {"same"}
  BY PageStatusesTyped DEF ParcelStatus
<1>4. c \in CallRow
  BY <1>1, <1>2, <1>3 DEF Call, CallRow
<1>5. c.kind = kind /\ c.row = r /\ c.sets = sets /\ c.back = win.query /\ c.flag = flag /\ c.lists = lists /\ c.pc = "sent"
  BY <1>1 DEF Call
<1>6. kind \notin Parcels \union Reads
  BY DEF RowWrites, Steps, Parcels, Reads
<1>7. Asks(c) /\ SetsTheList(c, page)
  BY <1>2, <1>5, <1>6 DEF Asks, SetsTheList, Hydrates, Reads
<1>8. ReleasesOwn(c, page, win.form)
  BY <1>5, <1>6 DEF ReleasesOwn, Reads
<1>9. Begins(c, win.form)
  BY <1>5, <1>7, <1>8 DEF Begins
<1> QED  BY <1>1, <1>2, <1>4, <1>5, <1>6, <1>9, SendKeeps

\* Calls that end or lose their buttons while the list is left alone.
LEMMA QuietKeeps ==
  ASSUME ConsoleInv, UNCHANGED serverVars, Clicks, SameList, win' \in Window,
         call' \in [Slots -> CallRow \union {None}], HandlersGoOn, ButtonsWait,
         win'.raced = win.raced,
         \A j \in Slots : Loads(j) \/ WillLoad(j) => call'[j] # None /\ SameCall(call[j], call'[j]),
         \A j \in Slots : call'[j] # None =>
            \/ GoesOn(call[j], call'[j])
            \/ call'[j].kind # "load" /\ call'[j].pc = "sent" /\ (call'[j].lists => MaySet(j) /\ call'[j].back = call[j].back)
  PROVE  ConsoleInv'
<1>1. OthersComeAndGo
  BY DEF OthersComeAndGo, GoesOn, AsksNow
<1>2. ComesAlone
  BY DEF ComesAlone, GoesOn, SameCall, MaySet
<1>3. UNCHANGED <<page, version>> /\ ListInv
  BY DEF serverVars, ConsoleInv
<1>4. win'.here => win.here
  BY DEF ButtonsWait
<1>5. ListInv'
  BY <1>1, <1>2, <1>3, <1>4, QuietStep
<1> QED  BY <1>5, PageStep

\* A call, which loads nothing, ends and its button is released.
LEMMA EndKeeps ==
  ASSUME ConsoleInv, NEW k \in Slots, UNCHANGED serverVars, Clicks, SameList, win' \in Window, call' = Without(k),
         win'.raced = win.raced, win'.form = win.form, win'.here => win.here,
         ~Loads(k), ~WillLoad(k),
         win'.here => /\ \A f \in Flags : win'.busy[f] # None => win.busy[f] # None
                      /\ call[k] # None /\ call[k].flag \in Flags => win'.busy[call[k].flag] = None
  PROVE  ConsoleInv'
<1>1. /\ \A j \in Slots : call'[j] = IF j = k THEN None ELSE call[j]
      /\ call' \in [Slots -> CallRow \union {None}]
  BY GoneCall DEF ConsoleInv
<1>2. \A j \in Slots : call'[j] # None => call'[j] = call[j] /\ GoesOn(call[j], call'[j])
  BY <1>1 DEF GoesOn, SameCall
<1>3. HandlersGoOn
  BY <1>2 DEF HandlersGoOn
<1>4. ButtonsWait
  BY <1>1 DEF ButtonsWait, SameList, Loads
<1>5. \A j \in Slots : Loads(j) \/ WillLoad(j) => call'[j] # None /\ SameCall(call[j], call'[j])
  BY <1>1 DEF Loads, WillLoad, MaySet, SameCall
<1> QED  BY <1>1, <1>2, <1>3, <1>4, <1>5, QuietKeeps
-----------------------------------------------------------------------------
(* The pages with a table.                                                  *)

\* Calls that are cleaned up or lose their buttons are typed.
LEMMA FewerTyped ==
  ASSUME TypeOK, NEW kinds, NEW flags
  PROVE  /\ Cancelled(call, kinds) \in [Slots -> CallRow \union {None}]
         /\ Detached(call, flags) \in [Slots -> CallRow \union {None}]
         /\ \A j \in Slots : Cancelled(call, kinds)[j] = IF call[j] # None /\ call[j].kind \in kinds THEN None ELSE call[j]
         /\ \A j \in Slots : call[j] = None => Detached(call, flags)[j] = None
         /\ \A j \in Slots : call[j] # None =>
              /\ Detached(call, flags)[j] # None /\ GoesOn(call[j], Detached(call, flags)[j])
              /\ Detached(call, flags)[j].flag = IF call[j].flag \in flags THEN None ELSE call[j].flag
<1>1. \A j \in Slots : call[j] \in CallRow \union {None}
  BY DEF TypeOK
<1>2. ASSUME NEW c \in CallRow
      PROVE  /\ [c EXCEPT !.flag = None] \in CallRow /\ SameCall(c, [c EXCEPT !.flag = None])
             /\ [c EXCEPT !.flag = None].flag = None
  BY DEF CallRow, SameCall
<1>3. ASSUME NEW j \in Slots
      PROVE  /\ Detached(call, flags)[j] \in CallRow \union {None}
             /\ call[j] = None => Detached(call, flags)[j] = None
             /\ call[j] # None =>
                  /\ Detached(call, flags)[j] # None /\ GoesOn(call[j], Detached(call, flags)[j])
                  /\ Detached(call, flags)[j].flag = IF call[j].flag \in flags THEN None ELSE call[j].flag
  <2>1. CASE call[j] # None /\ call[j].flag \in flags
    <3>1. Detached(call, flags)[j] = [call[j] EXCEPT !.flag = None]
      BY <2>1 DEF Detached
    <3> QED  BY <2>1, <3>1, <1>1, <1>2, ConsoleAssumption DEF GoesOn
  <2>2. CASE ~(call[j] # None /\ call[j].flag \in flags)
    <3>1. Detached(call, flags)[j] = call[j]
      BY <2>2 DEF Detached
    <3> QED  BY <2>2, <3>1, <1>1 DEF GoesOn, SameCall
  <2> QED  BY <2>1, <2>2
<1>4. DOMAIN Detached(call, flags) = Slots /\ Detached(call, flags) = [j \in Slots |-> Detached(call, flags)[j]]
  BY DEF Detached
<1>5. Detached(call, flags) \in [Slots -> CallRow \union {None}]
  BY <1>3, <1>4
<1> QED  BY <1>1, <1>3, <1>5 DEF Cancelled

\* An effect loads the list anew, on a click or a tick.
LEMMA EffectKeeps ==
  ASSUME ConsoleInv, NEW w \in Window, Load(w), Clicks, UNCHANGED serverVars,
         w.busy = win.busy, w.here = win.here, w.form = win.form, w.mine = win.mine, w.raced = win.raced,
         page \in Guarded \ {"products"} => w.query = win.query
  PROVE  ConsoleInv'
<1> DEFINE calls == Begun(call)
<1>1. /\ calls \in [Slots -> CallRow \union {None}]
      /\ \A j \in Slots : calls[j] # None => calls[j] = call[j]
      /\ \A j \in Slots : calls[j] = None /\ call[j] # None => call[j].flag = None
      /\ page \in Guarded => \A j \in Slots : calls[j] # None => call[j].kind # "load"
  BY FewerTyped DEF Begun, ConsoleInv, TypeOK, CallsInv, CallFits, ReleasesOwn
<1>2. FreeIn(calls) # {} /\ FirstIn(FreeIn(calls)) \in FreeIn(calls)
  BY DEF Load, FirstIn
<1>3. PICK k \in Slots : calls[k] = None /\ LoadIn(k, w, calls, w.query, None, FALSE)
  BY <1>2 DEF Load, FreeIn
<1> HIDE DEF calls
<1>4. LeftInOrder(w, calls, None)
  BY <1>1, ConsoleAssumption DEF LeftInOrder, GoesOn, SameCall
<1>5. w.query \in Queries /\ w.mine <= version
  BY DEF Window, ConsoleInv, ListInv
<1>6. page = "products" => ~ListsLater(calls)
  BY <1>1 DEF ListsLater, Guarded, ConsoleInv, CallsInv, CallFits, SetsTheList
<1>7. page \in Guarded => w.query = w.query /\ (w.query = win.query \/ ~ListsLater(calls))
  BY <1>6
<1> QED  BY <1>1, <1>3, <1>4, <1>5, <1>7, LoadKeeps

\* The effect loads the list once more, after a handler.
LEMMA ReloadKeeps ==
  ASSUME ConsoleInv, NEW k \in Slots, NEW w \in Window, ReloadIn(k, w), Clicks, UNCHANGED serverVars,
         w.here = win.here, w.form = win.form, w.mine <= version, w.raced = win.raced,
         page \in Guarded \ {"products"} => w.query = win.query,
         call[k] # None,
         \A f \in Flags : w.busy[f] # None => win.busy[f] # None /\ f # call[k].flag
  PROVE  ConsoleInv'
<1> DEFINE calls == Begun(Without(k))
<1>1. /\ calls \in [Slots -> CallRow \union {None}]
      /\ \A j \in Slots : calls[j] # None => j # k /\ calls[j] = call[j]
      /\ \A j \in Slots : calls[j] = None /\ call[j] # None => j = k \/ call[j].flag = None
      /\ page \in Guarded => \A j \in Slots : calls[j] # None => call[j].kind # "load"
  <2>1. /\ Without(k) \in [Slots -> CallRow \union {None}]
        /\ \A j \in Slots : Without(k)[j] = IF j = k THEN None ELSE call[j]
    BY GoneCall DEF ConsoleInv
  <2>2. \A j \in Slots : call[j] # None /\ call[j].kind = "load" /\ page \in Guarded => call[j].flag = None
    BY DEF ConsoleInv, CallsInv, CallFits, ReleasesOwn
  <2>3. CASE page \in Guarded
    <3>1. calls = [j \in Slots |-> IF Without(k)[j] # None /\ Without(k)[j].kind \in {"load"} THEN None ELSE Without(k)[j]]
      BY <2>3 DEF Begun, Cancelled
    <3> QED  BY <2>1, <2>2, <2>3, <3>1
  <2>4. CASE page \notin Guarded
    BY <2>1, <2>4 DEF Begun
  <2> QED  BY <2>3, <2>4
<1>2. calls[k] = None /\ LoadIn(k, w, calls, w.query, None, TRUE)
  BY <1>1 DEF ReloadIn
<1> HIDE DEF calls
<1>3. LeftInOrder(w, calls, None)
  BY <1>1, ConsoleAssumption DEF LeftInOrder, GoesOn, SameCall
<1>4. w.query \in Queries
  BY DEF Window
<1>5. page = "products" => ~ListsLater(calls)
  BY <1>1 DEF ListsLater, Guarded, ConsoleInv, CallsInv, CallFits, SetsTheList
<1>6. page \in Guarded => w.query = w.query /\ (w.query = win.query \/ ~ListsLater(calls))
  BY <1>5
<1> QED  BY <1>1, <1>2, <1>3, <1>4, <1>6, LoadKeeps
LEMMA QueryKeeps ==
  ASSUME ConsoleInv, Refilter \/ Resize \/ TurnPage, page \notin Guarded \ {"products"} PROVE ConsoleInv'
<1>1. PICK q \in Queries : ChangeQuery(q)
  <2>1. win.query \in Queries
    BY DEF ConsoleInv, TypeOK, Window
  <2>2. CASE Refilter
    <3>1. PICK f \in Filters : ChangeQuery([win.query EXCEPT !.filter = f, !.page = 1])
      BY <2>2 DEF Refilter
    <3> DEFINE filtered == [win.query EXCEPT !.filter = f]
               q == [filtered EXCEPT !.page = 1]
    <3>2. filtered \in Queries /\ ChangeQuery(q)
      BY <2>1, <3>1 DEF Queries
    <3> HIDE DEF filtered
    <3>3. q \in Queries
      BY <3>2 DEF Queries
    <3> QED  BY <3>2, <3>3
  <2>3. CASE Resize
    <3>1. PICK n \in Sizes : ChangeQuery([win.query EXCEPT !.size = n, !.page = 1])
      BY <2>3 DEF Resize
    <3> DEFINE resized == [win.query EXCEPT !.size = n]
               q == [resized EXCEPT !.page = 1]
    <3>2. resized \in Queries /\ ChangeQuery(q)
      BY <2>1, <3>1 DEF Queries
    <3> HIDE DEF resized
    <3>3. q \in Queries
      BY <3>2 DEF Queries
    <3> QED  BY <3>2, <3>3
  <2>4. CASE TurnPage
    <3>1. /\ PageBefore(win.query) \in Queries
          /\ [win.query EXCEPT !.page = win.query.page + 1] \in Queries
      BY <2>1 DEF Queries, PageBefore
    <3> QED  BY <2>4, <3>1 DEF TurnPage
  <2> QED  BY <2>2, <2>3, <2>4
<1> DEFINE w == [win EXCEPT !.query = q]
<1>2. Load(w) /\ Clicks /\ UNCHANGED serverVars
  BY <1>1 DEF ChangeQuery, Clicks
<1>3. w \in Window /\ w.busy = win.busy /\ w.here = win.here /\ w.form = win.form /\ w.mine = win.mine /\ w.raced = win.raced
  BY DEF ConsoleInv, TypeOK, Window
<1> HIDE DEF w
<1> QED  BY <1>2, <1>3, EffectKeeps

LEMMA ArrivalKeeps ==
  ASSUME ConsoleInv, NEW k \in Slots, Arrival(k) PROVE ConsoleInv'
<1> DEFINE c == call[k]
           w == Release(win, c.flag)
<1>1. /\ win \in Window /\ c # None /\ UNCHANGED serverVars /\ UNCHANGED clicks /\ call' = Without(k)
      /\ ListArrives(k) => c.kind = "load"
      /\ FailureArrives(k) => ~WillLoad(k)
  BY DEF Arrival, ListArrives, FailureArrives, Failed, At, ConsoleInv, TypeOK, WillLoad, MaySet
<1>2. /\ w \in Window /\ w.query = win.query /\ w.list = win.list /\ w.loading = win.loading /\ w.failed = win.failed
      /\ w.mine = win.mine /\ w.raced = win.raced /\ w.here = win.here /\ w.form = win.form
      /\ \A f \in Flags : w.busy[f] = IF f = c.flag THEN None ELSE win.busy[f]
  BY <1>1, Released
<1>3. /\ \A j \in Slots : call'[j] = IF j = k THEN None ELSE call[j]
      /\ call' \in [Slots -> CallRow \union {None}]
  BY <1>1, GoneCall DEF ConsoleInv
<1>4. ASSUME win' \in Window, ListInv', win'.here = win.here, win'.form = win.form, win'.loading = FALSE, win'.busy = w.busy
      PROVE  ConsoleInv'
  <2>1. HandlersGoOn
    BY <1>3, <1>4 DEF HandlersGoOn, GoesOn, SameCall
  <2>2. ButtonsWait
    BY <1>2, <1>3, <1>4 DEF ButtonsWait
  <2> QED  BY <1>1, <1>3, <1>4, <2>1, <2>2, PageStep DEF Clicks
<1>5. CASE ListArrives(k)
  <2>1. c.got \in Lists
    BY <1>5 DEF ListArrives, At, ConsoleInv, CallsInv, CallFits, AnswersTheQuery, Answered
  <2>2. win' = [w EXCEPT !.list = c.got, !.loading = FALSE, !.failed = FALSE]
    BY <1>5 DEF ListArrives
  <2> HIDE DEF c, w
  <2>3. win' \in Window /\ win'.here = win.here /\ win'.form = win.form /\ win'.loading = FALSE /\ win'.busy = w.busy
    BY <1>2, <2>1, <2>2 DEF Window
  <2> QED  BY <1>4, <1>5, <2>3, ListStep
<1>6. CASE FailureArrives(k) /\ c.kind = "load"
  <2>1. win' = [w EXCEPT !.loading = FALSE, !.failed = TRUE]
    BY <1>6 DEF FailureArrives
  <2>2. ListInv'
    BY <1>6, FailureStep
  <2> HIDE DEF c, w
  <2>3. win' \in Window /\ win'.here = win.here /\ win'.form = win.form /\ win'.loading = FALSE /\ win'.busy = w.busy
    BY <1>2, <2>1 DEF Window
  <2> QED  BY <1>4, <2>2, <2>3
<1>7. CASE FailureArrives(k) /\ c.kind # "load"
  <2>1. win' = w
    BY <1>7 DEF FailureArrives
  <2> HIDE DEF w
  <2>2. ~Loads(k) /\ ~WillLoad(k) /\ Clicks /\ SameList
    BY <1>1, <1>2, <1>7, <2>1 DEF Loads, Clicks, SameList
  <2> QED  BY <1>1, <1>2, <2>1, <2>2, EndKeeps
<1> QED  BY <1>5, <1>6, <1>7 DEF Arrival

\* Handlers of the products page.
LEMMA ProductsKeeps ==
  ASSUME ConsoleInv, ProductsPage PROVE ConsoleInv'
<1>1. page = "products" /\ PageFlags(page) = {"row"} /\ page \notin AllLoad
  BY DEF ProductsPage, PageFlags, AllLoad
<1>2. "ACTIVE" \in PageStatuses
  BY <1>1, PageStatusesTyped DEF Statuses, PageStatuses
<1>3. CASE Refilter \/ Resize \/ TurnPage
  BY <1>1, <1>3, QueryKeeps
<1>4. ASSUME NEW r \in Rows, Publish(r) PROVE ConsoleInv'
  <2>1. Send(win, "row", r, Call("publish", r, "ACTIVE", win.query, "row", FALSE))
    BY <1>4 DEF Publish
  <2>2. "publish" \in RowWrites \union Steps /\ "ACTIVE" \in PageStatuses \union {None, "same"}
    BY <1>2 DEF RowWrites
  <2> QED  BY <1>1, <2>1, <2>2, StartKeeps
<1>5. ASSUME NEW r \in Rows, DeleteProduct(r) PROVE ConsoleInv'
  <2> DEFINE kind == IF OnlyRowOfLaterPage THEN "delete last" ELSE "delete"
  <2>1. Send(win, "row", r, Call(kind, r, None, win.query, "row", FALSE)) /\ kind \in RowWrites \union Steps /\ kind # "refund"
    BY <1>5 DEF DeleteProduct, RowWrites
  <2> HIDE DEF kind
  <2> QED  BY <1>1, <2>1, StartKeeps
<1>6. ASSUME NEW k \in Slots, ProductDone(k) PROVE ConsoleInv'
  <2> DEFINE w == Release(Acknowledged(k), "row")
             v == IF call[k].kind = "delete last" THEN [w EXCEPT !.query = PageBefore(@)] ELSE w
  <2>1. ReloadIn(k, v) /\ UNCHANGED serverVars /\ UNCHANGED clicks
    BY <1>6 DEF ProductDone
  <2>2. /\ call[k] # None /\ call[k].got \in Lists /\ call[k].got.version <= version
        /\ call[k].flag \in {"row", None}
    BY <1>1, <1>6 DEF ProductDone, At, ConsoleInv, CallsInv, CallFits, AnswersTheQuery, Answered, ReleasesOwn, RowWrites
  <2>3. win \in Window /\ win.mine <= version
    BY DEF ConsoleInv, TypeOK, ListInv
  <2>4. /\ Acknowledged(k) \in Window /\ Acknowledged(k).busy = win.busy /\ Acknowledged(k).mine <= version
        /\ Acknowledged(k).here = win.here /\ Acknowledged(k).form = win.form /\ Acknowledged(k).raced = win.raced
    BY <2>2, <2>3, Acknowledges
  <2>5. /\ w \in Window /\ w.mine <= version /\ w.here = win.here /\ w.form = win.form /\ w.raced = win.raced
        /\ \A f \in Flags : w.busy[f] = IF f = "row" THEN None ELSE win.busy[f]
    BY <2>4, Released
  <2> HIDE DEF w
  <2>6. PageBefore(w.query) \in Queries
    <3>1. w.query \in Queries
      BY <2>5 DEF Window
    <3> QED  BY <3>1 DEF Queries, PageBefore
  <2>7. /\ v \in Window /\ v.mine = w.mine /\ v.here = w.here /\ v.form = w.form /\ v.raced = w.raced /\ v.busy = w.busy
    BY <2>5, <2>6 DEF Window
  <2> HIDE DEF v
  <2>8. \A f \in Flags : v.busy[f] # None => win.busy[f] # None /\ f # call[k].flag
    BY <2>2, <2>5, <2>7, ConsoleAssumption
  <2> QED  BY <1>1, <2>1, <2>2, <2>5, <2>7, <2>8, ReloadKeeps DEF Clicks
<1> QED  BY <1>3, <1>4, <1>5, <1>6 DEF ProductsPage
\* A part of the page is closed: its handlers lose their buttons, which come back.
LEMMA DetachKeeps ==
  ASSUME ConsoleInv, NEW flags, call' = Detached(call, flags), UNCHANGED serverVars, Clicks,
         SameList, win' \in Window, win'.raced = win.raced, win'.here = win.here,
         page = "inventory" => win'.form = win.form \/ flags = {"save"},
         \A f \in Flags : win'.busy[f] # None => win.busy[f] # None /\ f \notin flags
  PROVE  ConsoleInv'
<1>1. /\ call' \in [Slots -> CallRow \union {None}]
      /\ \A j \in Slots : call[j] = None => call'[j] = None
      /\ \A j \in Slots : call[j] # None =>
           /\ call'[j] # None /\ GoesOn(call[j], call'[j])
           /\ call'[j].flag = IF call[j].flag \in flags THEN None ELSE call[j].flag
  BY FewerTyped DEF ConsoleInv
<1>2. page = "inventory" => \A j \in Slots : call[j] # None => call[j].flag \in {"save", None}
  BY DEF ConsoleInv, CallsInv, CallFits, ReleasesOwn, PageFlags
<1>3. HandlersGoOn
  BY <1>1, <1>2 DEF HandlersGoOn
<1>4. ButtonsWait
  BY <1>1 DEF ButtonsWait, SameList, Loads, GoesOn, SameCall
<1>5. \A j \in Slots : Loads(j) \/ WillLoad(j) => call'[j] # None /\ SameCall(call[j], call'[j])
  BY <1>1 DEF Loads, WillLoad, MaySet, GoesOn
<1>6. \A j \in Slots : call'[j] # None => GoesOn(call[j], call'[j])
  BY <1>1
<1> QED  BY <1>1, <1>3, <1>4, <1>5, <1>6, QuietKeeps

LEMMA InventoryKeeps ==
  ASSUME ConsoleInv, InventoryPage PROVE ConsoleInv'
<1>1. page = "inventory" /\ PageFlags(page) = {"save"} /\ page \in AllLoad /\ page \notin Guarded
  BY DEF InventoryPage, PageFlags, AllLoad, Guarded
<1>2. win \in Window /\ win.mine <= version
  BY DEF ConsoleInv, TypeOK, ListInv
<1> DEFINE form == [kind : {"adjust", "new"}, of : Rows \union {None}] \union {None}
           closed == Release(win, "save")
<1>3. /\ closed \in Window /\ closed.query = win.query /\ closed.list = win.list /\ closed.loading = win.loading
      /\ closed.failed = win.failed /\ closed.mine = win.mine /\ closed.raced = win.raced /\ closed.here = win.here
      /\ \A f \in Flags : closed.busy[f] = IF f = "save" THEN None ELSE win.busy[f]
  BY <1>2, Released
<1>4. ASSUME NEW fm \in form, win' = [closed EXCEPT !.form = fm], call' = Detached(call, {"save"}),
             Clicked, UNCHANGED serverVars
      PROVE  ConsoleInv'
  <2> HIDE DEF closed
  <2>1. /\ win' \in Window /\ win'.busy = closed.busy /\ win'.raced = win.raced /\ win'.here = win.here /\ SameList
    BY <1>3, <1>4 DEF Window, SameList
  <2> QED  BY <1>3, <1>4, <2>1, DetachKeeps DEF Clicks
<1>5. CloseForm = [closed EXCEPT !.form = None]
  BY DEF CloseForm
<1>6. ASSUME NEW fm PROVE [CloseForm EXCEPT !.form = fm] = [closed EXCEPT !.form = fm]
  <2> HIDE DEF closed
  <2> QED  BY <1>3, <1>5 DEF Window
<1>7. CASE Resize \/ TurnPage
  BY <1>1, <1>7, QueryKeeps
<1>8. CASE ToggleNewItem
  <2>1. /\ Clicked /\ UNCHANGED serverVars /\ call' = Detached(call, {"save"})
        /\ \/ win' = CloseForm
           \/ win' = [CloseForm EXCEPT !.form = [kind |-> "new", of |-> None]]
    BY <1>8 DEF ToggleNewItem
  <2>2. None \in form /\ [kind |-> "new", of |-> None] \in form
    OBVIOUS
  <2> HIDE DEF form, closed
  <2> QED  BY <1>4, <1>5, <1>6, <2>1, <2>2
<1>9. CASE CancelForm
  <2>1. Clicked /\ UNCHANGED serverVars /\ call' = Detached(call, {"save"}) /\ win' = CloseForm /\ None \in form
    BY <1>9 DEF CancelForm
  <2> HIDE DEF form, closed
  <2> QED  BY <1>4, <1>5, <2>1
<1>10. ASSUME NEW r \in Rows \union {None}, OpenAdjust(r) PROVE ConsoleInv'
  <2>1. CASE UNCHANGED <<win, call>>
    <3>1. UNCHANGED serverVars /\ Clicks
      BY <1>10 DEF OpenAdjust, Clicks
    <3>2. Detached(call, {}) = call
      BY DEF Detached, ConsoleInv, TypeOK
    <3> QED  BY <1>2, <2>1, <3>1, <3>2, DetachKeeps DEF SameList
  <2>2. CASE ~UNCHANGED <<win, call>>
    <3>1. /\ win' = [closed EXCEPT !.form = [kind |-> "adjust", of |-> r]] /\ call' = Detached(call, {"save"})
          /\ Clicked /\ UNCHANGED serverVars
      BY <1>10, <2>2 DEF OpenAdjust
    <3>2. [kind |-> "adjust", of |-> r] \in form
      BY <1>10
    <3> HIDE DEF form, closed
    <3> QED  BY <1>4, <3>1, <3>2
  <2> QED  BY <2>1, <2>2
<1>11. ASSUME NEW r \in Rows, SubmitAdjust(r) PROVE ConsoleInv'
  <2>1. /\ Send(win, "save", "on", Call("adjust", r, "same", win.query, "save", TRUE))
        /\ win.form # None /\ win.form.kind = "adjust"
    BY <1>11 DEF SubmitAdjust
  <2>2. "adjust" \in RowWrites \union Steps
    BY DEF RowWrites
  <2> QED  BY <1>1, <2>1, <2>2, StartKeeps
<1>12. CASE SubmitNewItem
  <2>1. /\ Send(win, "save", "on", Call("create", New, "LISTED", win.query, "save", TRUE))
        /\ win.form # None /\ win.form.kind = "new"
    BY <1>12 DEF SubmitNewItem
  <2>2. "create" \in RowWrites \union Steps /\ "LISTED" \in PageStatuses \union {None, "same"} /\ New \in Rows
    BY <1>1, OrderTyped DEF RowWrites, PageStatuses, Statuses
  <2> QED  BY <1>1, <2>1, <2>2, StartKeeps
<1>13. ASSUME NEW k \in Slots, FormDone(k) PROVE ConsoleInv'
  <2> DEFINE ack == Acknowledged(k)
             closes == win.form # None /\ (win.form.kind = "adjust") = (call[k].kind = "adjust")
             shut == Release(ack, "save")
             w == IF closes THEN [shut EXCEPT !.form = None] ELSE ack
             rest == IF closes THEN Detached(Without(k), {"save"}) ELSE Without(k)
  <2>1. LoadIn(k, w, rest, call[k].back, None, TRUE) /\ UNCHANGED serverVars /\ Clicks
    BY <1>13 DEF FormDone, Clicks
  <2>2. /\ call[k] # None /\ call[k].got \in Lists /\ call[k].got.version <= version /\ call[k].lists
        /\ call[k].back \in Queries
        /\ ~closes => call[k].flag = None
    BY <1>1, <1>13 DEF FormDone, At, ConsoleInv, CallsInv, CallFits, AnswersTheQuery, Answered, ReleasesOwn, SetsTheList, Asks, RowWrites
  <2>3. /\ ack \in Window /\ ack.busy = win.busy /\ ack.mine <= version
        /\ ack.here = win.here /\ ack.form = win.form /\ ack.raced = win.raced /\ ack.query = win.query
    BY <1>2, <2>2, Acknowledges
  <2>4. /\ shut \in Window /\ shut.mine = ack.mine /\ shut.here = win.here /\ shut.raced = win.raced /\ shut.query = win.query
        /\ \A f \in Flags : shut.busy[f] = IF f = "save" THEN None ELSE win.busy[f]
    BY <2>3, Released
  <2> HIDE DEF ack, shut
  <2>5. /\ w \in Window /\ w.mine <= version /\ w.here = win.here /\ w.raced = win.raced /\ w.query = win.query
        /\ closes => \A f \in Flags : w.busy[f] = IF f = "save" THEN None ELSE win.busy[f]
        /\ ~closes => w.form = win.form /\ w.busy = win.busy
    BY <2>3, <2>4 DEF Window
  <2>6. \A j \in Slots : call[j] # None => call[j].flag \in {"save", None}
    BY <1>1 DEF ConsoleInv, CallsInv, CallFits, ReleasesOwn
  <2>7. /\ Without(k) \in [Slots -> CallRow \union {None}]
        /\ \A j \in Slots : Without(k)[j] = IF j = k THEN None ELSE call[j]
    BY GoneCall DEF ConsoleInv
  <2>8. /\ rest \in [Slots -> CallRow \union {None}] /\ rest[k] = None
        /\ \A j \in Slots : rest[j] # None => GoesOn(call[j], rest[j]) /\ (closes => rest[j].flag = None)
        /\ ~closes => \A j \in Slots : j # k => rest[j] = call[j]
    <3>1. /\ Detached(call, {"save"}) \in [Slots -> CallRow \union {None}]
          /\ \A j \in Slots : call[j] = None => Detached(call, {"save"})[j] = None
          /\ \A j \in Slots : call[j] # None => /\ GoesOn(call[j], Detached(call, {"save"})[j])
                                                /\ Detached(call, {"save"})[j].flag = None
      BY <2>6, FewerTyped DEF ConsoleInv
    <3>2. Detached(Without(k), {"save"}) = [Detached(call, {"save"}) EXCEPT ![k] = None]
      BY <2>7 DEF Detached
    <3>3. CASE closes
      BY <3>1, <3>2, <3>3
    <3>4. CASE ~closes
      BY <2>7, <3>4 DEF GoesOn, SameCall
    <3> QED  BY <3>3, <3>4
  <2> HIDE DEF w, rest, closes
  <2>9. LeftInOrder(w, rest, None)
    <3>1. closes \/ ~closes
      OBVIOUS
    <3>2. CASE closes
      <4>1. \A j \in Slots : call[j] # None => ~(call[j].flag \in Flags \ {"save"})
        BY <2>6, ConsoleAssumption
      <4> QED  BY <2>5, <2>8, <3>2, <4>1 DEF LeftInOrder
    <3>3. CASE ~closes
      <4>1. ASSUME NEW f \in Flags, win.busy[f] # None
            PROVE  \A j \in Slots : call[j] # None /\ call[j].flag = f => rest[j] # None /\ rest[j].flag = f
        <5>1. f # None
          BY ConsoleAssumption
        <5> QED  BY <2>2, <2>8, <3>3, <5>1
      <4> QED  BY <2>5, <2>8, <3>3, <4>1 DEF LeftInOrder
    <3> QED  BY <3>2, <3>3
  <2>10. call[k].back = w.query \/ (~win.raced => call[k].back = w.query)
    BY <2>2, <2>5 DEF ConsoleInv, ListInv, PresentIsAsked, MaySet
  <2>11. call[k].back \in Queries /\ w \in Window /\ w.mine <= version /\ w.raced = win.raced
    BY <2>2, <2>5
  <2>12. rest \in [Slots -> CallRow \union {None}] /\ rest[k] = None
    BY <2>8
  <2> QED  BY <1>1, <2>1, <2>9, <2>10, <2>11, <2>12, LoadKeeps
<1> QED  BY <1>7, <1>8, <1>9, <1>10, <1>11, <1>12, <1>13 DEF InventoryPage
\* A click looks at one row.
LEMMA OpenKeeps ==
  ASSUME ConsoleInv, NEW r \in Rows, Clicked, UNCHANGED <<serverVars, win>>, FreeIn(call) # {},
         call' = [call EXCEPT ![FirstIn(FreeIn(call))] = Call("open", r, None, None, None, FALSE)]
  PROVE  ConsoleInv'
<1>1. PICK c : c = Call("open", r, None, None, None, FALSE)
  OBVIOUS
<1>2. c \in CallRow /\ c # None /\ c.pc = "sent" /\ c.kind = "open" /\ c.row = r /\ c.flag = None /\ ~c.lists
  <2>1. c \in CallRow
    BY <1>1 DEF Call, CallRow, Reads, RowStatus
  <2> QED  BY <1>1, <2>1, ConsoleAssumption DEF Call
<1>3. PICK n \in Slots : call[n] = None /\ call' = [call EXCEPT ![n] = c]
  BY <1>1 DEF FreeIn, FirstIn
<1>4. win \in Window /\ call \in [Slots -> CallRow \union {None}]
  BY DEF ConsoleInv, TypeOK
<1>5. call' \in [Slots -> CallRow \union {None}] /\ \A j \in Slots : call'[j] = IF j = n THEN c ELSE call[j]
  BY <1>2, <1>3, <1>4
<1>6. Begins(c, win.form)
  BY <1>2 DEF Begins, Asks, SetsTheList, ReleasesOwn, Hydrates, RowWrites, Parcels, Steps
<1>7. \A j \in Slots : call[j] # None => call'[j] = call[j] /\ GoesOn(call[j], call'[j])
  BY <1>3, <1>5 DEF GoesOn, SameCall
<1>8. HandlersGoOn
  BY <1>5, <1>6, <1>7 DEF HandlersGoOn
<1>9. ButtonsWait
  BY <1>7 DEF ButtonsWait, Loads
<1>10. \A j \in Slots : Loads(j) \/ WillLoad(j) => call'[j] # None /\ SameCall(call[j], call'[j])
  BY <1>7 DEF Loads, WillLoad, MaySet, GoesOn
<1>11. \A j \in Slots : call'[j] # None =>
          \/ GoesOn(call[j], call'[j])
          \/ call'[j].kind # "load" /\ call'[j].pc = "sent" /\ (call'[j].lists => MaySet(j) /\ call'[j].back = call[j].back)
  BY <1>2, <1>5, <1>7
<1>12. UNCHANGED serverVars /\ Clicks /\ SameList /\ win' = win
  BY DEF Clicks, SameList
<1> QED  BY <1>4, <1>5, <1>8, <1>9, <1>10, <1>11, <1>12, QuietKeeps

\* The panel shows an order and may ask for its shipments.
LEMMA OpenedKeeps ==
  ASSUME ConsoleInv, page = "orders", NEW k \in Slots, OrderOpened(k) PROVE ConsoleInv'
<1> DEFINE shown == call[k].got
<1>1. /\ call[k] # None /\ shown \in Glances /\ call[k].flag = None /\ ~call[k].lists /\ call[k].kind = "open"
      /\ UNCHANGED serverVars /\ Clicks /\ PanelWith(k, win, Without(k), shown)
  BY DEF OrderOpened, At, Clicks, ConsoleInv, CallsInv, CallFits, SetsTheList, ReleasesOwn, AnswersTheQuery, Answered
<1> HIDE DEF shown
<1>2. win \in Window /\ shown.of \in Rows
  BY <1>1 DEF ConsoleInv, TypeOK, Glances
<1> DEFINE section == IF win.panel = None THEN None ELSE win.section
           part == [win EXCEPT !.panel = shown]
<1>3. section \in Glances \union {None}
  BY <1>2 DEF Window
<1>4. win' = [part EXCEPT !.section = section]
  BY <1>1, <1>2 DEF PanelWith, Window
<1>5. /\ part \in Window /\ part.query = win.query /\ part.list = win.list /\ part.loading = win.loading
      /\ part.failed = win.failed /\ part.mine = win.mine /\ part.here = win.here /\ part.form = win.form
      /\ part.busy = win.busy /\ part.raced = win.raced
  BY <1>1, <1>2 DEF Window
<1> HIDE DEF section, part
<1>6. win' \in Window /\ SameList /\ win'.busy = win.busy /\ win'.here = win.here /\ win'.form = win.form /\ win'.raced = win.raced
  BY <1>3, <1>4, <1>5 DEF Window, SameList
<1>7. PICK d : d = Call("section", shown.of, None, None, None, FALSE)
  OBVIOUS
<1>8. d \in CallRow /\ d # None /\ d.pc = "sent" /\ d.kind = "section" /\ d.row = shown.of /\ d.flag = None /\ ~d.lists
  <2>1. d \in CallRow
    BY <1>2, <1>7 DEF Call, CallRow, Reads, RowStatus
  <2> QED  BY <1>7, <2>1, ConsoleAssumption DEF Call
<1>9. Begins(d, win.form)
  BY <1>2, <1>8 DEF Begins, Asks, SetsTheList, ReleasesOwn, Hydrates, RowWrites, Parcels, Steps, AllLoad
<1>10. Without(k) \in [Slots -> CallRow \union {None}] /\ \A j \in Slots : Without(k)[j] = IF j = k THEN None ELSE call[j]
  BY GoneCall DEF ConsoleInv
<1>11. call' \in [Slots -> CallRow \union {None}] /\ call'[k] \in {None, d} /\ \A j \in Slots : j # k => call'[j] = call[j]
  BY <1>1, <1>7, <1>8, <1>10 DEF PanelWith
<1>12. \A j \in Slots : j # k /\ call[j] # None => call'[j] = call[j] /\ GoesOn(call[j], call'[j])
  BY <1>11 DEF GoesOn, SameCall
<1>13. HandlersGoOn
  BY <1>6, <1>9, <1>11, <1>12 DEF HandlersGoOn
<1>14. ~Loads(k) /\ ~WillLoad(k)
  BY <1>1 DEF Loads, WillLoad, MaySet
<1>15. ButtonsWait
  BY <1>1, <1>6, <1>11, <1>14, ConsoleAssumption DEF ButtonsWait, Loads, SameList
<1>16. \A j \in Slots : Loads(j) \/ WillLoad(j) => call'[j] # None /\ SameCall(call[j], call'[j])
  BY <1>12, <1>14 DEF Loads, WillLoad, MaySet, GoesOn
<1>17. \A j \in Slots : call'[j] # None =>
          \/ GoesOn(call[j], call'[j])
          \/ call'[j].kind # "load" /\ call'[j].pc = "sent" /\ (call'[j].lists => MaySet(j) /\ call'[j].back = call[j].back)
  BY <1>8, <1>11, <1>12
<1> QED  BY <1>1, <1>6, <1>11, <1>13, <1>15, <1>16, <1>17, QuietKeeps
\* The panel is closed, and what its handlers would set is gone.
LEMMA ClosedKeeps == ASSUME ConsoleInv, page = "orders", CloseOrder PROVE ConsoleInv'
<1> DEFINE flags == {"panel", "section"}
           open == Release(win, "panel")
           shut == Release(open, "section")
           lost == Detached(call, flags)
<1>1. win \in Window /\ call \in [Slots -> CallRow \union {None}]
  BY DEF ConsoleInv, TypeOK
<1>2. /\ open \in Window /\ open.query = win.query /\ open.list = win.list /\ open.loading = win.loading
      /\ open.failed = win.failed /\ open.mine = win.mine /\ open.raced = win.raced /\ open.here = win.here
      /\ open.form = win.form /\ \A f \in Flags : open.busy[f] = IF f = "panel" THEN None ELSE win.busy[f]
  BY <1>1, Released
<1> HIDE DEF open
<1>3. /\ shut \in Window /\ shut.query = win.query /\ shut.list = win.list /\ shut.loading = win.loading
      /\ shut.failed = win.failed /\ shut.mine = win.mine /\ shut.raced = win.raced /\ shut.here = win.here
      /\ shut.form = win.form /\ \A f \in Flags : shut.busy[f] = IF f = "section" THEN None ELSE open.busy[f]
  BY <1>2, Released
<1> HIDE DEF shut
<1> DEFINE gone == [shut EXCEPT !.panel = None]
<1>4. win' = [gone EXCEPT !.section = None]
  BY <1>3 DEF CloseOrder, open, shut, Window
<1>5. /\ gone \in Window /\ gone.query = win.query /\ gone.list = win.list /\ gone.loading = win.loading
      /\ gone.failed = win.failed /\ gone.mine = win.mine /\ gone.raced = win.raced /\ gone.here = win.here
      /\ gone.busy = shut.busy
  BY <1>3 DEF Window
<1> HIDE DEF gone
<1>6. win' \in Window /\ SameList /\ win'.raced = win.raced /\ win'.here = win.here /\ win'.busy = shut.busy
  BY <1>4, <1>5 DEF Window, SameList
<1>7. \A f \in Flags : win'.busy[f] # None => win.busy[f] # None /\ f \notin flags
  BY <1>2, <1>3, <1>6
<1>8. ASSUME NEW j \in Slots, call[j] # None
      PROVE  /\ call[j].flag \in flags \union {None}
             /\ call[j].kind = "section" => ~Loads(j) /\ ~WillLoad(j)
  BY <1>8 DEF ConsoleInv, CallsInv, CallFits, ReleasesOwn, PageFlags, Loads, WillLoad
<1>9. /\ lost \in [Slots -> CallRow \union {None}]
      /\ \A j \in Slots : call[j] = None => lost[j] = None
      /\ \A j \in Slots : call[j] # None => lost[j] # None /\ GoesOn(call[j], lost[j])
  BY FewerTyped DEF ConsoleInv
<1>10. \A j \in Slots : call'[j] = IF call[j] # None /\ call[j].kind = "section" THEN None ELSE lost[j]
  BY DEF CloseOrder, Detached, Cancelled
<1>11. DOMAIN call' = Slots /\ call' = [j \in Slots |-> call'[j]]
  BY DEF CloseOrder, Detached
<1> HIDE DEF lost
<1>12. call' \in [Slots -> CallRow \union {None}]
  BY <1>9, <1>10, <1>11
<1>13. \A j \in Slots : call'[j] # None => GoesOn(call[j], call'[j])
  BY <1>9, <1>10
<1>14. HandlersGoOn
  BY <1>13 DEF HandlersGoOn
<1>15. \A j \in Slots : Loads(j) \/ WillLoad(j) => call'[j] # None /\ SameCall(call[j], call'[j])
  BY <1>8, <1>9, <1>10 DEF Loads, WillLoad, MaySet, GoesOn
<1>16. ButtonsWait
  <2>1. \A j \in Slots : Loads(j) => call'[j] # None /\ call'[j].kind = "load"
    BY <1>15 DEF Loads, SameCall
  <2>2. \A f \in Flags : win'.busy[f] # None => \A j \in Slots : ~(call[j] # None /\ call[j].flag = f)
    BY <1>7, <1>8, ConsoleAssumption
  <2> QED  BY <1>6, <1>7, <2>1, <2>2 DEF ButtonsWait, SameList
<1>17. UNCHANGED serverVars /\ Clicks
  BY DEF CloseOrder, Clicks
<1> QED  BY <1>6, <1>12, <1>13, <1>14, <1>15, <1>16, <1>17, QuietKeeps

\* A parcel of the order that the panel shows.
LEMMA ShipmentKeeps == ASSUME ConsoleInv, page = "orders", ShipmentClicked PROVE ConsoleInv'
<1>1. PICK c : Send(win, "section", "on", c) /\ \E kind \in Parcels, s \in {"PENDING", "IN_TRANSIT"}, r \in Rows :
                 c = Call(kind, r, s, win.panel.of, "section", FALSE)
  <2>1. win.panel # None /\ win.panel.of \in Rows
    BY DEF ShipmentClicked, ConsoleInv, TypeOK, Window, Glances
  <2>2. win.section # None => win.section.of \in Rows
    BY DEF ConsoleInv, TypeOK, Window, Glances
  <2> QED  BY <2>1, <2>2 DEF ShipmentClicked, Parcels
<1>2. PICK kind \in Parcels, s \in {"PENDING", "IN_TRANSIT"}, r \in Rows : c = Call(kind, r, s, win.panel.of, "section", FALSE)
  BY <1>1
<1>3. win.panel.of \in Rows
  BY DEF ShipmentClicked, ConsoleInv, TypeOK, Window, Glances
<1>4. c \in CallRow
  BY <1>2, <1>3 DEF Call, CallRow, Flags, ParcelStatus
<1>5. /\ c.kind = kind /\ c.row = r /\ c.sets = s /\ c.back = win.panel.of /\ c.flag = "section" /\ ~c.lists /\ c.pc = "sent"
  BY <1>2 DEF Call
<1>6. Begins(c, win.form)
  <2>1. Asks(c)
    BY <1>3, <1>5 DEF Asks, Parcels, RowWrites, ParcelStatus
  <2>2. SetsTheList(c, page)
    BY <1>5 DEF SetsTheList, Parcels, AllLoad, Hydrates
  <2>3. ReleasesOwn(c, page, win.form)
    BY <1>5 DEF ReleasesOwn, Parcels, PageFlags, Steps
  <2> QED  BY <1>5, <2>1, <2>2, <2>3 DEF Begins, Parcels, RowWrites
<1>7. "section" \in Flags /\ c.kind \notin Reads /\ "on" \in Rows \union {"on"}
  BY <1>5 DEF Flags, Parcels, Reads
<1> QED  BY <1>1, <1>4, <1>5, <1>6, <1>7, SendKeeps

\* After it, the shipments are asked for again.
LEMMA ShippedKeeps == ASSUME ConsoleInv, page = "orders", NEW k \in Slots, ShipmentDone(k) PROVE ConsoleInv'
<1>1. PICK d : d = Call("section", call[k].back, None, None, "section", FALSE)
  OBVIOUS
<1>2. /\ call[k] # None /\ call[k].kind \in Parcels /\ call[k].back \in Rows /\ ~call[k].lists /\ call[k].flag \in {"section", None}
      /\ UNCHANGED <<serverVars, win>> /\ Clicks
  BY DEF ShipmentDone, At, Clicks, ConsoleInv, CallsInv, CallFits, Asks, SetsTheList, ReleasesOwn
<1>3. d \in CallRow /\ d # None /\ d.pc = "sent" /\ d.kind = "section" /\ d.row = call[k].back /\ d.flag = "section" /\ ~d.lists
  <2>1. d \in CallRow
    BY <1>1, <1>2 DEF Call, CallRow, Reads, RowStatus, Flags
  <2> QED  BY <1>1, <2>1, ConsoleAssumption DEF Call
<1>4. win \in Window /\ call \in [Slots -> CallRow \union {None}]
  BY DEF ConsoleInv, TypeOK
<1>5. /\ call' \in [Slots -> CallRow \union {None}] /\ \A j \in Slots : j # k => call'[j] = call[j]
      /\ call'[k] = IF call[k].flag = None THEN None ELSE d
  BY <1>1, <1>3, <1>4 DEF ShipmentDone
<1>6. Begins(d, win.form)
  BY <1>2, <1>3 DEF Begins, Asks, SetsTheList, ReleasesOwn, Hydrates, RowWrites, Parcels, Steps, AllLoad, PageFlags
<1>7. \A j \in Slots : j # k /\ call[j] # None => call'[j] = call[j] /\ GoesOn(call[j], call'[j])
  BY <1>5 DEF GoesOn, SameCall
<1>8. HandlersGoOn
  BY <1>2, <1>5, <1>6, <1>7 DEF HandlersGoOn
<1>9. ~Loads(k) /\ ~WillLoad(k)
  BY <1>2 DEF Loads, WillLoad, MaySet, Parcels
<1>10. ButtonsWait
  BY <1>2, <1>3, <1>5, <1>7, <1>9, ConsoleAssumption DEF ButtonsWait, Loads
<1>11. \A j \in Slots : Loads(j) \/ WillLoad(j) => call'[j] # None /\ SameCall(call[j], call'[j])
  BY <1>7, <1>9 DEF Loads, WillLoad, MaySet, GoesOn
<1>12. \A j \in Slots : call'[j] # None =>
          \/ GoesOn(call[j], call'[j])
          \/ call'[j].kind # "load" /\ call'[j].pc = "sent" /\ (call'[j].lists => MaySet(j) /\ call'[j].back = call[j].back)
  BY <1>3, <1>5, <1>7
<1> QED  BY <1>2, <1>4, <1>5, <1>8, <1>10, <1>11, <1>12, QuietKeeps DEF SameList

LEMMA SectionKeeps == ASSUME ConsoleInv, page = "orders", NEW k \in Slots, SectionArrives(k) PROVE ConsoleInv'
<1> DEFINE c == call[k]
           w == Release(win, c.flag)
<1>1. c # None /\ c.kind = "section" /\ c.got \in Glances /\ UNCHANGED serverVars /\ Clicks /\ call' = Without(k) /\ ~c.lists
  BY DEF SectionArrives, At, Clicks, ConsoleInv, CallsInv, CallFits, AnswersTheQuery, Answered, SetsTheList
<1>2. /\ w \in Window /\ w.query = win.query /\ w.list = win.list /\ w.loading = win.loading /\ w.failed = win.failed
      /\ w.mine = win.mine /\ w.raced = win.raced /\ w.here = win.here /\ w.form = win.form
      /\ \A f \in Flags : w.busy[f] = IF f = c.flag THEN None ELSE win.busy[f]
  BY Released DEF ConsoleInv, TypeOK
<1>3. win' = [w EXCEPT !.section = c.got]
  BY DEF SectionArrives
<1>4. ~Loads(k) /\ ~WillLoad(k)
  BY <1>1 DEF Loads, WillLoad
<1> HIDE DEF w, c
<1>5. /\ win' \in Window /\ SameList /\ win'.raced = win.raced /\ win'.here = win.here /\ win'.form = win.form
      /\ win'.busy = w.busy
  BY <1>1, <1>2, <1>3 DEF Window, SameList
<1> QED  BY <1>1, <1>2, <1>4, <1>5, EndKeeps DEF c
\* A refund is shown, and the list is loaded next to the shipments of another order.
LEMMA RefundedKeeps == ASSUME ConsoleInv, page = "orders", NEW k \in Slots, RefundDone(k) PROVE ConsoleInv'
<1> DEFINE c == call[k]
           ack == Acknowledged(k)
           v == Release(ack, c.flag)
           raced == ListsLater(Without(k)) \/ v.raced
           w == [v EXCEPT !.loading = TRUE, !.raced = raced]
           g == GetList(c.back, None)
           loads == [call EXCEPT ![k] = g]
           n == FirstIn(FreeIn(loads))
           shown == [of |-> c.row, status |-> "REFUNDED"]
           d == Call("section", c.row, None, None, None, FALSE)
           section == IF w.panel = None THEN None ELSE w.section
           part == [w EXCEPT !.panel = shown]
<1>1. /\ c # None /\ c.lists /\ c.row \in Rows /\ c.back \in Queries /\ c.flag \in {"panel", "section", None}
      /\ c.got \in Lists /\ c.got.version <= version /\ c.kind = "refund"
      /\ ~win.raced => c.back = win.query
  BY DEF RefundDone, At, ConsoleInv, CallsInv, CallFits, Asks, SetsTheList, ReleasesOwn, PageFlags, AnswersTheQuery,
         Answered, RowWrites, ListInv, PresentIsAsked, MaySet
<1>2. /\ UNCHANGED serverVars /\ Clicks /\ FreeIn(loads) # {}
      /\ PanelWith(n, w, loads, shown)
  BY DEF RefundDone, Clicks
<1>3. win \in Window /\ win.mine <= version /\ call \in [Slots -> CallRow \union {None}] /\ page \notin Guarded /\ page \notin AllLoad
  BY DEF ConsoleInv, TypeOK, ListInv, Guarded, AllLoad
<1>4. /\ ack \in Window /\ ack.query = win.query /\ ack.list = win.list /\ ack.here = win.here /\ ack.form = win.form
      /\ ack.mine <= version /\ ack.busy = win.busy /\ ack.raced = win.raced
  BY <1>1, <1>3, Acknowledges
<1> HIDE DEF ack
<1>5. /\ v \in Window /\ v.query = win.query /\ v.list = win.list /\ v.here = win.here /\ v.form = win.form
      /\ v.mine = ack.mine /\ v.raced = win.raced
      /\ \A f \in Flags : v.busy[f] = IF f = c.flag THEN None ELSE win.busy[f]
  BY <1>4, Released
<1> HIDE DEF v
<1>6. raced \in BOOLEAN
  BY <1>5 DEF Window, ListsLater
<1> HIDE DEF raced
<1>7. /\ w \in Window /\ w.query = win.query /\ w.list = win.list /\ w.here = win.here /\ w.form = win.form
      /\ w.mine = ack.mine /\ w.raced = raced /\ w.loading = TRUE /\ w.busy = v.busy
  BY <1>5, <1>6 DEF Window
<1> HIDE DEF w
<1>8. shown \in Glances
  BY <1>1 DEF Glances, RowStatus
<1>9. section \in Glances \union {None}
  BY <1>7 DEF Window
<1>10. win' = [part EXCEPT !.section = section] /\ shown.of = c.row
  BY <1>2, <1>7 DEF PanelWith, Window
<1> HIDE DEF shown, section
<1>11. /\ part \in Window /\ part.query = win.query /\ part.list = win.list /\ part.here = win.here /\ part.form = win.form
       /\ part.mine = ack.mine /\ part.raced = raced /\ part.loading = TRUE /\ part.busy = v.busy
  BY <1>7, <1>8 DEF Window
<1> HIDE DEF part
<1>12. /\ win' \in Window /\ win'.query = win.query /\ win'.list = win.list /\ win'.here = win.here /\ win'.form = win.form
       /\ win'.mine = ack.mine /\ win'.raced = raced /\ win'.loading = TRUE /\ win'.busy = v.busy
  BY <1>9, <1>10, <1>11 DEF Window
<1>13. g \in CallRow /\ g # None /\ g.kind = "load" /\ g.back = c.back /\ g.flag = None /\ g.lists /\ g.pc = "sent"
  <2>1. g \in CallRow
    BY <1>1 DEF GetList, Call, CallRow, Reads, RowStatus
  <2> QED  BY <2>1, ConsoleAssumption DEF GetList, Call
<1>14. d \in CallRow /\ d # None /\ d.kind = "section" /\ d.row = c.row /\ d.flag = None /\ ~d.lists /\ d.pc = "sent"
  <2>1. d \in CallRow
    BY <1>1 DEF Call, CallRow, Reads, RowStatus
  <2> QED  BY <2>1, ConsoleAssumption DEF Call
<1>15. n \in Slots /\ loads[n] = None
  BY <1>2 DEF FreeIn, FirstIn
<1>16. call' \in {loads, [loads EXCEPT ![n] = d]}
  BY <1>2, <1>10 DEF PanelWith
<1> HIDE DEF c, g, d, n
<1>17. loads \in [Slots -> CallRow \union {None}] /\ \A j \in Slots : loads[j] = IF j = k THEN g ELSE call[j]
  BY <1>3, <1>13
<1>18. n # k /\ call[n] = None
  BY <1>13, <1>15, <1>17
<1> HIDE DEF loads
<1>19. /\ call' \in [Slots -> CallRow \union {None}] /\ call'[k] = g /\ call'[n] \in {None, d}
       /\ \A j \in Slots : j # k /\ j # n => call'[j] = call[j]
  BY <1>14, <1>15, <1>16, <1>17, <1>18
<1>20. Begins(g, win.form)
  BY <1>1, <1>3, <1>13 DEF Begins, Asks, SetsTheList, ReleasesOwn, Hydrates, RowWrites, Parcels, Steps
<1>21. Begins(d, win.form)
  BY <1>1, <1>3, <1>14 DEF Begins, Asks, SetsTheList, ReleasesOwn, Hydrates, RowWrites, Parcels, Steps
<1>22. \A j \in Slots : j # k /\ j # n /\ call[j] # None => GoesOn(call[j], call'[j])
  BY <1>19 DEF GoesOn, SameCall
<1>23. HandlersGoOn
  BY <1>12, <1>15, <1>19, <1>20, <1>21, <1>22 DEF HandlersGoOn
<1>24. ButtonsWait
  <2>1. call'[k] # None /\ call'[k].kind = "load"
    BY <1>13, <1>19
  <2>2. \A f \in Flags : win'.busy[f] # None => win.busy[f] # None /\ f # c.flag
    BY <1>5, <1>12
  <2>3. \A j \in Slots : call[j] # None => j = k \/ call'[j] = call[j]
    BY <1>18, <1>19
  <2>4. ASSUME NEW f \in Flags, f # c.flag
        PROVE  \A j \in Slots : call[j] # None /\ call[j].flag = f => call'[j] # None /\ call'[j].flag = f
    BY <2>3, <2>4 DEF c
  <2> QED  BY <1>12, <2>1, <2>2, <2>4 DEF ButtonsWait
<1>25. PICK calls : calls = [j \in Slots |-> IF j = k THEN None ELSE call'[j]]
  OBVIOUS
<1>26. FewerCalls(calls)
  BY <1>14, <1>19, <1>22, <1>25 DEF FewerCalls, GoesOn, SameCall
<1>27. ListsLater(calls) = ListsLater(Without(k))
  <2>1. \A j \in Slots : Without(k)[j] = IF j = k THEN None ELSE call[j]
    BY GoneCall DEF ConsoleInv
  <2>2. \A j \in Slots : calls[j] # None /\ calls[j].lists <=> Without(k)[j] # None /\ Without(k)[j].lists
    BY <2>1, <1>14, <1>18, <1>19, <1>25
  <2> QED  BY <2>2 DEF ListsLater
<1>28. Loading(k, v, calls, c.back, None, TRUE)
  BY <1>5, <1>12, <1>19, <1>25, <1>27 DEF Loading, raced, g
<1>29. v.mine <= version /\ ListInv /\ CallsInv /\ UNCHANGED <<page, version>> /\ GetList(c.back, None) # None
  BY <1>2, <1>4, <1>5, <1>13 DEF ConsoleInv, serverVars, g
<1>30. ~win.raced => c.back = v.query
  BY <1>1, <1>5
<1>31. ListInv'
  <2>1. None \notin CallRow
    BY ConsoleAssumption
  <2>2. v.raced = win.raced
    BY <1>5
  <2>3. page \in Guarded => c.back = v.query /\ (v.query = win.query \/ ~ListsLater(calls))
    BY <1>3
  <2>4. TRUE => c.back = v.query \/ (~win.raced => c.back = v.query)
    BY <1>30
  <2>5. ~TRUE => c.back = v.query
    OBVIOUS
  <2> QED  BY <1>26, <1>28, <1>29, <2>1, <2>2, <2>3, <2>4, <2>5, LoadStep
<1> QED  BY <1>2, <1>12, <1>19, <1>23, <1>24, <1>31, PageStep

LEMMA OrdersKeeps == ASSUME ConsoleInv, OrdersPage PROVE ConsoleInv'
<1>1. page = "orders" /\ PageFlags(page) = {"panel", "section"} /\ page \notin AllLoad /\ page \notin Guarded
  BY DEF OrdersPage, PageFlags, AllLoad, Guarded
<1>2. CASE Refilter \/ Resize \/ TurnPage
  BY <1>1, <1>2, QueryKeeps
<1>3. ASSUME NEW r \in Rows, OpenOrder(r) PROVE ConsoleInv'
  BY <1>3, OpenKeeps DEF OpenOrder
<1>4. CASE RefundOrder
  <2>1. /\ Send(win, "panel", "on", Call("refund", win.panel.of, "REFUNDED", win.query, "panel", TRUE))
        /\ win.panel.of \in Rows
    BY <1>4 DEF RefundOrder, ConsoleInv, TypeOK, Window, Glances
  <2>2. "refund" \in RowWrites \union Steps /\ "REFUNDED" \in PageStatuses \union {None, "same"}
    BY <1>1, PageStatusesTyped DEF RowWrites, Statuses, PageStatuses
  <2> QED  BY <1>1, <2>1, <2>2, StartKeeps
<1> QED  BY <1>1, <1>2, <1>3, <1>4, OpenedKeeps, ClosedKeeps, RefundedKeeps, ShipmentKeeps, ShippedKeeps, SectionKeeps DEF OrdersPage
\* A handler loads the list once it is done, on a page that does not guard against older answers.
LEMMA AfterKeeps ==
  ASSUME ConsoleInv, NEW k \in Slots, NEW w \in Window, NEW flag, LoadIn(k, w, Without(k), call[k].back, flag, TRUE),
         UNCHANGED serverVars, Clicks, call[k] # None, call[k].lists, page \notin Guarded, page # "inventory",
         flag \in PageFlags(page) \union {None}, call[k].flag \in {flag, None},
         w.busy = win.busy, w.here = win.here, w.mine <= version, w.raced = win.raced, w.query = win.query
  PROVE  ConsoleInv'
<1>1. PICK q : q = call[k].back
  OBVIOUS
<1>2. q \in Queries /\ (~win.raced => q = w.query)
  BY <1>1 DEF ConsoleInv, CallsInv, CallFits, Asks, ListInv, PresentIsAsked, MaySet
<1>3. PICK calls : calls = Without(k)
  OBVIOUS
<1>4. calls \in [Slots -> CallRow \union {None}] /\ calls[k] = None /\ \A j \in Slots : j # k => calls[j] = call[j]
  BY <1>3, GoneCall DEF ConsoleInv
<1>5. LeftInOrder(w, calls, flag)
  <2>1. \A j \in Slots : calls[j] # None => GoesOn(call[j], calls[j])
    BY <1>4 DEF GoesOn, SameCall
  <2>2. ASSUME NEW f \in Flags, f # flag
        PROVE  \A j \in Slots : call[j] # None /\ call[j].flag = f => calls[j] # None /\ calls[j].flag = f
    <3>1. f # None
      BY ConsoleAssumption
    <3> QED  BY <1>4, <2>2, <3>1
  <2> QED  BY <2>1, <2>2 DEF LeftInOrder
<1>6. LoadIn(k, w, calls, q, flag, TRUE)
  BY <1>1, <1>3
<1>7. page \in Guarded => flag = None /\ q = w.query /\ (w.query = win.query \/ ~ListsLater(calls))
  OBVIOUS
<1>8. q = w.query \/ (TRUE /\ (~win.raced => q = w.query))
  BY <1>2
<1> QED  BY <1>2, <1>4, <1>5, <1>6, <1>7, <1>8, LoadKeeps

LEMMA ReturnsKeeps == ASSUME ConsoleInv, ReturnsPage PROVE ConsoleInv'
<1>1. page = "returns" /\ PageFlags(page) = {"row"} /\ page \in AllLoad /\ page \notin Guarded
  BY DEF ReturnsPage, PageFlags, AllLoad, Guarded
<1>2. CASE Refilter \/ TurnPage
  BY <1>1, <1>2, QueryKeeps
<1>3. ASSUME NEW r \in Rows, Decide(r) PROVE ConsoleInv'
  <2>1. \/ \E d \in DOMAIN Decisions : Send(win, "row", r, Call(d, r, Decisions[d], win.query, "row", TRUE))
        \/ Send(win, "row", r, Call("refund return", r, "REFUNDED", win.query, "row", TRUE))
    BY <1>3 DEF Decide
  <2>2. DOMAIN Decisions = {"approve", "reject"} /\ \A d \in DOMAIN Decisions : Decisions[d] \in {"APPROVED", "REJECTED"}
    BY DEF Decisions
  <2>3. {"approve", "reject", "refund return"} \subseteq RowWrites
    BY DEF RowWrites
  <2>4. {"APPROVED", "REJECTED", "REFUNDED"} \subseteq PageStatuses
    BY <1>1, PageStatusesTyped DEF PageStatuses, Statuses
  <2>5. ASSUME NEW kind \in {"approve", "reject", "refund return"}, NEW s \in {"APPROVED", "REJECTED", "REFUNDED"},
               Send(win, "row", r, Call(kind, r, s, win.query, "row", TRUE))
        PROVE  ConsoleInv'
    <3>1. kind \in RowWrites \union Steps /\ s \in PageStatuses \union {None, "same"}
      BY <2>3, <2>4
    <3> QED  BY <1>1, <2>5, <3>1, StartKeeps
  <2>6. ASSUME NEW d \in DOMAIN Decisions, Send(win, "row", r, Call(d, r, Decisions[d], win.query, "row", TRUE))
        PROVE  ConsoleInv'
    <3>1. d \in {"approve", "reject", "refund return"} /\ Decisions[d] \in {"APPROVED", "REJECTED", "REFUNDED"}
      BY <2>2
    <3> QED  BY <2>5, <2>6, <3>1
  <2> QED  BY <2>1, <2>5, <2>6
<1>4. ASSUME NEW k \in Slots, Decided(k) PROVE ConsoleInv'
  <2> DEFINE w == Acknowledged(k)
  <2>1. /\ LoadIn(k, w, Without(k), call[k].back, call[k].flag, TRUE) /\ UNCHANGED serverVars /\ Clicks
    BY <1>4 DEF Decided, Clicks
  <2>2. /\ call[k] # None /\ call[k].got \in Lists /\ call[k].got.version <= version /\ call[k].lists
        /\ call[k].flag \in {"row", None}
    BY <1>1, <1>4 DEF Decided, At, ConsoleInv, CallsInv, CallFits, AnswersTheQuery, Answered, ReleasesOwn, SetsTheList, RowWrites
  <2>3. win \in Window /\ win.mine <= version
    BY DEF ConsoleInv, TypeOK, ListInv
  <2>4. /\ w \in Window /\ w.busy = win.busy /\ w.mine <= version /\ w.here = win.here /\ w.raced = win.raced /\ w.query = win.query
    BY <2>2, <2>3, Acknowledges
  <2> HIDE DEF w
  <2> QED  BY <1>1, <2>1, <2>2, <2>4, AfterKeeps
<1> QED  BY <1>2, <1>3, <1>4 DEF ReturnsPage

LEMMA PrivacyKeeps == ASSUME ConsoleInv, PrivacyPage PROVE ConsoleInv'
<1>1. page = "privacy" /\ page \notin Guarded /\ TurnPage
  BY DEF PrivacyPage, Guarded
<1> QED  BY <1>1, QueryKeeps

-----------------------------------------------------------------------------
(* The pages with a form.                                                   *)

\* A page is left, or a form is enabled again, when its handler ends.
LEMMA FormEnds ==
  ASSUME ConsoleInv, NEW k \in Slots, At(k, RowWrites \union Steps), call' = Without(k), UNCHANGED serverVars, Clicks,
         win' = Leaves(win) \/ (win' = Release(win, "save") /\ call[k].flag \in {"save", None})
  PROVE  ConsoleInv'
<1>1. call[k] # None /\ ~Loads(k) /\ ~WillLoad(k) /\ win \in Window
  BY DEF At, RowWrites, Steps, Loads, WillLoad, ConsoleInv, TypeOK
<1>2. CASE win' = Leaves(win)
  <2>1. win' \in Window /\ SameList /\ win'.raced = win.raced /\ win'.form = win.form /\ ~win'.here
    BY <1>1, <1>2 DEF Leaves, Window, SameList
  <2> QED  BY <1>1, <2>1, EndKeeps
<1>3. CASE win' = Release(win, "save") /\ call[k].flag \in {"save", None}
  <2>1. PICK w : w = Release(win, "save")
    OBVIOUS
  <2>2. /\ w \in Window /\ w.query = win.query /\ w.list = win.list /\ w.loading = win.loading /\ w.failed = win.failed
        /\ w.mine = win.mine /\ w.raced = win.raced /\ w.here = win.here /\ w.form = win.form
        /\ \A f \in Flags : w.busy[f] = IF f = "save" THEN None ELSE win.busy[f]
    BY <1>1, <2>1, Released
  <2>3. win' = w
    BY <1>3, <2>1
  <2>4. win' \in Window /\ SameList /\ win'.raced = win.raced /\ win'.form = win.form /\ win'.here = win.here
    BY <2>2, <2>3 DEF SameList
  <2>5. /\ \A f \in Flags : win'.busy[f] # None => win.busy[f] # None
        /\ call[k].flag \in Flags => win'.busy[call[k].flag] = None
    BY <1>3, <2>2, <2>3, ConsoleAssumption
  <2> QED  BY <1>1, <2>4, <2>5, EndKeeps
<1> QED  BY <1>2, <1>3
\* A page shows the answer to its own write and enables the button.
ShowsAnswer(v, c) ==
  \/ win' = [v EXCEPT !.list = c.got]
  \/ page \notin Guarded /\ win' = [v EXCEPT !.list = c.got, !.failed = FALSE]

LEMMA ShownKeeps ==
  ASSUME ConsoleInv, NEW k \in Slots, At(k, RowWrites), Hydrates(call[k], page), NEW flag, call[k].flag \in {flag, None},
         NEW v, v = Release(Acknowledged(k), flag), ShowsAnswer(v, call[k]),
         call' = Without(k), UNCHANGED serverVars, Clicks
  PROVE  ConsoleInv'
<1> DEFINE c == call[k]
           ack == Acknowledged(k)
<1>1. c # None /\ Answered(c) /\ c.kind # "load" /\ c.got \in Lists /\ c.got.version <= version
  BY DEF At, ConsoleInv, CallsInv, CallFits, AnswersTheQuery, Answered, RowWrites
<1>2. win \in Window /\ win.mine <= version
  BY DEF ConsoleInv, TypeOK, ListInv
<1>3. /\ ack \in Window /\ ack.query = win.query /\ ack.loading = win.loading /\ ack.failed = win.failed
      /\ ack.here = win.here /\ ack.form = win.form /\ ack.busy = win.busy /\ ack.raced = win.raced
  BY <1>1, <1>2, Acknowledges
<1>4. /\ v \in Window /\ v.query = win.query /\ v.loading = win.loading /\ v.failed = win.failed
      /\ v.here = win.here /\ v.form = win.form /\ v.raced = win.raced /\ v.mine = ack.mine
      /\ \A f \in Flags : v.busy[f] = IF f = flag THEN None ELSE win.busy[f]
  BY <1>3, Released
<1> HIDE DEF c, ack
<1>5. /\ win' \in Window /\ win'.query = win.query /\ win'.list = c.got /\ win'.loading = win.loading
      /\ win'.failed \in {win.failed, FALSE} /\ (page \in Guarded => win'.failed = win.failed)
      /\ win'.here = win.here /\ win'.form = win.form /\ win'.raced = win.raced /\ win'.mine = ack.mine
      /\ win'.busy = v.busy
  <2>1. CASE win' = [v EXCEPT !.list = c.got]
    BY <1>1, <1>4, <2>1 DEF Window
  <2>2. CASE page \notin Guarded /\ win' = [v EXCEPT !.list = c.got, !.failed = FALSE]
    BY <1>1, <1>4, <2>2 DEF Window
  <2> QED  BY <2>1, <2>2 DEF ShowsAnswer, c
<1>6. /\ call' \in [Slots -> CallRow \union {None}]
      /\ \A j \in Slots : call'[j] = IF j = k THEN None ELSE call[j]
  BY GoneCall DEF ConsoleInv
<1>7. HandlersGoOn
  BY <1>5, <1>6 DEF HandlersGoOn, GoesOn, SameCall
<1>8. ButtonsWait
  <2>1. \A f \in Flags : win'.busy[f] # None => win.busy[f] # None /\ f # c.flag
    BY <1>4, <1>5, ConsoleAssumption DEF c
  <2>2. \A j \in Slots : Loads(j) => call'[j] # None /\ call'[j].kind = "load"
    BY <1>1, <1>6 DEF Loads, c
  <2> QED  BY <1>5, <1>6, <2>1, <2>2 DEF ButtonsWait, c
<1>9. ListInv'
  <2>1. UNCHANGED <<page, version>>
    BY DEF serverVars
  <2> QED  BY <1>1, <1>5, <2>1, ShownStep DEF c, ack
<1> QED  BY <1>5, <1>6, <1>7, <1>8, <1>9, PageStep

\* One product.
LEMMA ProductKeeps == ASSUME ConsoleInv, ProductPage PROVE ConsoleInv'
<1>1. page = "product" /\ PageFlags(page) = Flags /\ page \notin AllLoad /\ page \in Guarded
  BY DEF ProductPage, PageFlags, AllLoad, Guarded
<1>2. /\ {"DRAFT", "ACTIVE"} \subseteq PageStatuses
      /\ Product \in Rows
  BY <1>1, PageStatusesTyped, OrderTyped DEF Statuses, PageStatuses, Product
<1>3. "save" \in Flags /\ "panel" \in Flags /\ "start" \in Flags /\ "row" \in Flags
  BY DEF Flags
<1>4. {"save", "publish", "delete", "add variant", "drop variant"} \subseteq RowWrites
  BY DEF RowWrites
<1>5. ASSUME NEW kind \in {"save", "publish", "delete", "add variant", "drop variant"},
             NEW s \in {"DRAFT", "ACTIVE", None, "same"}, NEW flag \in Flags, NEW lists \in BOOLEAN,
             kind \in {"save", "publish"} => lists,
             Send(win, flag, "on", Call(kind, Product, s, win.query, flag, lists))
      PROVE  ConsoleInv'
  <2>1. kind \in RowWrites \union Steps /\ s \in PageStatuses \union {None, "same"} /\ flag \in PageFlags(page)
        /\ "on" \in Rows \union {"on"}
    BY <1>1, <1>2, <1>4
  <2>2. kind # "refund"
    OBVIOUS
  <2> QED  BY <1>1, <1>2, <1>5, <2>1, <2>2, StartKeeps
<1>6. CASE Save
  BY <1>3, <1>5, <1>6 DEF Save
<1>7. CASE PublishIt
  BY <1>3, <1>5, <1>7 DEF PublishIt
<1>8. CASE DeleteIt
  BY <1>3, <1>5, <1>8 DEF DeleteIt
<1>9. CASE ChangeVariants
  BY <1>3, <1>5, <1>9 DEF ChangeVariants
<1>10. ASSUME NEW k \in Slots, Hydrated(k) PROVE ConsoleInv'
  <2>1. PICK flag : flag = call[k].flag
    OBVIOUS
  <2>2. PICK v : v = Release(Acknowledged(k), flag)
    OBVIOUS
  <2>3. At(k, RowWrites) /\ Hydrates(call[k], page) /\ call[k].flag \in {flag, None}
    BY <1>1, <1>4, <1>10, <2>1 DEF Hydrated, At, Hydrates
  <2>4. win' = [v EXCEPT !.list = call[k].got] /\ call' = Without(k) /\ UNCHANGED serverVars /\ Clicks
    BY <1>10, <2>1, <2>2 DEF Hydrated, Clicks
  <2>5. ShowsAnswer(v, call[k])
    BY <2>4 DEF ShowsAnswer
  <2>6. call' = Without(k) /\ UNCHANGED serverVars /\ Clicks
    BY <2>4
  <2> QED  BY <2>2, <2>3, <2>5, <2>6, ShownKeeps
<1>11. ASSUME NEW k \in Slots, ProductDeleted(k) PROVE ConsoleInv'
  <2>1. At(k, RowWrites \union Steps) /\ call' = Without(k) /\ UNCHANGED serverVars /\ Clicks /\ win' = Leaves(win)
    BY <1>4, <1>11 DEF ProductDeleted, At, Clicks
  <2> QED  BY <2>1, FormEnds
<1>12. ASSUME NEW k \in Slots, VariantsChanged(k) PROVE ConsoleInv'
  <2>1. PICK w : w = Release(Acknowledged(k), call[k].flag)
    OBVIOUS
  <2>2. call[k] # None /\ call[k].got \in Lists /\ call[k].got.version <= version
    BY <1>4, <1>12 DEF VariantsChanged, At, ConsoleInv, CallsInv, CallFits, AnswersTheQuery, Answered
  <2>3. win \in Window /\ win.mine <= version
    BY DEF ConsoleInv, TypeOK, ListInv
  <2>4. /\ Acknowledged(k) \in Window /\ Acknowledged(k).busy = win.busy /\ Acknowledged(k).mine <= version
        /\ Acknowledged(k).here = win.here /\ Acknowledged(k).form = win.form /\ Acknowledged(k).raced = win.raced
        /\ Acknowledged(k).query = win.query
    BY <2>2, <2>3, Acknowledges
  <2>5. /\ w \in Window /\ w.mine <= version /\ w.here = win.here /\ w.form = win.form /\ w.raced = win.raced /\ w.query = win.query
        /\ \A f \in Flags : w.busy[f] = IF f = call[k].flag THEN None ELSE win.busy[f]
    BY <2>1, <2>4, Released
  <2>6. \A f \in Flags : w.busy[f] # None => win.busy[f] # None /\ f # call[k].flag
    BY <2>5
  <2>7. ReloadIn(k, w) /\ UNCHANGED serverVars /\ Clicks
    BY <1>12, <2>1 DEF VariantsChanged, Clicks
  <2> QED  BY <2>2, <2>5, <2>6, <2>7, ReloadKeeps
<1> QED  BY <1>6, <1>7, <1>8, <1>9, <1>10, <1>11, <1>12 DEF ProductPage
\* A form is submitted.
LEMMA CreateKeeps ==
  ASSUME ConsoleInv, NEW lists \in BOOLEAN, Create(lists), "save" \in PageFlags(page),
         page \in AllLoad => lists, page \notin {"inventory", "products"}
  PROVE  ConsoleInv'
<1>1. Send(win, "save", "on", Call("create", New, Statuses[1], win.query, "save", lists))
  BY DEF Create
<1>2. "create" \in RowWrites \union Steps /\ New \in Rows /\ "on" \in Rows \union {"on"}
  BY OrderTyped DEF RowWrites
<1>3. Statuses[1] \in PageStatuses \union {None, "same"}
  <2>1. 1 \in DOMAIN Statuses
    BY DEF Statuses
  <2> QED  BY <2>1, PageStatusesTyped
<1>4. "create" \notin Steps
  BY DEF Steps
<1> QED  BY <1>1, <1>2, <1>3, <1>4, StartKeeps

\* What a handler wrote is acknowledged and its button released.
LEMMA DoneTyped ==
  ASSUME ConsoleInv, NEW k \in Slots, At(k, RowWrites), NEW flag, NEW w, w = Release(Acknowledged(k), flag)
  PROVE  /\ call[k] # None /\ call[k].got \in Lists /\ call[k].got.version <= version
         /\ w \in Window /\ w.mine <= version /\ w.here = win.here /\ w.form = win.form /\ w.raced = win.raced
         /\ w.query = win.query
         /\ \A f \in Flags : w.busy[f] = IF f = flag THEN None ELSE win.busy[f]
         /\ Acknowledged(k) \in Window /\ Acknowledged(k).busy = win.busy /\ Acknowledged(k).mine <= version
         /\ Acknowledged(k).here = win.here /\ Acknowledged(k).form = win.form /\ Acknowledged(k).raced = win.raced
         /\ Acknowledged(k).query = win.query
<1>1. call[k] # None /\ call[k].got \in Lists /\ call[k].got.version <= version
  BY DEF At, ConsoleInv, CallsInv, CallFits, AnswersTheQuery, Answered
<1>2. win \in Window /\ win.mine <= version
  BY DEF ConsoleInv, TypeOK, ListInv
<1>3. /\ Acknowledged(k) \in Window /\ Acknowledged(k).busy = win.busy /\ Acknowledged(k).mine <= version
      /\ Acknowledged(k).here = win.here /\ Acknowledged(k).form = win.form /\ Acknowledged(k).raced = win.raced
      /\ Acknowledged(k).query = win.query
  BY <1>1, <1>2, Acknowledges
<1>4. /\ w \in Window /\ w.mine <= version /\ w.here = win.here /\ w.form = win.form /\ w.raced = win.raced
      /\ w.query = win.query
      /\ \A f \in Flags : w.busy[f] = IF f = flag THEN None ELSE win.busy[f]
  BY <1>3, Released
<1> QED  BY <1>1, <1>3, <1>4

\* A form whose effect loads the list anew: brands and categories.
LEMMA ReloadedKeeps ==
  ASSUME ConsoleInv, page \in {"brands", "categories"}, NEW k \in Slots, CreatedThenReload(k) PROVE ConsoleInv'
<1>1. PICK w : w = Release(Acknowledged(k), "save")
  OBVIOUS
<1>2. At(k, RowWrites)
  BY DEF CreatedThenReload, At, RowWrites
<1>3. ReloadIn(k, w) /\ UNCHANGED serverVars /\ Clicks
  BY <1>1 DEF CreatedThenReload, Clicks
<1>4. call[k] # None /\ call[k].flag \in {"save", None}
  BY <1>2 DEF At, ConsoleInv, CallsInv, CallFits, ReleasesOwn, PageFlags
<1>5. /\ w \in Window /\ w.mine <= version /\ w.here = win.here /\ w.form = win.form /\ w.raced = win.raced
      /\ w.query = win.query
      /\ \A f \in Flags : w.busy[f] = IF f = "save" THEN None ELSE win.busy[f]
  BY <1>1, <1>2, DoneTyped
<1>6. \A f \in Flags : w.busy[f] # None => win.busy[f] # None /\ f # call[k].flag
  BY <1>4, <1>5, ConsoleAssumption
<1> QED  BY <1>3, <1>4, <1>5, <1>6, ReloadKeeps

LEMMA LocationsKeeps == ASSUME ConsoleInv, LocationsPage PROVE ConsoleInv'
<1>1. page = "locations" /\ PageFlags(page) = {"save"} /\ page \notin Guarded
  BY DEF LocationsPage, PageFlags, Guarded
<1>2. CASE Create(TRUE)
  BY <1>1, <1>2, CreateKeeps
<1>3. ASSUME NEW k \in Slots, CreatedThenLoad(k) PROVE ConsoleInv'
  <2>1. At(k, RowWrites) /\ call[k].kind = "create"
    BY <1>3 DEF CreatedThenLoad, At, RowWrites
  <2>2. PICK w : w = Acknowledged(k)
    OBVIOUS
  <2>3. LoadIn(k, w, Without(k), call[k].back, "save", TRUE) /\ UNCHANGED serverVars /\ Clicks
    BY <1>3, <2>2 DEF CreatedThenLoad, Clicks
  <2>4. call[k] # None /\ call[k].flag \in {"save", None} /\ call[k].lists
    BY <1>1, <2>1 DEF At, ConsoleInv, CallsInv, CallFits, ReleasesOwn, SetsTheList, AllLoad
  <2>5. w \in Window /\ w.busy = win.busy /\ w.mine <= version /\ w.here = win.here /\ w.raced = win.raced /\ w.query = win.query
    BY <2>1, <2>2, DoneTyped
  <2> QED  BY <1>1, <2>3, <2>4, <2>5, AfterKeeps
<1> QED  BY <1>2, <1>3 DEF LocationsPage

\* The pages of a form, but for the locations.
LEMMA FormsKeep ==
  ASSUME ConsoleInv, NewProductPage \/ BrandsPage \/ CategoriesPage \/ ImportsPage PROVE ConsoleInv'
<1>1. /\ page \in {"new product", "brands", "categories", "imports"} /\ PageFlags(page) = {"save"} /\ page \notin AllLoad
      /\ page \notin {"inventory", "products"}
  BY DEF NewProductPage, BrandsPage, CategoriesPage, ImportsPage, PageFlags, AllLoad
<1>2. CASE Create(FALSE)
  BY <1>1, <1>2, CreateKeeps
<1>3. ASSUME NEW k \in Slots, page \in {"brands", "categories"}, CreatedThenReload(k) PROVE ConsoleInv'
  BY <1>3, ReloadedKeeps
<1>4. ASSUME NEW k \in Slots, At(k, {"create"}), win' = Leaves(win) \/ win' = Release(win, "save"), call' = Without(k),
             UNCHANGED <<serverVars, clicks>>
      PROVE  ConsoleInv'
  <2>1. At(k, RowWrites \union Steps) /\ UNCHANGED serverVars /\ Clicks
    BY <1>4 DEF At, RowWrites, Clicks
  <2>2. call[k].flag \in {"save", None}
    BY <1>1, <1>4 DEF At, ConsoleInv, CallsInv, CallFits, ReleasesOwn
  <2> QED  BY <1>4, <2>1, <2>2, FormEnds
<1> QED  BY <1>2, <1>3, <1>4 DEF NewProductPage, BrandsPage, CategoriesPage, ImportsPage

LEMMA ConnectKeeps == ASSUME ConsoleInv, ConnectPage PROVE ConsoleInv'
<1>1. page = "connect" /\ PageFlags(page) = {"save"} /\ page \notin AllLoad /\ page \notin Guarded
  BY DEF ConnectPage, PageFlags, AllLoad, Guarded
<1>2. Order[1] \in Rows /\ "on" \in Rows \union {"on"}
  BY OrderTyped
<1>3. CASE CreateAccount
  <2>1. Send(win, "save", "on", Call("account", Order[1], "LISTED", win.query, "save", TRUE))
    BY <1>3 DEF CreateAccount
  <2>2. "account" \in RowWrites \union Steps /\ "LISTED" \in PageStatuses \union {None, "same"}
    BY <1>1, PageStatusesTyped DEF RowWrites, Statuses, PageStatuses
  <2> QED  BY <1>1, <1>2, <2>1, <2>2, StartKeeps
<1>4. CASE StartOnboarding
  <2>1. Send(win, "save", "on", Call("put", Order[1], "same", win.query, "save", FALSE))
    BY <1>4 DEF StartOnboarding
  <2>2. "put" \in RowWrites \union Steps /\ "same" \in PageStatuses \union {None, "same"}
    BY DEF Steps
  <2> QED  BY <1>1, <1>2, <2>1, <2>2, StartKeeps
<1>5. CASE Refresh
  <2>1. Load(win) /\ Clicks /\ UNCHANGED serverVars /\ win \in Window
    BY <1>5 DEF Refresh, Clicks, ConsoleInv, TypeOK
  <2> QED  BY <2>1, EffectKeeps
<1>6. ASSUME NEW k \in Slots, AccountAnswered(k) PROVE ConsoleInv'
  <2>1. call' = Without(k) /\ UNCHANGED serverVars /\ Clicks /\ call[k].flag \in {"save", None}
    BY <1>1, <1>6 DEF AccountAnswered, At, Clicks, ConsoleInv, CallsInv, CallFits, ReleasesOwn
  <2>2. CASE call[k].kind = "put"
    <3>1. At(k, RowWrites \union Steps) /\ win' = Leaves(win)
      BY <1>6, <2>2 DEF AccountAnswered, At, Steps
    <3> QED  BY <2>1, <3>1, FormEnds
  <2>3. CASE call[k].kind # "put"
    <3>1. At(k, RowWrites) /\ Hydrates(call[k], page)
      BY <1>1, <1>6, <2>3 DEF AccountAnswered, At, RowWrites, Hydrates
    <3>2. PICK v : v = Release(Acknowledged(k), "save")
      OBVIOUS
    <3>3. ShowsAnswer(v, call[k])
      BY <1>1, <1>6, <2>3, <3>2 DEF AccountAnswered, ShowsAnswer
    <3> QED  BY <2>1, <3>1, <3>2, <3>3, ShownKeeps
  <2> QED  BY <2>2, <2>3
<1> QED  BY <1>3, <1>4, <1>5, <1>6 DEF ConnectPage
-----------------------------------------------------------------------------
(* The jobs.                                                                *)

LEMMA PollKeeps == ASSUME ConsoleInv, Poll PROVE ConsoleInv'
<1>1. Load(win) /\ Clicks /\ UNCHANGED serverVars /\ win \in Window /\ page = "extraction"
  BY DEF Poll, OnJobs, Clicks, ConsoleInv, TypeOK
<1>2. page \notin Guarded
  BY <1>1 DEF Guarded
<1> QED  BY <1>1, <1>2, EffectKeeps

\* A button of the page is pressed.
LEMMA JobClicked ==
  ASSUME ConsoleInv, page = "extraction",
         StartExtraction \/ UploadAndStart \/ Review \/ \E r \in Rows : DeleteJob(r)
  PROVE  ConsoleInv'
<1>1. PageFlags(page) = Flags /\ page \in AllLoad
  BY DEF PageFlags, AllLoad
<1>2. {"start", "upload", "row", "panel", "barcode"} \subseteq Flags
  BY DEF Flags
<1>3. "QUEUED" \in PageStatuses /\ New \in Rows
  BY PageStatusesTyped, OrderTyped DEF Statuses, PageStatuses
<1>4. {"create", "delete shown", "delete", "accept", "barcode"} \subseteq RowWrites
  BY DEF RowWrites
<1>5. ASSUME NEW kind \in {"create", "delete shown", "delete", "accept", "barcode"}, NEW r \in Rows,
             NEW s \in {"QUEUED", None, "same"}, NEW flag \in {"start", "row", "panel", "barcode"},
             NEW thing \in Rows \union {"on"}, Send(win, flag, thing, Call(kind, r, s, win.query, flag, TRUE))
      PROVE  ConsoleInv'
  <2>1. kind \in RowWrites \union Steps /\ s \in PageStatuses \union {None, "same"} /\ flag \in PageFlags(page)
    BY <1>1, <1>2, <1>3, <1>4
  <2>2. kind \notin Steps
    BY DEF Steps
  <2> QED  BY <1>1, <1>5, <2>1, <2>2, StartKeeps
<1>6. CASE StartExtraction
  BY <1>3, <1>5, <1>6 DEF StartExtraction
<1>7. CASE UploadAndStart
  <2>1. Send(win, "upload", "on", Call("presign", New, None, win.query, "upload", TRUE))
    BY <1>7 DEF UploadAndStart
  <2>2. "presign" \in RowWrites \union Steps /\ None \in PageStatuses \union {None, "same"} /\ "on" \in Rows \union {"on"}
    BY DEF Steps
  <2> QED  BY <1>1, <1>2, <1>3, <2>1, <2>2, StartKeeps
<1>8. CASE Review
  <2>1. win.panel.of \in Rows
    BY <1>8 DEF Review, ConsoleInv, TypeOK, Window, Glances
  <2> QED  BY <1>5, <1>8, <2>1 DEF Review
<1>9. ASSUME NEW r \in Rows, DeleteJob(r) PROVE ConsoleInv'
  <2>1. PICK kind \in {"delete shown", "delete"} : Send(win, "row", r, Call(kind, r, None, win.query, "row", TRUE))
    BY <1>9 DEF DeleteJob
  <2> QED  BY <1>5, <2>1
<1> QED  BY <1>6, <1>7, <1>8, <1>9

LEMMA JobClosed == ASSUME ConsoleInv, page = "extraction", CloseJob PROVE ConsoleInv'
<1> DEFINE open == Release(win, "panel")
           shut == Release(open, "barcode")
<1>1. /\ open \in Window /\ open.query = win.query /\ open.list = win.list /\ open.loading = win.loading
      /\ open.failed = win.failed /\ open.mine = win.mine /\ open.raced = win.raced /\ open.here = win.here
      /\ \A f \in Flags : open.busy[f] = IF f = "panel" THEN None ELSE win.busy[f]
  BY Released DEF ConsoleInv, TypeOK
<1>2. win' = [shut EXCEPT !.panel = None] /\ call' = Detached(call, {"panel", "barcode"}) /\ UNCHANGED serverVars /\ Clicks
  BY DEF CloseJob, Clicks
<1> HIDE DEF open
<1>3. /\ shut \in Window /\ shut.query = win.query /\ shut.list = win.list /\ shut.loading = win.loading
      /\ shut.failed = win.failed /\ shut.mine = win.mine /\ shut.raced = win.raced /\ shut.here = win.here
      /\ \A f \in Flags : shut.busy[f] = IF f = "barcode" THEN None ELSE open.busy[f]
  BY <1>1, Released
<1> HIDE DEF shut
<1>4. win' \in Window /\ SameList /\ win'.raced = win.raced /\ win'.here = win.here /\ win'.busy = shut.busy
  BY <1>2, <1>3 DEF Window, SameList
<1>5. \A f \in Flags : win'.busy[f] # None => win.busy[f] # None /\ f \notin {"panel", "barcode"}
  BY <1>1, <1>3, <1>4
<1> QED  BY <1>2, <1>4, <1>5, DetachKeeps

\* The next request of an upload.
LEMMA UploadKeeps == ASSUME ConsoleInv, NEW k \in Slots, UploadGoesOn(k) PROVE ConsoleInv'
<1> DEFINE c == call[k]
<1>1. /\ page = "extraction" /\ c # None /\ c.kind \in Steps /\ c.lists /\ c.back \in Queries /\ c.flag \in {"upload", None}
      /\ UNCHANGED <<serverVars, win>> /\ Clicks
  BY DEF UploadGoesOn, OnJobs, At, Clicks, ConsoleInv, CallsInv, CallFits, Asks, SetsTheList, ReleasesOwn, AllLoad, Steps
<1>2. PICK d : /\ call' = [call EXCEPT ![k] = d]
               /\ \E kind \in {"put", "confirm", "create"}, s \in {None, "QUEUED"} : d = Call(kind, New, s, c.back, "upload", TRUE)
  BY <1>1 DEF UploadGoesOn, Steps
<1>3. PICK kind \in {"put", "confirm", "create"}, s \in {None, "QUEUED"} : d = Call(kind, New, s, c.back, "upload", TRUE)
  BY <1>2
<1>4. d \in CallRow /\ d # None /\ d.pc = "sent" /\ d.kind = kind /\ d.row = New /\ d.sets = s /\ d.back = c.back
      /\ d.flag = "upload" /\ d.lists
  <2>1. d \in CallRow
    BY <1>1, <1>3, OrderTyped DEF Call, CallRow, Steps, RowWrites, RowStatus, Flags
  <2> QED  BY <1>3, <2>1, ConsoleAssumption DEF Call
<1>5. win \in Window /\ call \in [Slots -> CallRow \union {None}]
  BY DEF ConsoleInv, TypeOK
<1>6. /\ call' \in [Slots -> CallRow \union {None}] /\ \A j \in Slots : call'[j] = IF j = k THEN d ELSE call[j]
  BY <1>2, <1>4, <1>5
<1>7. "QUEUED" \in PageStatuses
  BY <1>1, PageStatusesTyped DEF Statuses, PageStatuses
<1>8. Begins(d, win.form)
  <2>1. Asks(d)
    BY <1>1, <1>4, OrderTyped DEF Asks, Parcels
  <2>2. SetsTheList(d, page)
    BY <1>1, <1>4 DEF SetsTheList, Parcels
  <2>3. ReleasesOwn(d, page, win.form)
    BY <1>1, <1>4 DEF ReleasesOwn, Parcels, PageFlags, Flags
  <2> QED  BY <1>4, <1>7, <2>1, <2>2, <2>3 DEF Begins
<1>9. \A j \in Slots : j # k /\ call[j] # None => call'[j] = call[j] /\ GoesOn(call[j], call'[j])
  BY <1>6 DEF GoesOn, SameCall
<1>10. HandlersGoOn
  BY <1>1, <1>6, <1>8, <1>9 DEF HandlersGoOn
<1>11. ~Loads(k) /\ ~WillLoad(k)
  BY <1>1 DEF Loads, WillLoad, Steps
<1>12. ButtonsWait
  BY <1>1, <1>4, <1>6, <1>9, <1>11, ConsoleAssumption DEF ButtonsWait, Loads
<1>13. \A j \in Slots : Loads(j) \/ WillLoad(j) => call'[j] # None /\ SameCall(call[j], call'[j])
  BY <1>9, <1>11 DEF Loads, WillLoad, MaySet, GoesOn
<1>14. \A j \in Slots : call'[j] # None =>
          \/ GoesOn(call[j], call'[j])
          \/ call'[j].kind # "load" /\ call'[j].pc = "sent" /\ (call'[j].lists => MaySet(j) /\ call'[j].back = call[j].back)
  BY <1>1, <1>4, <1>6, <1>9 DEF MaySet
<1> QED  BY <1>1, <1>5, <1>6, <1>10, <1>12, <1>13, <1>14, QuietKeeps DEF SameList
\* A review is done: the job is opened again.
LEMMA ReviewedKeeps == ASSUME ConsoleInv, NEW k \in Slots, Reviewed(k) PROVE ConsoleInv'
<1> DEFINE c == call[k]
           w == Acknowledged(k)
<1>1. /\ page = "extraction" /\ c # None /\ c.kind \in {"accept", "barcode"} /\ c.lists /\ c.back \in Queries /\ c.row \in Rows
      /\ c.flag \in Flags \union {None} /\ UNCHANGED serverVars /\ Clicks /\ At(k, RowWrites)
  BY DEF Reviewed, OnJobs, At, Clicks, ConsoleInv, CallsInv, CallFits, Asks, SetsTheList, ReleasesOwn, AllLoad, RowWrites, PageFlags, Flags
<1>2. PICK v : v = Release(w, None)
  OBVIOUS
<1>3. /\ w \in Window /\ w.busy = win.busy /\ w.mine <= version /\ w.here = win.here /\ w.form = win.form /\ w.raced = win.raced
  BY <1>1, <1>2, DoneTyped
<1>4. win' = w
  BY DEF Reviewed
<1>5. win'.loading = win.loading
  <2>1. call[k].got \in Lists /\ call[k].got.version <= version
    BY <1>1 DEF At, ConsoleInv, CallsInv, CallFits, AnswersTheQuery, Answered
  <2>2. win \in Window /\ win.mine <= version
    BY DEF ConsoleInv, TypeOK, ListInv
  <2> QED  BY <1>4, <2>1, <2>2, Acknowledges
<1> HIDE DEF w
<1>6. PICK d : d = Call("open", c.row, None, c.back, c.flag, TRUE)
  OBVIOUS
<1>7. /\ d \in CallRow /\ d # None /\ d.pc = "sent" /\ d.kind = "open" /\ d.row = c.row /\ d.back = c.back
      /\ d.flag = c.flag /\ d.lists
  <2>1. d \in CallRow
    BY <1>1, <1>6 DEF Call, CallRow, Reads, RowStatus
  <2> QED  BY <1>6, <2>1, ConsoleAssumption DEF Call
<1>8. /\ call' \in [Slots -> CallRow \union {None}] /\ \A j \in Slots : call'[j] = IF j = k THEN d ELSE call[j]
  BY <1>6, <1>7 DEF Reviewed, ConsoleInv, TypeOK
<1>9. Begins(d, win.form)
  BY <1>1, <1>7 DEF Begins, Asks, SetsTheList, ReleasesOwn, Hydrates, RowWrites, Parcels, Steps, PageFlags, Guarded
<1>10. \A j \in Slots : j # k /\ call[j] # None => call'[j] = call[j] /\ GoesOn(call[j], call'[j])
  BY <1>8 DEF GoesOn, SameCall
<1>11. HandlersGoOn
  BY <1>1, <1>3, <1>4, <1>8, <1>9, <1>10 DEF HandlersGoOn
<1>12. ButtonsWait
  <2>1. \A j \in Slots : Loads(j) => call'[j] # None /\ call'[j].kind = "load"
    BY <1>1, <1>8 DEF Loads
  <2>2. \A f \in Flags : \A j \in Slots : call[j] # None /\ call[j].flag = f => call'[j] # None /\ call'[j].flag = f
    BY <1>7, <1>8
  <2>3. win'.busy = win.busy /\ win'.here = win.here
    BY <1>3, <1>4
  <2> QED  BY <1>5, <2>1, <2>2, <2>3 DEF ButtonsWait
<1>13. ListInv' /\ win' \in Window
  BY <1>3, <1>4, ReviewedStep
<1> QED  BY <1>1, <1>8, <1>11, <1>12, <1>13, PageStep

\* The job comes: the panel shows it, and after a change the list is loaded.
LEMMA JobOpenedKeeps == ASSUME ConsoleInv, NEW k \in Slots, JobOpened(k) PROVE ConsoleInv'
<1>1. /\ page = "extraction" /\ page \notin Guarded /\ PageFlags(page) = Flags
      /\ call[k] # None /\ call[k].kind = "open" /\ UNCHANGED serverVars /\ Clicks
      /\ call[k].flag \in Flags \union {None}
      /\ call[k].ok => call[k].got \in Glances
      /\ ~call[k].lists => call[k].ok /\ call[k].flag = None
  BY DEF JobOpened, OnJobs, Clicks, Guarded, PageFlags, ConsoleInv, TypeOK, CallRow, CallsInv, CallFits, ReleasesOwn,
         AnswersTheQuery, Answered
<1>2. PICK w : w = IF call[k].ok THEN [win EXCEPT !.panel = call[k].got] ELSE win
  OBVIOUS
<1>3. win \in Window /\ win.mine <= version
  BY DEF ConsoleInv, TypeOK, ListInv
<1>4. /\ w \in Window /\ w.query = win.query /\ w.list = win.list /\ w.loading = win.loading /\ w.failed = win.failed
      /\ w.mine = win.mine /\ w.raced = win.raced /\ w.here = win.here /\ w.form = win.form /\ w.busy = win.busy
  BY <1>1, <1>2, <1>3 DEF Window
<1>5. CASE call[k].lists
  <2>1. PICK flag : flag = call[k].flag
    OBVIOUS
  <2>2. LoadIn(k, w, Without(k), call[k].back, flag, TRUE)
    BY <1>2, <1>5, <2>1 DEF JobOpened
  <2>3. flag \in PageFlags(page) \union {None} /\ call[k].flag \in {flag, None} /\ page # "inventory" /\ w.mine <= version
    BY <1>1, <1>3, <1>4, <2>1
  <2> QED  BY <1>1, <1>4, <1>5, <2>2, <2>3, AfterKeeps
<1>6. CASE ~call[k].lists
  <2>1. win' = w /\ call' = Without(k)
    BY <1>2, <1>6 DEF JobOpened
  <2>2. ~Loads(k) /\ ~WillLoad(k) /\ SameList
    BY <1>1, <1>4, <1>6, <2>1 DEF Loads, WillLoad, MaySet, SameList
  <2>3. \A f \in Flags : win'.busy[f] # None => win.busy[f] # None
    BY <1>4, <2>1
  <2>4. call[k].flag \notin Flags
    BY <1>1, <1>6, ConsoleAssumption
  <2> QED  BY <1>1, <1>4, <2>1, <2>2, <2>3, <2>4, EndKeeps
<1> QED  BY <1>5, <1>6

\* A job was started or deleted: the list is loaded, and the panel of a deleted job closed.
LEMMA JobsChangedKeeps == ASSUME ConsoleInv, NEW k \in Slots, JobsChanged(k) PROVE ConsoleInv'
<1>1. /\ page = "extraction" /\ page \notin Guarded /\ PageFlags(page) = Flags
      /\ UNCHANGED serverVars /\ Clicks /\ At(k, RowWrites)
  BY DEF JobsChanged, OnJobs, Clicks, Guarded, PageFlags, At, RowWrites
<1>2. /\ call[k] # None /\ call[k].lists /\ call[k].flag \in Flags \union {None} /\ call[k].back \in Queries
      /\ ~win.raced => call[k].back = win.query
  BY <1>1 DEF JobsChanged, At, ConsoleInv, TypeOK, CallRow, CallsInv, CallFits, SetsTheList, Asks, AllLoad, ListInv,
              PresentIsAsked, MaySet
<1>3. PICK flag : flag = call[k].flag
  OBVIOUS
<1>4. PICK w : w = Acknowledged(k)
  OBVIOUS
<1>5. w \in Window /\ w.busy = win.busy /\ w.mine <= version /\ w.here = win.here /\ w.raced = win.raced /\ w.query = win.query
  BY <1>1, <1>4, DoneTyped
<1>6. CASE call[k].kind # "delete shown"
  <2>1. LoadIn(k, w, Without(k), call[k].back, flag, TRUE)
    BY <1>3, <1>4, <1>6 DEF JobsChanged
  <2>2. flag \in PageFlags(page) \union {None} /\ call[k].flag \in {flag, None} /\ page # "inventory"
    BY <1>1, <1>2, <1>3
  <2> QED  BY <1>1, <1>2, <1>5, <2>1, <2>2, AfterKeeps
<1>7. CASE call[k].kind = "delete shown"
  <2> DEFINE open == Release(w, "panel")
             shut == Release(open, "barcode")
             v == [shut EXCEPT !.panel = None]
             calls == Detached(Without(k), {"panel", "barcode"})
  <2>1. LoadIn(k, v, calls, call[k].back, flag, TRUE)
    BY <1>3, <1>4, <1>7 DEF JobsChanged
  <2>2. /\ open \in Window /\ open.query = w.query /\ open.mine = w.mine /\ open.raced = w.raced /\ open.here = w.here
        /\ \A f \in Flags : open.busy[f] = IF f = "panel" THEN None ELSE w.busy[f]
    BY <1>5, Released
  <2> HIDE DEF open
  <2>3. /\ shut \in Window /\ shut.query = open.query /\ shut.mine = open.mine /\ shut.raced = open.raced
        /\ shut.here = open.here
        /\ \A f \in Flags : shut.busy[f] = IF f = "barcode" THEN None ELSE open.busy[f]
    BY <2>2, Released
  <2> HIDE DEF shut
  <2>4. /\ v \in Window /\ v.query = win.query /\ v.mine <= version /\ v.raced = win.raced /\ v.here = win.here
        /\ v.busy = shut.busy
    BY <1>5, <2>2, <2>3 DEF Window
  <2> HIDE DEF v
  <2>5. \A f \in Flags : v.busy[f] # None => win.busy[f] # None /\ f \notin {"panel", "barcode"}
    BY <1>5, <2>2, <2>3, <2>4
  <2>6. /\ Detached(call, {"panel", "barcode"}) \in [Slots -> CallRow \union {None}]
        /\ \A j \in Slots : call[j] = None => Detached(call, {"panel", "barcode"})[j] = None
        /\ \A j \in Slots : call[j] # None =>
             /\ Detached(call, {"panel", "barcode"})[j] # None /\ GoesOn(call[j], Detached(call, {"panel", "barcode"})[j])
             /\ Detached(call, {"panel", "barcode"})[j].flag = IF call[j].flag \in {"panel", "barcode"} THEN None ELSE call[j].flag
    BY FewerTyped DEF ConsoleInv
  <2>7. calls = [Detached(call, {"panel", "barcode"}) EXCEPT ![k] = None]
    <3>1. DOMAIN Without(k) = Slots /\ \A j \in Slots : Without(k)[j] = IF j = k THEN None ELSE call[j]
      BY GoneCall DEF ConsoleInv
    <3> QED  BY <3>1 DEF Detached
  <2>8. /\ calls \in [Slots -> CallRow \union {None}] /\ calls[k] = None
        /\ \A j \in Slots : calls[j] # None => GoesOn(call[j], calls[j])
        /\ \A j \in Slots : j # k /\ call[j] # None =>
             calls[j] # None /\ (call[j].flag \notin {"panel", "barcode"} => calls[j].flag = call[j].flag)
    BY <2>6, <2>7
  <2> HIDE DEF calls
  <2>9. LeftInOrder(v, calls, flag)
    <3>1. ASSUME NEW f \in Flags, f # flag, f \notin {"panel", "barcode"}
          PROVE  \A j \in Slots : call[j] # None /\ call[j].flag = f => calls[j] # None /\ calls[j].flag = f
      BY <1>3, <2>8, <3>1
    <3> QED  BY <1>1, <2>4, <2>5, <2>8, <3>1 DEF LeftInOrder
  <2>10. PICK q : q = call[k].back
    OBVIOUS
  <2>11. q \in Queries /\ LoadIn(k, v, calls, q, flag, TRUE) /\ (q = v.query \/ (TRUE /\ (~win.raced => q = v.query)))
    BY <1>2, <2>1, <2>4, <2>10
  <2>12. flag \in PageFlags(page) \union {None}
    BY <1>1, <1>2, <1>3
  <2> QED  BY <1>1, <2>4, <2>8, <2>9, <2>11, <2>12, LoadKeeps
<1> QED  BY <1>6, <1>7

LEMMA JobsKeep == ASSUME ConsoleInv, JobsPageStep PROVE ConsoleInv'
<1>1. page = "extraction"
  BY DEF JobsPageStep, StartExtraction, UploadAndStart, CloseJob, Review, OpenJob, DeleteJob, JobAnswered, Reviewed,
         JobOpened, JobsChanged, UploadGoesOn, OnJobs
<1>2. ASSUME NEW r \in Rows, OpenJob(r) PROVE ConsoleInv'
  BY <1>2, OpenKeeps DEF OpenJob
<1>3. ASSUME NEW k \in Slots, JobAnswered(k) PROVE ConsoleInv'
  BY <1>3, ReviewedKeeps, JobOpenedKeeps, JobsChangedKeeps, UploadKeeps DEF JobAnswered
<1> QED  BY <1>1, <1>2, <1>3, JobClicked, JobClosed DEF JobsPageStep
-----------------------------------------------------------------------------
(* The theorems.                                                            *)

LEMMA InitKeeps == ASSUME Init PROVE ConsoleInv
<1>1. /\ page \in PageNames /\ version = 0 /\ win = FirstWindow /\ clicks = 0 /\ faults = 0 /\ others = 0
      /\ row = [r \in Rows |-> IF r = New \/ page = "connect" \/ (page = "extraction" /\ r # Order[1]) THEN "new"
                               ELSE Statuses[1]]
      /\ shipment = [r \in Rows |-> None]
  BY DEF Init, ConsoleInit
<1> DEFINE first == CHOOSE k \in Slots : TRUE
<1>2. first \in Slots
  BY ConsoleAssumption
<1> HIDE DEF first
<1>3. FirstQuery \in Queries
  <2>1. FirstQuery.filter \in Filters /\ FirstQuery.size \in Sizes
    BY ConsoleAssumption DEF FirstQuery
  <2>2. FirstQuery = [filter |-> FirstQuery.filter, page |-> 1, size |-> FirstQuery.size]
    BY DEF FirstQuery
  <2> QED  BY <2>1, <2>2 DEF Queries
<1> DEFINE g == GetList(FirstQuery, None)
<1>4. g \in CallRow /\ g # None /\ g.kind = "load" /\ g.back = FirstQuery /\ g.flag = None /\ g.lists /\ g.pc = "sent"
  <2>1. g \in CallRow
    BY <1>3 DEF GetList, Call, CallRow, Reads, RowStatus
  <2> QED  BY <2>1, ConsoleAssumption DEF GetList, Call
<1>5. /\ win \in Window /\ win.query = FirstQuery /\ win.list = None /\ win.loading = (page # "imports") /\ ~win.failed
      /\ win.mine = 0 /\ ~win.raced /\ win.here /\ \A f \in Flags : win.busy[f] = None
  BY <1>1, <1>3 DEF FirstWindow, Window
<1>6. call = [k \in Slots |-> IF k = first /\ page # "imports" THEN g ELSE None]
  BY <1>5 DEF Init, ConsoleInit, first
<1> HIDE DEF g
<1>7. call \in [Slots -> CallRow \union {None}]
  BY <1>4, <1>6
<1>8. \A k \in Slots : call[k] # None => call[k] = g /\ k = first
  BY <1>6
<1>9. TypeOK
  <2>1. Statuses[1] \in {Statuses[i] : i \in DOMAIN Statuses}
    <3>1. 1 \in DOMAIN Statuses
      BY DEF Statuses
    <3> QED  BY <3>1
  <2>2. MaxClicks[page] \in Nat /\ MaxFaults \in Nat /\ MaxWrites \in Nat
    BY <1>1, ConsoleAssumption
  <2>3. row \in [Rows -> {Statuses[i] : i \in DOMAIN Statuses} \union {None, "new"}] /\ shipment \in [Rows -> ParcelStatus]
    BY <1>1, <2>1 DEF ParcelStatus
  <2> QED  BY <1>1, <1>5, <1>7, <2>2, <2>3 DEF TypeOK
<1>10. CallsInv
  <2>1. Asks(g) /\ SetsTheList(g, page) /\ ReleasesOwn(g, page, win.form) /\ AnswersTheQuery(g, version)
    BY <1>3, <1>4 DEF Asks, SetsTheList, ReleasesOwn, AnswersTheQuery, Answered, Hydrates, RowWrites, Parcels, Steps
  <2> QED  BY <1>8, <2>1 DEF CallsInv, CallFits
<1>11. WritesInv
  BY <1>4, <1>8 DEF WritesInv, RowWrites
<1>12. ListInv
  <2>1. win.mine <= version
    BY <1>1, <1>5
  <2>2. PresentIsAsked /\ OneSetsTheList
    BY <1>4, <1>5, <1>8 DEF PresentIsAsked, OneSetsTheList, MaySet
  <2>3. AnswersAreFresh
    BY <1>4, <1>8 DEF AnswersAreFresh, Told, Answered
  <2>4. page # "imports" => Loads(first)
    BY <1>2, <1>4, <1>6 DEF Loads
  <2>5. ListIsFresh /\ GuardedIsCurrent
    BY <1>2, <1>5, <2>4 DEF ListIsFresh, GuardedIsCurrent, Guarded
  <2> QED  BY <2>1, <2>2, <2>3, <2>5 DEF ListInv
<1>13. WindowWaits
  BY <1>2, <1>4, <1>5, <1>6 DEF WindowWaits
<1> QED  BY <1>9, <1>10, <1>11, <1>12, <1>13 DEF ConsoleInv

LEMMA NothingKeeps == ASSUME ConsoleInv, UNCHANGED consoleVars PROVE ConsoleInv'
<1>1. UNCHANGED <<page, row, shipment, version, win, call, clicks, faults, others>>
  BY DEF consoleVars
<1>2. PageStatuses' = PageStatuses
  BY <1>1, SamePage
<1>3. TypeOK'
  BY <1>1, <1>2 DEF ConsoleInv, TypeOK, PageStatuses
<1>4. CallsInv' /\ WritesInv' /\ WindowWaits'
  BY <1>1, <1>2 DEF ConsoleInv, CallsInv, CallFits, WritesInv, WindowWaits
<1>5. ListInv'
  BY <1>1 DEF ConsoleInv, ListInv, PresentIsAsked, OneSetsTheList, AnswersAreFresh, ListIsFresh, GuardedIsCurrent,
              MaySet, Loads, Told, WillLoad
<1> QED  BY <1>3, <1>4, <1>5 DEF ConsoleInv

LEMMA NextKeeps == ASSUME ConsoleInv, [Next]_consoleVars PROVE ConsoleInv'
<1>1. CASE UNCHANGED consoleVars
  BY <1>1, NothingKeeps
<1>2. CASE \E k \in Slots : ServerStep(k) \/ Fault(k) \/ Arrival(k)
  BY <1>2, ServerStepKeeps, ArrivalKeeps
<1>3. CASE \E r \in Rows : Elsewhere(r)
  BY <1>3, ElsewhereKeeps
<1>4. CASE Poll
  BY <1>4, PollKeeps
<1>5. CASE Pages
  BY <1>5, ProductsKeeps, InventoryKeeps, OrdersKeeps, ReturnsKeeps, PrivacyKeeps, ProductKeeps, FormsKeep, LocationsKeeps,
     ConnectKeeps, JobsKeep DEF Pages
<1> QED  BY <1>1, <1>2, <1>3, <1>4, <1>5 DEF Next

\* The invariant holds in every state of every page.
THEOREM ConsoleHolds == Spec => []ConsoleInv
<1>1. Init => ConsoleInv
  BY InitKeeps
<1>2. ConsoleInv /\ [Next]_consoleVars => ConsoleInv'
  BY NextKeeps
<1> QED  BY <1>1, <1>2, PTL DEF Spec

\* The pages hold rows, queries, answers and calls of their types.
THEOREM TypeCorrect == Spec => []TypeOK
<1>1. ConsoleInv => TypeOK
  BY DEF ConsoleInv
<1> QED  BY <1>1, ConsoleHolds, PTL

\* A page that is quiet shows the list of its present query, with what its user
\* wrote, unless answers overlapped; a page whose effect ignores older answers
\* shows the present query whenever it does not load.
THEOREM ListsAreCurrent == Spec => []ListIsCurrent
<1>1. ConsoleInv => ListIsCurrent
  <2> SUFFICES ASSUME ConsoleInv, page # "imports", win.here, ~win.failed
               PROVE  /\ page \in Guarded /\ ~win.loading => win.list.query = win.query
                      /\ Quiet /\ ~win.raced => win.list.query = win.query /\ win.list.version >= win.mine
    BY DEF ListIsCurrent
  <2>1. GuardedIsCurrent /\ ListIsFresh
    BY DEF ConsoleInv, ListInv
  <2>2. Quiet => \A k \in Slots : ~WillLoad(k) /\ ~Loads(k)
    BY DEF Quiet, WillLoad, MaySet, Loads
  <2> QED  BY <2>1, <2>2 DEF GuardedIsCurrent, ListIsFresh
<1> QED  BY <1>1, ConsoleHolds, PTL

\* A list that loads and a button that is disabled wait for a call under way.
THEOREM NoWindowIsStuck == Spec => []WindowWaits
<1>1. ConsoleInv => WindowWaits
  BY DEF ConsoleInv
<1> QED  BY <1>1, ConsoleHolds, PTL
=============================================================================

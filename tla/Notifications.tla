--------------------------- MODULE Notifications ----------------------------
(***************************************************************************)
(* E-mails.  NotificationsService commits a Notification row and then adds  *)
(* a job for it; NotificationsProcessor reads the row, talks to the SMTP    *)
(* server outside any transaction and records the outcome.  A job is        *)
(* delivered at least once.  The producers of other modules use AddNote and *)
(* QueueNote.                                                              *)
(***************************************************************************)
EXTENDS Naturals, Sequences

CONSTANTS
  None,             \* the absent value
  Anon,             \* an address under anonymized.invalid
  Customers,        \* the addresses of real buyers
  Mailers,          \* slots of the notification worker
  MaxMailAttempts,  \* `attempts` of a notification job
  Refusals,         \* bound on deliveries that the SMTP server refuses
  MailDeaths,       \* bound on attempts that die
  MailStalls        \* bound on jobs whose lock expires while they run

VARIABLES
  notes,     \* Notification rows, by age
  mailJob,   \* the queue's job for each row
  mailer,    \* what each worker slot is doing
  mailFaults \* faults so far, by kind

mailVars == <<notes, mailJob, mailer, mailFaults>>

Addresses == Customers \cup {Anon}
\* `sent` and `excused` are histories: deliveries that reached the SMTP server,
\* and faults that explain one more of them.
Note == [to : Addresses, about : Nat, status : {"PENDING", "SENT", "FAILED"},
         sent : Nat, excused : Nat]
MailJob == [status : {"none", "waiting", "active", "completed", "failed"},
            owner : Mailers \cup {None}, tries : Nat]
Mailer == [pc : {"idle", "read", "send", "sent", "refused", "ack"}, note : Nat]

NoMailJob == [status |-> "none", owner |-> None, tries |-> 0]
IdleMailer == [pc |-> "idle", note |-> 0]

\* enqueue, the row.
AddNote(to, about) ==
  /\ notes' = Append(notes, [to |-> to, about |-> about, status |-> "PENDING",
                             sent |-> 0, excused |-> 0])
  /\ mailJob' = Append(mailJob, NoMailJob)

\* enqueue, the job.
QueueNote(n) == mailJob' = [mailJob EXCEPT ![n].status = "waiting"]

-----------------------------------------------------------------------------
NoteOf(w) == mailer[w].note
MailerAt(w, pc) == mailer[w].pc = pc
MailerGoes(w, pc) == mailer' = [mailer EXCEPT ![w].pc = pc]
OwnsMail(w) == mailJob[NoteOf(w)].status = "active" /\ mailJob[NoteOf(w)].owner = w

MailFault(kind, limit) ==
  /\ mailFaults[kind] < limit
  /\ mailFaults' = [mailFaults EXCEPT ![kind] = @ + 1]
NoFault == UNCHANGED mailFaults

StartMail(w, n) ==
  /\ MailerAt(w, "idle")
  /\ mailJob[n].status = "waiting"
  /\ mailJob' = [mailJob EXCEPT ![n] = [status |-> "active", owner |-> w, tries |-> @.tries + 1]]
  /\ mailer' = [mailer EXCEPT ![w] = [pc |-> "read", note |-> n]]
  /\ UNCHANGED <<notes, mailFaults>>

\* Mutant of AlreadySent: every delivery of the job sends.
NeverSent(n) == FALSE
AlreadySent(n) == notes[n].status = "SENT"

ReadNote(w) ==
  /\ MailerAt(w, "read")
  /\ MailerGoes(w, IF AlreadySent(NoteOf(w)) THEN "ack" ELSE "send")
  /\ UNCHANGED <<notes, mailJob, mailFaults>>

\* mail.send: the server takes the message or refuses it.
SendMail(w) ==
  /\ MailerAt(w, "send")
  /\ \/ /\ notes' = [notes EXCEPT ![NoteOf(w)].sent = @ + 1]
        /\ MailerGoes(w, "sent")
        /\ NoFault
     \/ /\ MailFault("refuse", Refusals)
        /\ MailerGoes(w, "refused")
        /\ UNCHANGED notes
  /\ UNCHANGED mailJob

MarkSent(w) ==
  /\ MailerAt(w, "sent")
  /\ notes' = [notes EXCEPT ![NoteOf(w)].status = "SENT"]
  /\ MailerGoes(w, "ack")
  /\ UNCHANGED <<mailJob, mailFaults>>

\* The update that records the delivery fails: the catch block takes it for a
\* failed delivery.
MarkSentFails(w) ==
  /\ MailerAt(w, "sent")
  /\ MailFault("die", MailDeaths)
  /\ notes' = [notes EXCEPT ![NoteOf(w)].excused = @ + 1]
  /\ MailerGoes(w, "refused")
  /\ UNCHANGED mailJob

\* The job ends for this slot: completed, or retried while attempts are left.
EndMail(w, status) ==
  /\ mailer' = [mailer EXCEPT ![w] = IdleMailer]
  /\ mailJob' = IF OwnsMail(w)
                THEN [mailJob EXCEPT ![NoteOf(w)] = [@ EXCEPT !.status = status, !.owner = None]]
                ELSE mailJob
Retried(w) == IF mailJob[NoteOf(w)].tries < MaxMailAttempts THEN "waiting" ELSE "failed"

\* Mutant of AfterRefusal: the failure is recorded and not thrown.
SwallowRefusal(w) == "completed"
AfterRefusal(w) == Retried(w)

MarkFailed(w) ==
  /\ MailerAt(w, "refused")
  /\ notes' = [notes EXCEPT ![NoteOf(w)].status = "FAILED"]
  /\ EndMail(w, AfterRefusal(w))
  /\ UNCHANGED mailFaults

AckMail(w) ==
  /\ MailerAt(w, "ack")
  /\ EndMail(w, "completed")
  /\ UNCHANGED <<notes, mailFaults>>

MailerStep(w) == ReadNote(w) \/ SendMail(w) \/ MarkSent(w) \/ MarkFailed(w) \/ AckMail(w)

\* The worker dies.  A message that was handed over and not yet marked will be
\* sent again.
MailerDies(w) ==
  /\ ~MailerAt(w, "idle")
  /\ MailFault("die", MailDeaths)
  /\ notes' = [notes EXCEPT ![NoteOf(w)].excused = IF MailerAt(w, "sent") THEN @ + 1 ELSE @]
  /\ EndMail(w, Retried(w))

\* The lock expires and the job is handed out again while the slot goes on.
MailJobStalls(w) ==
  /\ ~MailerAt(w, "idle")
  /\ OwnsMail(w)
  /\ MailFault("stall", MailStalls)
  /\ notes' = [notes EXCEPT ![NoteOf(w)].excused = @ + 1]
  /\ mailJob' = [mailJob EXCEPT ![NoteOf(w)] = [@ EXCEPT !.status = "waiting", !.owner = None]]
  /\ UNCHANGED mailer

NotificationsInit ==
  /\ notes = <<>>
  /\ mailJob = <<>>
  /\ mailer = [w \in Mailers |-> IdleMailer]
  /\ mailFaults = [k \in {"refuse", "die", "stall"} |-> 0]

NotificationsNext ==
  \E w \in Mailers :
    \/ \E n \in DOMAIN mailJob : StartMail(w, n)
    \/ MailerStep(w)
    \/ MarkSentFails(w)
    \/ MailerDies(w)
    \/ MailJobStalls(w)

NotificationsTypeOK ==
  /\ notes \in Seq(Note)
  /\ mailJob \in Seq(MailJob)
  /\ mailer \in [Mailers -> Mailer]
  /\ mailFaults \in [{"refuse", "die", "stall"} -> Nat]
=============================================================================

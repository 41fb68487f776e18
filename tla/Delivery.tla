------------------------------ MODULE Delivery ------------------------------
(***************************************************************************)
(* Payslips of a finalised run and their way to the employees              *)
(* (internal/payroll/delivery, internal/email).  A payslip is a row and a  *)
(* file: the file is stored first, the row is inserted in a transaction,   *)
(* and every error afterwards deletes the file.  A batch of e-mails reads  *)
(* its recipients once, sends each mail outside any transaction and        *)
(* records each delivery on its own.  A free message (email/compose.go)    *)
(* sends inside the transaction that records it.  Texts, templates and     *)
(* the content of the payslips are left out; the SMTP server is external.  *)
(***************************************************************************)
EXTENDS Naturals, FiniteSets

CONSTANTS Staff,     \* employees with a finalised payroll in the run
          Addresses, \* valid e-mail addresses
          Batches,   \* batches that may be asked for
          Printers   \* requests that may generate payslips

ASSUME DeliveryAssumption == "nobody" \notin Staff

NoAddress == "no address"
BadAddress == "bad address"
Entries == Addresses \cup {NoAddress, BadAddress}

VARIABLES smtp,     \* the company's mail settings exist
          address,  \* employee -> payroll address
          rows,     \* payslip rows: employee -> the printer whose file they name
          files,    \* stored payslip files, by printer
          printer,  \* printer -> [phase, emp]
          lost,     \* employees whose payslip row was committed without an answer
          batches,  \* batch -> [state, resend, todo, now, after]
          mails,    \* what left: [batch, emp, addr, shared, status, kept]
          letter    \* the free message under way

dlVars == <<smtp, address, rows, files, printer, lost, batches, mails, letter>>

Nobody == "nobody"
NoBatch == [state |-> "NONE", resend |-> FALSE, todo |-> {}, now |-> Nobody, after |-> {}, seen |-> {}]
NoLetter == [state |-> "NONE", to |-> << >>, sent |-> {}, count |-> 0]

DeliveryInit ==
    /\ smtp = FALSE
    /\ address \in [Staff -> {NoAddress} \cup Addresses]
    /\ rows = [e \in Staff |-> Nobody] /\ files = {} /\ lost = {}
    /\ printer = [g \in Printers |-> [phase |-> "idle", emp |-> Nobody]]
    /\ batches = [b \in Batches |-> NoBatch]
    /\ mails = {}
    /\ letter = NoLetter

\* SMTPSettingsService.Put.
Put == /\ smtp' = TRUE
       /\ UNCHANGED <<address, rows, files, printer, lost, batches, mails, letter>>

\* The private profile of an employee is edited; a malformed address is refused.
PutPrivate(e, a) ==
    /\ address[e] # a
    /\ address' = [address EXCEPT ![e] = a]
    /\ UNCHANGED <<smtp, rows, files, printer, lost, batches, mails, letter>>

-----------------------------------------------------------------------------
(* Payslips.  Each printer stores under a key of its own. *)

\* generatePayslip up to its transaction: an existing row is returned as it is.
PutPayslip(g, e) ==
    /\ printer[g].phase = "idle"
    /\ rows[e] = Nobody
    /\ files' = files \cup {g}
    /\ printer' = [printer EXCEPT ![g] = [phase |-> "stored", emp |-> e]]
    /\ UNCHANGED <<smtp, address, rows, lost, batches, mails, letter>>

\* The row is unique for the payroll and its checksum: the slower of two printers fails.
InsertPayslip(g) ==
    /\ printer[g].phase = "stored"
    /\ rows[printer[g].emp] = Nobody
    /\ rows' = [rows EXCEPT ![printer[g].emp] = g]
    /\ printer' = [printer EXCEPT ![g].phase = "done"]
    /\ UNCHANGED <<smtp, address, files, lost, batches, mails, letter>>

\* Any failure deletes the file, also that of a commit that took effect unanswered.
FailPayslip(g) ==
    /\ printer[g].phase = "stored"
    /\ files' = files \ {g}
    /\ printer' = [printer EXCEPT ![g].phase = "done"]
    /\ \/ UNCHANGED <<rows, lost>>
       \/ /\ rows[printer[g].emp] = Nobody
          /\ rows' = [rows EXCEPT ![printer[g].emp] = g]
          /\ lost' = lost \cup {printer[g].emp}
    /\ UNCHANGED <<smtp, address, batches, mails, letter>>

\* The process dies with the file stored: the file stays, and no row names it.
CrashPayslip(g) ==
    /\ printer[g].phase = "stored"
    /\ printer' = [printer EXCEPT ![g].phase = "done"]
    /\ UNCHANGED <<smtp, address, rows, files, lost, batches, mails, letter>>

\* payslipBytes, DownloadPayslip.
HasFile(e) == rows[e] \in files

-----------------------------------------------------------------------------
(* Mails.  BuildPreview puts every candidate into the first class that fits. *)

AlreadySent(e) == \E m \in mails : m.emp = e /\ m.kept /\ m.status = "SENT"
Shared(e) == \E f \in Staff \ {e} : address[f] = address[e]
RecipientStatus(e) ==
    CASE AlreadySent(e) -> "already_sent"
      [] address[e] = NoAddress -> "missing"
      [] address[e] = BadAddress -> "invalid"
      [] Shared(e) -> "duplicate"
      [] rows[e] = Nobody -> "missing_payslip"
      [] OTHER -> "ready"

\* A repetition adds the payslips that went out.  The comment over it says that it "does
\* not get to skip the recipient checks: an address that has since become invalid, or that
\* is now shared with a second employee, must not receive a payslip" (service.go:830-832),
\* and the classes of such addresses are then taken away.  That has no effect: a payslip
\* that went out is of the class "already_sent" whatever its address has become
\* (preview.go:27-40), so a repetition is not checked.
Sendable(resend) == {e \in Staff : RecipientStatus(e) \in {"ready"} \cup (IF resend THEN {"already_sent"} ELSE {})}

Ended(b) == batches[b].state \in {"COMPLETED", "FAILED", "ABANDONED"}

\* SendEmailBatch up to its loop.
BeginBatch(b, resend) ==
    /\ batches[b].state = "NONE"
    /\ smtp
    /\ Sendable(resend) # {}
    /\ batches' = [batches EXCEPT ![b] =
                     [state |-> "RUNNING", resend |-> resend, todo |-> Sendable(resend),
                      now |-> Nobody, after |-> {c \in Batches : Ended(c)},
                      seen |-> {[emp |-> e, addr |-> address[e], shared |-> Shared(e)] : e \in Staff}]]
    /\ UNCHANGED <<smtp, address, rows, files, printer, lost, mails, letter>>

\* What the server did with a mail (external) and what Send makes of it: a mail whose
\* acceptance is not known may have been accepted.
Outcomes == {"SENT", "DELIVERY_STATUS_UNKNOWN", "FAILED_PERMANENT"}
Recipient(b, e) == CHOOSE c \in batches[b].seen : c.emp = e

SendMail(b, e, status) ==
    /\ batches[b].state = "RUNNING" /\ batches[b].now = Nobody
    /\ e \in batches[b].todo
    /\ (~HasFile(e) \/ Recipient(b, e).addr \notin Addresses) => status = "FAILED_PERMANENT"
    /\ mails' = mails \cup {[batch |-> b, emp |-> e, addr |-> Recipient(b, e).addr,
                             shared |-> Recipient(b, e).shared, status |-> status,
                             first |-> ~AlreadySent(e), kept |-> FALSE]}
    /\ batches' = [batches EXCEPT ![b].now = e, ![b].todo = @ \ {e}]
    /\ UNCHANGED <<smtp, address, rows, files, printer, lost, letter>>

\* The delivery is recorded at once, with its outcome.
Recorded(b) ==
    {IF m.batch = b /\ m.emp = batches[b].now THEN [m EXCEPT !.kept = TRUE] ELSE m : m \in mails}
RecordDelivery(b) ==
    /\ batches[b].state = "RUNNING" /\ batches[b].now # Nobody
    /\ mails' = Recorded(b)
    /\ batches' = [batches EXCEPT ![b].now = Nobody]
    /\ UNCHANGED <<smtp, address, rows, files, printer, lost, letter>>

\* The insert fails or the process dies: the batch's row stays RUNNING for ever.
\* Mutant: the deliveries are recorded in the batch's transaction, and fail with it.
MutUnwound(b) == {IF m.batch = b THEN [m EXCEPT !.kept = FALSE] ELSE m : m \in mails}
Unwound(b) == mails
AbandonBatch(b) ==
    /\ batches[b].state = "RUNNING"
    /\ batches' = [batches EXCEPT ![b].state = "ABANDONED"]
    /\ mails' = Unwound(b)
    /\ UNCHANGED <<smtp, address, rows, files, printer, lost, letter>>

CloseBatch(b) ==
    /\ batches[b].state = "RUNNING" /\ batches[b].todo = {} /\ batches[b].now = Nobody
    /\ batches' = [batches EXCEPT ![b].state =
                     IF \E m \in mails : m.batch = b /\ m.status = "SENT" THEN "COMPLETED" ELSE "FAILED"]
    /\ UNCHANGED <<smtp, address, rows, files, printer, lost, mails, letter>>

-----------------------------------------------------------------------------
(* A free message. *)

\* classify: an address given twice is sent to nobody.
Slots == {"first", "second"}
Classified(to, i) ==
    CASE to[i] = NoAddress -> "missing"
      [] to[i] = BadAddress -> "invalid"
      [] \E j \in Slots \ {i} : to[j] = to[i] -> "duplicate"
      [] OTHER -> "ready"

Compose(to) ==
    /\ letter.state = "NONE" /\ smtp
    /\ \E i \in Slots : Classified(to, i) = "ready"
    /\ letter' = [letter EXCEPT !.state = "RUNNING", !.to = to]
    /\ UNCHANGED <<smtp, address, rows, files, printer, lost, batches, mails>>
SendLetter(i, accepted) ==
    /\ letter.state = "RUNNING"
    /\ i \in Slots \ letter.sent /\ Classified(letter.to, i) = "ready"
    /\ letter' = [letter EXCEPT !.sent = @ \cup {i}, !.count = @ + IF accepted THEN 1 ELSE 0]
    /\ UNCHANGED <<smtp, address, rows, files, printer, lost, batches, mails>>
\* The commit; a failure takes the record of every recipient with it.
EndLetter(ok) ==
    /\ letter.state = "RUNNING"
    /\ ok => \A i \in Slots : Classified(letter.to, i) = "ready" => i \in letter.sent
    /\ letter' = [letter EXCEPT !.state = IF ~ok THEN "LOST" ELSE IF letter.count = 0 THEN "FAILED" ELSE "COMPLETED"]
    /\ UNCHANGED <<smtp, address, rows, files, printer, lost, batches, mails>>

-----------------------------------------------------------------------------
PrintStep ==
    \/ \E g \in Printers, e \in Staff : PutPayslip(g, e)
    \/ \E g \in Printers : InsertPayslip(g) \/ FailPayslip(g) \/ CrashPayslip(g)

PostStep ==
    \/ \E e \in Staff, a \in Addresses \cup {NoAddress} : PutPrivate(e, a)
    \/ \E b \in Batches, resend \in BOOLEAN : BeginBatch(b, resend)
    \/ \E b \in Batches, e \in Staff, o \in Outcomes : SendMail(b, e, o)
    \/ \E b \in Batches : RecordDelivery(b) \/ AbandonBatch(b) \/ CloseBatch(b)

LetterStep ==
    \/ \E to \in [Slots -> Entries] : Compose(to)
    \/ \E i \in Slots, ok \in BOOLEAN : SendLetter(i, ok)
    \/ \E ok \in BOOLEAN : EndLetter(ok)

DeliveryNext == Put \/ PrintStep \/ PostStep \/ LetterStep
DeliverySpec == DeliveryInit /\ [][DeliveryNext]_dlVars

\* NOBODY IS MAILED TWICE.  Unless it was asked for, an employee is mailed a payslip again
\* only by a batch that overlapped the other one, or when the first mail's acceptance or
\* the insert of its own record was lost - whatever fails in between ("Sending inside one long transaction
\* meant a failure part-way through rolled back the record of e-mails that had physically
\* been sent, and the next attempt mailed every payslip a second time").  A mail of
\* a batch that is not a repetition never goes to an address that two employees of the run
\* shared when the batch began (a repetition's may, against the comment quoted at
\* Sendable), and
\* a payslip that is not there is only ever one whose commit was not answered.
MailedOnce ==
    /\ \A m, n \in mails :
         /\ m.emp = n.emp /\ m.batch \in batches[n.batch].after
         /\ m.status = "SENT" /\ batches[m.batch].now # m.emp
         => batches[n.batch].resend
    /\ \A m \in mails : m.first /\ ~batches[m.batch].resend => ~m.shared
    /\ \A e \in Staff : rows[e] # Nobody /\ ~HasFile(e) => e \in lost
=============================================================================

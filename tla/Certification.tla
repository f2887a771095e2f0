---------------------------- MODULE Certification ----------------------------
(***************************************************************************)
(* How one enrolment is completed and certified: the row of                *)
(* `progress.CourseCompletion`, its `certificates.Certificate` rows and    *)
(* the status of the enrolment, written by concurrent HTTP requests.       *)
(*                                                                         *)
(* A request is one transaction at READ COMMITTED.  None of these services *)
(* takes a lock: each loads a row, decides on that copy, and writes from   *)
(* it.  The copy is taken in a step of its own, the writes are made and    *)
(* committed in another; between the two any other request may commit.     *)
(***************************************************************************)
EXTENDS Integers, FiniteSets

CONSTANTS
  Requests,         \* the requests that may be in flight at once
  MaxCertificates,  \* bound: certificates ever inserted
  NeverOverlap      \* the pairs of operations assumed never in flight together

OperationNames ==
  {"refresh", "approve", "reject", "reopen", "issue", "reissue", "revoke", "enrolment"}

\* The only pairs of operations whose overlap breaks a property below.
UnsafePairs ==
  {{"refresh", "approve"}, {"refresh", "reject"}, {"approve", "reject"},
   {"issue", "reopen"}, {"reissue", "revoke"}, {"approve", "enrolment"}}

ASSUME CertificationAssumption ==
  /\ MaxCertificates \in Nat
  /\ NeverOverlap \subseteq SUBSET OperationNames

VARIABLES
  completion,   \* the completion row, or Absent
  certificate,  \* the certificate table: a row, or NoCertificate, by number
  enrolment,    \* the status of the enrolment
  meets,        \* what the completion rules say of the student now
  req           \* what each request is doing, with the copies it has loaded

vars == <<completion, certificate, enrolment, meets, req>>

-----------------------------------------------------------------------------
(***************************************************************************)
(* The tables.                                                             *)
(***************************************************************************)

Decided == {"approved", "rejected"}
CompletionStatuses == {"in_progress", "eligible"} \cup Decided

\* `dated` tells whether completed_on is set.
Completion == [status: CompletionStatuses, dated: BOOLEAN]
Absent == [status |-> "absent", dated |-> FALSE]
New == [status |-> "in_progress", dated |-> FALSE]

\* The row that get_or_create hands to a request which loaded this copy.
Row(copy) == IF copy = Absent THEN New ELSE copy

Numbers == 1 .. MaxCertificates
CertificateStatuses == {"issued", "revoked", "superseded"}
CertificateRow == [status: CertificateStatuses, supersedes: 0 .. MaxCertificates]
NoCertificate == [status |-> "absent", supersedes |-> 0]

Live == {c \in Numbers : certificate[c].status = "issued"}
Successors(c) == {d \in Numbers : certificate[d].supersedes = c}

\* n is the number the next INSERT takes.
Fresh(n) == \A m \in Numbers : certificate[m] # NoCertificate <=> m < n

\* Every status but active stands for itself in approve_completion alone;
\* pending rows are left out, they move like suspended ones.
Ended == {"completed", "cancelled"}
EnrolmentStatuses == {"active", "suspended"} \cup Ended
MayBecome(from) ==
  CASE from = "active"    -> {"suspended", "completed", "cancelled"}
    [] from = "suspended" -> {"active", "cancelled"}
    [] OTHER              -> {}

-----------------------------------------------------------------------------
(***************************************************************************)
(* The requests.                                                           *)
(***************************************************************************)

Idle == [op |-> "none"]

OnCompletion ==
  [op: {"refresh", "reject", "reopen", "reopen_checked", "issue"},
   row: Completion \cup {Absent}]
Approving ==
  [op: {"approve"}, row: Completion \cup {Absent}, active: BOOLEAN, override: BOOLEAN]
OnCertificate ==
  [op: {"reissue", "revoke"}, number: Numbers, status: CertificateStatuses, dated: BOOLEAN]

\* The operation a request in flight is called for.
Doing(r) == IF req[r].op = "reopen_checked" THEN "reopen" ELSE req[r].op

\* Operation op may be in flight together with what the others do.
MayOverlap(r, op) ==
  \A q \in Requests \ {r} : req[q] # Idle => {op, Doing(q)} \notin NeverOverlap

Starts(r, op) ==
  /\ req[r] = Idle
  /\ MayOverlap(r, op)
  /\ UNCHANGED <<completion, certificate, enrolment, meets>>

Ends(r) == req' = [req EXCEPT ![r] = Idle] /\ UNCHANGED meets

\* A request that has inserted the row, uncommitted, keeps get_or_create
\* waiting on the unique index of `enrollment`.
NobodyInserts ==
  completion = Absent =>
    \A q \in Requests : req[q].op \in {"refresh", "approve", "reject", "reopen"} =>
                        req[q].row # Absent

\* The view loads the enrolment, the service the completion.
LoadCompletion(r, op) ==
  /\ Starts(r, op)
  /\ NobodyInserts
  /\ req' = [req EXCEPT ![r] = [op |-> op, row |-> completion]]

\* Mutant: the enrolment follows whatever its status is.
FollowsAny(status) == TRUE
Follows(status) == status = "active"

LoadForApproval(r, override) ==
  /\ Starts(r, "approve")
  /\ NobodyInserts
  /\ req' = [req EXCEPT ![r] =
       [op |-> "approve", row |-> completion, active |-> Follows(enrolment),
        override |-> override]]

LoadForIssue(r) ==
  /\ Starts(r, "issue")
  /\ completion # Absent
  /\ req' = [req EXCEPT ![r] = [op |-> "issue", row |-> completion]]

LoadCertificate(r, op, c) ==
  /\ Starts(r, op)
  /\ certificate[c] # NoCertificate
  /\ req' = [req EXCEPT ![r] =
       [op |-> op, number |-> c, status |-> certificate[c].status,
        dated |-> completion.dated]]

\* A refusal, an IntegrityError or a lost connection: nothing was written.
RollBack(r) ==
  /\ req[r] # Idle
  /\ Ends(r)
  /\ UNCHANGED <<completion, certificate, enrolment>>

-----------------------------------------------------------------------------
(***************************************************************************)
(* Completion: progress/services.py.                                       *)
(***************************************************************************)

Verdict == IF meets THEN "eligible" ELSE "in_progress"

\* What refresh_completion, which decides on `copy`, leaves in the row it
\* finds: it saves the status column alone, and only when that has changed.
Refreshed(copy, row) ==
  IF copy.status \in Decided \cup {Verdict} THEN row
  ELSE [row EXCEPT !.status = Verdict]

Refresh(r) ==
  /\ req[r].op = "refresh"
  /\ LET copy == Row(req[r].row) IN
       completion' = Refreshed(copy, Row(completion))
  /\ Ends(r)
  /\ UNCHANGED <<certificate, enrolment>>

\* Saves the whole row; the enrolment follows when the copy of it was active.
Approve(r) ==
  /\ req[r].op = "approve"
  /\ req[r].row.status # "approved"
  /\ meets \/ req[r].override
  /\ completion' = [status |-> "approved", dated |-> TRUE]
  /\ enrolment' = IF req[r].active THEN "completed" ELSE enrolment
  /\ Ends(r)
  /\ UNCHANGED certificate

\* Mutant: whatever the row says may be rejected.
RejectsAny(copy) == TRUE
MayReject(copy) == copy.status # "approved"

Reject(r) ==
  /\ req[r].op = "reject"
  /\ MayReject(req[r].row)
  /\ completion' = [status |-> "rejected", dated |-> req[r].row.dated]
  /\ Ends(r)
  /\ UNCHANGED <<certificate, enrolment>>

\* Nothing was decided: the row is handed back as it is.
ReopenNothing(r) ==
  /\ req[r].op = "reopen"
  /\ req[r].row.status \notin Decided
  /\ completion' = Row(completion)
  /\ Ends(r)
  /\ UNCHANGED <<certificate, enrolment>>

\* Mutant: nobody looks for a certificate.
ReopensAnything == TRUE
NoneLive == Live = {}

ReopenCheck(r) ==
  /\ req[r].op = "reopen"
  /\ req[r].row.status \in Decided
  /\ NoneLive
  /\ req' = [req EXCEPT ![r].op = "reopen_checked"]
  /\ UNCHANGED <<completion, certificate, enrolment, meets>>

\* Saves the whole row without a date, then refreshes it.
Reopen(r) ==
  /\ req[r].op = "reopen_checked"
  /\ completion' = Refreshed(New, New)
  /\ Ends(r)
  /\ UNCHANGED <<certificate, enrolment>>

-----------------------------------------------------------------------------
(***************************************************************************)
(* Certificates: certificates/services.py.                                 *)
(***************************************************************************)

\* Mutant: no partial unique index.
NoOneLiveIndex(others) == TRUE
\* certificate_one_live_per_completion admits a row to be issued next to these.
OneLiveIndex(others) == others = {}

Issue(r) ==
  /\ req[r].op = "issue"
  /\ req[r].row.status = "approved"
  /\ OneLiveIndex(Live)
  /\ \E n \in Numbers :
       /\ Fresh(n)
       /\ certificate' = [certificate EXCEPT ![n] = [status |-> "issued", supersedes |-> 0]]
  /\ Ends(r)
  /\ UNCHANGED <<completion, enrolment>>

\* Mutants: a revoked certificate may be reissued; the old one is left as it is.
ReissuesAny(copy) == TRUE
ReplacedUntouched(c, n) ==
  [certificate EXCEPT ![n] = [status |-> "issued", supersedes |-> c]]
Reissuable(copy) == copy # "revoked"
Replaced(c, n) ==
  [certificate EXCEPT ![c].status = "superseded", ![n] = [status |-> "issued", supersedes |-> c]]

\* `supersedes` is one to one, and the snapshot needs a completion date.
Reissue(r) ==
  /\ req[r].op = "reissue"
  /\ Reissuable(req[r].status)
  /\ req[r].dated
  /\ Successors(req[r].number) = {}
  /\ OneLiveIndex(Live \ {req[r].number})
  /\ \E n \in Numbers : Fresh(n) /\ certificate' = Replaced(req[r].number, n)
  /\ Ends(r)
  /\ UNCHANGED <<completion, enrolment>>

Revoke(r) ==
  /\ req[r].op = "revoke"
  /\ req[r].status # "revoked"
  /\ certificate' = [certificate EXCEPT ![req[r].number].status = "revoked"]
  /\ Ends(r)
  /\ UNCHANGED <<completion, enrolment>>

-----------------------------------------------------------------------------
(***************************************************************************)
(* Around them: set_enrollment_status, and the work and the rules that     *)
(* decide whether the student meets the requirements.                      *)
(***************************************************************************)

MoveEnrolment ==
  /\ \A q \in Requests : req[q] # Idle => {"enrolment", Doing(q)} \notin NeverOverlap
  /\ enrolment' \in MayBecome(enrolment)
  /\ UNCHANGED <<completion, certificate, meets, req>>

MoveRules ==
  /\ meets' = ~meets
  /\ UNCHANGED <<completion, certificate, enrolment, req>>

-----------------------------------------------------------------------------

Init ==
  /\ completion = Absent
  /\ certificate = [c \in Numbers |-> NoCertificate]
  /\ enrolment \in {"active", "suspended"}
  /\ meets = FALSE
  /\ req = [r \in Requests |-> Idle]

Load(r) ==
  \/ \E op \in {"refresh", "reject", "reopen"} : LoadCompletion(r, op)
  \/ \E override \in BOOLEAN : LoadForApproval(r, override)
  \/ LoadForIssue(r)
  \/ \E op \in {"reissue", "revoke"}, c \in Numbers : LoadCertificate(r, op, c)

Write(r) ==
  \/ Refresh(r) \/ Approve(r) \/ Reject(r)
  \/ ReopenNothing(r) \/ ReopenCheck(r) \/ Reopen(r)
  \/ Issue(r) \/ Reissue(r) \/ Revoke(r)

Requesting == \E r \in Requests : Load(r) \/ Write(r) \/ RollBack(r)

Next == Requesting \/ MoveEnrolment \/ MoveRules

Spec == Init /\ [][Next]_vars

-----------------------------------------------------------------------------
(***************************************************************************)
(* Properties.                                                             *)
(***************************************************************************)

\* Every table and every request holds what its columns and copies can hold.
TypeOK ==
  /\ completion \in Completion \cup {Absent}
  /\ certificate \in [Numbers -> CertificateRow \cup {NoCertificate}]
  /\ enrolment \in EnrolmentStatuses
  /\ meets \in BOOLEAN
  /\ req \in [Requests -> {Idle} \cup OnCompletion \cup Approving \cup OnCertificate]

\* "Two valid claims to the same course cannot exist" (certificates/models.py):
\* issuing and reissuing may race with each other in any way.
OneLive == \A c, d \in Live : c = d

\* The chain of reissues can be walked: a replacement is younger than what it
\* replaces, replaces it alone, and what it replaces is not a valid claim; a
\* certificate is superseded only when its replacement is there.
ChainHolds ==
  \A c \in Numbers :
    /\ certificate[c].supersedes < c
    /\ \A d, e \in Successors(c) : d = e
    /\ Successors(c) # {} => certificate[c].status \in {"superseded", "revoked"}
    /\ certificate[c].status = "superseded" => Successors(c) # {}

\* A valid certificate is one of an approved completion (issue_certificate:
\* "there is no path here that skips it"), whatever is reopened or revoked.
LiveIsApproved == Live # {} => completion.status = "approved"

\* Only an administrator undoes a decision: no recomputation on a read touches
\* it (refresh_completion), an approval is only reopened, never rejected, and a
\* rejection is reopened or overruled by an approval.
DecisionStands ==
  [][completion.status \in Decided =>
       \/ completion'.status \in {completion.status, "approved"}
       \/ \E r \in Requests : req[r].op = "reopen_checked" /\ req'[r] = Idle]_vars

\* "Revocation is a state": a certificate once revoked verifies as revoked
\* for ever, whoever reissues it.
RevocationStands ==
  [][\A c \in Numbers : certificate[c].status = "revoked" =>
       certificate'[c].status = "revoked"]_vars

\* An enrolment that has ended is not ended again, or revived, by an approval.
EndedStays == [][(enrolment \in Ended) => (enrolment' = enrolment)]_vars
==============================================================================

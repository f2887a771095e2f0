------------------------- MODULE CertificationProofs -------------------------
(***************************************************************************)
(* Proofs about Certification, for any number of requests and of           *)
(* certificates.                                                           *)
(***************************************************************************)
EXTENDS Certification, TLAPS

\* The operation of a request tells what its copy looks like.
LEMMA KindOfRequest ==
  ASSUME TypeOK, NEW r \in Requests
  PROVE /\ req[r].op \in {"refresh", "reject", "reopen", "reopen_checked", "issue"}
             => req[r] \in OnCompletion
        /\ req[r].op = "approve" => req[r] \in Approving
        /\ req[r].op \in {"reissue", "revoke"} => req[r] \in OnCertificate
        /\ req[r] # Idle <=> req[r].op # "none"
<1>1. req[r] \in {Idle} \cup OnCompletion \cup Approving \cup OnCertificate
  BY DEF TypeOK
<1>2. CASE req[r] = Idle
  BY <1>2 DEF Idle
<1>3. CASE req[r] \in OnCompletion
  BY <1>3 DEF OnCompletion, Idle
<1>4. CASE req[r] \in Approving
  BY <1>4 DEF Approving, Idle
<1>5. CASE req[r] \in OnCertificate
  BY <1>5 DEF OnCertificate, Idle
<1> QED BY <1>1, <1>2, <1>3, <1>4, <1>5

\* The tables have their types at the start.
LEMMA InitTyped == Init => TypeOK
  BY CertificationAssumption DEF Init, TypeOK, Completion, Absent, NoCertificate, EnrolmentStatuses,
     Ended, Idle

\* A copy of the completion is dated or not.
LEMMA CopyDated == \A copy \in Completion \cup {Absent} : copy.dated \in BOOLEAN
<1>1. \A copy \in Completion : copy.dated \in BOOLEAN
  BY DEF Completion
<1>2. Absent.dated \in BOOLEAN
  <2>1. Absent.dated = FALSE
    BY DEF Absent
  <2> QED BY <2>1, Zenon
<1> QED BY <1>1, <1>2

\* What a request that loads something takes with it has its type.
LEMMA LoadTyped ==
  ASSUME TypeOK, NEW r \in Requests, Load(r)
  PROVE TypeOK'
<1> USE DEF TypeOK
<1>1. ASSUME NEW op \in {"refresh", "reject", "reopen"}, LoadCompletion(r, op) PROVE TypeOK'
  BY <1>1 DEF LoadCompletion, Starts, OnCompletion
<1>2. ASSUME NEW override \in BOOLEAN, LoadForApproval(r, override) PROVE TypeOK'
  BY <1>2 DEF LoadForApproval, Starts, Approving, Follows
<1>3. CASE LoadForIssue(r)
  BY <1>3 DEF LoadForIssue, Starts, OnCompletion
<1>4. ASSUME NEW op \in {"reissue", "revoke"}, NEW c \in Numbers, LoadCertificate(r, op, c)
      PROVE TypeOK'
  <2>1. certificate[c] \in CertificateRow
    BY <1>4 DEF LoadCertificate
  <2>2. completion.dated \in BOOLEAN
    BY CopyDated
  <2> QED BY <1>4, <2>1, <2>2 DEF LoadCertificate, Starts, OnCertificate, CertificateRow
<1> QED BY <1>1, <1>2, <1>3, <1>4 DEF Load

\* What a completion operation writes has its type.
LEMMA CompletionTyped ==
  ASSUME TypeOK, NEW r \in Requests,
         Refresh(r) \/ Approve(r) \/ Reject(r) \/ ReopenNothing(r) \/ ReopenCheck(r) \/ Reopen(r)
  PROVE TypeOK'
<1> USE DEF Ends
<1>1. Row(completion) \in Completion /\ New \in Completion
  BY DEF TypeOK, Row, New, Completion, CompletionStatuses
<1>2. \A copy, row \in Completion : Refreshed(copy, row) \in Completion
  BY DEF Refreshed, Verdict, Completion, CompletionStatuses
<1>3. CASE Refresh(r)
  <2>1. req[r].row \in Completion \cup {Absent}
    BY <1>3, KindOfRequest DEF Refresh, OnCompletion
  <2>2. Row(req[r].row) \in Completion
    BY <2>1, <1>1 DEF Row
  <2> QED BY <1>1, <1>2, <1>3, <2>2 DEF Refresh, TypeOK
<1>4. CASE Approve(r)
  BY <1>4 DEF Approve, TypeOK, Completion, CompletionStatuses, Decided, EnrolmentStatuses, Ended
<1>5. CASE Reject(r)
  <2>1. req[r].row \in Completion \cup {Absent}
    BY <1>5, KindOfRequest DEF Reject, OnCompletion
  <2>2. req[r].row.dated \in BOOLEAN
    BY <2>1, CopyDated
  <2>3. [status |-> "rejected", dated |-> req[r].row.dated] \in Completion
    BY <2>2 DEF Completion, CompletionStatuses, Decided
  <2> QED BY <1>5, <2>3 DEF Reject, TypeOK
<1>6. CASE ReopenNothing(r)
  BY <1>1, <1>6 DEF ReopenNothing, TypeOK
<1>7. CASE ReopenCheck(r)
  <2>1. req[r] \in OnCompletion
    BY <1>7, KindOfRequest DEF ReopenCheck
  <2>2. [req[r] EXCEPT !.op = "reopen_checked"] \in OnCompletion
    BY <2>1 DEF OnCompletion
  <2> QED BY <1>7, <2>2 DEF ReopenCheck, TypeOK
<1>8. CASE Reopen(r)
  BY <1>1, <1>2, <1>8 DEF Reopen, TypeOK
<1> QED BY <1>3, <1>4, <1>5, <1>6, <1>7, <1>8

\* What a certificate operation writes has its type.
LEMMA CertificateTyped ==
  ASSUME TypeOK, NEW r \in Requests, Issue(r) \/ Reissue(r) \/ Revoke(r)
  PROVE TypeOK'
<1> USE CertificationAssumption DEF Ends, Numbers, CertificateRow, CertificateStatuses
<1>1. CASE Issue(r)
  BY <1>1 DEF Issue, TypeOK
<1>2. CASE Reissue(r)
  <2>1. req[r] \in OnCertificate
    BY <1>2, KindOfRequest DEF Reissue
  <2>2. PICK n \in Numbers : certificate' = Replaced(req[r].number, n)
    BY <1>2 DEF Reissue
  <2>3. req[r].number \in Numbers
    BY <2>1 DEF OnCertificate
  <2>4. \A c \in Numbers : certificate[c] \in CertificateRow \cup {NoCertificate}
    BY DEF TypeOK
  <2>5. [certificate[req[r].number] EXCEPT !.status = "superseded"] \in CertificateRow
    BY <2>3, <2>4 DEF NoCertificate
  <2>6. [status |-> "issued", supersedes |-> req[r].number] \in CertificateRow
    BY <2>3
  <2>7. certificate' \in [Numbers -> CertificateRow \cup {NoCertificate}]
    BY <2>2, <2>3, <2>4, <2>5, <2>6 DEF Replaced, TypeOK
  <2> QED BY <1>2, <2>7 DEF Reissue, TypeOK
<1>3. CASE Revoke(r)
  <2>1. req[r].number \in Numbers
    BY <1>3, KindOfRequest DEF Revoke, OnCertificate
  <2>2. [certificate[req[r].number] EXCEPT !.status = "revoked"] \in CertificateRow
    BY <2>1 DEF TypeOK, NoCertificate
  <2> QED BY <1>3, <2>1, <2>2 DEF Revoke, TypeOK
<1> QED BY <1>1, <1>2, <1>3

\* Every step keeps the types.
LEMMA NextTyped == TypeOK /\ [Next]_vars => TypeOK'
<1> SUFFICES ASSUME TypeOK, [Next]_vars PROVE TypeOK'
  OBVIOUS
<1>1. CASE UNCHANGED vars
  BY <1>1 DEF vars, TypeOK
<1>2. ASSUME NEW r \in Requests, Load(r) PROVE TypeOK'
  BY <1>2, LoadTyped
<1>3. ASSUME NEW r \in Requests, Write(r) PROVE TypeOK'
  BY <1>3, CompletionTyped, CertificateTyped DEF Write
<1>4. ASSUME NEW r \in Requests, RollBack(r) PROVE TypeOK'
  BY <1>4 DEF RollBack, Ends, TypeOK
<1>5. CASE MoveEnrolment
  <2>1. \A from : MayBecome(from) \subseteq EnrolmentStatuses
    BY DEF MayBecome, EnrolmentStatuses, Ended
  <2> QED BY <1>5, <2>1 DEF MoveEnrolment, TypeOK
<1>6. CASE MoveRules
  BY <1>6 DEF MoveRules, TypeOK
<1> QED BY <1>1, <1>2, <1>3, <1>4, <1>5, <1>6 DEF Next, Requesting

\* The rows of the completion, the certificates and the enrolment, and the
\* copies the requests took of them, keep their types.
THEOREM CertificationTyped == Spec => []TypeOK
  BY InitTyped, NextTyped, PTL DEF Spec

-----------------------------------------------------------------------------
(***************************************************************************)
(* What every interleaving keeps.                                          *)
(***************************************************************************)

\* Three operations write certificates.
LEMMA CertificateSteps ==
  ASSUME [Next]_vars, certificate' # certificate
  PROVE \E r \in Requests : Issue(r) \/ Reissue(r) \/ Revoke(r)
<1>1. ASSUME NEW r \in Requests, Load(r) PROVE certificate' = certificate
  BY <1>1 DEF Load, LoadCompletion, LoadForApproval, LoadForIssue, LoadCertificate, Starts
<1>2. ASSUME NEW r \in Requests, Write(r) PROVE certificate' = certificate \/ Issue(r) \/ Reissue(r) \/ Revoke(r)
  BY <1>2 DEF Write, Refresh, Approve, Reject, ReopenNothing, ReopenCheck, Reopen
<1>3. ASSUME NEW r \in Requests, RollBack(r) PROVE certificate' = certificate
  BY <1>3 DEF RollBack
<1>4. MoveEnrolment \/ MoveRules \/ UNCHANGED vars => certificate' = certificate
  BY DEF MoveEnrolment, MoveRules, vars
<1> QED BY <1>1, <1>2, <1>3, <1>4 DEF Next, Requesting

\* What a reissue leaves of the table: the old row superseded, the new one issued.
LEMMA ReplacedRows ==
  ASSUME TypeOK, NEW c \in Numbers, NEW n \in Numbers, certificate' = Replaced(c, n)
  PROVE /\ certificate'[n] = [status |-> "issued", supersedes |-> c]
        /\ c # n => /\ certificate'[c].status = "superseded"
                    /\ certificate'[c].supersedes = certificate[c].supersedes
        /\ \A d \in Numbers \ {c, n} : certificate'[d] = certificate[d]
<1> QED BY DEF TypeOK, Replaced, CertificateRow, NoCertificate

\* One certificate is valid after an insertion that the partial index admits.
LEMMA NextOneLive == TypeOK /\ OneLive /\ [Next]_vars => OneLive'
<1> SUFFICES ASSUME TypeOK, OneLive, [Next]_vars, certificate' # certificate PROVE OneLive'
  BY DEF OneLive, Live
<1>1. PICK r \in Requests : Issue(r) \/ Reissue(r) \/ Revoke(r)
  BY CertificateSteps
<1>2. CASE Issue(r)
  <2>1. PICK n \in Numbers :
          certificate' = [certificate EXCEPT ![n] = [status |-> "issued", supersedes |-> 0]]
    BY <1>2 DEF Issue
  <2>2. Live = {}
    BY <1>2 DEF Issue, OneLiveIndex
  <2>3. Live' \subseteq {n}
    BY <2>1, <2>2 DEF Live, TypeOK
  <2> QED BY <2>3 DEF OneLive
<1>3. CASE Reissue(r)
  <2> DEFINE c == req[r].number
  <2>1. c \in Numbers
    BY <1>3, KindOfRequest DEF Reissue, OnCertificate
  <2>2. PICK n \in Numbers : certificate' = Replaced(c, n)
    BY <1>3 DEF Reissue
  <2>3. Live \ {c} = {}
    BY <1>3 DEF Reissue, OneLiveIndex
  <2> HIDE DEF c
  <2>5. /\ c # n => certificate'[c].status = "superseded"
        /\ \A d \in Numbers \ {c, n} : certificate'[d] = certificate[d]
    BY <2>1, <2>2, ReplacedRows
  <2>4. Live' \subseteq {n}
    <3> SUFFICES ASSUME NEW d \in Numbers, d # n, certificate'[d].status = "issued" PROVE FALSE
      BY DEF Live
    <3>1. d # c
      BY <2>5
    <3>2. certificate[d].status = "issued"
      BY <2>5, <3>1
    <3> QED BY <2>3, <3>1, <3>2 DEF Live
  <2> QED BY <2>4 DEF OneLive
<1>4. CASE Revoke(r)
  <2>1. Live' \subseteq Live
    BY <1>4 DEF Revoke, Live, TypeOK
  <2> QED BY <2>1 DEF OneLive
<1> QED BY <1>1, <1>2, <1>3, <1>4

\* Two valid claims to the same course cannot exist, whatever races.
THEOREM OneLiveClaim == Spec => []OneLive
<1>1. Init => OneLive
  BY DEF Init, OneLive, Live, NoCertificate
<1> QED BY <1>1, InitTyped, NextTyped, NextOneLive, PTL DEF Spec

\* A request that is on a certificate is on one that was inserted.
Loaded ==
  \A r \in Requests :
    req[r].op \in {"reissue", "revoke"} => certificate[req[r].number] # NoCertificate

\* Rows are never deleted.
LEMMA RowsStay ==
  ASSUME TypeOK, [Next]_vars, NEW c \in Numbers, certificate[c] # NoCertificate
  PROVE certificate'[c] # NoCertificate
<1> USE DEF NoCertificate
<1> SUFFICES ASSUME certificate' # certificate PROVE certificate'[c].status # "absent"
  OBVIOUS
<1>1. certificate[c].status # "absent"
  BY DEF TypeOK, CertificateRow, CertificateStatuses
<1>2. PICK r \in Requests : Issue(r) \/ Reissue(r) \/ Revoke(r)
  BY CertificateSteps
<1>3. CASE Issue(r)
  BY <1>1, <1>3 DEF Issue, TypeOK
<1>4. CASE Reissue(r)
  <2>1. req[r].number \in Numbers
    BY <1>4, KindOfRequest DEF Reissue, OnCertificate
  <2>2. PICK n \in Numbers : certificate' = Replaced(req[r].number, n)
    BY <1>4 DEF Reissue
  <2>3. CASE c = n
    <3>1. certificate'[n] = [status |-> "issued", supersedes |-> req[r].number]
      BY <2>1, <2>2, ReplacedRows
    <3> QED BY <2>3, <3>1
  <2>4. CASE c # n /\ c = req[r].number
    <3>1. certificate'[req[r].number].status = "superseded"
      BY <2>1, <2>2, <2>4, ReplacedRows
    <3> QED BY <2>4, <3>1
  <2>5. CASE c # n /\ c # req[r].number
    <3>1. \A d \in Numbers \ {req[r].number, n} : certificate'[d] = certificate[d]
      BY <2>1, <2>2, ReplacedRows, ZenonT(40)
    <3> QED BY <1>1, <2>5, <3>1
  <2> QED BY <2>3, <2>4, <2>5
<1>5. CASE Revoke(r)
  BY <1>1, <1>5 DEF Revoke, TypeOK
<1> QED BY <1>2, <1>3, <1>4, <1>5

\* A request takes up a certificate that is there.
LEMMA NextLoaded == TypeOK /\ Loaded /\ [Next]_vars => Loaded'
<1> SUFFICES ASSUME TypeOK, Loaded, [Next]_vars, NEW r \in Requests,
                    req'[r].op \in {"reissue", "revoke"}
             PROVE certificate'[req'[r].number] # NoCertificate
  BY DEF Loaded
<1>1. CASE req'[r] = req[r]
  <2>1. req[r].number \in Numbers /\ certificate[req[r].number] # NoCertificate
    BY <1>1, KindOfRequest DEF Loaded, OnCertificate
  <2> QED BY <1>1, <2>1, RowsStay
<1>2. CASE req'[r] # req[r]
  <2>1. \E op \in {"reissue", "revoke"}, c \in Numbers : LoadCertificate(r, op, c)
    <3>1. ~ UNCHANGED req
      BY <1>2
    <3>2. PICK q \in Requests : Load(q) \/ Write(q) \/ RollBack(q)
      BY <3>1 DEF Next, Requesting, MoveEnrolment, MoveRules, vars
    <3>3. ~ (Write(q) \/ RollBack(q))
      <4>1. Write(q) \/ RollBack(q) =>
              \/ req' = [req EXCEPT ![q] = Idle]
              \/ req[q].op = "reopen" /\ req' = [req EXCEPT ![q].op = "reopen_checked"]
        BY DEF Write, RollBack, Ends, Refresh, Approve, Reject, ReopenNothing, ReopenCheck, Reopen,
               Issue, Reissue, Revoke
      <4>2. ASSUME req' = [req EXCEPT ![q] = Idle] PROVE FALSE
        BY <1>2, <4>2 DEF TypeOK, Idle
      <4>3. ASSUME req[q].op = "reopen", req' = [req EXCEPT ![q].op = "reopen_checked"]
            PROVE FALSE
        BY <1>2, <4>3, KindOfRequest DEF TypeOK, OnCompletion
      <4> QED BY <4>1, <4>2, <4>3
    <3>4. Load(q)
      BY <3>2, <3>3
    <3> QED BY <1>2, <3>4 DEF Load, LoadCompletion, LoadForApproval, LoadForIssue, LoadCertificate,
               TypeOK
  <2>2. PICK op \in {"reissue", "revoke"}, c \in Numbers : LoadCertificate(r, op, c)
    BY <2>1
  <2>3. req'[r].number = c /\ certificate' = certificate /\ certificate[c] # NoCertificate
    BY <2>2 DEF LoadCertificate, Starts, TypeOK
  <2> QED BY <2>3
<1> QED BY <1>1, <1>2

\* The number an insertion takes is past every row.
LEMMA FreshNumber ==
  ASSUME TypeOK, NEW n \in Numbers, Fresh(n)
  PROVE /\ certificate[n] = NoCertificate
        /\ \A c \in Numbers : certificate[c] # NoCertificate => c < n
BY CertificationAssumption DEF Fresh, Numbers

\* A row supersedes nothing until it is inserted, and nothing supersedes it.
LEMMA FreshAlone ==
  ASSUME TypeOK, ChainHolds, NEW n \in Numbers, certificate[n] = NoCertificate
  PROVE Successors(n) = {} /\ \A c \in Numbers : n \notin Successors(c)
<1>1. certificate[n].status = "absent" /\ certificate[n].supersedes = 0
  BY DEF NoCertificate
<1>2. Successors(n) = {}
  BY <1>1 DEF ChainHolds
<1>3. \A c \in Numbers : c # 0
  BY CertificationAssumption DEF Numbers
<1> QED BY <1>1, <1>2, <1>3 DEF Successors

\* The chain stays walkable.
LEMMA NextChain == TypeOK /\ Loaded /\ ChainHolds /\ [Next]_vars => ChainHolds'
<1> SUFFICES ASSUME TypeOK, Loaded, ChainHolds, [Next]_vars, certificate' # certificate
             PROVE ChainHolds'
  BY DEF ChainHolds, Successors
<1>1. PICK r \in Requests : Issue(r) \/ Reissue(r) \/ Revoke(r)
  BY CertificateSteps
<1>2. CASE Issue(r)
  <2>1. PICK n \in Numbers : Fresh(n) /\
          certificate' = [certificate EXCEPT ![n] = [status |-> "issued", supersedes |-> 0]]
    BY <1>2 DEF Issue
  <2>2. certificate[n] = NoCertificate
    BY <2>1, FreshNumber
  <2>3. /\ certificate'[n] = [status |-> "issued", supersedes |-> 0]
        /\ \A c \in Numbers \ {n} : certificate'[c] = certificate[c]
    BY <2>1 DEF TypeOK
  <2>4. \A c \in Numbers : certificate'[c].supersedes = certificate[c].supersedes
    BY <2>2, <2>3 DEF NoCertificate
  <2>5. \A c \in Numbers : Successors(c)' = Successors(c)
    BY <2>4 DEF Successors
  <2>6. Successors(n) = {}
    BY <2>2, FreshAlone
  <2>7. \A c \in Numbers \ {n} : certificate'[c].status = certificate[c].status
    BY <2>3
  <2>8. certificate'[n].status = "issued"
    BY <2>3
  <2> QED BY <2>4, <2>5, <2>6, <2>7, <2>8 DEF ChainHolds
<1>3. CASE Reissue(r)
  <2>0. PICK k \in Numbers : k = req[r].number
    BY <1>3, KindOfRequest DEF Reissue, OnCertificate
  <2>1. certificate[k] # NoCertificate /\ Successors(k) = {}
    BY <1>3, <2>0 DEF Reissue, Loaded
  <2>2. PICK n \in Numbers : Fresh(n) /\ certificate' = Replaced(k, n)
    BY <1>3, <2>0 DEF Reissue
  <2>3. certificate[n] = NoCertificate /\ k < n /\ k # n
    BY <2>1, <2>2, FreshNumber
  <2>4. certificate'[n] = [status |-> "issued", supersedes |-> k]
    BY <2>1, <2>2, ReplacedRows
  <2>5. certificate'[k].status = "superseded" /\ certificate'[k].supersedes = certificate[k].supersedes
    BY <2>1, <2>2, <2>3, ReplacedRows
  <2>6. \A c \in Numbers \ {k, n} : certificate'[c] = certificate[c]
    BY <2>1, <2>2, ReplacedRows
  <2>7. certificate'[n].supersedes = k /\ certificate'[n].status = "issued"
    BY <2>4
  <2>8. \A c \in Numbers \ {n} : certificate'[c].supersedes = certificate[c].supersedes
    BY <2>5, <2>6
  <2>9. Successors(n) = {} /\ \A c \in Numbers : n \notin Successors(c)
    BY <2>3, FreshAlone
  <2>10. Successors(k)' = {n}
    BY <2>1, <2>7, <2>8 DEF Successors
  <2>11. \A c \in Numbers \ {k} : Successors(c)' = Successors(c)
    BY <2>7, <2>8, <2>9 DEF Successors
  <2>12. ASSUME NEW c \in Numbers
         PROVE /\ certificate'[c].supersedes < c
               /\ \A d, e \in Successors(c)' : d = e
               /\ Successors(c)' # {} => certificate'[c].status \in {"superseded", "revoked"}
               /\ certificate'[c].status = "superseded" => Successors(c)' # {}
    <3>1. CASE c = k
      BY <2>1, <2>5, <2>10, <3>1 DEF ChainHolds
    <3>2. CASE c = n
      BY <2>3, <2>7, <2>9, <2>11, <3>2 DEF ChainHolds
    <3>3. CASE c \notin {k, n}
      BY <2>6, <2>11, <3>3 DEF ChainHolds
    <3> QED BY <3>1, <3>2, <3>3
  <2> QED BY <2>12 DEF ChainHolds
<1>4. CASE Revoke(r)
  <2>1. \A c \in Numbers : certificate'[c].supersedes = certificate[c].supersedes
    BY <1>4 DEF Revoke, TypeOK, CertificateRow, NoCertificate
  <2>2. \A c \in Numbers : certificate'[c].status \in {"revoked", certificate[c].status}
    BY <1>4 DEF Revoke, TypeOK, CertificateRow, NoCertificate
  <2>3. \A c \in Numbers : Successors(c)' = Successors(c)
    BY <2>1 DEF Successors
  <2> QED BY <2>1, <2>2, <2>3 DEF ChainHolds
<1> QED BY <1>1, <1>2, <1>3, <1>4

\* There is nothing to walk at the start, and nobody is on a certificate.
LEMMA InitChain == Init => ChainHolds /\ Loaded
<1> SUFFICES ASSUME Init PROVE ChainHolds /\ Loaded
  OBVIOUS
<1>1. \A c \in Numbers : certificate[c].status = "absent" /\ certificate[c].supersedes = 0
  BY DEF Init, NoCertificate
<1>2. \A c \in Numbers : c > 0
  BY CertificationAssumption DEF Numbers
<1>3. \A c \in Numbers : Successors(c) = {}
  BY <1>1, <1>2 DEF Successors
<1>4. ChainHolds
  BY <1>1, <1>2, <1>3 DEF ChainHolds
<1>5. Loaded
  BY DEF Init, Loaded, Idle
<1> QED BY <1>4, <1>5

\* The chain of reissues can be walked, whatever races: issuing, reissuing and
\* revoking, with copies of any age.
THEOREM ChainOfReissues == Spec => []ChainHolds
  BY InitTyped, InitChain, NextTyped, NextLoaded, NextChain, PTL DEF Spec

-----------------------------------------------------------------------------
(***************************************************************************)
(* What holds when no two operations of an unsafe pair are in flight       *)
(* together: the copies of the requests stay good enough to decide on.     *)
(***************************************************************************)

Exclusive ==
  \A p, q \in Requests :
    p # q /\ req[p] # Idle /\ req[q] # Idle => {Doing(p), Doing(q)} \notin NeverOverlap

\* What a copy says of the row that its request relies upon.
Good(t) ==
  /\ t.op = "refresh" /\ t.row.status \notin Decided => completion.status \notin Decided
  /\ t.op = "reject" /\ t.row.status # "approved" => completion.status # "approved"
  /\ t.op = "issue" /\ t.row.status = "approved" => completion.status = "approved"
  /\ t.op = "reopen_checked" => Live = {}
  /\ t.op = "reissue" /\ t.status # "revoked" => certificate[t.number].status # "revoked"
  /\ t.op = "approve" /\ t.active => enrolment \in {"active", "completed"}

CopiesHold == \A r \in Requests : Good(req[r])

SerialInv == TypeOK /\ Loaded /\ ChainHolds /\ Exclusive /\ CopiesHold /\ LiveIsApproved

\* A step starts one request, takes it one statement further, or ends it.
LEMMA RequestSteps ==
  ASSUME TypeOK, [Next]_vars
  PROVE \/ UNCHANGED req
        \/ \E q \in Requests : Load(q)
        \/ \E q \in Requests : ReopenCheck(q)
        \/ \E q \in Requests : req[q] # Idle /\ req' = [req EXCEPT ![q] = Idle]
<1>1. ASSUME NEW q \in Requests, Write(q)
      PROVE ReopenCheck(q) \/ (req[q] # Idle /\ req' = [req EXCEPT ![q] = Idle])
  BY <1>1 DEF Write, Refresh, Approve, Reject, ReopenNothing, Reopen, Issue, Reissue, Revoke, Ends,
     Idle
<1>2. ASSUME NEW q \in Requests, RollBack(q)
      PROVE req[q] # Idle /\ req' = [req EXCEPT ![q] = Idle]
  BY <1>2 DEF RollBack, Ends
<1> QED BY <1>1, <1>2 DEF Next, Requesting, MoveEnrolment, MoveRules, vars

\* A request that loads takes a good copy, next to what it may overlap with.
LEMMA LoadSerial ==
  ASSUME SerialInv, NEW q \in Requests, Load(q)
  PROVE /\ UNCHANGED <<completion, certificate, enrolment>>
        /\ \A r \in Requests \ {q} : req'[r] = req[r]
        /\ req[q] = Idle
        /\ \A r \in Requests \ {q} : req[r] # Idle => {Doing(q)', Doing(r)} \notin NeverOverlap
        /\ Good(req'[q])
<1> USE DEF SerialInv, TypeOK
<1>1. ASSUME NEW op \in {"refresh", "reject", "reopen"}, LoadCompletion(q, op)
      PROVE /\ Starts(q, op) /\ req' = [req EXCEPT ![q] = [op |-> op, row |-> completion]]
            /\ Doing(q)' = op /\ Good(req'[q])
  BY <1>1 DEF LoadCompletion, Doing, Good
<1>2. ASSUME NEW override \in BOOLEAN, LoadForApproval(q, override)
      PROVE /\ Starts(q, "approve") /\ Doing(q)' = "approve" /\ Good(req'[q])
            /\ req' = [req EXCEPT ![q] = [op |-> "approve", row |-> completion,
                       active |-> Follows(enrolment), override |-> override]]
  <2>1. req' = [req EXCEPT ![q] = [op |-> "approve", row |-> completion,
                       active |-> Follows(enrolment), override |-> override]]
    BY <1>2 DEF LoadForApproval
  <2>2. req'[q].op = "approve" /\ req'[q].active = Follows(enrolment)
    BY <2>1
  <2> QED BY <1>2, <2>1, <2>2 DEF LoadForApproval, Doing, Good, Follows
<1>3. CASE LoadForIssue(q)
  <2>1. /\ Starts(q, "issue") /\ req' = [req EXCEPT ![q] = [op |-> "issue", row |-> completion]]
        /\ Doing(q)' = "issue" /\ Good(req'[q])
    BY <1>3 DEF LoadForIssue, Doing, Good
  <2> QED BY <2>1 DEF Starts, MayOverlap
<1>4. ASSUME NEW op \in {"reissue", "revoke"}, NEW c \in Numbers, LoadCertificate(q, op, c)
      PROVE /\ Starts(q, op) /\ Doing(q)' = op /\ Good(req'[q])
            /\ req' = [req EXCEPT ![q] = [op |-> op, number |-> c,
                       status |-> certificate[c].status, dated |-> completion.dated]]
  BY <1>4 DEF LoadCertificate, Doing, Good
<1>5. PICK op \in OperationNames : Starts(q, op) /\ Doing(q)' = op
  BY <1>1, <1>2, <1>3, <1>4 DEF Load, LoadForIssue, Doing, OperationNames
<1>6. Good(req'[q])
  BY <1>1, <1>2, <1>3, <1>4 DEF Load, LoadForIssue, Doing, Good
<1>7. \A r \in Requests \ {q} : req'[r] = req[r]
  BY DEF Load, LoadCompletion, LoadForApproval, LoadForIssue, LoadCertificate
<1> QED BY <1>5, <1>6, <1>7 DEF Starts, MayOverlap

\* Who moves the completion: a decision is made by an approval or a rejection
\* and taken back by a reopening that has looked for certificates.
LEMMA CompletionMoves ==
  ASSUME SerialInv, [Next]_vars
  PROVE /\ completion.status \in Decided =>
             \/ completion'.status = completion.status
             \/ \E q \in Requests : Approve(q)
             \/ \E q \in Requests : Reopen(q)
        /\ completion.status \notin Decided /\ completion'.status \in Decided =>
             \E q \in Requests : Approve(q) \/ Reject(q)
        /\ completion.status # "approved" /\ completion'.status = "approved" =>
             \E q \in Requests : Approve(q)
<1> DEFINE Moves ==
      /\ completion.status \in Decided =>
           \/ completion'.status = completion.status
           \/ \E q \in Requests : Approve(q)
           \/ \E q \in Requests : Reopen(q)
      /\ completion.status \notin Decided /\ completion'.status \in Decided =>
           \E q \in Requests : Approve(q) \/ Reject(q)
      /\ completion.status # "approved" /\ completion'.status = "approved" =>
           \E q \in Requests : Approve(q)
<1>1. CASE completion' = completion
  BY <1>1
<1>2. ASSUME NEW q \in Requests, Refresh(q) PROVE Moves
  <2> DEFINE copy == Row(req[q].row)
  <2>1. completion' = Refreshed(copy, Row(completion))
    BY <1>2 DEF Refresh
  <2>2. Verdict \notin Decided
    BY DEF Verdict, Decided
  <2>3. completion.status \in Decided => copy.status \in Decided /\ Row(completion) = completion
    BY <1>2 DEF Refresh, SerialInv, CopiesHold, Good, Row, New, Absent, Decided
  <2>4. Row(completion).status \in {completion.status, "in_progress"}
    BY DEF Row, New
  <2>5. completion'.status \in {Row(completion).status, Verdict}
    <3>1. Row(completion) \in Completion
      BY DEF SerialInv, TypeOK, Row, New, Completion, CompletionStatuses
    <3> QED BY <2>1, <3>1 DEF Refreshed, Completion
  <2>6. completion.status \in Decided => completion' = completion
    BY <2>1, <2>3 DEF Refreshed
  <2> QED BY <2>2, <2>4, <2>5, <2>6 DEF Decided
<1>3. ASSUME NEW q \in Requests, Reject(q) PROVE Moves
  <2>1. completion.status # "approved"
    BY <1>3 DEF Reject, MayReject, SerialInv, CopiesHold, Good
  <2>2. completion'.status = "rejected"
    BY <1>3 DEF Reject
  <2> QED BY <1>3, <2>1, <2>2 DEF Decided
<1>4. ASSUME NEW q \in Requests, ReopenNothing(q) PROVE Moves
  <2>1. completion' = Row(completion)
    BY <1>4 DEF ReopenNothing
  <2>2. completion # Absent => completion' = completion
    BY <2>1 DEF Row
  <2>3. completion = Absent => completion'.status = "in_progress" /\ completion.status = "absent"
    BY <2>1 DEF Row, New, Absent
  <2> QED BY <2>2, <2>3 DEF Decided
<1>5. ASSUME NEW q \in Requests, Reopen(q) PROVE Moves
  <2>1. completion' = Refreshed(New, New)
    BY <1>5 DEF Reopen
  <2>2. completion'.status \notin Decided
    BY <2>1 DEF Refreshed, New, Verdict, Decided
  <2> QED BY <1>5, <2>2 DEF Decided
<1>6. ASSUME NEW q \in Requests, Approve(q) PROVE Moves
  BY <1>6
<1>7. \/ completion' = completion
      \/ \E q \in Requests : Refresh(q) \/ Reject(q) \/ ReopenNothing(q) \/ Reopen(q) \/ Approve(q)
  BY DEF Next, Requesting, vars, MoveEnrolment, MoveRules, RollBack, Write, ReopenCheck, Issue,
     Reissue, Revoke, Load, LoadCompletion, LoadForApproval, LoadForIssue, LoadCertificate, Starts
<1>8. Moves
  BY <1>1, <1>2, <1>3, <1>4, <1>5, <1>6, <1>7
<1> QED BY <1>8

\* A certificate that may be reissued is the valid one.
LEMMA ReissuedIsLive ==
  ASSUME SerialInv, NEW q \in Requests, Reissue(q)
  PROVE req[q].number \in Live /\ certificate[req[q].number].status # "revoked"
<1>1. req[q].number \in Numbers
  BY KindOfRequest DEF SerialInv, Reissue, OnCertificate
<1>2. certificate[req[q].number].status # "revoked"
  BY DEF Reissue, Reissuable, SerialInv, CopiesHold, Good
<1>3. certificate[req[q].number] \in CertificateRow
  BY <1>1 DEF Reissue, SerialInv, Loaded, TypeOK
<1>4. certificate[req[q].number].status # "superseded"
  BY <1>1 DEF Reissue, SerialInv, ChainHolds
<1> QED BY <1>1, <1>2, <1>3, <1>4 DEF Live, CertificateRow, CertificateStatuses

\* Who makes a certificate valid where none was, and who revokes one.
LEMMA CertificateMoves ==
  ASSUME SerialInv, [Next]_vars
  PROVE /\ Live = {} /\ Live' # {} => \E q \in Requests : Issue(q)
        /\ \A c \in Numbers :
             certificate[c].status # "revoked" /\ certificate'[c].status = "revoked" =>
               \E q \in Requests : Revoke(q)
        /\ \A c \in Numbers :
             certificate[c].status = "revoked" => certificate'[c].status = "revoked"
<1> USE DEF SerialInv
<1>1. CASE certificate' = certificate
  BY <1>1 DEF Live
<1>2. ASSUME NEW q \in Requests, Issue(q)
      PROVE \A c \in Numbers : /\ certificate'[c].status = "revoked" <=> certificate[c].status = "revoked"
  <2>1. PICK n \in Numbers : Fresh(n) /\
          certificate' = [certificate EXCEPT ![n] = [status |-> "issued", supersedes |-> 0]]
    BY <1>2 DEF Issue
  <2>2. certificate[n].status # "revoked"
    BY <2>1, FreshNumber DEF NoCertificate
  <2> QED BY <2>1, <2>2 DEF TypeOK
<1>3. ASSUME NEW q \in Requests, Reissue(q)
      PROVE \A c \in Numbers : /\ certificate'[c].status = "revoked" <=> certificate[c].status = "revoked"
  <2>0. PICK k \in Numbers : k = req[q].number
    BY <1>3, KindOfRequest DEF Reissue, OnCertificate
  <2>1. certificate[k].status # "revoked"
    BY <1>3, <2>0, ReissuedIsLive
  <2>2. PICK n \in Numbers : Fresh(n) /\ certificate' = Replaced(k, n)
    BY <1>3, <2>0 DEF Reissue
  <2>3. certificate[n].status # "revoked"
    BY <2>2, FreshNumber DEF NoCertificate
  <2>4. certificate'[n] = [status |-> "issued", supersedes |-> k]
    BY <2>2, ReplacedRows
  <2>5. k # n => certificate'[k].status = "superseded"
    BY <2>2, ReplacedRows
  <2>6. \A c \in Numbers \ {k, n} : certificate'[c] = certificate[c]
    BY <2>2, ReplacedRows
  <2> QED BY <2>1, <2>3, <2>4, <2>5, <2>6
<1>4. ASSUME NEW q \in Requests, Reissue(q) PROVE Live # {}
  BY <1>4, ReissuedIsLive
<1>5. ASSUME NEW q \in Requests, Revoke(q)
      PROVE /\ Live' \subseteq Live
            /\ \A c \in Numbers : certificate[c].status = "revoked" => certificate'[c].status = "revoked"
  <2>1. \A c \in Numbers : certificate'[c].status \in {"revoked", certificate[c].status}
    BY <1>5 DEF Revoke, TypeOK, CertificateRow, NoCertificate
  <2> QED BY <2>1 DEF Live
<1>6. certificate' = certificate \/ \E q \in Requests : Issue(q) \/ Reissue(q) \/ Revoke(q)
  BY CertificateSteps
<1> QED BY <1>1, <1>2, <1>3, <1>4, <1>5, <1>6

\* Two requests of an unsafe pair are one request.
LEMMA Unpaired ==
  ASSUME UnsafePairs \subseteq NeverOverlap, Exclusive, NEW p \in Requests, NEW q \in Requests,
         req[p] # Idle, req[q] # Idle, {Doing(p), Doing(q)} \in UnsafePairs
  PROVE p = q
BY DEF Exclusive

\* No step brings an unsafe pair together.
LEMMA NextExclusive == SerialInv /\ [Next]_vars => Exclusive'
<1> SUFFICES ASSUME SerialInv, [Next]_vars, NEW p \in Requests, NEW r \in Requests, p # r,
                    req'[p] # Idle, req'[r] # Idle
             PROVE {Doing(p)', Doing(r)'} \notin NeverOverlap
  BY DEF Exclusive
<1> USE DEF SerialInv
<1>1. ASSUME NEW x \in Requests, req'[x] = req[x] PROVE Doing(x)' = Doing(x)
  BY <1>1 DEF Doing
<1>2. ASSUME Doing(p)' = Doing(p), Doing(r)' = Doing(r), req[p] # Idle, req[r] # Idle
      PROVE {Doing(p)', Doing(r)'} \notin NeverOverlap
  BY <1>2 DEF Exclusive
<1>3. CASE UNCHANGED req
  BY <1>1, <1>2, <1>3
<1>4. ASSUME NEW q \in Requests, Load(q) PROVE {Doing(p)', Doing(r)'} \notin NeverOverlap
  <2>1. /\ \A x \in Requests \ {q} : req'[x] = req[x]
        /\ \A x \in Requests \ {q} : req[x] # Idle => {Doing(q)', Doing(x)} \notin NeverOverlap
    BY <1>4, LoadSerial
  <2>2. CASE p = q
    BY <1>1, <2>1, <2>2
  <2>3. CASE r = q
    <3>1. {Doing(p)', Doing(r)'} = {Doing(r)', Doing(p)'}
      OBVIOUS
    <3> QED BY <1>1, <2>1, <2>3, <3>1
  <2>4. CASE p # q /\ r # q
    BY <1>1, <1>2, <2>1, <2>4
  <2> QED BY <2>2, <2>3, <2>4
<1>5. ASSUME NEW q \in Requests, ReopenCheck(q) PROVE {Doing(p)', Doing(r)'} \notin NeverOverlap
  <2>1. \A x \in Requests \ {q} : req'[x] = req[x]
    BY <1>5 DEF ReopenCheck, TypeOK
  <2>2. Doing(q)' = Doing(q) /\ req[q] # Idle
    <3>1. req[q] \in OnCompletion
      BY <1>5, KindOfRequest DEF ReopenCheck
    <3>2. req'[q].op = "reopen_checked" /\ req[q].op = "reopen"
      BY <1>5, <3>1 DEF ReopenCheck, TypeOK, OnCompletion
    <3> QED BY <3>2 DEF Doing, Idle
  <2> QED BY <1>1, <1>2, <2>1, <2>2
<1>6. ASSUME NEW q \in Requests, req' = [req EXCEPT ![q] = Idle]
      PROVE {Doing(p)', Doing(r)'} \notin NeverOverlap
  <2>1. p # q /\ r # q
    BY <1>6 DEF TypeOK
  <2> QED BY <1>1, <1>2, <1>6, <2>1
<1> QED BY <1>3, <1>4, <1>5, <1>6, RequestSteps

\* What the enrolment becomes is decided by an approval of a copy that was
\* active, or by set_enrollment_status while no approval is in flight.
LEMMA EnrolmentMoves ==
  ASSUME UnsafePairs \subseteq NeverOverlap, SerialInv, [Next]_vars, enrolment' # enrolment
  PROVE \/ enrolment = "active" /\ enrolment' = "completed"
        \/ enrolment \notin Ended /\ \A q \in Requests : req[q].op # "approve"
<1>1. ASSUME NEW q \in Requests, Approve(q)
      PROVE enrolment = "active" /\ enrolment' = "completed"
  BY <1>1 DEF Approve, SerialInv, CopiesHold, Good
<1>2. CASE MoveEnrolment
  <2>1. enrolment \notin Ended
    BY <1>2 DEF MoveEnrolment, MayBecome, Ended
  <2>2. {"enrolment", "approve"} \in NeverOverlap
    <3>1. {"enrolment", "approve"} = {"approve", "enrolment"}
      OBVIOUS
    <3> QED BY <3>1 DEF UnsafePairs
  <2>3. ASSUME NEW q \in Requests, req[q].op = "approve" PROVE FALSE
    <3>1. req[q] # Idle /\ Doing(q) = "approve"
      BY <2>3 DEF Doing, Idle
    <3> QED BY <1>2, <2>2, <3>1 DEF MoveEnrolment
  <2> QED BY <2>1, <2>3
<1>3. MoveEnrolment \/ \E q \in Requests : Approve(q)
  BY DEF Next, Requesting, vars, MoveRules, RollBack, Write, Refresh, Reject, ReopenNothing,
     ReopenCheck, Reopen, Issue, Reissue, Revoke, Load, LoadCompletion, LoadForApproval,
     LoadForIssue, LoadCertificate, Starts
<1> QED BY <1>1, <1>2, <1>3

\* The copies stay good: whoever could spoil one is not in flight with it.
LEMMA NextCopies ==
  ASSUME UnsafePairs \subseteq NeverOverlap, SerialInv, [Next]_vars
  PROVE CopiesHold'
<1> SUFFICES ASSUME NEW r \in Requests PROVE Good(req[r])'
  BY DEF CopiesHold
<1> USE DEF SerialInv
<1>1. Good(req[r])
  BY DEF CopiesHold
<1>2. ASSUME NEW q \in Requests, q # r, req[q] # Idle, req[r] # Idle
      PROVE {Doing(r), Doing(q)} \notin UnsafePairs
  BY <1>2, Unpaired
<1>3. CASE req'[r] = req[r]
  <2>1. req[r].op = "refresh" /\ req[r].row.status \notin Decided => completion'.status \notin Decided
    <3> SUFFICES ASSUME req[r].op = "refresh", req[r].row.status \notin Decided,
                        completion'.status \in Decided
                 PROVE FALSE
      OBVIOUS
    <3>1. completion.status \notin Decided
      BY <1>1 DEF Good
    <3>2. PICK q \in Requests : Approve(q) \/ Reject(q)
      BY <3>1, CompletionMoves
    <3>3. req[q].op \in {"approve", "reject"}
      BY <3>2 DEF Approve, Reject
    <3> QED BY <1>2, <3>3 DEF Doing, Idle, UnsafePairs
  <2>2. req[r].op = "reject" /\ req[r].row.status # "approved" => completion'.status # "approved"
    <3> SUFFICES ASSUME req[r].op = "reject", req[r].row.status # "approved",
                        completion'.status = "approved"
                 PROVE FALSE
      OBVIOUS
    <3>1. completion.status # "approved"
      BY <1>1 DEF Good
    <3>2. PICK q \in Requests : Approve(q)
      BY <3>1, CompletionMoves
    <3>3. req[q].op = "approve"
      BY <3>2 DEF Approve
    <3>4. {"reject", "approve"} = {"approve", "reject"}
      OBVIOUS
    <3> QED BY <1>2, <3>3, <3>4 DEF Doing, Idle, UnsafePairs
  <2>3. req[r].op = "issue" /\ req[r].row.status = "approved" => completion'.status = "approved"
    <3> SUFFICES ASSUME req[r].op = "issue", req[r].row.status = "approved",
                        completion'.status # "approved"
                 PROVE FALSE
      OBVIOUS
    <3>1. completion.status = "approved"
      BY <1>1 DEF Good
    <3>2. PICK q \in Requests : Approve(q) \/ Reopen(q)
      BY <3>1, CompletionMoves DEF Decided
    <3>3. ~ Approve(q)
      BY DEF Approve
    <3>4. req[q].op = "reopen_checked"
      BY <3>2, <3>3 DEF Reopen
    <3> QED BY <1>2, <3>4 DEF Doing, Idle, UnsafePairs
  <2>4. req[r].op = "reopen_checked" => Live' = {}
    <3> SUFFICES ASSUME req[r].op = "reopen_checked", Live' # {} PROVE FALSE
      OBVIOUS
    <3>1. Live = {}
      BY <1>1 DEF Good
    <3>2. PICK q \in Requests : Issue(q)
      BY <3>1, CertificateMoves
    <3>3. req[q].op = "issue"
      BY <3>2 DEF Issue
    <3>4. {"reopen", "issue"} = {"issue", "reopen"}
      OBVIOUS
    <3> QED BY <1>2, <3>3, <3>4 DEF Doing, Idle, UnsafePairs
  <2>5. req[r].op = "reissue" /\ req[r].status # "revoked" =>
          certificate'[req[r].number].status # "revoked"
    <3> SUFFICES ASSUME req[r].op = "reissue", req[r].status # "revoked",
                        certificate'[req[r].number].status = "revoked"
                 PROVE FALSE
      OBVIOUS
    <3>1. req[r].number \in Numbers
      BY KindOfRequest DEF OnCertificate
    <3>2. certificate[req[r].number].status # "revoked"
      BY <1>1 DEF Good
    <3>3. PICK q \in Requests : Revoke(q)
      BY <3>1, <3>2, CertificateMoves
    <3>4. req[q].op = "revoke"
      BY <3>3 DEF Revoke
    <3> QED BY <1>2, <3>4 DEF Doing, Idle, UnsafePairs
  <2>6. req[r].op = "approve" /\ req[r].active => enrolment' \in {"active", "completed"}
    <3>1. req[r].op = "approve" /\ req[r].active => enrolment \in {"active", "completed"}
      BY <1>1 DEF Good
    <3>2. CASE enrolment' # enrolment
      BY <3>1, <3>2, EnrolmentMoves
    <3> QED BY <3>1, <3>2
  <2> QED BY <1>3, <2>1, <2>2, <2>3, <2>4, <2>5, <2>6 DEF Good
<1>4. CASE req'[r] # req[r]
  <2>1. CASE Load(r)
    BY <2>1, LoadSerial DEF Good, Live
  <2>2. CASE ReopenCheck(r)
    <3>1. req'[r].op = "reopen_checked"
      BY <2>2, KindOfRequest DEF ReopenCheck, TypeOK, OnCompletion
    <3>2. Live = {} /\ Live' = Live
      BY <2>2 DEF ReopenCheck, NoneLive, Live
    <3> QED BY <3>1, <3>2 DEF Good
  <2>3. CASE req'[r] = Idle
    BY <2>3 DEF Good, Idle
  <2>4. ASSUME NEW q \in Requests, q # r PROVE ~ (Load(q) \/ ReopenCheck(q))
    BY <1>4, <2>4, LoadSerial DEF ReopenCheck, TypeOK
  <2>5. ASSUME NEW q \in Requests, q # r PROVE req' # [req EXCEPT ![q] = Idle]
    BY <1>4, <2>5 DEF TypeOK
  <2> QED BY <1>4, <2>1, <2>2, <2>3, <2>4, <2>5, RequestSteps DEF TypeOK
<1> QED BY <1>3, <1>4

\* A certificate is issued on an approval, and nothing takes the approval back
\* while a certificate is valid.
LEMMA NextLiveIsApproved ==
  ASSUME UnsafePairs \subseteq NeverOverlap, SerialInv, [Next]_vars
  PROVE LiveIsApproved'
<1> SUFFICES ASSUME Live' # {}, completion'.status # "approved" PROVE FALSE
  BY DEF LiveIsApproved
<1> USE DEF SerialInv
<1>1. ASSUME NEW q \in Requests, Issue(q) PROVE FALSE
  BY <1>1 DEF Issue, CopiesHold, Good
<1>2. Live # {}
  BY <1>1, CertificateMoves
<1>3. completion.status = "approved"
  BY <1>2 DEF LiveIsApproved
<1>4. ASSUME NEW q \in Requests, Approve(q) PROVE FALSE
  BY <1>4 DEF Approve
<1>5. ASSUME NEW q \in Requests, Reopen(q) PROVE FALSE
  BY <1>2, <1>5 DEF Reopen, CopiesHold, Good
<1> QED BY <1>3, <1>4, <1>5, CompletionMoves DEF Decided

\* The inductive invariant.
LEMMA SerialInduction ==
  ASSUME UnsafePairs \subseteq NeverOverlap
  PROVE (Init => SerialInv) /\ (SerialInv /\ [Next]_vars => SerialInv')
<1>1. Init => SerialInv
  <2> SUFFICES ASSUME Init PROVE SerialInv
    OBVIOUS
  <2>1. Exclusive /\ CopiesHold
    BY DEF Init, Exclusive, CopiesHold, Good, Idle
  <2>2. LiveIsApproved
    BY DEF Init, LiveIsApproved, Live, NoCertificate
  <2> QED BY <2>1, <2>2, InitTyped, InitChain DEF SerialInv
<1>2. SerialInv /\ [Next]_vars => SerialInv'
  BY NextTyped, NextLoaded, NextChain, NextExclusive, NextCopies, NextLiveIsApproved DEF SerialInv
<1> QED BY <1>1, <1>2

\* A valid certificate is one of an approved completion, when nothing reopens
\* while something issues, refreshes or rejects while something approves.
THEOREM LiveCertificateIsApproved ==
  ASSUME UnsafePairs \subseteq NeverOverlap
  PROVE Spec => []LiveIsApproved
<1>1. SerialInv => LiveIsApproved
  BY DEF SerialInv
<1> QED BY <1>1, SerialInduction, PTL DEF Spec

\* No read's recomputation takes a decision back, and no rejection an approval.
THEOREM DecisionsStand ==
  ASSUME UnsafePairs \subseteq NeverOverlap
  PROVE Spec => DecisionStands
<1>1. SerialInv /\ [Next]_vars =>
        [completion.status \in Decided =>
           \/ completion'.status \in {completion.status, "approved"}
           \/ \E r \in Requests : req[r].op = "reopen_checked" /\ req'[r] = Idle]_vars
  <2>1. ASSUME NEW q \in Requests, Approve(q) PROVE completion'.status = "approved"
    BY <2>1 DEF Approve
  <2>2. ASSUME TypeOK, NEW q \in Requests, Reopen(q)
        PROVE req[q].op = "reopen_checked" /\ req'[q] = Idle
    BY <2>2 DEF Reopen, Ends, TypeOK
  <2> QED BY <2>1, <2>2, CompletionMoves DEF SerialInv
<1> QED BY <1>1, SerialInduction, PTL DEF Spec, DecisionStands

\* A revoked certificate is not brought back by a reissue of an older copy.
THEOREM RevocationsStand ==
  ASSUME UnsafePairs \subseteq NeverOverlap
  PROVE Spec => RevocationStands
<1>1. SerialInv /\ [Next]_vars =>
        [\A c \in Numbers : certificate[c].status = "revoked" =>
           certificate'[c].status = "revoked"]_vars
  BY CertificateMoves
<1> QED BY <1>1, SerialInduction, PTL DEF Spec, RevocationStands

\* No approval moves an enrolment that has ended.
THEOREM EndedEnrolmentStays ==
  ASSUME UnsafePairs \subseteq NeverOverlap
  PROVE Spec => EndedStays
<1>1. SerialInv /\ [Next]_vars => [(enrolment \in Ended) => (enrolment' = enrolment)]_vars
  BY EnrolmentMoves DEF Ended
<1> QED BY <1>1, SerialInduction, PTL DEF Spec, EndedStays
=============================================================================

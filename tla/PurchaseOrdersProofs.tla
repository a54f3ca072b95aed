------------------------ MODULE PurchaseOrdersProofs ------------------------
(***************************************************************************)
(* What is proved about PurchaseOrders for all purchase orders, products,  *)
(* retries and bounds.                                                     *)
(***************************************************************************)
EXTENDS PurchaseOrders, TLAPS

PostingPC == {"next", "calling", "returned", "broken"}

\* What the worker is to post exists, what it has placed is at the vendor, and an
\* update takes no row away.
JobOK ==
    /\ job.pc \in PostingPC =>
          /\ job.batch \subseteq Existing
          /\ job.pc # "next" => job.current \in job.batch
          /\ job.placed \in 0..Len(vendor)
    /\ job.pc = "updating" =>
          \A p \in POs : job.status[p] = "absent" => job.seen[p].status = "absent"

TInv == TypeOK /\ JobOK

\* The initial state has the types.
LEMMA TypeInit == Init => TInv
<1> SUFFICES ASSUME Init PROVE TInv
  OBVIOUS
<1>1. po \in [POs -> PORow \cup {Absent}] /\ bought \in [POs -> SUBSET Products]
  BY DEF Init
<1>2. tasks \in Seq(Task) /\ vendor \in Seq(VendorOrder)
  BY DEF Init
<1>3. job \in {Idle} \cup PostingJob \cup UpdatingJob
  BY DEF Init
<1>4. JobOK
  BY DEF Init, Idle, JobOK, PostingPC
<1> QED
  BY <1>1, <1>2, <1>3, <1>4 DEF TypeOK, TInv

\* The queue stays a queue when the beat or a request adds a task.
LEMMA EnqueueType ==
    ASSUME tasks \in Seq(Task), NEW name \in {"post", "update"}, NEW target \in POs \cup {All},
           Enqueue(name, target)
    PROVE  tasks' \in Seq(Task)
BY DEF Enqueue, Task

\* A job that goes to the vendor is well formed.
LEMMA CallType ==
    ASSUME TypeOK, NEW p \in POs, NEW target \in POs \cup {All}, NEW batch \in SUBSET Existing,
           NEW retries \in 0..Retries, p \in batch, UNCHANGED <<po, vendor>>, Call(p, target, batch, retries)
    PROVE  job' \in PostingJob /\ JobOK'
<1>1. 0 \in 0..MaxVendorOrders
  BY PurchaseOrdersAssumption
<1>2. po \in [POs -> PORow \cup {Absent}]
  BY DEF TypeOK
<1>3. batch \in SUBSET POs
  BY DEF Existing
<1>4. job' \in PostingJob
  BY <1>1, <1>2, <1>3 DEF Call, PostingJob
<1>5. Existing' = Existing
  BY DEF Existing
<1>6. 0 \in 0..Len(vendor)
  BY DEF TypeOK
<1>7. JobOK'
  BY <1>5, <1>6 DEF Call, JobOK, PostingPC
<1> QED
  BY <1>4, <1>7

\* A job by its program counter.
LEMMA JobCases ==
    ASSUME TypeOK
    PROVE  /\ job.pc \in PostingPC => job \in PostingJob
           /\ job.pc = "updating" => job \in UpdatingJob
           /\ job.pc \in {"idle", "updating"} \cup PostingPC
BY DEF TypeOK, Idle, PostingJob, UpdatingJob, PostingPC

\* A row that is reset is the row of a purchase order just created.
LEMMA ResetRow ==
    ASSUME NEW row \in PORow
    PROVE  reset_status(row) = [status |-> "pending", vendorId |-> 0]
<1>1. PICK s \in PurchaseOrderStatus, n \in 0..MaxVendorOrders :
        row = [status |-> s, vendorId |-> n]
  BY DEF PORow
<1>2. [row EXCEPT !.status = "pending"] = [status |-> "pending", vendorId |-> n]
  BY <1>1
<1>3. [[status |-> "pending", vendorId |-> n] EXCEPT !.vendorId = 0]
        = [status |-> "pending", vendorId |-> 0]
  OBVIOUS
<1> QED
  BY <1>2, <1>3 DEF reset_status

\* Settling a purchase order of the batch keeps the table and the job well formed.
LEMMA SettleOK ==
    ASSUME TInv, job.pc \in PostingPC, job.pc # "next", NEW row \in PORow, Settle(row),
           UNCHANGED vendor
    PROVE  /\ po' \in [POs -> PORow \cup {Absent}]
           /\ job' \in {Idle} \cup PostingJob
           /\ JobOK'
<1> DEFINE rest == job.batch \ {job.current}
<1>1. job \in PostingJob /\ po \in [POs -> PORow \cup {Absent}]
  BY JobCases DEF TInv, TypeOK
<1>2. po' = [po EXCEPT ![job.current] = row] /\ job.current \in POs
  BY <1>1 DEF Settle, PostingJob
<1>3. po' \in [POs -> PORow \cup {Absent}]
  BY <1>1, <1>2
<1>4. [job EXCEPT !.pc = "next", !.batch = rest] \in PostingJob
  BY <1>1 DEF PostingJob
<1>5. row # Absent
  BY DEF PORow, Absent, PurchaseOrderStatus
<1>6. Existing \subseteq Existing'
  BY <1>1, <1>2, <1>5 DEF Existing
<1>7. CASE rest = {}
  BY <1>3, <1>7 DEF Settle, JobOK, Idle, PostingPC
<1>8. CASE rest # {}
  <2>1. job' = [job EXCEPT !.pc = "next", !.batch = rest]
    BY <1>8 DEF Settle
  <2>2. job'.pc = "next" /\ job'.batch = rest /\ job'.placed = job.placed
    BY <1>1, <2>1 DEF PostingJob
  <2>3. job.batch \subseteq Existing /\ job.placed \in 0..Len(vendor)
    BY DEF TInv, JobOK
  <2> QED
    BY <1>3, <1>4, <1>6, <2>1, <2>2, <2>3 DEF JobOK
<1> QED
  BY <1>7, <1>8

\* A request that leaves no row out and the job alone keeps the job well formed.
LEMMA RequestKeepsJob ==
    ASSUME JobOK, Existing \subseteq Existing', UNCHANGED <<job, vendor>>
    PROVE  JobOK'
BY DEF JobOK

-----------------------------------------------------------------------------
\* The requests of the administrator preserve the types.
LEMMA TypeAdministration == TInv /\ Administration => TInv'
<1> SUFFICES ASSUME TInv, Administration PROVE TInv'
  OBVIOUS
<1>0. /\ po \in [POs -> PORow \cup {Absent}] /\ tasks \in Seq(Task) /\ TypeOK /\ JobOK
      /\ [status |-> "pending", vendorId |-> 0] \in PORow
      /\ Absent \notin PORow
  BY PurchaseOrdersAssumption DEF TInv, TypeOK, PORow, PurchaseOrderStatus, Absent
<1>1. ASSUME NEW o \in Orders, create_purchase_orders(o) PROVE TInv'
  <2>1. po' \in [POs -> PORow \cup {Absent}] /\ Existing \subseteq Existing'
    BY <1>0, <1>1 DEF create_purchase_orders, Existing
  <2>2. tasks' \in Seq(Task)
    BY <1>0, <1>1, EnqueueType DEF create_purchase_orders, NotEnqueued
  <2> QED
    BY <1>0, <1>1, <2>1, <2>2, RequestKeepsJob DEF create_purchase_orders, TypeOK, TInv
<1>2. ASSUME NEW p \in POs, repost(p) PROVE TInv'
  <2>1. po[p] \in PORow
    BY <1>0, <1>2 DEF repost, Existing
  <2>2. reset_status(po[p]) = [status |-> "pending", vendorId |-> 0]
    BY <2>1, ResetRow
  <2>3. po' = [po EXCEPT ![p] = [status |-> "pending", vendorId |-> 0]]
    BY <1>2, <2>2 DEF repost
  <2>4. po' \in [POs -> PORow \cup {Absent}] /\ Existing \subseteq Existing'
    BY <1>0, <2>3 DEF Existing
  <2>5. tasks' \in Seq(Task)
    BY <1>0, <1>2, EnqueueType DEF repost, NotEnqueued
  <2> QED
    BY <1>0, <1>2, <2>4, <2>5, RequestKeepsJob DEF repost, TypeOK, TInv
<1>3. ASSUME NEW p \in POs, request_status_update(p) PROVE TInv'
  <2>1. tasks' \in Seq(Task)
    BY <1>0, <1>3, EnqueueType DEF request_status_update
  <2>2. Existing' = Existing
    BY <1>3 DEF request_status_update, Existing
  <2> QED
    BY <1>0, <1>3, <2>1, <2>2, RequestKeepsJob DEF request_status_update, TypeOK, TInv
<1>4. ASSUME NEW p \in POs, NEW status \in EditedStatuses, edit(p, status) PROVE TInv'
  <2>1. po[p] \in PORow
    BY <1>0, <1>4 DEF edit, is_editable, Absent
  <2>2. [po[p] EXCEPT !.status = status] \in PORow
    BY <2>1, PurchaseOrdersAssumption DEF PORow
  <2>3. po' = [po EXCEPT ![p] = [po[p] EXCEPT !.status = status]]
    BY <1>4 DEF edit
  <2>4. po' \in [POs -> PORow \cup {Absent}] /\ Existing \subseteq Existing'
    BY <1>0, <2>2, <2>3 DEF Existing
  <2> QED
    BY <1>0, <1>4, <2>4, RequestKeepsJob DEF edit, TypeOK, TInv
<1> QED
  BY <1>1, <1>2, <1>3, <1>4 DEF Administration

\* A step of the worker from one point of a posting to the next keeps the job
\* well formed as long as it changes neither the batch nor the table.
LEMMA PostingGoesOn ==
    ASSUME TInv, job.pc = "calling", NEW pc \in {"calling", "returned", "broken"},
           NEW retries \in 0..Retries, NEW placed \in 0..MaxVendorOrders, UNCHANGED po,
           placed \in 0..Len(vendor'),
           job' = [job EXCEPT !.pc = pc, !.retries = retries, !.placed = placed]
    PROVE  job' \in PostingJob /\ JobOK'
<1>1. job \in PostingJob
  BY JobCases DEF TInv, PostingPC
<1>2. [job EXCEPT !.pc = pc, !.retries = retries, !.placed = placed] \in PostingJob
  BY <1>1 DEF PostingJob
<1>3. job'.pc = pc /\ job'.batch = job.batch /\ job'.current = job.current
      /\ job'.placed = placed
  BY <1>1 DEF PostingJob
<1>4. Existing' = Existing
  BY DEF Existing
<1>5. job.batch \subseteq Existing /\ job.current \in job.batch
  BY DEF TInv, JobOK, PostingPC
<1> QED
  BY <1>2, <1>3, <1>4, <1>5 DEF JobOK

\* What the worker does while it posts preserves the types.
LEMMA TypePosting == TInv /\ Posting => TInv'
<1> SUFFICES ASSUME TInv, Posting PROVE TInv'
  OBVIOUS
<1>0. /\ TypeOK /\ JobOK
      /\ po \in [POs -> PORow \cup {Absent}] /\ bought \in [POs -> SUBSET Products]
      /\ tasks \in Seq(Task) /\ vendor \in Seq(VendorOrder)
      /\ job \in {Idle} \cup PostingJob \cup UpdatingJob
  BY DEF TInv, TypeOK
<1>a. ASSUME job.pc \in PostingPC, job.pc # "next"
      PROVE  /\ job \in PostingJob /\ job.current \in POs
             /\ po[job.current] \in PORow
             /\ po[job.current].status \in PurchaseOrderStatus
             /\ po[job.current].vendorId \in 0..MaxVendorOrders
  <2>1. job \in PostingJob
    BY <1>0, <1>a, JobCases
  <2>2. job.current \in Existing
    BY <1>0, <1>a DEF JobOK
  <2> QED
    BY <1>0, <2>1, <2>2 DEF Existing, PORow, PostingJob
<1>1. CASE StartPosting
  <2>1. Head(tasks) \in Task /\ tasks' \in Seq(Task)
    BY <1>0, <1>1 DEF StartPosting
  <2>2. ASSUME NEW p \in ToPost(Head(tasks).po), UNCHANGED po,
               UNCHANGED vendor,
               Call(p, Head(tasks).po, ToPost(Head(tasks).po), Retries)
        PROVE  job' \in PostingJob /\ JobOK'
    <3>1. /\ Head(tasks).po \in POs \cup {All}
          /\ ToPost(Head(tasks).po) \in SUBSET Existing
          /\ p \in POs
      BY <2>1 DEF Task, ToPost, Existing
    <3>2. Retries \in 0..Retries
      BY PurchaseOrdersAssumption
    <3> QED
      BY <1>0, <2>2, <3>1, <3>2, CallType
  <2>3. Existing' = Existing
    BY <1>1 DEF StartPosting, Existing
  <2> QED
    BY <1>0, <1>1, <2>1, <2>2, <2>3, RequestKeepsJob DEF StartPosting, TypeOK, TInv
<1>2. CASE PostNext
  <2>1. job \in PostingJob /\ job.batch \in SUBSET Existing
    BY <1>0, <1>2, JobCases DEF PostNext, JobOK, PostingPC
  <2>2. job.target \in POs \cup {All} /\ job.retries \in 0..Retries /\ job.batch \in SUBSET POs
    BY <2>1 DEF PostingJob
  <2>3. job' \in PostingJob /\ JobOK'
    BY <1>0, <1>2, <2>1, <2>2, CallType DEF PostNext
  <2> QED
    BY <1>0, <1>2, <2>3 DEF PostNext, TypeOK, TInv
<1>3. CASE VendorRefuses
  <2> DEFINE row == [po[job.current] EXCEPT !.status =
                        Written(job.seen[job.current].status, "failed", @)]
  <2>0. job.pc \in PostingPC /\ job.pc # "next"
    BY <1>3 DEF VendorRefuses, PostingPC
  <2>1. Written(job.seen[job.current].status, "failed", po[job.current].status)
            \in PurchaseOrderStatus
    BY <1>a, <2>0 DEF Written, PurchaseOrderStatus
  <2>2. row \in PORow
    BY <1>a, <2>0, <2>1 DEF PORow
  <2>3. Settle(row)
    BY <1>3 DEF VendorRefuses
  <2>4. /\ po' \in [POs -> PORow \cup {Absent}]
        /\ job' \in {Idle} \cup PostingJob
        /\ JobOK'
    BY <1>3, <2>0, <2>2, <2>3, SettleOK DEF VendorRefuses
  <2> QED
    BY <1>0, <1>3, <2>4 DEF VendorRefuses, TypeOK, TInv
<1>4. CASE VendorRetries
  <2>1. job \in PostingJob
    BY <1>a, <1>4 DEF VendorRetries, PostingPC
  <2>2. /\ job.retries - 1 \in 0..Retries /\ job.placed \in 0..MaxVendorOrders
        /\ job.placed \in 0..Len(vendor')
    BY <1>0, <1>4, <2>1, PurchaseOrdersAssumption DEF VendorRetries, PostingJob, JobOK, PostingPC
  <2>3. job' = [job EXCEPT !.pc = "calling", !.retries = job.retries - 1, !.placed = job.placed]
    BY <1>4, <2>1 DEF VendorRetries, PostingJob
  <2>4. job' \in PostingJob /\ JobOK'
    BY <1>4, <2>2, <2>3, PostingGoesOn DEF VendorRetries
  <2> QED
    BY <1>0, <1>4, <2>4 DEF VendorRetries, TypeOK, TInv
<1>5. CASE SkipNotYetDue
  <2>1. job \in PostingJob
    BY <1>a, <1>5 DEF SkipNotYetDue, PostingPC
  <2>2. /\ job.retries \in 0..Retries /\ job.placed \in 0..MaxVendorOrders
        /\ job.placed \in 0..Len(vendor')
    BY <1>0, <1>5, <2>1 DEF SkipNotYetDue, PostingJob, JobOK, PostingPC
  <2>3. job' = [job EXCEPT !.pc = "returned", !.retries = job.retries, !.placed = job.placed]
    BY <1>5, <2>1 DEF SkipNotYetDue, PostingJob
  <2>4. job' \in PostingJob /\ JobOK'
    BY <1>5, <2>2, <2>3, PostingGoesOn DEF SkipNotYetDue
  <2> QED
    BY <1>0, <1>5, <2>4 DEF SkipNotYetDue, TypeOK, TInv
<1>6. ASSUME NEW products \in SUBSET (Products \ Exempt), PlaceOrder(products) PROVE TInv'
  <2>1. job \in PostingJob /\ job.current \in POs
    BY <1>a, <1>6 DEF PlaceOrder, PostingPC
  <2>2. /\ job.retries \in 0..Retries /\ job.placed \in 0..MaxVendorOrders
        /\ job.placed \in 0..Len(vendor)
    BY <1>0, <1>6, <2>1 DEF PlaceOrder, PostingJob, JobOK, PostingPC
  <2>3. /\ Len(vendor) \in Nat /\ Len(vendor) + 1 \in 0..MaxVendorOrders
        /\ Len(vendor') = Len(vendor) + 1
    BY <1>0, <1>6, PurchaseOrdersAssumption DEF PlaceOrder
  <2>4. \E pc \in {"returned", "broken"}, placed \in 0..MaxVendorOrders :
            /\ placed \in 0..Len(vendor')
            /\ job' = [job EXCEPT !.pc = pc, !.retries = job.retries, !.placed = placed]
    <3>1. [job EXCEPT !.pc = "returned", !.placed = Len(vendor) + 1]
            = [job EXCEPT !.pc = "returned", !.retries = job.retries, !.placed = Len(vendor) + 1]
      BY <2>1 DEF PostingJob
    <3>2. [job EXCEPT !.pc = "broken"]
            = [job EXCEPT !.pc = "broken", !.retries = job.retries, !.placed = job.placed]
      BY <2>1 DEF PostingJob
    <3>3. Len(vendor) + 1 \in 0..Len(vendor') /\ job.placed \in 0..Len(vendor')
      BY <2>2, <2>3
    <3>4. \/ job' = [job EXCEPT !.pc = "returned", !.placed = Len(vendor) + 1]
          \/ job' = [job EXCEPT !.pc = "broken"]
      BY <1>6 DEF PlaceOrder
    <3> QED
      BY <2>2, <2>3, <3>1, <3>2, <3>3, <3>4
  <2>5. job' \in PostingJob /\ JobOK'
    BY <1>6, <2>2, <2>4, PostingGoesOn DEF PlaceOrder
  <2>6. [po |-> job.current, products |-> products, status |-> "posted"] \in VendorOrder
    BY <2>1 DEF VendorOrder, PurchaseOrderStatus
  <2>7. vendor' \in Seq(VendorOrder)
    BY <1>0, <1>6, <2>6 DEF PlaceOrder
  <2> QED
    BY <1>0, <1>6, <2>5, <2>7 DEF PlaceOrder, TypeOK, TInv
<1>7. CASE BreakPage
  <2>1. job \in PostingJob
    BY <1>a, <1>7 DEF BreakPage, PostingPC
  <2>2. /\ job.retries \in 0..Retries /\ job.placed \in 0..MaxVendorOrders
        /\ job.placed \in 0..Len(vendor')
    BY <1>0, <1>7, <2>1 DEF BreakPage, PostingJob, JobOK, PostingPC
  <2>3. job' = [job EXCEPT !.pc = "broken", !.retries = job.retries, !.placed = job.placed]
    BY <1>7, <2>1 DEF BreakPage, PostingJob
  <2>4. job' \in PostingJob /\ JobOK'
    BY <1>7, <2>2, <2>3, PostingGoesOn DEF BreakPage
  <2> QED
    BY <1>0, <1>7, <2>4 DEF BreakPage, TypeOK, TInv
<1>8. CASE RecordPosting
  <2> DEFINE ordered == IF job.placed = 0 THEN {} ELSE vendor[job.placed].products
             products == bought[job.current] \cup ordered
             row == [status   |-> Written(job.seen[job.current].status, PostedStatus(products),
                                          po[job.current].status),
                     vendorId |-> VendorNumber(job.current, ordered)]
  <2>0. job.pc \in PostingPC /\ job.pc # "next"
    BY <1>8 DEF RecordPosting, PostingPC
  <2>1. job.placed \in 0..Len(vendor) /\ job.placed \in 0..MaxVendorOrders
    BY <1>0, <1>a, <2>0 DEF JobOK, PostingJob
  <2>2. ordered \in SUBSET Products
    <3>1. CASE job.placed = 0
      BY <3>1
    <3>2. CASE job.placed # 0
      <4>1. job.placed \in 1..Len(vendor)
        BY <1>0, <2>1, <3>2
      <4>2. vendor[job.placed] \in VendorOrder
        BY <1>0, <4>1
      <4> QED
        BY <3>2, <4>2 DEF VendorOrder
    <3> QED
      BY <3>1, <3>2
  <2>3. products \in SUBSET Products
    BY <1>0, <1>a, <2>0, <2>2
  <2>4. row.status \in PurchaseOrderStatus
    BY <1>a, <2>0 DEF Written, PostedStatus, PurchaseOrderStatus
  <2>5. row.vendorId \in 0..MaxVendorOrders
    BY <1>a, <2>0, <2>1 DEF VendorNumber
  <2>6. row \in PORow
    BY <2>4, <2>5 DEF PORow
  <2>7. Settle(row)
    BY <1>8 DEF RecordPosting
  <2>8. /\ po' \in [POs -> PORow \cup {Absent}]
        /\ job' \in {Idle} \cup PostingJob
        /\ JobOK'
    BY <1>8, <2>0, <2>6, <2>7, SettleOK DEF RecordPosting
  <2>9. bought' = [bought EXCEPT ![job.current] = products]
    BY <1>8 DEF RecordPosting
  <2>10. bought' \in [POs -> SUBSET Products]
    BY <1>0, <2>3, <2>9
  <2> QED
    BY <1>0, <1>8, <2>8, <2>10 DEF RecordPosting, TypeOK, TInv
<1>9. CASE MarkPendingFailed
  <2>1. ASSUME NEW p \in POs PROVE po'[p] \in PORow \cup {Absent}
    <3>1. ASSUME po[p] \in PORow PROVE [po[p] EXCEPT !.status = "failed"] \in PORow
      BY <3>1 DEF PORow, PurchaseOrderStatus
    <3>2. [Absent EXCEPT !.status = "failed"] \in PORow
      BY PurchaseOrdersAssumption DEF Absent, PORow, PurchaseOrderStatus
    <3> QED
      BY <1>0, <1>9, <3>1, <3>2 DEF MarkPendingFailed
  <2>2. po' \in [POs -> PORow \cup {Absent}]
    BY <1>9, <2>1 DEF MarkPendingFailed
  <2>3. JobOK'
    BY <1>9 DEF MarkPendingFailed, JobOK, Idle, PostingPC
  <2> QED
    BY <1>0, <1>9, <2>2, <2>3 DEF MarkPendingFailed, TypeOK, TInv
<1> QED
  BY <1>1, <1>2, <1>3, <1>4, <1>5, <1>6, <1>7, <1>8, <1>9 DEF Posting

\* What the worker does while it looks at the statuses preserves the types.
LEMMA TypeUpdating == TInv /\ Updating => TInv'
<1> SUFFICES ASSUME TInv, Updating PROVE TInv'
  OBVIOUS
<1>0. /\ TypeOK /\ JobOK
      /\ po \in [POs -> PORow \cup {Absent}]
      /\ tasks \in Seq(Task) /\ vendor \in Seq(VendorOrder)
  BY DEF TInv, TypeOK
<1>1. CASE StartUpdating
  <2>1. Head(tasks) \in Task /\ tasks' \in Seq(Task)
    BY <1>0, <1>1 DEF StartUpdating
  <2>2. PICK recent \in SUBSET Existing :
            job' = [pc |-> "updating", batch |-> ToUpdate(Head(tasks).po, recent), seen |-> po,
                    status |-> [p \in POs |-> po[p].status]]
    BY <1>1 DEF StartUpdating
  <2>3. ToUpdate(Head(tasks).po, recent) \in SUBSET POs
    BY <2>1 DEF ToUpdate, Task, Existing
  <2>4. [p \in POs |-> po[p].status] \in [POs -> PurchaseOrderStatus \cup {"absent"}]
    BY <1>0 DEF PORow, Absent
  <2>5. job' \in UpdatingJob
    BY <1>0, <2>2, <2>3, <2>4 DEF UpdatingJob
  <2>6. JobOK'
    BY <2>2 DEF JobOK, PostingPC
  <2> QED
    BY <1>0, <1>1, <2>1, <2>5, <2>6 DEF StartUpdating, TypeOK, TInv
<1>2. ASSUME NEW p \in POs, NEW n \in 1..Len(vendor), UpdateStatus(p, n) PROVE TInv'
  <2>1. job \in UpdatingJob
    BY <1>0, <1>2, JobCases DEF UpdateStatus
  <2>a. vendor[n] \in VendorOrder
    BY <1>0
  <2>2. vendor[n].status \in PurchaseOrderStatus
    BY <2>a DEF VendorOrder
  <2>3. job' = [job EXCEPT !.status = [job.status EXCEPT ![p] = vendor[n].status]]
    BY <1>2 DEF UpdateStatus
  <2>4. [job.status EXCEPT ![p] = vendor[n].status] \in [POs -> PurchaseOrderStatus \cup {"absent"}]
    BY <2>1, <2>2 DEF UpdatingJob
  <2>5. job' \in UpdatingJob
    BY <2>1, <2>3, <2>4 DEF UpdatingJob
  <2>6. /\ job'.pc = "updating" /\ job'.seen = job.seen
        /\ job'.status = [job.status EXCEPT ![p] = vendor[n].status]
        /\ job.status \in [POs -> PurchaseOrderStatus \cup {"absent"}]
    BY <1>2, <2>1, <2>3 DEF UpdatingJob, UpdateStatus
  <2>7. "absent" \notin PurchaseOrderStatus
    BY DEF PurchaseOrderStatus
  <2>8. JobOK'
    BY <1>0, <1>2, <2>2, <2>6, <2>7 DEF JobOK, PostingPC, UpdateStatus
  <2> QED
    BY <1>0, <1>2, <2>5, <2>8 DEF UpdateStatus, TypeOK, TInv
<1>3. CASE CommitUpdate
  <2>1. job \in UpdatingJob
    BY <1>0, <1>3, JobCases DEF CommitUpdate
  <2>2. ASSUME NEW p \in POs PROVE po'[p] \in PORow \cup {Absent}
    <3> DEFINE new == Written(job.seen[p].status, job.status[p], po[p].status)
    <3>1. po'[p] = [po[p] EXCEPT !.status = new]
      BY <1>3 DEF CommitUpdate
    <3>2. job.status[p] \in PurchaseOrderStatus \cup {"absent"}
      BY <2>1 DEF UpdatingJob
    <3>3. CASE new = po[p].status
      <4>1. [po[p] EXCEPT !.status = new] = po[p]
        BY <1>0, <3>3 DEF PORow, Absent
      <4> QED
        BY <1>0, <3>1, <4>1
    <3>4. CASE new # po[p].status
      <4>1. new \in PurchaseOrderStatus
        BY <1>0, <1>3, <3>2, <3>4 DEF Written, JobOK, CommitUpdate
      <4>2. ASSUME po[p] \in PORow PROVE [po[p] EXCEPT !.status = new] \in PORow
        BY <4>1, <4>2 DEF PORow
      <4>3. [Absent EXCEPT !.status = new] \in PORow
        BY <4>1, PurchaseOrdersAssumption DEF Absent, PORow
      <4> QED
        BY <1>0, <3>1, <4>2, <4>3
    <3> QED
      BY <3>3, <3>4
  <2>3. po' \in [POs -> PORow \cup {Absent}]
    BY <1>3, <2>2 DEF CommitUpdate
  <2>4. JobOK'
    BY <1>3 DEF CommitUpdate, JobOK, Idle, PostingPC
  <2> QED
    BY <1>0, <1>3, <2>3, <2>4 DEF CommitUpdate, TypeOK, TInv
<1> QED
  BY <1>1, <1>2, <1>3 DEF Updating

\* Every step preserves the types.
LEMMA TypeStep == TInv /\ [Next]_vars => TInv'
<1> SUFFICES ASSUME TInv, [Next]_vars PROVE TInv'
  OBVIOUS
<1>0. TypeOK /\ JobOK /\ tasks \in Seq(Task) /\ vendor \in Seq(VendorOrder)
  BY DEF TInv, TypeOK
<1>1. CASE PostingTime \/ UpdateTime
  <2>1. tasks' \in Seq(Task) /\ UNCHANGED <<po, bought, job, vendor>>
    BY <1>0, <1>1, EnqueueType DEF PostingTime, UpdateTime
  <2> QED
    BY <1>0, <2>1 DEF TypeOK, TInv, JobOK, Existing
<1>2. CASE Crash
  BY <1>0, <1>2 DEF Crash, TypeOK, TInv, JobOK, Idle, PostingPC
<1>3. ASSUME NEW n \in 1..Len(vendor), NEW status \in PurchaseOrderStatus, VendorProceeds(n, status)
      PROVE  TInv'
  <2>1. vendor[n] \in VendorOrder
    BY <1>0
  <2>2. [vendor[n] EXCEPT !.status = status] \in VendorOrder
    BY <2>1 DEF VendorOrder
  <2>3. vendor' = [vendor EXCEPT ![n] = [vendor[n] EXCEPT !.status = status]]
    BY <1>3 DEF VendorProceeds
  <2>4. vendor' \in Seq(VendorOrder) /\ Len(vendor') = Len(vendor)
    BY <1>0, <2>2, <2>3
  <2>5. UNCHANGED <<po, bought, tasks, job>>
    BY <1>3 DEF VendorProceeds
  <2>6. JobOK'
    BY <1>0, <2>4, <2>5 DEF JobOK, Existing
  <2> QED
    BY <1>0, <2>4, <2>5, <2>6 DEF TypeOK, TInv
<1>4. CASE UNCHANGED vars
  BY <1>0, <1>4 DEF vars, TypeOK, TInv, JobOK, Existing
<1> QED
  BY <1>1, <1>2, <1>3, <1>4, TypeAdministration, TypePosting, TypeUpdating DEF Next

\* The types of Spec are TInv, and with it the worker posts nothing that does not exist.
LEMMA TInvHolds == Spec => []TInv
<1> QED
  BY TypeInit, TypeStep, PTL DEF Spec

\* The tables, the queue, the worker's state and the vendor's orders keep their types.
THEOREM POTypeCorrect == Spec => []TypeOK
<1>1. TInv => TypeOK
  BY DEF TInv
<1> QED
  BY <1>1, TInvHolds, PTL

-----------------------------------------------------------------------------
(***************************************************************************)
(* No order is placed over another one.  OrderedOnce is not inductive: a   *)
(* purchase order is read as pending once, and everything that happens to  *)
(* its row until the worker comes to it must leave its number empty.  A    *)
(* status set by hand could undo that, so that the theorems assume which   *)
(* statuses are not set by hand.                                           *)
(***************************************************************************)
Unordered == {"pending"} \cup EditedStatuses

PendingUnordered == \A p \in POs : po[p].status = "pending" => po[p].vendorId = 0

BatchUnordered ==
    job.pc \in PostingPC => \A p \in job.batch : po[p].vendorId = 0 /\ po[p].status \in Unordered

ReadUnordered ==
    job.pc \in {"calling", "returned"} => job.seen[job.current].status \in Unordered

UpdateNeverPends ==
    job.pc = "updating" =>
        \A p \in POs : job.status[p] = "pending" => job.seen[p].status = "pending"

VendorNeverPends ==
    \A n \in 1..Len(vendor) : vendor[n].status # "pending" /\ vendor[n].products # {}

UInv == /\ PendingUnordered
        /\ BatchUnordered
        /\ ReadUnordered
        /\ UpdateNeverPends
        /\ VendorNeverPends

NotSetByHand == EditedStatuses \cap {"pending", "partially_posted", "posted"} = {}

\* A row whose status is written keeps its number.
LEMMA RowWithStatus ==
    ASSUME NEW row \in PORow \cup {Absent}, NEW s
    PROVE  [row EXCEPT !.status = s].status = s /\ [row EXCEPT !.status = s].vendorId = row.vendorId
BY DEF PORow, Absent

\* In the initial state there is nothing to order.
LEMMA UnorderedInit == Init => UInv
BY DEF Init, Idle, Absent, PostingPC, UInv, PendingUnordered, BatchUnordered, ReadUnordered,
       UpdateNeverPends, VendorNeverPends

\* A request changes rows in a way that leaves what is pending or about to be
\* posted without a number.
LEMMA UnorderedAdministration ==
    ASSUME NotSetByHand, TInv, UInv, Administration
    PROVE  UInv'
<1>0. /\ po \in [POs -> PORow \cup {Absent}]
      /\ job.pc \in PostingPC => job.batch \subseteq POs
      /\ Absent.status = "absent"
  BY JobCases DEF TInv, TypeOK, PostingJob, Absent
<1>a. SUFFICES /\ UNCHANGED <<job, vendor>>
               /\ \A p \in POs : \/ po'[p] = po[p]
                                 \/ po'[p].status = "pending" /\ po'[p].vendorId = 0
                                 \/ /\ po'[p].status \in EditedStatuses
                                    /\ po'[p].vendorId = po[p].vendorId
  BY <1>0 DEF UInv, PendingUnordered, BatchUnordered, ReadUnordered, UpdateNeverPends,
              VendorNeverPends, NotSetByHand, Unordered
<1>1. ASSUME NEW o \in Orders, create_purchase_orders(o)
      PROVE  /\ UNCHANGED <<job, vendor>>
             /\ \A p \in POs : po'[p] = po[p] \/ (po'[p].status = "pending" /\ po'[p].vendorId = 0)
  BY <1>1 DEF create_purchase_orders
<1>2. ASSUME NEW p \in POs, repost(p)
      PROVE  /\ UNCHANGED <<job, vendor>>
             /\ \A q \in POs : po'[q] = po[q] \/ (po'[q].status = "pending" /\ po'[q].vendorId = 0)
  <2>1. po[p] \in PORow
    BY <1>0, <1>2 DEF repost, Existing
  <2>2. po' = [po EXCEPT ![p] = [status |-> "pending", vendorId |-> 0]]
    BY <1>2, <2>1, ResetRow DEF repost
  <2> QED
    BY <1>0, <1>2, <2>2 DEF repost
<1>3. ASSUME NEW p \in POs, NEW status \in EditedStatuses, edit(p, status)
      PROVE  /\ UNCHANGED <<job, vendor>>
             /\ \A q \in POs : \/ po'[q] = po[q]
                               \/ /\ po'[q].status \in EditedStatuses
                                  /\ po'[q].vendorId = po[q].vendorId
  <2>1. po' = [po EXCEPT ![p] = [po[p] EXCEPT !.status = status]]
    BY <1>3 DEF edit
  <2> QED
    BY <1>0, <1>3, <2>1, RowWithStatus DEF edit
<1>4. ASSUME NEW p \in POs, request_status_update(p) PROVE UNCHANGED <<po, job, vendor>>
  BY <1>4 DEF request_status_update
<1> QED
  BY <1>1, <1>2, <1>3, <1>4 DEF Administration

\* A job that goes to the vendor goes there for a row without a number.
LEMMA CallUnordered ==
    ASSUME TInv, UInv, NEW p, NEW target, NEW batch \in SUBSET POs, NEW retries, p \in batch,
           \A q \in batch : po[q].vendorId = 0 /\ po[q].status \in Unordered,
           UNCHANGED <<po, vendor>>, Call(p, target, batch, retries)
    PROVE  UInv'
BY DEF Call, UInv, PendingUnordered, BatchUnordered, ReadUnordered, UpdateNeverPends,
       VendorNeverPends, PostingPC

\* A purchase order that is settled with a row that is not pending over a number
\* leaves the batch, and the rest of it is as it was.
LEMMA SettleUnordered ==
    ASSUME TInv, UInv, job.pc \in PostingPC, job.pc # "next", NEW row,
           row.status = "pending" => row.vendorId = 0, Settle(row), UNCHANGED vendor
    PROVE  UInv'
<1> DEFINE rest == job.batch \ {job.current}
<1>1. job \in PostingJob /\ po \in [POs -> PORow \cup {Absent}]
  BY JobCases DEF TInv, TypeOK
<1>2. po' = [po EXCEPT ![job.current] = row] /\ job.current \in POs /\ job.batch \subseteq POs
  BY <1>1 DEF Settle, PostingJob
<1>3. PendingUnordered' /\ VendorNeverPends'
  BY <1>1, <1>2 DEF UInv, PendingUnordered, VendorNeverPends
<1>4. CASE rest = {}
  BY <1>3, <1>4 DEF Settle, Idle, UInv, BatchUnordered, ReadUnordered, UpdateNeverPends, PostingPC
<1>5. CASE rest # {}
  <2>1. job' = [job EXCEPT !.pc = "next", !.batch = rest]
    BY <1>5 DEF Settle
  <2>2. job'.pc = "next" /\ job'.batch = rest
    BY <1>1, <2>1 DEF PostingJob
  <2>3. \A p \in rest : po[p].vendorId = 0 /\ po[p].status \in Unordered /\ po'[p] = po[p]
    BY <1>1, <1>2 DEF UInv, BatchUnordered
  <2> QED
    BY <1>3, <2>2, <2>3 DEF UInv, BatchUnordered, ReadUnordered, UpdateNeverPends
<1> QED
  BY <1>4, <1>5

\* What the worker does while it posts keeps what is to be posted without a number.
LEMMA UnorderedPosting ==
    ASSUME NotSetByHand, TInv, UInv, Posting
    PROVE  UInv'
<1>0. /\ po \in [POs -> PORow \cup {Absent}] /\ bought \in [POs -> SUBSET Products]
      /\ tasks \in Seq(Task) /\ vendor \in Seq(VendorOrder)
      /\ job.pc \in PostingPC => job \in PostingJob
      /\ PendingUnordered /\ BatchUnordered /\ ReadUnordered /\ VendorNeverPends
  BY JobCases DEF TInv, TypeOK, UInv
<1>a. ASSUME NEW pc \in {"calling", "returned", "broken"}, job.pc = "calling", job'.pc = pc,
             job'.batch = job.batch, job'.current = job.current, job'.seen = job.seen,
             UNCHANGED po, VendorNeverPends'
      PROVE  UInv'
  BY <1>0, <1>a DEF UInv, PendingUnordered, BatchUnordered, ReadUnordered, UpdateNeverPends,
                    PostingPC
<1>1. CASE StartPosting
  <2> DEFINE batch == ToPost(Head(tasks).po)
  <2>1. batch \in SUBSET POs /\ \A q \in batch : po[q].status = "pending"
    BY DEF ToPost, Existing
  <2>2. \A q \in batch : po[q].vendorId = 0 /\ po[q].status \in Unordered
    BY <1>0, <2>1 DEF PendingUnordered, Unordered
  <2>3. ASSUME NEW p \in batch, Call(p, Head(tasks).po, batch, Retries), UNCHANGED <<po, vendor>>
        PROVE  UInv'
    BY <2>1, <2>2, <2>3, CallUnordered
  <2>4. ASSUME UNCHANGED <<po, job, vendor>> PROVE UInv'
    BY <2>4 DEF UInv, PendingUnordered, BatchUnordered, ReadUnordered, UpdateNeverPends,
                VendorNeverPends
  <2> QED
    BY <1>1, <2>3, <2>4 DEF StartPosting
<1>2. CASE PostNext
  <2>1. job \in PostingJob /\ job.pc \in PostingPC
    BY <1>0, <1>2 DEF PostNext, PostingPC
  <2>2. job.batch \in SUBSET POs
    BY <2>1 DEF PostingJob
  <2>3. \A q \in job.batch : po[q].vendorId = 0 /\ po[q].status \in Unordered
    BY <1>0, <2>1 DEF BatchUnordered
  <2> QED
    BY <1>2, <2>2, <2>3, CallUnordered DEF PostNext
<1>3. CASE VendorRefuses
  <2> DEFINE new == Written(job.seen[job.current].status, "failed", po[job.current].status)
             row == [po[job.current] EXCEPT !.status = new]
  <2>1. job \in PostingJob /\ job.pc \in PostingPC /\ job.pc # "next"
    BY <1>0, <1>3 DEF VendorRefuses, PostingPC
  <2>2. po[job.current] \in PORow \cup {Absent}
    BY <1>0, <2>1 DEF PostingJob
  <2>3. new = "failed" \/ new = po[job.current].status
    BY DEF Written
  <2>4. row.status = "pending" => row.vendorId = 0
    BY <1>0, <2>1, <2>2, <2>3, RowWithStatus DEF PendingUnordered, PostingJob
  <2>5. Settle(row) /\ UNCHANGED vendor
    BY <1>3 DEF VendorRefuses
  <2> QED
    BY <2>1, <2>4, <2>5, SettleUnordered
<1>4. CASE VendorRetries
  <2>1. job \in PostingJob /\ job.pc = "calling"
    BY <1>0, <1>4 DEF VendorRetries, PostingPC
  <2> QED
    BY <1>0, <1>4, <1>a, <2>1 DEF VendorRetries, PostingJob, VendorNeverPends
<1>5. CASE SkipNotYetDue
  <2>1. job \in PostingJob /\ job.pc = "calling"
    BY <1>0, <1>5 DEF SkipNotYetDue, PostingPC
  <2> QED
    BY <1>0, <1>5, <1>a, <2>1 DEF SkipNotYetDue, PostingJob, VendorNeverPends
<1>6. ASSUME NEW products \in SUBSET (Products \ Exempt), PlaceOrder(products) PROVE UInv'
  <2>1. job \in PostingJob /\ job.pc = "calling" /\ products # {} /\ UNCHANGED po
    BY <1>0, <1>6 DEF PlaceOrder, PostingPC
  <2>2. \A n \in 1..Len(vendor') :
            \/ n \in 1..Len(vendor) /\ vendor'[n] = vendor[n]
            \/ vendor'[n] = [po |-> job.current, products |-> products, status |-> "posted"]
    BY <1>0, <1>6 DEF PlaceOrder
  <2>3. VendorNeverPends'
    <3>1. ASSUME NEW n \in 1..Len(vendor')
          PROVE  vendor'[n].status # "pending" /\ vendor'[n].products # {}
      <4>1. CASE n \in 1..Len(vendor) /\ vendor'[n] = vendor[n]
        BY <1>0, <4>1 DEF VendorNeverPends
      <4>2. CASE vendor'[n] = [po |-> job.current, products |-> products, status |-> "posted"]
        BY <2>1, <4>2
      <4> QED
        BY <2>2, <4>1, <4>2
    <3> QED
      BY <3>1 DEF VendorNeverPends
  <2>4. \/ job' = [job EXCEPT !.pc = "returned", !.placed = Len(vendor) + 1]
        \/ job' = [job EXCEPT !.pc = "broken"]
    BY <1>6 DEF PlaceOrder
  <2>5. /\ job'.pc \in {"returned", "broken"} /\ job'.batch = job.batch
        /\ job'.current = job.current /\ job'.seen = job.seen
    BY <2>1, <2>4 DEF PostingJob
  <2> QED
    BY <1>a, <2>1, <2>3, <2>5
<1>7. CASE BreakPage
  <2>1. job \in PostingJob /\ job.pc = "calling"
    BY <1>0, <1>7 DEF BreakPage, PostingPC
  <2> QED
    BY <1>0, <1>7, <1>a, <2>1 DEF BreakPage, PostingJob, VendorNeverPends
<1>8. CASE RecordPosting
  <2> DEFINE p == job.current
             ordered == IF job.placed = 0 THEN {} ELSE vendor[job.placed].products
             products == bought[p] \cup ordered
             row == [status   |-> Written(job.seen[p].status, PostedStatus(products), po[p].status),
                     vendorId |-> VendorNumber(p, ordered)]
  <2>1. job \in PostingJob /\ job.pc \in PostingPC /\ job.pc # "next" /\ p \in POs
    BY <1>0, <1>8 DEF RecordPosting, PostingPC, PostingJob
  <2>2. job.placed \in 0..Len(vendor)
    BY <2>1 DEF TInv, JobOK
  <2>3. CASE job.placed = 0
    \* Nothing was ordered: the number stays, and a status that stays pending was pending.
    <3>1. row.vendorId = po[p].vendorId
      BY <2>3 DEF VendorNumber
    <3>2. row.status = "pending" => po[p].status = "pending"
      BY DEF Written, PostedStatus
    <3> QED
      BY <1>0, <1>8, <2>1, <3>1, <3>2, SettleUnordered DEF RecordPosting, PendingUnordered
  <2>4. CASE job.placed # 0
    \* Something was ordered: the new status is none that the worker can have read.
    <3>1. job.placed \in 1..Len(vendor)
      BY <1>0, <2>2, <2>4
    <3>2. products # {}
      BY <1>0, <2>4, <3>1 DEF VendorNeverPends
    <3>3. PostedStatus(products) \in {"posted", "partially_posted"}
      BY <3>2 DEF PostedStatus
    <3>4. job.seen[p].status \in Unordered
      BY <1>0, <1>8 DEF ReadUnordered, RecordPosting
    <3>5. row.status # "pending"
      BY <3>3, <3>4 DEF Written, Unordered, NotSetByHand
    <3> QED
      BY <1>8, <2>1, <3>5, SettleUnordered DEF RecordPosting
  <2> QED
    BY <2>3, <2>4
<1>9. CASE MarkPendingFailed
  <2>1. \A p \in POs : po'[p] = po[p] \/ po'[p] = [po[p] EXCEPT !.status = "failed"]
    BY <1>9 DEF MarkPendingFailed
  <2>2. ASSUME NEW p \in POs PROVE po'[p].status = "pending" => po'[p].vendorId = 0
    <3>1. CASE po'[p] = po[p]
      BY <1>0, <3>1 DEF PendingUnordered
    <3>2. CASE po'[p] = [po[p] EXCEPT !.status = "failed"]
      <4>1. po[p] \in PORow \cup {Absent}
        BY <1>0
      <4>2. po'[p].status = "failed"
        BY <3>2, <4>1, RowWithStatus
      <4> QED
        BY <4>2
    <3> QED
      BY <2>1, <3>1, <3>2
  <2>3. PendingUnordered'
    BY <2>2 DEF PendingUnordered
  <2> QED
    BY <1>0, <1>9, <2>3 DEF MarkPendingFailed, Idle, PostingPC, UInv, BatchUnordered, ReadUnordered,
                            UpdateNeverPends, VendorNeverPends
<1> QED
  BY <1>1, <1>2, <1>3, <1>4, <1>5, <1>6, <1>7, <1>8, <1>9 DEF Posting

\* An update brings no purchase order back to pending.
LEMMA UnorderedUpdating ==
    ASSUME TInv, UInv, Updating
    PROVE  UInv'
<1>0. /\ po \in [POs -> PORow \cup {Absent}] /\ vendor \in Seq(VendorOrder)
      /\ job.pc = "updating" => job \in UpdatingJob
      /\ PendingUnordered /\ UpdateNeverPends /\ VendorNeverPends
  BY JobCases DEF TInv, TypeOK, UInv
<1>1. CASE StartUpdating
  BY <1>0, <1>1 DEF StartUpdating, UInv, PendingUnordered, BatchUnordered, ReadUnordered,
                    UpdateNeverPends, VendorNeverPends, PostingPC
<1>2. ASSUME NEW p \in POs, NEW n \in 1..Len(vendor), UpdateStatus(p, n) PROVE UInv'
  <2>1. job \in UpdatingJob /\ job.pc = "updating" /\ UNCHANGED <<po, vendor>>
    BY <1>0, <1>2 DEF UpdateStatus
  <2>2. job' = [job EXCEPT !.status = [job.status EXCEPT ![p] = vendor[n].status]]
    BY <1>2 DEF UpdateStatus
  <2>3. /\ job'.pc = "updating" /\ job'.seen = job.seen
        /\ job'.status = [job.status EXCEPT ![p] = vendor[n].status]
        /\ job.status \in [POs -> PurchaseOrderStatus \cup {"absent"}]
    BY <2>1, <2>2 DEF UpdatingJob
  <2>4. vendor[n].status # "pending"
    BY <1>0 DEF VendorNeverPends
  <2>5. UpdateNeverPends'
    BY <1>0, <2>1, <2>3, <2>4 DEF UpdateNeverPends
  <2> QED
    BY <1>0, <2>1, <2>3, <2>5 DEF UInv, PendingUnordered, BatchUnordered, ReadUnordered,
                                  VendorNeverPends, PostingPC
<1>3. CASE CommitUpdate
  <2>1. ASSUME NEW p \in POs PROVE po'[p].status = "pending" => po'[p].vendorId = 0
    <3> DEFINE new == Written(job.seen[p].status, job.status[p], po[p].status)
    <3>1. po'[p] = [po[p] EXCEPT !.status = new]
      BY <1>3 DEF CommitUpdate
    <3>2. po'[p].status = new /\ po'[p].vendorId = po[p].vendorId
      BY <1>0, <3>1, RowWithStatus
    <3>3. new = "pending" => po[p].status = "pending"
      BY <1>0, <1>3 DEF Written, UpdateNeverPends, CommitUpdate
    <3> QED
      BY <1>0, <3>2, <3>3 DEF PendingUnordered
  <2>2. PendingUnordered'
    BY <2>1 DEF PendingUnordered
  <2> QED
    BY <1>0, <1>3, <2>2 DEF CommitUpdate, Idle, PostingPC, UInv, BatchUnordered, ReadUnordered,
                            UpdateNeverPends, VendorNeverPends
<1> QED
  BY <1>1, <1>2, <1>3 DEF Updating

\* Every step keeps what is to be posted without a number.
LEMMA UnorderedStep ==
    ASSUME NotSetByHand, TInv, UInv, [Next]_vars
    PROVE  UInv'
<1>1. ASSUME UNCHANGED <<po, job, vendor>> PROVE UInv'
  BY <1>1 DEF UInv, PendingUnordered, BatchUnordered, ReadUnordered, UpdateNeverPends,
              VendorNeverPends
<1>2. CASE PostingTime \/ UpdateTime \/ UNCHANGED vars
  BY <1>1, <1>2 DEF PostingTime, UpdateTime, vars
<1>3. CASE Crash
  BY <1>3 DEF Crash, Idle, PostingPC, UInv, PendingUnordered, BatchUnordered, ReadUnordered,
              UpdateNeverPends, VendorNeverPends
<1>4. ASSUME NEW n \in 1..Len(vendor), NEW status \in PurchaseOrderStatus, VendorProceeds(n, status)
      PROVE  UInv'
  <2>1. vendor \in Seq(VendorOrder) /\ VendorNeverPends
    BY DEF TInv, TypeOK, UInv
  <2>2. vendor[n] \in VendorOrder
    BY <2>1
  <2>3. vendor' = [vendor EXCEPT ![n] = [vendor[n] EXCEPT !.status = status]] /\ status # "pending"
    BY <1>4 DEF VendorProceeds, VendorSteps
  <2>4. /\ [vendor[n] EXCEPT !.status = status].status = status
        /\ [vendor[n] EXCEPT !.status = status].products = vendor[n].products
    BY <2>2 DEF VendorOrder
  <2>5. VendorNeverPends'
    BY <2>1, <2>3, <2>4 DEF VendorNeverPends
  <2> QED
    BY <1>4, <2>5 DEF VendorProceeds, UInv, PendingUnordered, BatchUnordered, ReadUnordered,
                      UpdateNeverPends
<1> QED
  BY <1>2, <1>3, <1>4, UnorderedAdministration, UnorderedPosting, UnorderedUpdating DEF Next

\* The worker goes to the vendor only for a purchase order whose row names no
\* vendor's order, whatever is reposted, created again, lost or broken on the way,
\* as long as nobody sets a purchase order to pending or to posted by hand.
THEOREM POOrderedOnce ==
    ASSUME NotSetByHand
    PROVE  Spec => []OrderedOnce
<1>1. Init => TInv /\ UInv
  BY TypeInit, UnorderedInit
<1>2. TInv /\ UInv /\ [Next]_vars => (TInv /\ UInv)'
  BY TypeStep, UnorderedStep
<1>3. TInv /\ UInv => OrderedOnce
  BY DEF TInv, UInv, JobOK, BatchUnordered, OrderedOnce, PostingPC
<1> QED
  BY <1>1, <1>2, <1>3, PTL DEF Spec

-----------------------------------------------------------------------------
(***************************************************************************)
(* Without faults no order at the vendor is lost from sight.  A new number *)
(* overwrites no other one because the row had none (BatchUnordered), and  *)
(* a number goes away only in a repost or when purchase orders are created *)
(* again.                                                                  *)
(***************************************************************************)
NothingBreaks == Faults = {} /\ Reposted = {} /\ Recreated = {}

\* VendorOrdersKnown, with the purchase order that is about to be recorded.
Known(n) ==
    \/ po[vendor[n].po].vendorId = n
    \/ job.pc = "returned" /\ job.placed = n /\ job.current = vendor[n].po

KInv == \A n \in 1..Len(vendor) : Known(n)

\* A step that leaves the vendor's orders, the numbers and what is about to be
\* recorded alone loses no order from sight.
LEMMA KnownKept ==
    ASSUME KInv, TypeOK, UNCHANGED vendor,
           \A p \in POs : po[p].vendorId # 0 => po'[p].vendorId = po[p].vendorId,
           job.pc = "returned" => UNCHANGED job
    PROVE  KInv'
<1> SUFFICES ASSUME NEW n \in 1..Len(vendor) PROVE Known(n)'
  BY DEF KInv
<1>1. vendor[n] \in VendorOrder /\ n # 0
  BY DEF TypeOK
<1>2. vendor[n].po \in POs /\ Known(n)
  BY <1>1 DEF VendorOrder, KInv
<1> QED
  BY <1>1, <1>2 DEF Known

\* No request takes a number away.
LEMMA KnownAdministration ==
    ASSUME NothingBreaks, TInv, KInv, Administration
    PROVE  KInv'
<1>0. TypeOK /\ po \in [POs -> PORow \cup {Absent}]
  BY DEF TInv, TypeOK
<1>1. ASSUME NEW o \in Orders, create_purchase_orders(o) PROVE KInv'
  <2>1. \A p \in POs : OrderOf[p] = o => po[p] = Absent
    BY <1>1 DEF create_purchase_orders, Existing, NothingBreaks
  <2>2. \A p \in POs : po[p].vendorId # 0 => po'[p].vendorId = po[p].vendorId
    BY <1>1, <2>1 DEF create_purchase_orders, Absent
  <2> QED
    BY <1>0, <1>1, <2>2, KnownKept DEF create_purchase_orders
<1>2. ASSUME NEW p \in POs, \E status \in EditedStatuses : edit(p, status)
      PROVE  KInv'
  <2>1. PICK status : edit(p, status)
    BY <1>2
  <2>2. po' = [po EXCEPT ![p] = [po[p] EXCEPT !.status = status]]
    BY <2>1 DEF edit
  <2>3. [po[p] EXCEPT !.status = status].vendorId = po[p].vendorId
    BY <1>0, RowWithStatus
  <2>4. \A q \in POs : po'[q].vendorId = po[q].vendorId
    BY <1>0, <2>2, <2>3
  <2> QED
    BY <1>0, <2>1, <2>4, KnownKept DEF edit
<1>3. ASSUME NEW p \in POs, repost(p) PROVE FALSE
  BY <1>3 DEF repost, NothingBreaks
<1>4. ASSUME NEW p \in POs, request_status_update(p) PROVE KInv'
  BY <1>0, <1>4, KnownKept DEF request_status_update
<1> QED
  BY <1>1, <1>2, <1>3, <1>4 DEF Administration

\* While it posts, the worker writes a number only over none.
LEMMA KnownPosting ==
    ASSUME NothingBreaks, TInv, UInv, KInv, Posting
    PROVE  KInv'
<1>0. /\ TypeOK /\ po \in [POs -> PORow \cup {Absent}] /\ vendor \in Seq(VendorOrder)
      /\ job.pc \in PostingPC => job \in PostingJob
  BY JobCases DEF TInv, TypeOK
<1>1. CASE StartPosting \/ PostNext \/ VendorRetries \/ SkipNotYetDue
  <2>1. job.pc # "returned" /\ UNCHANGED <<po, vendor>>
    BY <1>1 DEF StartPosting, PostNext, VendorRetries, SkipNotYetDue, Idle
  <2> QED
    BY <1>0, <2>1, KnownKept
<1>2. CASE VendorRefuses
  <2> DEFINE new == Written(job.seen[job.current].status, "failed", po[job.current].status)
  <2>1. job.current \in POs /\ job.pc = "calling" /\ UNCHANGED vendor
    BY <1>0, <1>2 DEF VendorRefuses, PostingPC, PostingJob
  <2>2. po' = [po EXCEPT ![job.current] = [po[job.current] EXCEPT !.status = new]]
    BY <1>2 DEF VendorRefuses, Settle
  <2>3. [po[job.current] EXCEPT !.status = new].vendorId = po[job.current].vendorId
    BY <1>0, <2>1, RowWithStatus
  <2>4. \A q \in POs : po'[q].vendorId = po[q].vendorId
    BY <1>0, <2>2, <2>3
  <2> QED
    BY <1>0, <2>1, <2>4, KnownKept
<1>3. ASSUME NEW products \in SUBSET (Products \ Exempt), PlaceOrder(products) PROVE KInv'
  <2> DEFINE placed == [po |-> job.current, products |-> products, status |-> "posted"]
  <2>1. job \in PostingJob /\ job.pc = "calling" /\ UNCHANGED po /\ vendor' = Append(vendor, placed)
    BY <1>0, <1>3 DEF PlaceOrder, PostingPC
  <2>2. job' = [job EXCEPT !.pc = "returned", !.placed = Len(vendor) + 1]
    BY <1>3 DEF PlaceOrder, NothingBreaks
  <2>3. job'.pc = "returned" /\ job'.placed = Len(vendor) + 1 /\ job'.current = job.current
    BY <2>1, <2>2 DEF PostingJob
  <2>4. ASSUME NEW n \in 1..Len(vendor') PROVE Known(n)'
    <3>1. CASE n \in 1..Len(vendor)
      <4>1. vendor'[n] = vendor[n]
        BY <1>0, <2>1, <3>1
      <4> QED
        BY <2>1, <3>1, <4>1 DEF KInv, Known
    <3>2. CASE n \notin 1..Len(vendor)
      <4>1. n = Len(vendor) + 1 /\ vendor'[n] = placed
        BY <1>0, <2>1, <3>2
      <4> QED
        BY <2>3, <4>1 DEF Known
    <3> QED
      BY <3>1, <3>2
  <2> QED
    BY <2>4 DEF KInv
<1>4. CASE BreakPage
  BY <1>4 DEF BreakPage, NothingBreaks
<1>5. CASE RecordPosting
  <2> DEFINE p == job.current
             ordered == IF job.placed = 0 THEN {} ELSE vendor[job.placed].products
  <2>1. job \in PostingJob /\ job.pc \in PostingPC /\ p \in POs /\ job.pc = "returned"
    BY <1>0, <1>5 DEF RecordPosting, PostingPC, PostingJob
  <2>2. po[p].vendorId = 0
    BY <2>1 DEF TInv, UInv, JobOK, BatchUnordered
  <2>3. \E status : po' = [po EXCEPT ![p] = [status |-> status, vendorId |-> VendorNumber(p, ordered)]]
    BY <1>5 DEF RecordPosting, Settle
  <2>4. PICK status : po' = [po EXCEPT ![p] = [status |-> status, vendorId |-> VendorNumber(p, ordered)]]
    BY <2>3
  <2>5. po'[p].vendorId = VendorNumber(p, ordered)
    BY <1>0, <2>1, <2>4
  <2>6. job.placed # 0 => po'[p].vendorId = job.placed
    BY <2>5 DEF VendorNumber
  <2>7. \A q \in POs \ {p} : po'[q] = po[q]
    BY <1>0, <2>4
  <2>8. ASSUME NEW n \in 1..Len(vendor') PROVE Known(n)'
    <3>1. UNCHANGED vendor /\ n \in 1..Len(vendor) /\ n # 0
      BY <1>5 DEF RecordPosting
    <3>2. vendor[n] \in VendorOrder
      BY <1>0, <3>1
    <3>3. vendor[n].po \in POs /\ Known(n)
      BY <3>1, <3>2 DEF VendorOrder, KInv
    <3>4. CASE po[vendor[n].po].vendorId = n
      \* It is another purchase order: this one had no number.
      BY <2>2, <2>7, <3>1, <3>3, <3>4 DEF Known
    <3>5. CASE job.placed = n /\ job.current = vendor[n].po
      BY <2>6, <3>1, <3>5 DEF Known
    <3> QED
      BY <3>3, <3>4, <3>5 DEF Known
  <2> QED
    BY <2>8 DEF KInv
<1>6. CASE MarkPendingFailed
  <2>1. \A p \in POs : po'[p] = po[p] \/ po'[p] = [po[p] EXCEPT !.status = "failed"]
    BY <1>6 DEF MarkPendingFailed
  <2>2. \A p \in POs : [po[p] EXCEPT !.status = "failed"].vendorId = po[p].vendorId
    BY <1>0, RowWithStatus
  <2>3. \A p \in POs : po'[p].vendorId = po[p].vendorId
    BY <2>1, <2>2
  <2> QED
    BY <1>0, <1>6, <2>3, KnownKept DEF MarkPendingFailed
<1> QED
  BY <1>1, <1>2, <1>3, <1>4, <1>5, <1>6 DEF Posting

\* The other steps leave the numbers alone.
LEMMA KnownStep ==
    ASSUME NothingBreaks, TInv, UInv, KInv, [Next]_vars
    PROVE  KInv'
<1>0. /\ TypeOK /\ po \in [POs -> PORow \cup {Absent}] /\ vendor \in Seq(VendorOrder)
  BY DEF TInv, TypeOK
<1>1. CASE PostingTime \/ UpdateTime \/ UNCHANGED vars
  BY <1>0, <1>1, KnownKept DEF PostingTime, UpdateTime, vars
<1>2. CASE Crash
  BY <1>2 DEF Crash, NothingBreaks
<1>3. CASE StartUpdating
  BY <1>0, <1>3, KnownKept DEF StartUpdating, Idle
<1>4. ASSUME NEW p \in POs, NEW n \in 1..Len(vendor), UpdateStatus(p, n) PROVE KInv'
  BY <1>0, <1>4, KnownKept DEF UpdateStatus
<1>5. CASE CommitUpdate
  <2>1. ASSUME NEW p \in POs PROVE po'[p].vendorId = po[p].vendorId
    <3> DEFINE new == Written(job.seen[p].status, job.status[p], po[p].status)
    <3>1. po'[p] = [po[p] EXCEPT !.status = new] /\ po[p] \in PORow \cup {Absent}
      BY <1>0, <1>5 DEF CommitUpdate
    <3> QED
      BY <3>1, RowWithStatus
  <2>2. \A p \in POs : po'[p].vendorId = po[p].vendorId
    BY <2>1
  <2> QED
    BY <1>0, <1>5, <2>2, KnownKept DEF CommitUpdate
<1>6. ASSUME NEW n \in 1..Len(vendor), NEW status \in PurchaseOrderStatus, VendorProceeds(n, status)
      PROVE  KInv'
  <2>1. vendor' = [vendor EXCEPT ![n] = [vendor[n] EXCEPT !.status = status]]
    BY <1>6 DEF VendorProceeds
  <2>2. vendor[n] \in VendorOrder
    BY <1>0
  <2>3. [vendor[n] EXCEPT !.status = status].po = vendor[n].po
    BY <2>2 DEF VendorOrder
  <2>4. Len(vendor') = Len(vendor) /\ \A m \in 1..Len(vendor) : vendor'[m].po = vendor[m].po
    BY <1>0, <2>1, <2>3
  <2> QED
    BY <1>6, <2>4 DEF VendorProceeds, KInv, Known
<1> QED
  BY <1>1, <1>2, <1>3, <1>4, <1>5, <1>6, KnownAdministration, KnownPosting DEF Next, Updating

\* When nothing breaks and nothing is reposted, every order at the vendor is named
\* by the purchase order that it was placed for, or about to be.
THEOREM POVendorOrdersKnown ==
    ASSUME NotSetByHand, NothingBreaks
    PROVE  Spec => []VendorOrdersKnown
<1>1. Init => TInv /\ UInv /\ KInv
  BY TypeInit, UnorderedInit DEF Init, KInv
<1>2. TInv /\ UInv /\ KInv /\ [Next]_vars => (TInv /\ UInv /\ KInv)'
  BY TypeStep, UnorderedStep, KnownStep
<1>3. TInv /\ UInv /\ KInv => VendorOrdersKnown
  BY DEF KInv, Known, VendorOrdersKnown
<1> QED
  BY <1>1, <1>2, <1>3, PTL DEF Spec

-----------------------------------------------------------------------------
(***************************************************************************)
(* That the status of a purchase order tells no more than what the vendor  *)
(* has: it says posted only if all its products were ordered, and paid,    *)
(* shipped or delivered only if the vendor's order is that far.            *)
(*                                                                         *)
(* Both follow from what one step may do to one row (RowStep) and to one   *)
(* order of the vendor (VendorGoesOn).                                     *)
(***************************************************************************)

MayBeReset(p) == p \in Reposted \/ OrderOf[p] \in Recreated

Kept(p) == po'[p] = po[p] /\ bought'[p] = bought[p]

Reset(p) ==
    /\ po'[p].status = "pending" /\ po'[p].vendorId = 0 /\ bought'[p] = bought[p]
    /\ po[p] = Absent \/ MayBeReset(p)

\* By hand, or because the posting failed.
Marked(p) ==
    /\ po'[p].status \in EditedStatuses \cup {"failed"}
    /\ po'[p].vendorId = po[p].vendorId /\ bought'[p] = bought[p]

\* The posting is recorded: without an order, or with one.
RecordedNone(p) ==
    /\ job.pc = "returned"
    /\ po'[p].vendorId = po[p].vendorId /\ bought'[p] = bought[p]
    /\ po'[p].status \in {po[p].status, PostedStatus(bought[p])}
    /\ po[p].vendorId = 0

RecordedOrder(p) ==
    /\ job.pc = "returned"
    /\ job.placed \in 1..Len(vendor)
    /\ po'[p].vendorId = job.placed /\ po[p].vendorId = 0
    /\ bought'[p] = bought[p] \cup vendor[job.placed].products
    /\ po'[p].status = PostedStatus(bought'[p])
    /\ po'[p].status \in {"posted", "partially_posted"}

Updated(p) ==
    /\ job.pc = "updating"
    /\ po'[p].status = Written(job.seen[p].status, job.status[p], po[p].status)
    /\ po'[p].vendorId = po[p].vendorId /\ bought'[p] = bought[p]

RowStep(p) ==
    Kept(p) \/ Reset(p) \/ Marked(p) \/ RecordedNone(p) \/ RecordedOrder(p) \/ Updated(p)

-----------------------------------------------------------------------------
\* What the administrator does to a row.
LEMMA AdministrationOnRows ==
    ASSUME TInv, Administration, NEW q \in POs
    PROVE  RowStep(q) /\ UNCHANGED <<job, vendor, bought>>
<1>0. po \in [POs -> PORow \cup {Absent}]
  BY DEF TInv, TypeOK
<1>1. ASSUME NEW o \in Orders, create_purchase_orders(o) PROVE Kept(q) \/ Reset(q)
  <2>1. CASE OrderOf[q] = o
    BY <1>1, <2>1 DEF create_purchase_orders, Reset, MayBeReset, Existing
  <2>2. CASE OrderOf[q] # o
    BY <1>1, <2>2 DEF create_purchase_orders, Kept
  <2> QED BY <2>1, <2>2
<1>2. ASSUME NEW p \in POs, repost(p) PROVE Kept(q) \/ Reset(q)
  <2>1. po[p] \in PORow
    BY <1>0, <1>2 DEF repost, Existing
  <2>2. po' = [po EXCEPT ![p] = [status |-> "pending", vendorId |-> 0]]
    BY <1>2, <2>1, ResetRow DEF repost
  <2> QED BY <1>0, <1>2, <2>2 DEF repost, Kept, Reset, MayBeReset
<1>3. ASSUME NEW p \in POs, NEW status \in EditedStatuses, edit(p, status)
      PROVE  Kept(q) \/ Marked(q)
  <2>1. po' = [po EXCEPT ![p] = [po[p] EXCEPT !.status = status]]
    BY <1>3 DEF edit
  <2> QED BY <1>0, <1>3, <2>1, RowWithStatus DEF edit, Kept, Marked
<1>4. ASSUME NEW p \in POs, request_status_update(p) PROVE Kept(q)
  BY <1>4 DEF request_status_update, Kept
<1>5. UNCHANGED <<job, vendor, bought>>
  BY DEF Administration, create_purchase_orders, repost, edit, request_status_update
<1> QED BY <1>1, <1>2, <1>3, <1>4, <1>5 DEF Administration, RowStep

\* What recording a posting does to the row.
LEMMA RecordingOnRow ==
    ASSUME NotSetByHand, TInv, UInv, RecordPosting
    PROVE  RecordedNone(job.current) \/ RecordedOrder(job.current)
<1> DEFINE p == job.current
           ordered == IF job.placed = 0 THEN {} ELSE vendor[job.placed].products
           products == bought[p] \cup ordered
           status == Written(job.seen[p].status, PostedStatus(products), po[p].status)
           number == VendorNumber(p, ordered)
<1>1. /\ job \in PostingJob /\ job.pc = "returned" /\ p \in POs /\ p \in job.batch
      /\ po \in [POs -> PORow \cup {Absent}] /\ bought \in [POs -> SUBSET Products]
      /\ job.placed \in 0..Len(vendor) /\ vendor \in Seq(VendorOrder)
  BY JobCases DEF TInv, TypeOK, RecordPosting, PostingPC, PostingJob, JobOK
<1>2. /\ po' = [po EXCEPT ![p] = [status |-> status, vendorId |-> number]]
      /\ bought' = [bought EXCEPT ![p] = products]
  BY DEF RecordPosting, Settle
<1>3. po'[p].status = status /\ po'[p].vendorId = number /\ bought'[p] = products
  BY <1>1, <1>2
<1>4. po[p].vendorId = 0 /\ job.seen[p].status \in Unordered
  BY <1>1 DEF UInv, BatchUnordered, ReadUnordered, PostingPC
<1>5. CASE job.placed = 0
  <2>1. products = bought[p] /\ number = po[p].vendorId
    BY <1>5 DEF VendorNumber
  <2>2. status \in {po[p].status, PostedStatus(bought[p])}
    BY <2>1 DEF Written
  <2> QED BY <1>1, <1>3, <1>4, <2>1, <2>2 DEF RecordedNone
<1>6. CASE job.placed # 0
  <2>1. job.placed \in 1..Len(vendor) /\ number = job.placed
    BY <1>1, <1>6 DEF VendorNumber
  <2>2. vendor[job.placed].products # {} /\ ordered = vendor[job.placed].products
    BY <1>6, <2>1 DEF UInv, VendorNeverPends
  <2>3. PostedStatus(products) \in {"posted", "partially_posted"}
    BY <2>2 DEF PostedStatus
  <2>4. status = PostedStatus(products)
    BY <1>4, <2>3 DEF Written, Unordered, NotSetByHand
  <2> QED BY <1>1, <1>3, <1>4, <2>1, <2>2, <2>3, <2>4 DEF RecordedOrder
<1> QED BY <1>5, <1>6

\* What the worker does to a row while it posts.
LEMMA PostingOnRows ==
    ASSUME NotSetByHand, TInv, UInv, Posting, NEW q \in POs
    PROVE  RowStep(q)
<1>0. /\ po \in [POs -> PORow \cup {Absent}] /\ bought \in [POs -> SUBSET Products]
      /\ job.pc \in PostingPC => job \in PostingJob
  BY JobCases DEF TInv, TypeOK
<1>1. CASE \/ StartPosting \/ PostNext \/ VendorRetries \/ SkipNotYetDue \/ BreakPage
           \/ \E products \in SUBSET (Products \ Exempt) : PlaceOrder(products)
  <2>1. UNCHANGED <<po, bought>>
    BY <1>1 DEF StartPosting, PostNext, VendorRetries, SkipNotYetDue, BreakPage, PlaceOrder
  <2> QED BY <2>1 DEF RowStep, Kept
<1>2. CASE VendorRefuses
  <2> DEFINE p == job.current
             new == Written(job.seen[p].status, "failed", po[p].status)
  <2>1. p \in POs /\ UNCHANGED bought
    BY <1>0, <1>2 DEF VendorRefuses, PostingPC, PostingJob
  <2>2. po' = [po EXCEPT ![p] = [po[p] EXCEPT !.status = new]]
    BY <1>2 DEF VendorRefuses, Settle
  <2>3. CASE q # p
    BY <1>0, <2>1, <2>2, <2>3 DEF RowStep, Kept
  <2>4. CASE q = p /\ new = "failed"
    <3>1. po'[p] = [po[p] EXCEPT !.status = new] /\ po[p] \in PORow \cup {Absent}
      BY <1>0, <2>1, <2>2
    <3>2. po'[p].status = "failed" /\ po'[p].vendorId = po[p].vendorId
      BY <2>4, <3>1, RowWithStatus
    <3> QED BY <2>1, <2>4, <3>2 DEF RowStep, Marked
  <2>5. CASE q = p /\ new # "failed"
    <3>1. new = po[p].status
      BY <2>5 DEF Written
    <3>2. [po[p] EXCEPT !.status = new] = po[p]
      BY <1>0, <2>1, <3>1 DEF PORow, Absent
    <3>3. po'[q] = po[q]
      BY <1>0, <2>1, <2>2, <2>5, <3>2
    <3> QED BY <2>1, <3>3 DEF RowStep, Kept
  <2> QED BY <2>3, <2>4, <2>5
<1>3. CASE RecordPosting
  <2>1. CASE q = job.current
    BY <1>3, <2>1, RecordingOnRow DEF RowStep
  <2>2. CASE q # job.current
    BY <1>0, <1>3, <2>2 DEF RecordPosting, Settle, RowStep, Kept
  <2> QED BY <2>1, <2>2
<1>4. CASE MarkPendingFailed
  <2>1. po'[q] = po[q] \/ po'[q] = [po[q] EXCEPT !.status = "failed"]
    BY <1>4 DEF MarkPendingFailed
  <2>2. UNCHANGED bought
    BY <1>4 DEF MarkPendingFailed
  <2>3. CASE po'[q] = po[q]
    BY <2>2, <2>3 DEF RowStep, Kept
  <2>4. CASE po'[q] = [po[q] EXCEPT !.status = "failed"]
    <3>1. po[q] \in PORow \cup {Absent}
      BY <1>0
    <3>2. po'[q].status = "failed" /\ po'[q].vendorId = po[q].vendorId
      BY <2>4, <3>1, RowWithStatus
    <3> QED BY <2>2, <3>2 DEF RowStep, Marked
  <2> QED BY <2>1, <2>3, <2>4
<1> QED BY <1>1, <1>2, <1>3, <1>4 DEF Posting

\* What any step does to a row.
LEMMA EveryRowStep ==
    ASSUME NotSetByHand, TInv, UInv, [Next]_vars, NEW q \in POs
    PROVE  RowStep(q)
<1>0. po \in [POs -> PORow \cup {Absent}]
  BY DEF TInv, TypeOK
<1>1. ASSUME UNCHANGED <<po, bought>> PROVE RowStep(q)
  BY <1>1 DEF RowStep, Kept
<1>2. CASE PostingTime \/ UpdateTime \/ Crash \/ UNCHANGED vars
  BY <1>1, <1>2 DEF PostingTime, UpdateTime, Crash, vars
<1>3. ASSUME NEW n, NEW status, VendorProceeds(n, status) PROVE RowStep(q)
  BY <1>1, <1>3 DEF VendorProceeds
<1>4. ASSUME StartUpdating \/ \E p \in POs, n \in 1..Len(vendor) : UpdateStatus(p, n)
      PROVE  RowStep(q)
  BY <1>1, <1>4 DEF StartUpdating, UpdateStatus
<1>5. CASE CommitUpdate
  <2> DEFINE new == Written(job.seen[q].status, job.status[q], po[q].status)
  <2>1. po'[q] = [po[q] EXCEPT !.status = new] /\ po[q] \in PORow \cup {Absent}
    BY <1>0, <1>5 DEF CommitUpdate
  <2>2. po'[q].status = new /\ po'[q].vendorId = po[q].vendorId
    BY <2>1, RowWithStatus
  <2> QED BY <1>5, <2>2 DEF CommitUpdate, RowStep, Updated
<1> QED BY <1>2, <1>3, <1>4, <1>5, AdministrationOnRows, PostingOnRows DEF Next, Updating

Ranked == {"paid", "shipped", "delivered"}

\* A vendor's order in the status v is as far as s says, or was cancelled.
Allows(v, s) == s \in Ranked => Rank[s] <= Rank[v] \/ v = "cancelled"

\* What the ranks are.
LEMMA Ranks ==
    /\ \A s \in PurchaseOrderStatus : Rank[s] > 0 <=> s \in Ranked
    /\ Rank["posted"] = 0 /\ Rank["paid"] = 1 /\ Rank["shipped"] = 2 /\ Rank["delivered"] = 3
BY DEF Rank, PurchaseOrderStatus, Ranked

\* An order of the vendor keeps its products and never goes back.
LEMMA VendorGoesOn ==
    ASSUME TypeOK, [Next]_vars, NEW n \in 1..Len(vendor)
    PROVE  /\ n \in 1..Len(vendor') /\ vendor'[n].products = vendor[n].products
           /\ \A s : Allows(vendor[n].status, s) => Allows(vendor'[n].status, s)
<1>0. vendor \in Seq(VendorOrder)
  BY DEF TypeOK
<1>1. CASE UNCHANGED vendor
  BY <1>1 DEF Allows
<1>2. ASSUME NEW x, vendor' = Append(vendor, x)
      PROVE  n \in 1..Len(vendor') /\ vendor'[n] = vendor[n]
  BY <1>0, <1>2
<1>3. ASSUME NEW x, vendor' = Append(vendor, x)
      PROVE  /\ n \in 1..Len(vendor') /\ vendor'[n].products = vendor[n].products
             /\ \A s : Allows(vendor[n].status, s) => Allows(vendor'[n].status, s)
  BY <1>2, <1>3 DEF Allows
<1>4. ASSUME NEW m \in 1..Len(vendor), NEW status \in PurchaseOrderStatus,
             VendorProceeds(m, status)
      PROVE  /\ n \in 1..Len(vendor') /\ vendor'[n].products = vendor[n].products
             /\ \A s : Allows(vendor[n].status, s) => Allows(vendor'[n].status, s)
  <2>1. /\ vendor' = [vendor EXCEPT ![m] = [vendor[m] EXCEPT !.status = status]]
        /\ <<vendor[m].status, status>> \in VendorSteps
        /\ vendor[m] \in VendorOrder
    BY <1>0, <1>4 DEF VendorProceeds
  <2>2. /\ [vendor[m] EXCEPT !.status = status].products = vendor[m].products
        /\ [vendor[m] EXCEPT !.status = status].status = status
    BY <2>1 DEF VendorOrder
  <2>3. Len(vendor') = Len(vendor)
    BY <1>0, <2>1
  <2>4. CASE n # m
    BY <1>0, <2>1, <2>3, <2>4 DEF Allows
  <2>5. CASE n = m
    <3>1. vendor'[n].products = vendor[n].products /\ vendor'[n].status = status
      BY <1>0, <2>1, <2>2, <2>5
    <3>2. /\ vendor[n].status # "cancelled"
          /\ \/ status = "cancelled"
             \/ vendor[n].status = "posted"
             \/ vendor[n].status = "paid" /\ status = "shipped"
             \/ vendor[n].status = "shipped" /\ status = "delivered"
      BY <2>1, <2>5 DEF VendorSteps
    <3>3. ASSUME NEW s, Allows(vendor[n].status, s)
          PROVE  Allows(vendor'[n].status, s)
      BY <3>1, <3>2, <3>3, Ranks DEF Allows, Ranked
    <3> QED BY <2>3, <3>1, <3>3
  <2> QED BY <2>4, <2>5
<1>5. \/ UNCHANGED vendor
      \/ \E x : vendor' = Append(vendor, x)
      \/ \E m \in 1..Len(vendor), status \in PurchaseOrderStatus : VendorProceeds(m, status)
  BY DEF Next, vars, Administration, create_purchase_orders, repost, request_status_update, edit,
         PostingTime, UpdateTime, Posting, StartPosting, PostNext, VendorRefuses, VendorRetries,
         SkipNotYetDue, PlaceOrder, BreakPage, RecordPosting, MarkPendingFailed, Updating,
         StartUpdating, UpdateStatus, CommitUpdate, Crash
<1> QED BY <1>1, <1>3, <1>4, <1>5

\* Only an update is at work on statuses.
LEMMA NextJob ==
    ASSUME TInv, [Next]_vars
    PROVE  \/ UNCHANGED job
           \/ StartUpdating
           \/ \E p \in POs, n \in 1..Len(vendor) : UpdateStatus(p, n)
           \/ job'.pc # "updating"
<1>0. job.pc \in PostingPC => job \in PostingJob
  BY JobCases DEF TInv
<1>1. CASE Posting
  <2>1. CASE StartPosting \/ PostNext
    BY <2>1 DEF StartPosting, PostNext, Call
  <2>2. CASE VendorRefuses \/ RecordPosting
    <3> DEFINE goesOn == [job EXCEPT !.pc = "next", !.batch = job.batch \ {job.current}]
    <3>1. job \in PostingJob
      BY <1>0, <2>2 DEF VendorRefuses, RecordPosting, PostingPC
    <3>2. \/ job' = Idle
          \/ job' = goesOn
      BY <2>2 DEF VendorRefuses, RecordPosting, Settle
    <3>3. goesOn.pc = "next" /\ Idle.pc = "idle"
      BY <3>1 DEF PostingJob, Idle
    <3> HIDE DEF goesOn
    <3> QED BY <3>2, <3>3
  <2>3. CASE \/ VendorRetries \/ SkipNotYetDue \/ BreakPage
             \/ \E products \in SUBSET (Products \ Exempt) : PlaceOrder(products)
    <3>1. job \in PostingJob
      BY <1>0, <2>3 DEF VendorRetries, SkipNotYetDue, BreakPage, PlaceOrder, PostingPC
    <3>2. \/ job' = [job EXCEPT !.retries = job.retries - 1]
          \/ job' = [job EXCEPT !.pc = "returned"]
          \/ job' = [job EXCEPT !.pc = "broken"]
          \/ job' = [job EXCEPT !.pc = "returned", !.placed = Len(vendor) + 1]
      BY <2>3 DEF VendorRetries, SkipNotYetDue, BreakPage, PlaceOrder
    <3>3. job.pc # "updating"
      BY <3>1 DEF PostingJob
    <3>4. [job EXCEPT !.retries = job.retries - 1].pc = job.pc
      BY <3>1 DEF PostingJob
    <3>5. /\ [job EXCEPT !.pc = "returned"].pc = "returned"
          /\ [job EXCEPT !.pc = "broken"].pc = "broken"
          /\ [job EXCEPT !.pc = "returned", !.placed = Len(vendor) + 1].pc = "returned"
      BY <3>1 DEF PostingJob
    <3> QED BY <3>2, <3>3, <3>4, <3>5
  <2>4. CASE MarkPendingFailed
    BY <2>4 DEF MarkPendingFailed, Idle
  <2> QED BY <1>1, <2>1, <2>2, <2>3, <2>4 DEF Posting
<1>2. CASE Administration
  BY <1>2 DEF Administration, create_purchase_orders, repost, request_status_update, edit
<1>3. CASE Crash \/ CommitUpdate
  BY <1>3 DEF Crash, CommitUpdate, Idle
<1>4. ASSUME NEW n, NEW status, VendorProceeds(n, status) PROVE UNCHANGED job
  BY <1>4 DEF VendorProceeds
<1>5. CASE PostingTime \/ UpdateTime \/ UNCHANGED vars
  BY <1>5 DEF PostingTime, UpdateTime, vars
<1> QED BY <1>1, <1>2, <1>3, <1>4, <1>5 DEF Next, Updating

-----------------------------------------------------------------------------
(***************************************************************************)
(* Posted: nothing was bought for a row without a number, so that what is  *)
(* bought for a row with one is what its order has.                        *)
(***************************************************************************)
Once == Reposted = {} /\ Recreated = {} /\ Products # {}

BoughtByOrder(p) ==
    /\ po[p].vendorId \in 0..Len(vendor)
    /\ po[p].vendorId = 0 => bought[p] = {}
    /\ po[p].status = "posted" =>
           po[p].vendorId # 0 /\ vendor[po[p].vendorId].products = Products

UpdateNeverPosts ==
    job.pc = "updating" =>
        \A p \in POs : job.status[p] = "posted" => job.seen[p].status = "posted"

WInv == (\A p \in POs : BoughtByOrder(p)) /\ UpdateNeverPosts

\* An update reads no "posted" from the vendor.
LEMMA UpdateNeverPostsKept ==
    ASSUME TInv, UpdateNeverPosts, [Next]_vars
    PROVE  UpdateNeverPosts'
<1>1. CASE UNCHANGED job
  BY <1>1 DEF UpdateNeverPosts
<1>2. CASE StartUpdating
  BY <1>2 DEF StartUpdating, UpdateNeverPosts
<1>3. ASSUME NEW p \in POs, NEW n \in 1..Len(vendor), UpdateStatus(p, n)
      PROVE  UpdateNeverPosts'
  <2>1. job \in UpdatingJob /\ vendor[n].status # "posted"
    BY <1>3, JobCases DEF TInv, UpdateStatus
  <2>2. job' = [job EXCEPT !.status = [job.status EXCEPT ![p] = vendor[n].status]]
    BY <1>3 DEF UpdateStatus
  <2>3. /\ job.pc = "updating" /\ job'.seen = job.seen
        /\ job'.status = [job.status EXCEPT ![p] = vendor[n].status]
        /\ job.status \in [POs -> PurchaseOrderStatus \cup {"absent"}]
    BY <2>1, <2>2 DEF UpdatingJob
  <2> QED BY <2>1, <2>3 DEF UpdateNeverPosts
<1>4. CASE job'.pc # "updating"
  BY <1>4 DEF UpdateNeverPosts
<1>5. \/ UNCHANGED job
      \/ StartUpdating
      \/ \E p \in POs, n \in 1..Len(vendor) : UpdateStatus(p, n)
      \/ job'.pc # "updating"
  BY NextJob
<1> QED BY <1>1, <1>2, <1>3, <1>4, <1>5

\* Every step keeps what is bought with the order of the row.
LEMMA WholeStep ==
    ASSUME NotSetByHand, Once, TInv, UInv, WInv, [Next]_vars
    PROVE  WInv'
<1>1. UpdateNeverPosts'
  BY UpdateNeverPostsKept DEF WInv
<1>2. ASSUME NEW p \in POs PROVE BoughtByOrder(p)'
  <2>1. /\ BoughtByOrder(p) /\ RowStep(p) /\ vendor \in Seq(VendorOrder)
        /\ po \in [POs -> PORow \cup {Absent}] /\ bought \in [POs -> SUBSET Products]
    BY <1>2, EveryRowStep DEF WInv, TInv, TypeOK
  <2>2. \A n \in 1..Len(vendor) : n \in 1..Len(vendor') /\ vendor'[n].products = vendor[n].products
    BY VendorGoesOn DEF TInv
  <2>3. 0 \in 0..Len(vendor') /\ \A n \in 0..Len(vendor) : n = 0 \/ n \in 1..Len(vendor)
    <3>1. Len(vendor') \in Nat
      BY TypeStep DEF TInv, TypeOK
    <3> QED BY <2>1, <3>1
  <2>4. \A n \in 0..Len(vendor) : n \in 0..Len(vendor')
    BY <2>2, <2>3
  <2>5. ASSUME po'[p].vendorId = po[p].vendorId, bought'[p] = bought[p],
               po'[p].status = "posted" => po[p].status = "posted"
        PROVE  BoughtByOrder(p)'
    BY <2>1, <2>2, <2>3, <2>4, <2>5 DEF BoughtByOrder
  <2>6. CASE Kept(p)
    BY <2>5, <2>6 DEF Kept
  <2>7. CASE Reset(p)
    BY <2>1, <2>5, <2>7 DEF Reset, Once, MayBeReset, Absent
  <2>8. CASE Marked(p)
    BY <2>5, <2>8 DEF Marked, NotSetByHand
  <2>9. CASE RecordedNone(p)
    <3>1. bought[p] = {}
      BY <2>1, <2>9 DEF BoughtByOrder, RecordedNone
    <3>2. PostedStatus(bought[p]) = "failed"
      BY <3>1 DEF PostedStatus, Once
    <3> QED BY <2>5, <2>9, <3>2 DEF RecordedNone
  <2>10. CASE RecordedOrder(p)
    <3>1. bought[p] = {}
      BY <2>1, <2>10 DEF BoughtByOrder, RecordedOrder
    <3>2. /\ po'[p].vendorId \in 1..Len(vendor) /\ po'[p].vendorId # 0
          /\ bought'[p] = vendor[po'[p].vendorId].products
          /\ po'[p].status = PostedStatus(bought'[p])
      BY <2>10, <3>1 DEF RecordedOrder
    <3>3. po'[p].status = "posted" => bought'[p] = Products
      BY <3>2 DEF PostedStatus
    <3>4. /\ vendor'[po'[p].vendorId].products = vendor[po'[p].vendorId].products
          /\ po'[p].vendorId \in 0..Len(vendor')
      BY <2>2, <2>3, <2>4, <3>2
    <3> QED BY <3>2, <3>3, <3>4 DEF BoughtByOrder
  <2>11. CASE Updated(p)
    <3>1. po'[p].status = "posted" => po[p].status = "posted"
      BY <2>11 DEF Updated, Written, WInv, UpdateNeverPosts
    <3> QED BY <2>5, <2>11, <3>1 DEF Updated
  <2> QED BY <2>1, <2>6, <2>7, <2>8, <2>9, <2>10, <2>11 DEF RowStep
<1> QED BY <1>1, <1>2 DEF WInv

\* A purchase order that says posted was placed with all its products, whatever
\* breaks, if none is reposted or created again and nobody sets it to posted by hand.
THEOREM POPostedIsWhole ==
    ASSUME NotSetByHand, Once
    PROVE  Spec => []PostedIsWhole
<1>1. Init => TInv /\ UInv /\ WInv
  <2>1. Init => WInv
    BY DEF Init, WInv, BoughtByOrder, UpdateNeverPosts, Absent, Idle
  <2> QED BY <2>1, TypeInit, UnorderedInit
<1>2. TInv /\ UInv /\ WInv /\ [Next]_vars => (TInv /\ UInv /\ WInv)'
  BY TypeStep, UnorderedStep, WholeStep
<1>3. WInv => PostedIsWhole
  BY DEF WInv, BoughtByOrder, PostedIsWhole, Existing
<1> QED BY <1>1, <1>2, <1>3, PTL DEF Spec

-----------------------------------------------------------------------------
(***************************************************************************)
(* Paid, shipped and delivered: what an update has read of the vendor is   *)
(* still true when it is written, because the vendor never goes back, and  *)
(* it is written for the order it was read of, because only a reset takes  *)
(* a number away while an update is at work.                               *)
(***************************************************************************)
RankedNotSetByHand == EditedStatuses \cap Ranked = {}

Follows(p) ==
    /\ po[p].vendorId \in 0..Len(vendor)
    /\ po[p].status \in Ranked =>
           IF po[p].vendorId = 0 THEN MayBeReset(p)
           ELSE Allows(vendor[po[p].vendorId].status, po[p].status)

UpdateFollows ==
    job.pc = "updating" =>
        \A p \in POs :
            /\ job.status[p] # job.seen[p].status =>
                   /\ job.seen[p].vendorId \in 1..Len(vendor)
                   /\ Allows(vendor[job.seen[p].vendorId].status, job.status[p])
            /\ \/ po[p].vendorId = job.seen[p].vendorId
               \/ po[p].vendorId = 0 /\ MayBeReset(p)

FInv == (\A p \in POs : Follows(p)) /\ UpdateFollows

\* While an update is at work, a number only goes away: what was read of the vendor
\* stays true of the order that the row names.
LEMMA UpdateFollowsKept ==
    ASSUME NotSetByHand, TInv, UInv, UpdateFollows, [Next]_vars
    PROVE  UpdateFollows'
<1>0. /\ po \in [POs -> PORow \cup {Absent}] /\ vendor \in Seq(VendorOrder)
      /\ \A n \in 1..Len(vendor) :
             /\ n \in 1..Len(vendor')
             /\ \A s : Allows(vendor[n].status, s) => Allows(vendor'[n].status, s)
  BY VendorGoesOn DEF TInv, TypeOK
<1>1. CASE UNCHANGED job /\ job.pc = "updating"
  <2>1. ASSUME NEW p \in POs
        PROVE  po'[p].vendorId = po[p].vendorId \/ (po'[p].vendorId = 0 /\ MayBeReset(p))
    <3>1. RowStep(p)
      BY EveryRowStep
    <3> QED BY <1>1, <3>1 DEF RowStep, Kept, Reset, Marked, RecordedNone, RecordedOrder, Updated,
                              Absent
  <2> QED BY <1>0, <1>1, <2>1 DEF UpdateFollows
<1>2. CASE StartUpdating
  <2>1. /\ job'.seen = po /\ job'.status = [p \in POs |-> po[p].status]
        /\ job'.pc = "updating" /\ UNCHANGED <<po, vendor>>
    BY <1>2 DEF StartUpdating
  <2> QED BY <2>1 DEF UpdateFollows
<1>3. ASSUME NEW p \in POs, NEW n \in 1..Len(vendor), UpdateStatus(p, n)
      PROVE  UpdateFollows'
  <2>1. job \in UpdatingJob /\ job.pc = "updating" /\ UNCHANGED <<po, vendor>>
        /\ job.seen[p].vendorId = n
    BY <1>3, JobCases DEF TInv, UpdateStatus, Matches
  <2>2. job' = [job EXCEPT !.status = [job.status EXCEPT ![p] = vendor[n].status]]
    BY <1>3 DEF UpdateStatus
  <2>3. /\ job'.pc = "updating" /\ job'.seen = job.seen
        /\ job'.status = [job.status EXCEPT ![p] = vendor[n].status]
        /\ job.status \in [POs -> PurchaseOrderStatus \cup {"absent"}]
    BY <2>1, <2>2 DEF UpdatingJob
  <2>4. Allows(vendor[n].status, vendor[n].status)
    BY <1>0, Ranks DEF Allows, Ranked
  <2>6. ASSUME NEW q \in POs, job'.status[q] # job'.seen[q].status
        PROVE  /\ job'.seen[q].vendorId \in 1..Len(vendor')
               /\ Allows(vendor[job.seen[q].vendorId].status, job'.status[q])
    <3>1. CASE q = p
      BY <2>1, <2>3, <2>4, <3>1
    <3>2. CASE q # p
      BY <2>1, <2>3, <2>6, <3>2 DEF UpdateFollows
    <3> QED BY <3>1, <3>2
  <2> QED BY <2>1, <2>3, <2>6 DEF UpdateFollows, Allows
<1>4. CASE job'.pc # "updating"
  BY <1>4 DEF UpdateFollows
<1> QED BY <1>1, <1>2, <1>3, <1>4, NextJob

\* Every step keeps the statuses behind the vendor's orders.
LEMMA FollowsStep ==
    ASSUME NotSetByHand, RankedNotSetByHand, TInv, UInv, FInv, [Next]_vars
    PROVE  FInv'
<1>1. UpdateFollows'
  BY UpdateFollowsKept DEF FInv
<1>2. ASSUME NEW p \in POs PROVE Follows(p)'
  <2>1. /\ Follows(p) /\ RowStep(p) /\ vendor \in Seq(VendorOrder)
    BY <1>2, EveryRowStep DEF FInv, TInv, TypeOK
  <2>2. \A n \in 1..Len(vendor) :
            /\ n \in 1..Len(vendor')
            /\ \A s : Allows(vendor[n].status, s) => Allows(vendor'[n].status, s)
    BY VendorGoesOn DEF TInv
  <2>3. 0 \in 0..Len(vendor') /\ \A n \in 0..Len(vendor) : n = 0 \/ n \in 1..Len(vendor)
    <3>1. Len(vendor') \in Nat
      BY TypeStep DEF TInv, TypeOK
    <3> QED BY <2>1, <3>1
  <2>4. \A n \in 0..Len(vendor) : n \in 0..Len(vendor')
    BY <2>2, <2>3
  <2>5. ASSUME po'[p].vendorId = po[p].vendorId, po'[p].status \notin Ranked
        PROVE  Follows(p)'
    BY <2>1, <2>4, <2>5 DEF Follows
  <2>6. ASSUME po'[p].vendorId = po[p].vendorId, po'[p].status = po[p].status
        PROVE  Follows(p)'
    <3>1. CASE po[p].vendorId = 0
      BY <2>1, <2>4, <2>6, <3>1 DEF Follows, MayBeReset
    <3>2. CASE po[p].vendorId # 0
      <4> DEFINE n == po[p].vendorId
      <4>1. n \in 1..Len(vendor) /\ n \in 0..Len(vendor')
        BY <2>1, <2>3, <2>4, <3>2 DEF Follows
      <4>2. ASSUME po[p].status \in Ranked PROVE Allows(vendor'[n].status, po[p].status)
        BY <2>1, <2>2, <3>2, <4>1, <4>2 DEF Follows
      <4> QED BY <2>6, <3>2, <4>1, <4>2 DEF Follows, Allows
    <3> QED BY <3>1, <3>2
  <2>7. CASE Kept(p)
    BY <2>6, <2>7 DEF Kept
  <2>8. CASE Reset(p)
    BY <2>3, <2>8 DEF Reset, Follows, Ranked
  <2>9. CASE Marked(p)
    BY <2>5, <2>9 DEF Marked, RankedNotSetByHand, Ranked
  <2>10. CASE RecordedNone(p)
    BY <2>5, <2>6, <2>10 DEF RecordedNone, PostedStatus, Ranked
  <2>11. CASE RecordedOrder(p)
    BY <2>3, <2>4, <2>11 DEF RecordedOrder, Follows, Ranked
  <2>12. CASE Updated(p)
    <3>1. CASE job.status[p] = job.seen[p].status
      BY <2>6, <2>12, <3>1 DEF Updated, Written
    <3>2. CASE job.status[p] # job.seen[p].status
      <4>1. po'[p].status = job.status[p] /\ po'[p].vendorId = po[p].vendorId
        BY <2>12, <3>2 DEF Updated, Written
      <4>2. /\ job.seen[p].vendorId \in 1..Len(vendor)
            /\ Allows(vendor[job.seen[p].vendorId].status, job.status[p])
            /\ \/ po[p].vendorId = job.seen[p].vendorId
               \/ po[p].vendorId = 0 /\ MayBeReset(p)
        BY <2>12, <3>2 DEF FInv, UpdateFollows, Updated
      <4>3. CASE po[p].vendorId = 0 /\ MayBeReset(p)
        BY <2>3, <4>1, <4>3 DEF Follows, MayBeReset
      <4>4. CASE po[p].vendorId = job.seen[p].vendorId /\ po[p].vendorId # 0
        <5> DEFINE n == job.seen[p].vendorId
        <5>1. n \in 0..Len(vendor') /\ Allows(vendor'[n].status, job.status[p])
          <6>1. \A s : Allows(vendor[n].status, s) => Allows(vendor'[n].status, s)
            BY <2>2, <4>2
          <6> QED BY <2>1, <2>4, <4>2, <4>4, <6>1 DEF Follows
        <5> QED BY <4>1, <4>4, <5>1 DEF Follows, Allows
      <4>5. CASE po[p].vendorId = job.seen[p].vendorId /\ po[p].vendorId = 0
        BY <4>2, <4>5
      <4> QED BY <4>2, <4>3, <4>4, <4>5
    <3> QED BY <3>1, <3>2
  <2> QED BY <2>1, <2>7, <2>8, <2>9, <2>10, <2>11, <2>12 DEF RowStep
<1> QED BY <1>1, <1>2 DEF FInv

\* A purchase order is not said to be further than the vendor's order is, whatever
\* breaks, unless it was reset, if nobody sets it to paid, shipped or delivered by hand.
THEOREM POStatusFollowsVendor ==
    ASSUME NotSetByHand, RankedNotSetByHand
    PROVE  Spec => []StatusFollowsVendor
<1>1. Init => TInv /\ UInv /\ FInv
  <2>1. Init => FInv
    BY DEF Init, FInv, Follows, UpdateFollows, Absent, Idle, Ranked
  <2> QED BY <2>1, TypeInit, UnorderedInit
<1>2. TInv /\ UInv /\ FInv /\ [Next]_vars => (TInv /\ UInv /\ FInv)'
  BY TypeStep, UnorderedStep, FollowsStep
<1>3. ASSUME TInv, FInv PROVE StatusFollowsVendor
  <2>1. ASSUME NEW p \in Existing, Rank[po[p].status] > 0
        PROVE  IF po[p].vendorId = 0 THEN MayBeReset(p)
               ELSE Allows(vendor[po[p].vendorId].status, po[p].status) /\ po[p].status \in Ranked
    <3>1. p \in POs /\ po[p] \in PORow /\ Follows(p)
      BY <1>3, <2>1 DEF TInv, TypeOK, Existing, FInv
    <3>2. po[p].status \in Ranked
      BY <2>1, <3>1, Ranks DEF PORow
    <3> QED BY <3>1, <3>2 DEF Follows
  <2> QED BY <2>1 DEF StatusFollowsVendor, MayBeReset, Allows
<1> QED BY <1>1, <1>2, <1>3, PTL DEF Spec
==============================================================================

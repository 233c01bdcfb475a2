------------------------------ MODULE Invoicing -------------------------------
(***************************************************************************)
(* InvoicingService: the tax invoices of paid orders and the credit notes of *)
(* received returns, numbered in one series per financial year, and their    *)
(* PDFs.  generateInvoice and generateCreditNote differ in what they bill     *)
(* and in the name the PDF shows; both look for the document, look again      *)
(* inside the transaction, and only then take the lock of the series.         *)
(*                                                                          *)
(* Abstractions: a subject is an order or a return and has the year in which  *)
(* it was paid or received; amounts, identities and downloads are left out;   *)
(* the advisory lock and the row lock of a series are one.                    *)
(***************************************************************************)
EXTENDS Integers, FiniteSets, Functions, TLC

CONSTANTS
    Order, Return,
    Session, NoOne,
    Year,           \* financial years, 1..n
    MaxPuts         \* bound on the uploads of one document

Subject == Order \cup Return

VARIABLES
    year,       \* the financial year of today
    due,        \* Subject -> the year it is billed in (0: not paid, not received)
    last,       \* Year -> last_value of the series
    book,       \* <<year, number>> -> subject of every document, and whether it has its pdfS3Key
    object,     \* the object under the key of a document: uploads so far, name in the last one
    lock,       \* Year -> the session that holds the series
    job         \* Session -> the call under way

vars == <<year, due, last, book, object, lock, job>>

Idle == [pc |-> "idle"]
Go(w, j) == job' = [job EXCEPT ![w] = j]

(* The documents of a subject, by orderId and type, or by the marker CN:<returnId>. *)
Documents(s) == {d \in DOMAIN book : book[d].subject = s}

Init ==
    /\ year = 1
    /\ due = [s \in Subject |-> 0]
    /\ last = [y \in Year |-> 0]
    /\ book = <<>> /\ object = <<>>
    /\ lock = [y \in Year |-> NoOne]
    /\ job = [w \in Session |-> Idle]

(* An order is paid, a return received; the year ends. *)
BecomeDue(s) ==
    /\ due[s] = 0
    /\ due' = [due EXCEPT ![s] = year]
    /\ UNCHANGED <<year, last, book, object, lock, job>>

NewYear ==
    /\ year + 1 \in Year
    /\ year' = year + 1
    /\ UNCHANGED <<due, last, book, object, lock, job>>

-----------------------------------------------------------------------------
(* The document and its number. *)

(* The fast path renders a document without a PDF anew: with the buyer's name of an *)
(* invoice, with the marker that stands in its place in a credit note.               *)
FindExisting(w, s) ==
    /\ job[w].pc = "idle" /\ due[s] # 0
    /\ \E d \in Documents(s) :
        /\ ~book[d].pdf
        /\ Go(w, [pc |-> "put", doc |-> d, name |-> IF s \in Order THEN "buyer" ELSE "marker"])
    /\ UNCHANGED <<year, due, last, book, object, lock>>

FindNone(w, s) ==
    /\ job[w].pc = "idle" /\ due[s] # 0
    /\ Documents(s) = {}
    /\ Go(w, [pc |-> "begin", subject |-> s])
    /\ UNCHANGED <<year, due, last, book, object, lock>>

(* The transaction looks again, before it asks for the lock. *)
FindRaced(w) ==
    LET s == job[w].subject IN
    /\ job[w].pc = "begin"
    /\ \E d \in Documents(s) : Go(w, [pc |-> "read", doc |-> d])
    /\ UNCHANGED <<year, due, last, book, object, lock>>

FindStillNone(w) ==
    LET s == job[w].subject IN
    /\ job[w].pc = "begin" /\ Documents(s) = {}
    /\ Go(w, [pc |-> "lock", subject |-> s])
    /\ UNCHANGED <<year, due, last, book, object, lock>>

(* Faulty: the series is not locked. *)
NobodyWaits(y) == TRUE

SeriesFree(y) == lock[y] = NoOne

(* allocateNumber: the lock of the series, its row, the next number. *)
AllocateNumber(w) ==
    LET s == job[w].subject IN
    /\ job[w].pc = "lock" /\ SeriesFree(due[s])
    /\ lock' = [lock EXCEPT ![due[s]] = w]
    /\ Go(w, [pc |-> "issue", subject |-> s, no |-> last[due[s]] + 1])
    /\ UNCHANGED <<year, due, last, book, object>>

(* The document is created and the transaction commits, with the number it drew. *)
Issue(w) ==
    LET s == job[w].subject  y == due[s]  d == <<y, job[w].no>> IN
    /\ job[w].pc = "issue"
    /\ last' = [last EXCEPT ![y] = job[w].no]
    /\ book' = (d :> [subject |-> s, pdf |-> FALSE]) @@ book
    /\ object' = (d :> [puts |-> 0, name |-> "none"]) @@ object
    /\ lock' = [lock EXCEPT ![y] = NoOne]
    /\ Go(w, [pc |-> "read", doc |-> d])
    /\ UNCHANGED <<year, due>>

-----------------------------------------------------------------------------
(* ensurePdf of a document that was read back after its transaction.  A document that *)
(* has its key when it is read is returned; nothing is looked at again before the      *)
(* upload, nor before the key is written.                                               *)

ReadStored(w) ==
    /\ job[w].pc = "read" /\ book[job[w].doc].pdf
    /\ Go(w, Idle)
    /\ UNCHANGED <<year, due, last, book, object, lock>>

ReadUnstored(w) ==
    /\ job[w].pc = "read" /\ ~book[job[w].doc].pdf
    /\ Go(w, [pc |-> "put", doc |-> job[w].doc, name |-> "buyer"])
    /\ UNCHANGED <<year, due, last, book, object, lock>>

PutObject(w) ==
    LET j == job[w] IN
    /\ j.pc = "put" /\ object[j.doc].puts < MaxPuts
    /\ object' = [object EXCEPT ![j.doc] = [puts |-> @.puts + 1, name |-> j.name]]
    /\ Go(w, [pc |-> "patch", doc |-> j.doc])
    /\ UNCHANGED <<year, due, last, book, lock>>

PatchKey(w) ==
    /\ job[w].pc = "patch"
    /\ book' = [book EXCEPT ![job[w].doc].pdf = TRUE]
    /\ Go(w, Idle)
    /\ UNCHANGED <<year, due, last, object, lock>>

(* A transaction is rolled back, a render or an upload fails, the node dies. *)
Fail(w) ==
    /\ job[w].pc # "idle"
    /\ lock' = [y \in Year |-> IF lock[y] = w THEN NoOne ELSE lock[y]]
    /\ Go(w, Idle)
    /\ UNCHANGED <<year, due, last, book, object>>

Next ==
    \/ NewYear
    \/ \E s \in Subject : BecomeDue(s)
    \/ \E w \in Session :
        \/ \E s \in Subject : FindExisting(w, s) \/ FindNone(w, s)
        \/ FindRaced(w) \/ FindStillNone(w) \/ AllocateNumber(w) \/ Issue(w)
        \/ ReadStored(w) \/ ReadUnstored(w) \/ PutObject(w) \/ PatchKey(w) \/ Fail(w)

Spec == Init /\ [][Next]_vars

-----------------------------------------------------------------------------
(* Properties. *)

TypeOK ==
    /\ year \in Year /\ due \in [Subject -> Year \cup {0}] /\ last \in [Year -> Nat]
    /\ DOMAIN book \subseteq Year \X Nat /\ DOMAIN object = DOMAIN book
    /\ \A d \in DOMAIN book :
        /\ book[d] \in [subject : Subject, pdf : BOOLEAN]
        /\ object[d] \in [puts : 0..MaxPuts, name : {"none", "buyer", "marker"}]
    /\ lock \in [Year -> Session \cup {NoOne}]

(* "GAPLESS NUMBERING": the numbers of a year are 1, 2, ... up to the last, none lost by a *)
(* rollback, none given twice, whenever the documents of two years are issued.             *)
SeriesIsGapless ==
    \A y \in Year : {d \in DOMAIN book : d[1] = y} = {<<y, n>> : n \in 1..last[y]}

(* A document that was issued keeps its number and its subject. *)
IssuedForever ==
    [][\A d \in DOMAIN book : d \in DOMAIN book' /\ book'[d].subject = book[d].subject]_vars

(* "exactly one TAX_INVOICE per order", "exactly one CREDIT_NOTE per Return". *)
OneInvoicePerOrder == \A s \in Subject : Cardinality(Documents(s)) <= 1

(* "The human-readable buyer name is rendered into the PDF", not the dedupe marker. *)
PdfNamesBuyer == \A d \in DOMAIN book : object[d].name # "marker"

(* "we never launch a second PutObject to the same key" while one is in flight. *)
OnePutInFlight ==
    \A v, w \in Session :
        (job[v].pc = "patch" /\ job[w].pc = "patch" /\ job[v].doc = job[w].doc) => v = w

=============================================================================

------------------------------ MODULE Catalogue ------------------------------
(* The products of the shop and the import of the vendor's, every 8 hours    *)
(* (src/app/jobs.py, src/product_importer), while the administrator edits    *)
(* them (src/app/products/routes).                                           *)
(*                                                                           *)
(* The import takes minutes to ask the vendor and more to load the pictures: *)
(* it works on the rows as they were when it had its answers, and writes at  *)
(* its end the columns that it found different.  A worker runs one import at *)
(* a time.  A request of the administrator is one step.                      *)
EXTENDS Integers

CONSTANTS Products,
          Prices,
          Used,         \* products that are in orders
          AtFirst,      \* the rows at first
          VendorsFirst, \* what the vendor offers at first
          MaxChanges    \* bound on the changes by the administrator and the vendor

Absent == [absent |-> TRUE]

Offers == [price : Prices, available : BOOLEAN]
Rows == [price : Prices, available : BOOLEAN, synchronize : BOOLEAN]

VARIABLES rows,         \* the committed products
          vendor,       \* what the vendor offers
          import,       \* the import that is running
          edits,        \* number of changes
          told,         \* history: what the vendor told the last import that was committed
          saved,        \* history: products saved that the running import has not seen
          touched       \* history: products saved that the last import had not seen

cvars == <<rows, vendor, import, edits, told, saved, touched>>

NotRunning == [at |-> "idle", held |-> {}, seen |-> <<>>, got |-> <<>>]

Present(r) == {p \in Products : r[p] # Absent}

Init ==
    /\ rows = AtFirst /\ vendor = VendorsFirst
    /\ import = NotRunning /\ edits = 0
    /\ told = <<>> /\ saved = {} /\ touched = Products

-----------------------------------------------------------------------------
(* The import.                                                               *)

\* The products are loaded before the vendor is asked.
StartImport ==
    /\ import = NotRunning
    /\ import' = [NotRunning EXCEPT !.at = "asking", !.held = Present(rows)]
    /\ saved' = {}
    /\ UNCHANGED <<rows, vendor, edits, told, touched>>

\* A product whose options cannot be fetched is left out of the answer.
get_atomy_products ==
    {[p \in listed |-> vendor[p]] : listed \in SUBSET Present(vendor)}

\* With the answer the import begins a transaction of its own and reads the
\* products it holds anew.  An empty answer is "something went wrong", and a
\* product that has been deleted meanwhile cannot be read.
ReadAnswer ==
    /\ import.at = "asking"
    /\ \E got \in get_atomy_products :
          import' = IF DOMAIN got = {} \/ ~(import.held \subseteq Present(rows)) THEN NotRunning
                    ELSE [import EXCEPT !.at = "writing", !.seen = rows, !.got = got]
    /\ saved' = saved \ import.held
    /\ UNCHANGED <<rows, vendor, edits, told, touched>>

\* No token, no list or an empty one, no picture: the exception ends the task.
ImportFails ==
    /\ import # NotRunning
    /\ import' = NotRunning
    /\ UNCHANGED <<rows, vendor, edits, told, saved, touched>>

\* A column is written if the import found it different.
Column(seen, new, now) == IF seen = new THEN now ELSE new

Synchronized(p) == p \in import.held /\ import.seen[p].synchronize
Listed(p) == p \in DOMAIN import.got

\* A product of the vendor's: brought up to date.
Updated(p) ==
    LET s == import.seen[p]
        v == import.got[p]
    IN  [rows[p] EXCEPT !.price = Column(s.price, v.price, @),
                        !.available = Column(s.available, v.available, @)]

\* One the vendor does not have, or any more: disabled.
Disabled(p) == [rows[p] EXCEPT !.available = Column(import.seen[p].available, FALSE, @)]

Added(p) == [price |-> import.got[p].price, available |-> import.got[p].available,
             synchronize |-> TRUE]

\* A plausible mistake: what the vendor has no more is left as it is.
WithoutDisabling(p) ==
    CASE Synchronized(p) /\ Listed(p) -> Updated(p)
      [] p \notin import.held /\ Listed(p) -> Added(p)
      [] OTHER -> rows[p]

\* What becomes of a row.
Imported(p) ==
    CASE Synchronized(p) /\ Listed(p) -> Updated(p)
      [] Synchronized(p) /\ ~Listed(p) -> Disabled(p)
      [] p \notin import.held /\ Listed(p) -> Added(p)
      [] OTHER -> rows[p]

\* The row has to be written.
Differs(p) ==
    LET s == import.seen[p]
    IN  IF Listed(p) THEN <<s.price, s.available>> # <<import.got[p].price, import.got[p].available>>
        ELSE s.available

\* A row to write has gone, or a row to add is there: the database refuses, and
\* the whole import is lost.
Conflict ==
    \/ \E p \in import.held \ Present(rows) : Synchronized(p) /\ Differs(p)
    \/ \E p \in DOMAIN import.got \ import.held : rows[p] # Absent

CommitImport ==
    /\ import.at = "writing" /\ ~Conflict
    /\ rows' = [p \in Products |->
                   IF p \in import.held \ Present(rows) THEN Absent ELSE Imported(p)]
    /\ told' = import.got /\ touched' = saved
    /\ import' = NotRunning
    /\ UNCHANGED <<vendor, edits, saved>>

LoseImport ==
    /\ import.at = "writing" /\ Conflict
    /\ import' = NotRunning
    /\ UNCHANGED <<rows, vendor, edits, told, saved, touched>>

-----------------------------------------------------------------------------
(* The administrator and the vendor.                                         *)

Edit == edits < MaxChanges /\ edits' = edits + 1

save_product(p) ==
    /\ Edit
    /\ \E r \in Rows \ {rows[p]} : rows' = [rows EXCEPT ![p] = r]
    /\ saved' = saved \cup {p} /\ touched' = touched \cup {p}
    /\ UNCHANGED <<vendor, import, told>>

\* "Can't delete product {product_id} as it's used in some orders".
delete_product(p) ==
    /\ Edit
    /\ rows[p] # Absent /\ p \notin Used
    /\ rows' = [rows EXCEPT ![p] = Absent]
    /\ UNCHANGED <<vendor, import, told, saved, touched>>

VendorChanges(p) ==
    /\ Edit
    /\ \E o \in (Offers \cup {Absent}) \ {vendor[p]} : vendor' = [vendor EXCEPT ![p] = o]
    /\ UNCHANGED <<rows, import, told, saved, touched>>

Next ==
    \/ StartImport \/ ReadAnswer \/ ImportFails \/ CommitImport \/ LoseImport
    \/ \E p \in Products : save_product(p) \/ delete_product(p) \/ VendorChanges(p)

Spec == Init /\ [][Next]_cvars

-----------------------------------------------------------------------------
(* Properties.                                                               *)

TypeOK ==
    /\ rows \in [Products -> Rows \cup {Absent}]
    /\ vendor \in [Products -> Offers \cup {Absent}]
    /\ import.at \in {"idle", "asking", "writing"} /\ import.held \subseteq Products
    /\ edits \in 0 .. MaxChanges
    /\ DOMAIN told \subseteq Products /\ saved \subseteq Products /\ touched \subseteq Products

\* After an import a product that is synchronised is as the vendor told it, and
\* not offered if the vendor did not tell of it, unless the administrator saved
\* it after the import had read it, or created it after the import had begun
\* (import_products).  Neither a product that was created or deleted meanwhile
\* nor an import that is lost leaves one half written.
SyncedIsAsTold ==
    \A p \in Present(rows) \ touched :
        rows[p].synchronize =>
            IF p \in DOMAIN told
            THEN rows[p].price = told[p].price /\ rows[p].available = told[p].available
            ELSE ~rows[p].available

==============================================================================

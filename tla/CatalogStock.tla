---------------------------- MODULE CatalogStock ----------------------------
(***************************************************************************)
(* The stock of one product between the checkout, which reserves, sells    *)
(* and restores in transactions (inventory.service), and the staff, who    *)
(* edit the product with a read and a later save (catalog.service,         *)
(* updateProduct).  A save writes the paths the edit changed: one field of *)
(* the default variant, or the whole array of variants, in which case it   *)
(* carries the reservations it read.  The pre-validate hook of the model   *)
(* recomputes availableStock from the document at hand.                    *)
(*                                                                         *)
(* Quantities are one unit; prices, SKUs and images do not matter here.    *)
(***************************************************************************)
EXTENDS Integers, FiniteSets, FiniteSetsExt

CONSTANTS
    Variant,     \* the variants the product ever has
    FirstOnes,   \* those it is created with
    MaxStock,    \* bounds what staff enter as stock
    Editor,      \* bounds the edits in flight
    MaxHolds,    \* bounds the units held at a time
    MaxSaves     \* bounds the edits ever begun

ASSUME CatalogAssumption ==
    /\ FirstOnes \subseteq Variant /\ FirstOnes # {}
    /\ MaxStock \in Nat /\ MaxHolds \in Nat /\ MaxSaves \in Nat

VARIABLES
    variants,    \* Product.variants: stock, reservedStock, isActive
    available,   \* Product.availableStock
    version,     \* Product.__v
    editing,     \* edits between the read and the save
    held,        \* the units that checkouts hold of each variant
    saves,       \* how many edits began
    raced,       \* history: the stock moved between the read and the save of
                 \* an edit that wrote it
    clobbered    \* history: a save wrote the variants with reservations that
                 \* were no longer true, or the clearing script ran

catalogVars == <<variants, available, version, editing, held, saves, raced, clobbered>>

NoVariant == [stock |-> 0, reserved |-> 0, active |-> FALSE, known |-> FALSE]
Variants == [Variant -> [stock : Nat, reserved : Nat, active : BOOLEAN, known : BOOLEAN]]

CatalogTypeOK ==
    /\ variants \in Variants /\ available \in Nat /\ version \in 0..MaxSaves + 1
    /\ editing \subseteq [editor : Editor, read : Variants, available : Nat, version : 0..MaxSaves + 1]
    /\ held \in [Variant -> Nat] /\ saves \in 0..MaxSaves
    /\ raced \in BOOLEAN /\ clobbered \in BOOLEAN

\* syncDefaultVariant: active variants only, each at least nothing.
Net(v) == IF v.stock > v.reserved THEN v.stock - v.reserved ELSE 0
AvailableOf(vs) == MapThenSumSet(LAMBDA v : Net(vs[v]), {v \in Variant : vs[v].active})

CatalogInit ==
    /\ variants = [v \in Variant |->
          IF v \in FirstOnes THEN [stock |-> MaxStock, reserved |-> 0, active |-> TRUE, known |-> TRUE]
                             ELSE NoVariant]
    /\ available = AvailableOf(variants)
    /\ version = 0 /\ editing = {} /\ held = [v \in Variant |-> 0] /\ saves = 0
    /\ raced = FALSE /\ clobbered = FALSE

-----------------------------------------------------------------------------
(* inventory.service: load, change one variant, save; a transaction *)

Mutate(v, stockDelta, reservedDelta) ==
    /\ variants' = [variants EXCEPT ![v].stock = @ + stockDelta, ![v].reserved = @ + reservedDelta]
    /\ available' = AvailableOf(variants')
    /\ UNCHANGED <<version, editing, saves, raced, clobbered>>

ReserveUnit(v) ==
    /\ variants[v].active /\ Net(variants[v]) > 0
    /\ MapThenSumSet(LAMBDA u : held[u], Variant) < MaxHolds
    /\ held' = [held EXCEPT ![v] = @ + 1]
    /\ Mutate(v, 0, 1)

\* A variant that is no longer active still takes back what was held of it.
ReleaseUnit(v) ==
    /\ held[v] > 0 /\ variants[v].reserved > 0
    /\ held' = [held EXCEPT ![v] = @ - 1]
    /\ Mutate(v, 0, -1)

ConsumeUnit(v) ==
    /\ held[v] > 0 /\ variants[v].reserved > 0 /\ variants[v].stock > 0
    /\ held' = [held EXCEPT ![v] = @ - 1]
    /\ Mutate(v, -1, -1)

SellUnit(v) ==
    /\ variants[v].active /\ Net(variants[v]) > 0
    /\ UNCHANGED held /\ Mutate(v, -1, 0)

RestoreUnit(v) ==
    /\ variants[v].known /\ variants[v].stock < MaxStock
    /\ UNCHANGED held /\ Mutate(v, 1, 0)

-----------------------------------------------------------------------------
(* updateProduct *)

ReadProduct(w) ==
    /\ saves < MaxSaves /\ saves' = saves + 1
    /\ \A e \in editing : e.editor # w
    /\ editing' = editing \union {[editor |-> w, read |-> variants, available |-> available,
                                   version |-> version]}
    /\ UNCHANGED <<variants, available, version, held, raced, clobbered>>

\* defaultVariantIndex: which active variant it is does not matter here.
DefaultVariants(vs) ==
    LET active == {v \in Variant : vs[v].active} IN
    IF active = {} THEN {v \in Variant : vs[v].known} ELSE active

\* Mutant of SavedAvailable: the sum is written whether it changed or not.
RecomputedAvailable(e, vs) == AvailableOf(vs)
\* Paths that still have the value that was read are not written.
SavedAvailable(e, vs) ==
    IF AvailableOf(vs) = e.available THEN available ELSE AvailableOf(vs)

\* A payload without variants: the price, or the stock, of the default one.
\* Writing below variants, mongoose checks the version it read.
\* reservedDoesNotExceedStock checks the document that was read.
SaveDefault(e) ==
    /\ \E v \in DefaultVariants(e.read), n \in 0..MaxStock :
          LET saved == [e.read EXCEPT ![v].stock = n] IN
          /\ n >= e.read[v].reserved /\ e.version = version
          /\ variants' = IF n = e.read[v].stock THEN variants
                         ELSE [variants EXCEPT ![v].stock = n]
          /\ available' = SavedAvailable(e, saved)
          /\ raced' = (raced \/ (n # e.read[v].stock /\ variants # e.read))
    /\ editing' = editing \ {e}
    /\ UNCHANGED <<version, held, saves, clobbered>>

\* Mutant of KeptReservation: the payload is trusted to be a whole variant.
PayloadReservation(e, v) == 0
\* prepareProductUpdateSkus: what is reserved of a variant stays reserved.
KeptReservation(e, v) == e.read[v].reserved

\* A payload with variants: those it leaves out are retired, new ones join.
\* Writing the array, mongoose also increments the version.
Edited(e, incoming, n) == [v \in Variant |->
    IF v \in incoming
    THEN [stock |-> n[v], reserved |-> KeptReservation(e, v), active |-> TRUE, known |-> TRUE]
    ELSE [e.read[v] EXCEPT !.active = FALSE]]

SaveVariants(e) ==
    /\ \E incoming \in SUBSET Variant \ {{}} :
       \E n \in [incoming -> {0, MaxStock}] :
          LET saved == Edited(e, incoming, n) IN
          /\ \A v \in incoming : n[v] >= e.read[v].reserved
          /\ e.version = version
          /\ variants' = saved /\ version' = version + 1
          /\ available' = SavedAvailable(e, saved)
          /\ raced' = (raced \/ variants # e.read)
          /\ clobbered' = (clobbered \/ \E v \in Variant : variants[v].reserved # e.read[v].reserved)
    /\ editing' = editing \ {e}
    /\ UNCHANGED <<held, saves>>

\* Refused by a validator or the version, or gone.
EditFails(e) ==
    /\ editing' = editing \ {e}
    /\ UNCHANGED <<variants, available, version, held, saves, raced, clobbered>>

\* scripts/clear-product-reservations.js, which asks for no maintenance mode.
ClearReservations ==
    /\ ~clobbered /\ clobbered' = TRUE
    /\ variants' = [v \in Variant |-> [variants[v] EXCEPT !.reserved = 0]]
    /\ available' = AvailableOf(variants')
    /\ version' = version + 1
    /\ UNCHANGED <<editing, held, saves, raced>>

CatalogNext ==
    \/ \E v \in Variant : \/ ReserveUnit(v) \/ ReleaseUnit(v) \/ ConsumeUnit(v)
                          \/ SellUnit(v) \/ RestoreUnit(v)
    \/ \E w \in Editor : ReadProduct(w)
    \/ \E e \in editing : SaveDefault(e) \/ SaveVariants(e) \/ EditFails(e)
    \/ ClearReservations

CatalogSpec == CatalogInit /\ [][CatalogNext]_catalogVars

-----------------------------------------------------------------------------
\* Every variant has as much reserved as checkouts hold of it, however staff
\* edit, retire and revive variants, unless a save replaced the variants after
\* a reservation it had not read (or the clearing script ran).
ReservationsKept == ~clobbered => \A v \in Variant : variants[v].reserved = held[v]

\* The stock customers are shown, availableStock, is what can be reserved,
\* unless an edit of the stock overlapped a change of it.
AvailableIsNet == ~raced => available = AvailableOf(variants)

=============================================================================

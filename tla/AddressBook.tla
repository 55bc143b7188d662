---------------------------- MODULE AddressBook -----------------------------
(***************************************************************************)
(* The saved addresses of one customer (address.service): documents of     *)
(* their own, at most one of them the default, and a list of references in *)
(* the User document.  No handler uses a transaction, so two devices of    *)
(* the customer interleave between the writes.  Addresses are numbered in  *)
(* the order of createdAt; where an address is does not matter here (an    *)
(* address out of reach is refused before anything is written).            *)
(***************************************************************************)
EXTENDS Integers, FiniteSets

CONSTANTS
    MaxAddresses,  \* bounds the addresses ever created
    Device         \* bounds the calls in flight

ASSUME AddressAssumption == MaxAddresses \in Nat

VARIABLES
    made,        \* how many addresses were ever created
    book,        \* the Address documents
    defaults,    \* those with isDefault
    listed,      \* User.addresses
    errands,     \* calls in flight
    overlapped,  \* history: a call began while another was in flight
    dropped      \* history: a call was lost to a crash

addressVars == <<made, book, defaults, listed, errands, overlapped, dropped>>

Address == 1..MaxAddresses
Nowhere == 0
Errand == [device : Device, address : Address \union {Nowhere}, isDefault : BOOLEAN,
           pc : {"clear", "insert", "list", "clear_others", "write", "clear_all", "choose",
                 "unlist", "next", "promote"}]

AddressTypeOK ==
    /\ made \in 0..MaxAddresses
    /\ book \subseteq 1..made /\ defaults \subseteq book /\ listed \subseteq 1..made
    /\ errands \subseteq Errand
    /\ overlapped \in BOOLEAN /\ dropped \in BOOLEAN

AddressInit ==
    /\ made = 0 /\ book = {} /\ defaults = {} /\ listed = {} /\ errands = {}
    /\ overlapped = FALSE /\ dropped = FALSE

-----------------------------------------------------------------------------
Sets(d, pc, a, isDefault) ==
    /\ \A e \in errands : e.device # d
    /\ errands' = errands \union {[device |-> d, address |-> a, isDefault |-> isDefault, pc |-> pc]}
    /\ overlapped' = (overlapped \/ errands # {})
Goes(e, pc, a) ==
    /\ errands' = (errands \ {e}) \union {[e EXCEPT !.pc = pc, !.address = a]}
    /\ UNCHANGED overlapped
Returned(e) == errands' = errands \ {e} /\ UNCHANGED overlapped

\* createAddress: the first address is the default.
CreateAddress(d, wanted) ==
    LET isDefault == book = {} \/ wanted IN
    /\ Sets(d, IF isDefault THEN "clear" ELSE "insert", Nowhere, isDefault)
    /\ UNCHANGED <<made, book, defaults, listed, dropped>>

InsertAddress(e) ==
    /\ e.pc = "insert" /\ made < MaxAddresses
    /\ made' = made + 1 /\ book' = book \union {made'}
    /\ defaults' = IF e.isDefault THEN defaults \union {made'} ELSE defaults
    /\ Goes(e, "list", made')
    /\ UNCHANGED <<listed, dropped>>

\* Mutant of ListAddress: the list is rebuilt from the documents read before.
ListAddressRead(e) ==
    /\ e.pc = "list" /\ listed' = {a \in book : a <= e.address} /\ Returned(e)
    /\ UNCHANGED <<made, book, defaults, dropped>>

\* $addToSet
ListAddress(e) ==
    /\ e.pc = "list" /\ listed' = listed \union {e.address} /\ Returned(e)
    /\ UNCHANGED <<made, book, defaults, dropped>>

\* updateAddress
UpdateAddress(d, a, wanted) ==
    LET isDefault == wanted \/ a \in defaults IN
    /\ a \in book
    /\ Sets(d, IF isDefault THEN "clear_others" ELSE "write", a, isDefault)
    /\ UNCHANGED <<made, book, defaults, listed, dropped>>

WriteAddress(e) ==
    /\ e.pc = "write"
    /\ defaults' = IF e.isDefault THEN defaults \union (book \intersect {e.address})
                                  ELSE defaults \ {e.address}
    /\ Returned(e)
    /\ UNCHANGED <<made, book, listed, dropped>>

\* setDefaultAddress
SetDefaultAddress(d, a) ==
    /\ a \in book
    /\ Sets(d, "clear_all", a, a \in defaults)
    /\ UNCHANGED <<made, book, defaults, listed, dropped>>

\* save() writes what differs from the document as it was read: nothing, for
\* an address that was the default already.
ChooseDefault(e) ==
    /\ e.pc = "choose"
    /\ defaults' = IF e.isDefault THEN defaults ELSE defaults \union (book \intersect {e.address})
    /\ Returned(e)
    /\ UNCHANGED <<made, book, listed, dropped>>

\* updateMany of the three handlers
Cleared(e) == IF e.pc = "clear_others" THEN defaults \intersect {e.address} ELSE {}
AfterClearing == [clear |-> "insert", clear_others |-> "write", clear_all |-> "choose"]

ClearDefaults(e) ==
    /\ e.pc \in DOMAIN AfterClearing
    /\ defaults' = Cleared(e)
    /\ Goes(e, AfterClearing[e.pc], e.address)
    /\ UNCHANGED <<made, book, listed, dropped>>

\* deleteAddress: the document, the reference, the next default.
DeleteAddress(d, a) ==
    /\ a \in book /\ book' = book \ {a} /\ defaults' = defaults \ {a}
    /\ Sets(d, "unlist", a, a \in defaults)
    /\ UNCHANGED <<made, listed, dropped>>

UnlistAddress(e) ==
    /\ e.pc = "unlist" /\ listed' = listed \ {e.address}
    /\ IF e.isDefault THEN Goes(e, "next", Nowhere) ELSE Returned(e)
    /\ UNCHANGED <<made, book, defaults, dropped>>

\* The oldest address, if there is one; one that is default already is not saved.
FindNext(e) ==
    /\ e.pc = "next"
    /\ \/ book = {} /\ Returned(e)
       \/ \E a \in book :
             /\ \A b \in book : a <= b
             /\ IF a \in defaults THEN Returned(e) ELSE Goes(e, "promote", a)
    /\ UNCHANGED <<made, book, defaults, listed, dropped>>

PromoteNext(e) ==
    /\ e.pc = "promote"
    /\ defaults' = defaults \union (book \intersect {e.address})
    /\ Returned(e)
    /\ UNCHANGED <<made, book, listed, dropped>>

DeviceLost(e) ==
    /\ dropped' = TRUE /\ Returned(e)
    /\ UNCHANGED <<made, book, defaults, listed>>

AddressNext ==
    \/ \E d \in Device, wanted \in BOOLEAN :
          CreateAddress(d, wanted) \/ \E a \in book : UpdateAddress(d, a, wanted)
    \/ \E d \in Device, a \in book : SetDefaultAddress(d, a) \/ DeleteAddress(d, a)
    \/ \E e \in errands :
          \/ InsertAddress(e) \/ ListAddress(e) \/ WriteAddress(e) \/ ChooseDefault(e)
          \/ ClearDefaults(e) \/ UnlistAddress(e) \/ FindNext(e) \/ PromoteNext(e)
          \/ DeviceLost(e)

AddressSpec == AddressInit /\ [][AddressNext]_addressVars

-----------------------------------------------------------------------------
\* An address is in the customer's list for as long as it exists, whatever
\* other devices write at the same time, and calls that do not overlap never
\* leave two defaults, however they follow each other (a crash excepted).
AddressesConsistent ==
    ~dropped =>
        /\ \A a \in book : a \in listed \/ \E e \in errands : e.pc = "list" /\ e.address = a
        /\ ~overlapped => Cardinality(defaults) <= 1

=============================================================================

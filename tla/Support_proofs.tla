--------------------------- MODULE Support_proofs ---------------------------
(***************************************************************************)
(* The support desk, for any orders, tickets, clerks and calls that die: a *)
(* ticket, its order and its refund agree once no call is under way, one   *)
(* ticket of an order is active at a time, and rejections block a customer.*)
(***************************************************************************)
EXTENDS SupportTickets, TLAPS

-----------------------------------------------------------------------------
(* The inductive invariant *)

Refunding == {"processing", "refund_pending", "refund_failed"}
SyncPcs == {"sync_order", "mention", "sync_ticket"}
ApprovalPcs == {"read", "order", "queue"}
EnginePcs == {"order", "queue", "refund", "save", "error_ticket", "error_order"} \union SyncPcs
Approved == Refunding \union {"refunded", "cod_refund_approved"}

\* A call and the documents it works on belong together.
OwnTicket(c) ==
    c.pc \in {"read", "cod_ticket", "order", "queue", "save", "error_ticket"} \/ c.then # "end" =>
        c.ticket \in Ticket /\ ticket[c.ticket].order = c.order /\ ticket[c.ticket].status \in Approved
CallFits(c) ==
    /\ c.pc \in {"cod_ticket", "cod_order"} => c.order \in cash
    /\ c.pc \in EnginePcs \/ c.id > 0 => c.order \in Online
    /\ OwnTicket(c)
    /\ c.pc \in {"read", "cod_ticket", "order", "queue"} => c.then = "save"
    /\ c.pc \in ApprovalPcs => c.status # "refunded"
    /\ c.pc = "queue" => payment[c.order] # "paid"
    /\ c.pc = "queue" /\ c.settled => c.order \in interrupted
    /\ c.pc \in SyncPcs \union {"save"} /\ c.status = "refunded" => intent[c.order] = "refunded"

TicketFits(t) ==
    /\ ticket[t].status = "none" <=> ticket[t].order = "none"
    /\ ticket[t].status = "cod_refund_approved" => ticket[t].order \in cash
    /\ ticket[t].status \in ActiveStatus /\ ticket[t].order \notin interrupted => ticket[t].keyed
    /\ ticket[t].status = "refunded" => /\ ticket[t].order \in Online /\ ~ticket[t].keyed
                                        /\ intent[ticket[t].order] = "refunded"

OneKey ==
    \A s, t \in Ticket :
        (ticket[s].keyed /\ ticket[t].keyed /\ ticket[s].order = ticket[t].order) => s = t

BlockComes ==
    customer.rejected > RejectionsAllowed /\ interrupted = {} =>
        customer.codDisabled \/ \E c \in clerks : c.pc = "block"

\* What an online order's documents say of each other at any time.
Announced(o) == \E n \in notices : n[1] = o /\ n[3] = "refunded"
OrderFits(o) ==
    /\ payment[o] # "cod_refund_approved"
    /\ payment[o] = "refunded" => intent[o] = "refunded"
    /\ refund[o].state = "processed" => intent[o] = "refunded" \/ Announced(o)
    /\ \A m \in mentions : m[1] = o /\ m[3] = "refunded" => intent[o] = "refunded"
    /\ o \in bySupport => payment[o] # "paid"

\* A refund that is under way, or was tried, is an approval's.
OnBehalf(o) ==
    \/ intent[o] \in {"refund_pending", "refund_failed"}
    \/ refund[o].state \in {"pending", "failed"}
    \/ \E c \in clerks : c.order = o /\ c.pc = "refund"
    \/ \E n \in notices : n[1] = o /\ n[3] # "refunded"

TicketOf(t, o) == ticket[t].order = o /\ ticket[t].status \in Refunding
Approves(c, t) ==
    /\ c.ticket = t /\ c.then = "save"
    /\ c.pc \in ApprovalPcs \union {"refund"} \union SyncPcs \/ (c.pc = "save" /\ c.status = "refunded")
Delivers(c) ==
    /\ c.status = "refunded"
    /\ \/ c.pc \in {"mention", "sync_ticket"}
       \/ c.pc = "sync_order" /\ EventKey(c) \notin mentions /\ payment[c.order] \in Mutable

\* A refunded intent is followed by the order ...
PaymentFollows(o) ==
    \/ payment[o] = "refunded"
    \/ \E c \in clerks : /\ c.order = o
                         /\ \/ c.pc = "queue"
                            \/ c.pc = "sync_order" /\ c.status = "refunded" /\ EventKey(c) \notin mentions
\* ... and by each of its approved tickets.
TicketFollows(t, o) ==
    \/ \E c \in clerks : c.order = o /\ Approves(c, t)
    \/ /\ o \in bySupport
       /\ \A c \in clerks : c.order = o /\ c.pc \in ApprovalPcs => c.ticket = t
       /\ \E c \in clerks : c.order = o /\ Delivers(c)
Requested(t, o) == o \in bySupport \/ \E c \in clerks : c.order = o /\ c.ticket = t /\ c.pc \in ApprovalPcs

OrderFollows(o) ==
    /\ OnBehalf(o) => o \in bySupport
    /\ \A t \in Ticket : TicketOf(t, o) => Requested(t, o)
    /\ intent[o] = "refunded" =>
          PaymentFollows(o) /\ \A t \in Ticket : TicketOf(t, o) => TicketFollows(t, o)

CallsFit == \A c \in clerks : CallFits(c)
TicketsFit == \A t \in Ticket : TicketFits(t)
NoticesFit == \A n \in notices : n[1] \in Online
OrdersFit == \A o \in Online : OrderFits(o)
OrdersFollow == \A o \in Online \ interrupted : OrderFollows(o)

SupportInv ==
    /\ SupportTypeOK /\ CallsFit /\ TicketsFit /\ OneKey /\ BlockComes
    /\ NoticesFit /\ OrdersFit /\ OrdersFollow

-----------------------------------------------------------------------------
(* Calls *)

Pcs == {"create", "read", "cod_ticket", "cod_order", "order", "queue", "refund", "sync_order",
        "mention", "sync_ticket", "save", "error_ticket", "error_order", "count", "block"}

LEMMA CallTypes ==
    ASSUME NEW c \in TicketCall
    PROVE  /\ c.order \in Delivered /\ c.ticket \in Ticket \union {"none"} /\ c.pc \in Pcs
           /\ c.then \in {"end", "save", "error_ticket"} /\ c.id \in 0..MaxAttempts
           /\ c.status \in RefundStatus /\ c.settled \in BOOLEAN
BY DEF TicketCall, Pcs

\* d is what has become of the call c.
Same(c, d) == d.clerk = c.clerk /\ d.order = c.order /\ d.ticket = c.ticket
Turns(c, d) == d \in TicketCall /\ Same(c, d) /\ clerks' = (clerks \ {c}) \union {d}

LEMMA Going ==
    ASSUME NEW c \in TicketCall, NEW pc \in Pcs, GoesTo(c, pc)
    PROVE  \E d : /\ Turns(c, d) /\ d.pc = pc /\ d.then = c.then
                  /\ d.id = c.id /\ d.status = c.status /\ d.settled = c.settled
<1> DEFINE d == [c EXCEPT !.pc = pc]
<1>1. d \in TicketCall
  BY DEF TicketCall, Pcs
<1>2. Same(c, d) /\ d.pc = pc /\ d.then = c.then /\ d.id = c.id /\ d.status = c.status /\ d.settled = c.settled
  BY DEF TicketCall, Same
<1>3. clerks' = (clerks \ {c}) \union {d}
  BY DEF GoesTo, Becomes
<1> HIDE DEF d
<1> QED
  BY <1>1, <1>2, <1>3 DEF Turns

LEMMA Returning ==
    ASSUME NEW c \in TicketCall, intent'[c.order] \in {"consumed"} \union RefundStatus, Returns(c)
    PROVE  \/ c.then = "end" /\ clerks' = clerks \ {c}
           \/ \E d : /\ c.then # "end" /\ Turns(c, d) /\ d.pc = c.then /\ d.then = c.then
                     /\ d.id = c.id /\ d.settled = c.settled
                     /\ d.status = "refunded" <=> intent'[c.order] = "refunded"
<1> DEFINE i == intent'[c.order]
<1> DEFINE d == [c EXCEPT !.pc = c.then, !.status = IF i = "consumed" THEN "refund_pending" ELSE i]
<1>1. CASE c.then = "end"
  BY <1>1 DEF Returns, Leaves
<1>2. CASE c.then # "end"
  <2>1. clerks' = (clerks \ {c}) \union {d}
    BY <1>2 DEF Returns, Becomes
  <2> HIDE DEF i
  <2>2. d \in TicketCall
    BY <1>2 DEF TicketCall, RefundStatus, i
  <2>3. Same(c, d) /\ d.pc = c.then /\ d.then = c.then /\ d.id = c.id /\ d.settled = c.settled
    BY DEF TicketCall, Same
  <2>4. d.status = "refunded" <=> i = "refunded"
    BY DEF TicketCall
  <2> HIDE DEF d
  <2> QED
    BY <1>2, <2>1, <2>2, <2>3, <2>4 DEF Turns, i
<1> QED
  BY <1>1, <1>2

LEMMA Calling ==
    ASSUME NEW w \in Clerk, NEW o \in Delivered, NEW t \in Ticket \union {"none"}, NEW pc \in Pcs,
           NEW then \in {"end", "save"}, Takes(w, CallAt(w, o, t, pc, then))
    PROVE  \E d : /\ d \in TicketCall /\ d.order = o /\ d.ticket = t /\ d.pc = pc /\ d.then = then
                  /\ d.id = 0 /\ d.status = "refund_pending" /\ ~d.settled
                  /\ clerks' = clerks \union {d}
<1> DEFINE d == CallAt(w, o, t, pc, then)
<1>1. d \in TicketCall
  BY SupportAssumption DEF TicketCall, Pcs, CallAt, RefundStatus
<1>2. d.order = o /\ d.ticket = t /\ d.pc = pc /\ d.then = then /\ d.id = 0 /\ d.status = "refund_pending" /\ ~d.settled
  BY DEF CallAt
<1>3. clerks' = clerks \union {d}
  BY DEF Takes
<1> QED
  BY <1>1, <1>2, <1>3

-----------------------------------------------------------------------------
(* What a step leaves alone *)

Onward ==
    /\ cash' = cash /\ interrupted \subseteq interrupted'
    /\ \A t \in Ticket : ticket[t].status \in Approved =>
          ticket'[t].order = ticket[t].order /\ ticket'[t].status \in Approved
    /\ \A o \in Delivered : payment[o] # "paid" => payment'[o] # "paid"
    /\ \A o \in Online : intent[o] = "refunded" => intent'[o] = "refunded"

LEMMA CallsCarryOn ==
    ASSUME SupportInv, Onward, \A d \in clerks' : d \in clerks \/ CallFits(d)'
    PROVE  CallsFit'
<1>1. ASSUME NEW d \in clerks PROVE CallFits(d)'
  <2>1. d \in TicketCall /\ CallFits(d)
    BY DEF SupportInv, SupportTypeOK, CallsFit
  <2>2. d.order \in Delivered
    BY <2>1, CallTypes
  <2>3. Online' = Online
    BY DEF Onward, Online
  <2>4. OwnTicket(d)'
    BY <2>1 DEF Onward, CallFits, OwnTicket
  <2> QED
    BY <2>1, <2>2, <2>3, <2>4 DEF Onward, CallFits, Online, EnginePcs, SyncPcs, ApprovalPcs
<1> QED
  BY <1>1 DEF CallsFit

LEMMA TicketsRest ==
    ASSUME SupportInv, Onward, UNCHANGED ticket
    PROVE  TicketsFit' /\ OneKey'
<1>1. ASSUME NEW t \in Ticket PROVE TicketFits(t)'
  BY DEF SupportInv, TicketsFit, TicketFits, Onward, Online
<1> QED
  BY <1>1 DEF TicketsFit, OneKey, SupportInv

LEMMA BlockRests ==
    ASSUME SupportInv, UNCHANGED customer, interrupted \subseteq interrupted',
           \A c \in clerks : c.pc = "block" => c \in clerks'
    PROVE  BlockComes'
BY DEF SupportInv, BlockComes

OrderRests(o) ==
    /\ payment'[o] = payment[o] /\ intent'[o] = intent[o] /\ refund'[o] = refund[o]
    /\ o \in bySupport' <=> o \in bySupport
    /\ \A m \in mentions \union mentions' : m[1] = o => (m \in mentions' <=> m \in mentions)
    /\ \A n \in notices \union notices' : n[1] = o => (n \in notices' <=> n \in notices)
    /\ \A t \in Ticket : TicketOf(t, o)' <=> TicketOf(t, o)
    /\ \A c \in clerks \union clerks' :
          c.order = o /\ c.pc \in EnginePcs \union {"read"} => (c \in clerks' <=> c \in clerks)
    /\ interrupted \subseteq interrupted' /\ cash' = cash

LEMMA OrderStays ==
    ASSUME SupportInv, NEW o \in Online, OrderRests(o)
    PROVE  OrderFits(o)' /\ (o \notin interrupted' => OrderFollows(o)')
<1>1. OrderFits(o)
  BY DEF SupportInv, OrdersFit
<1>2. Announced(o)' <=> Announced(o)
  BY DEF Announced, OrderRests
<1>3. OrderFits(o)'
  BY <1>1, <1>2 DEF OrderFits, OrderRests
<1>4. ASSUME o \notin interrupted' PROVE OrderFollows(o)'
  <2>1. OrderFollows(o)
    BY <1>4 DEF SupportInv, OrdersFollow, OrderRests
  <2>2. OnBehalf(o)' => OnBehalf(o)
    BY DEF OnBehalf, OrderRests, EnginePcs
  <2>3. ASSUME NEW t \in Ticket PROVE Requested(t, o)' <=> Requested(t, o)
    BY DEF Requested, OrderRests, EnginePcs, ApprovalPcs
  <2>4. \A c \in clerks \union clerks' : c.order = o => (EventKey(c) \in mentions' <=> EventKey(c) \in mentions)
    BY DEF EventKey, OrderRests
  <2>5. PaymentFollows(o) => PaymentFollows(o)'
    BY <2>4 DEF PaymentFollows, OrderRests, EnginePcs, SyncPcs, EventKey
  <2>6. ASSUME NEW t \in Ticket, TicketFollows(t, o) PROVE TicketFollows(t, o)'
    <3>1. CASE \E c \in clerks : c.order = o /\ Approves(c, t)
      <4>1. PICK c \in clerks : c.order = o /\ Approves(c, t)
        BY <3>1
      <4>2. c \in clerks'
        BY <4>1 DEF Approves, OrderRests, EnginePcs, SyncPcs, ApprovalPcs
      <4> QED
        BY <4>1, <4>2 DEF TicketFollows, Approves
    <3>2. CASE ~\E c \in clerks : c.order = o /\ Approves(c, t)
      <4>1. PICK c \in clerks : c.order = o /\ Delivers(c)
        BY <3>2, <2>6 DEF TicketFollows
      <4>2. c \in clerks' /\ Delivers(c)'
        BY <2>4, <4>1 DEF Delivers, OrderRests, EnginePcs, SyncPcs, EventKey
      <4>3. o \in bySupport' /\ \A e \in clerks' : e.order = o /\ e.pc \in ApprovalPcs => e.ticket = t
        BY <3>2, <2>6 DEF TicketFollows, OrderRests, EnginePcs, ApprovalPcs
      <4> QED
        BY <4>1, <4>2, <4>3 DEF TicketFollows
    <3> QED
      BY <3>1, <3>2
  <2> QED
    BY <2>1, <2>2, <2>3, <2>5, <2>6 DEF OrderFollows, OrderRests
<1> QED
  BY <1>3, <1>4

\* A step that changes no more than one order's documents and calls.
LEMMA OrdersRest ==
    ASSUME SupportInv, NEW p, \A o \in Online \ {p} : OrderRests(o), cash' = cash,
           p \in Online => OrderFits(p)' /\ (p \notin interrupted' => OrderFollows(p)')
    PROVE  OrdersFit' /\ OrdersFollow'
<1>1. ASSUME NEW o \in Online PROVE OrderFits(o)' /\ (o \notin interrupted' => OrderFollows(o)')
  BY <1>1, OrderStays
<1>2. Online' = Online
  BY DEF Online
<1>3. OrdersFit'
  BY <1>1, <1>2 DEF OrdersFit
<1>4. OrdersFollow'
  BY <1>1, <1>2 DEF OrdersFollow
<1> QED
  BY <1>3, <1>4

LEMMA OrdersStay ==
    ASSUME SupportInv, \A o \in Online : OrderRests(o), cash' = cash
    PROVE  OrdersFit' /\ OrdersFollow'
<1>1. ASSUME NEW o \in Online PROVE OrderFits(o)' /\ (o \notin interrupted' => OrderFollows(o)')
  BY <1>1, OrderStays
<1>2. Online' = Online
  BY DEF Online
<1>3. OrdersFit'
  BY <1>1, <1>2 DEF OrdersFit
<1>4. OrdersFollow'
  BY <1>1, <1>2 DEF OrdersFollow
<1> QED
  BY <1>3, <1>4

-----------------------------------------------------------------------------
(* The customer's requests, rejections and cash on delivery *)

LEMMA OpenTicketKeeps ==
    ASSUME SupportInv, NEW w \in Clerk, NEW o \in Delivered, OpenTicket(w, o)
    PROVE  SupportInv'
<1>1. PICK d \in TicketCall : /\ d.order = o /\ d.pc = "create" /\ d.then = "end" /\ d.id = 0
                              /\ d.status = "refund_pending" /\ clerks' = clerks \union {d}
  BY Calling DEF OpenTicket, Pcs
<1>2. SupportTypeOK'
  BY <1>1 DEF OpenTicket, SupportInv, SupportTypeOK, moneyVars, Online
<1>3. Onward
  BY DEF OpenTicket, Onward, moneyVars
<1>4. CallsFit'
  <2>1. CallFits(d)'
    BY <1>1 DEF CallFits, OwnTicket, EnginePcs, SyncPcs, ApprovalPcs
  <2> QED
    BY <1>1, <1>3, <2>1, CallsCarryOn
<1>5. TicketsFit' /\ OneKey'
  BY <1>3, TicketsRest DEF OpenTicket
<1>6. BlockComes'
  BY <1>1, BlockRests DEF OpenTicket
<1>7. NoticesFit' /\ OrdersFit' /\ OrdersFollow'
  <2>1. \A p \in Online : OrderRests(p)
    BY <1>1 DEF OpenTicket, OrderRests, moneyVars, EnginePcs, SyncPcs, TicketOf
  <2> QED
    BY <2>1, OrdersStay DEF OpenTicket, SupportInv, NoticesFit, Online, moneyVars
<1> QED
  BY <1>2, <1>4, <1>5, <1>6, <1>7 DEF SupportInv

LEMMA CreateTicketKeeps ==
    ASSUME SupportInv, NEW c \in clerks, CreateTicket(c)
    PROVE  SupportInv'
<1>1. c \in TicketCall /\ c.order \in Delivered /\ c.pc = "create" /\ clerks' = clerks \ {c}
  BY CallTypes DEF SupportInv, SupportTypeOK, CreateTicket, At, Leaves
<1>2. SupportTypeOK'
  <2>1. ticket' \in [Ticket -> [order : Delivered \union {"none"}, status : TicketStatus, keyed : BOOLEAN]]
    <3>1. CASE UNCHANGED ticket
      BY <3>1 DEF SupportInv, SupportTypeOK
    <3>2. CASE ticket' # ticket
      <4>1. PICK t \in Ticket :
              ticket' = [ticket EXCEPT ![t] = [order |-> c.order, status |-> "open", keyed |-> TRUE]]
        BY <3>2 DEF CreateTicket
      <4> QED
        BY <1>1, <4>1 DEF SupportInv, SupportTypeOK, TicketStatus, ActiveStatus
    <3> QED
      BY <3>1, <3>2
  <2> QED
    BY <1>1, <2>1 DEF CreateTicket, SupportInv, SupportTypeOK, moneyVars, Online
<1>3. Onward
  BY <1>1 DEF CreateTicket, Onward, moneyVars, SupportInv, SupportTypeOK, Approved, Refunding
<1>4. CallsFit'
  BY <1>1, <1>3, CallsCarryOn
<1>5. TicketsFit' /\ OneKey'
  <2>1. CASE UNCHANGED ticket
    BY <1>3, <2>1, TicketsRest
  <2>2. CASE ticket' # ticket
    <3>1. PICK t \in Ticket :
            /\ ticket[t].status = "none" /\ ~KeyTaken(c.order)
            /\ ticket' = [ticket EXCEPT ![t] = [order |-> c.order, status |-> "open", keyed |-> TRUE]]
      BY <2>2 DEF CreateTicket, TicketPossible
    <3>2. \A s \in Ticket : ticket'[s] = IF s = t THEN [order |-> c.order, status |-> "open", keyed |-> TRUE]
                                         ELSE ticket[s]
      BY <3>1 DEF SupportInv, SupportTypeOK
    <3>3. TicketsFit'
      BY <1>1, <1>3, <3>2, SupportAssumption DEF CreateTicket, TicketsFit, TicketFits, SupportInv, Online, moneyVars
    <3>4. OneKey'
      BY <3>1, <3>2 DEF KeyTaken, OneKey, SupportInv
    <3> QED
      BY <3>3, <3>4
  <2> QED
    BY <2>1, <2>2
<1>6. BlockComes'
  BY <1>1, BlockRests DEF CreateTicket
<1>7. NoticesFit' /\ OrdersFit' /\ OrdersFollow'
  <2>1. \A p \in Online, t \in Ticket : TicketOf(t, p)' <=> TicketOf(t, p)
    BY DEF CreateTicket, TicketOf, Refunding, SupportInv, SupportTypeOK
  <2>2. \A p \in Online : OrderRests(p)
    BY <1>1, <2>1 DEF CreateTicket, OrderRests, moneyVars, EnginePcs, SyncPcs
  <2> QED
    BY <2>2, OrdersStay DEF CreateTicket, SupportInv, NoticesFit, Online, moneyVars
<1> QED
  BY <1>2, <1>4, <1>5, <1>6, <1>7 DEF SupportInv

LEMMA WindowClosesKeeps ==
    ASSUME SupportInv, NEW o \in Delivered, WindowCloses(o)
    PROVE  SupportInv'
<1>2. SupportTypeOK'
  BY DEF WindowCloses, SupportInv, SupportTypeOK, moneyVars, Online
<1>3. Onward
  BY DEF WindowCloses, Onward, moneyVars
<1>4. CallsFit'
  BY <1>3, CallsCarryOn DEF WindowCloses
<1>5. TicketsFit' /\ OneKey'
  BY <1>3, TicketsRest DEF WindowCloses
<1>6. BlockComes'
  BY BlockRests DEF WindowCloses
<1>7. NoticesFit' /\ OrdersFit' /\ OrdersFollow'
  <2>1. \A p \in Online : OrderRests(p)
    BY DEF WindowCloses, OrderRests, moneyVars, TicketOf
  <2> QED
    BY <2>1, OrdersStay DEF WindowCloses, SupportInv, NoticesFit, Online, moneyVars
<1> QED
  BY <1>2, <1>4, <1>5, <1>6, <1>7 DEF SupportInv

LEMMA SchedulePickupKeeps ==
    ASSUME SupportInv, NEW t \in Ticket, SchedulePickup(t)
    PROVE  SupportInv'
<1>1. \A s \in Ticket : /\ ticket'[s].order = ticket[s].order /\ (ticket'[s].keyed <=> ticket[s].keyed)
                        /\ ticket'[s].status = IF s = t THEN "pickup_scheduled" ELSE ticket[s].status
  BY DEF SchedulePickup, SupportInv, SupportTypeOK
<1>2. SupportTypeOK'
  BY DEF SchedulePickup, SupportInv, SupportTypeOK, moneyVars, Online, TicketStatus, ActiveStatus
<1>3. Onward
  BY <1>1 DEF SchedulePickup, Onward, moneyVars, Approved, Refunding
<1>4. CallsFit'
  BY <1>3, CallsCarryOn DEF SchedulePickup
<1>5. TicketsFit' /\ OneKey'
  BY <1>1, <1>3 DEF SchedulePickup, TicketsFit, TicketFits, OneKey, SupportInv, Online, moneyVars, ActiveStatus
<1>6. BlockComes'
  BY BlockRests DEF SchedulePickup
<1>7. NoticesFit' /\ OrdersFit' /\ OrdersFollow'
  <2>1. \A p \in Online : OrderRests(p)
    BY <1>1 DEF SchedulePickup, OrderRests, moneyVars, TicketOf, Refunding
  <2> QED
    BY <2>1, OrdersStay DEF SchedulePickup, SupportInv, NoticesFit, Online, moneyVars
<1> QED
  BY <1>2, <1>4, <1>5, <1>6, <1>7 DEF SupportInv

LEMMA RejectKeeps ==
    ASSUME SupportInv, NEW w \in Clerk, NEW t \in Ticket, Reject(w, t)
    PROVE  SupportInv'
<1>0. /\ ticket[t].status = "open"
      /\ UNCHANGED <<cash, window, payment, mentions, intent, bySupport, refund, notices, customer,
                     interrupted, deaths>>
  BY DEF Reject, moneyVars
<1>1. \A s \in Ticket : /\ ticket'[s].order = ticket[s].order
                        /\ ticket'[s].keyed <=> ticket[s].keyed /\ s # t
                        /\ ticket'[s].status = IF s = t THEN "rejected" ELSE ticket[s].status
  BY DEF Reject, SupportInv, SupportTypeOK
<1>2. ticket[t].order \in Delivered
  BY DEF Reject, SupportInv, SupportTypeOK, TicketsFit, TicketFits
<1>3. PICK d \in TicketCall : /\ d.pc = "count" /\ d.then = "end" /\ d.id = 0
                              /\ d.status = "refund_pending" /\ clerks' = clerks \union {d}
  BY <1>2, Calling DEF Reject, Pcs
<1>4. SupportTypeOK'
  BY <1>3 DEF Reject, SupportInv, SupportTypeOK, moneyVars, Online, TicketStatus
<1>5. Onward
  BY <1>1 DEF Reject, Onward, moneyVars, Approved, Refunding
<1>6. CallsFit'
  <2>1. CallFits(d)'
    BY <1>3 DEF CallFits, OwnTicket, EnginePcs, SyncPcs, ApprovalPcs
  <2> QED
    BY <1>3, <1>5, <2>1, CallsCarryOn
<1>7. TicketsFit' /\ OneKey'
  BY <1>0, <1>1, <1>5 DEF TicketsFit, TicketFits, OneKey, SupportInv, Online, ActiveStatus
<1>8. BlockComes'
  BY <1>3, BlockRests DEF Reject
<1>9. NoticesFit' /\ OrdersFit' /\ OrdersFollow'
  <2>1. \A p \in Online : OrderRests(p)
    BY <1>0, <1>1, <1>3 DEF OrderRests, EnginePcs, SyncPcs, TicketOf, Refunding
  <2> QED
    BY <2>1, OrdersStay DEF Reject, SupportInv, NoticesFit, Online, moneyVars
<1> QED
  BY <1>4, <1>6, <1>7, <1>8, <1>9 DEF SupportInv

LEMMA CountRejectionKeeps ==
    ASSUME SupportInv, NEW c \in clerks, CountRejection(c)
    PROVE  SupportInv'
<1>0. /\ UNCHANGED <<cash, window, payment, mentions, intent, bySupport, refund, notices, ticket,
                     interrupted, deaths>>
      /\ c.pc = "count"
      /\ customer' = [customer EXCEPT !.rejected = @ + 1]
  BY DEF CountRejection, At, moneyVars
<1>1. /\ customer' \in [rejected : Nat, codDisabled : BOOLEAN]
      /\ customer'.rejected = customer.rejected + 1
      /\ customer'.codDisabled <=> customer.codDisabled
      /\ customer.rejected \in Nat
  BY <1>0 DEF SupportInv, SupportTypeOK
<1>2. c \in TicketCall
  BY DEF SupportInv, SupportTypeOK
<1>3. Blocks(customer') <=> customer'.rejected > RejectionsAllowed /\ ~customer'.codDisabled
  BY DEF Blocks
<1>4. PICK b \in BOOLEAN : b <=> Blocks(customer')
  OBVIOUS
<1>5. IF b THEN GoesTo(c, "block") ELSE Leaves(c)
  BY <1>4 DEF CountRejection
<1>6. \/ b /\ \E d : Turns(c, d) /\ d.pc = "block" /\ d.then = c.then /\ d.id = c.id
      \/ ~b /\ clerks' = clerks \ {c}
  BY <1>2, <1>5, Going DEF Leaves, Pcs
<1>7. Onward
  BY <1>0 DEF Onward
<1>8. CallsFit'
  <2>1. \A d : Turns(c, d) /\ d.pc = "block" /\ d.then = c.then /\ d.id = c.id => CallFits(d)'
    BY <1>0 DEF Turns, Same, CallFits, OwnTicket, EnginePcs, SyncPcs, ApprovalPcs, SupportInv, CallsFit, Online
  <2>2. \A d \in clerks' : d \in clerks \/ CallFits(d)'
    BY <1>6, <2>1 DEF Turns
  <2> QED
    BY <1>7, <2>2, CallsCarryOn
<1>9. SupportTypeOK'
  BY <1>0, <1>1, <1>6 DEF Turns, SupportInv, SupportTypeOK, Online
<1>10. TicketsFit' /\ OneKey'
  BY <1>0, <1>7, TicketsRest
<1>11. BlockComes'
  <2>1. \A e \in clerks : e.pc = "block" => e \in clerks'
    BY <1>0, <1>6 DEF Turns
  <2>2. b => \E d \in clerks' : d.pc = "block"
    BY <1>6 DEF Turns
  <2> QED
    BY <1>0, <1>1, <1>3, <1>4, <2>1, <2>2, SupportAssumption DEF SupportInv, BlockComes
<1>12. NoticesFit' /\ OrdersFit' /\ OrdersFollow'
  <2>1. \A p \in Online : OrderRests(p)
    BY <1>0, <1>6 DEF Turns, OrderRests, EnginePcs, SyncPcs, TicketOf
  <2> QED
    BY <1>0, <2>1, OrdersStay DEF SupportInv, NoticesFit, Online
<1> QED
  BY <1>8, <1>9, <1>10, <1>11, <1>12 DEF SupportInv

LEMMA BlockCashKeeps ==
    ASSUME SupportInv, NEW c \in clerks, BlockCash(c)
    PROVE  SupportInv'
<1>0. /\ UNCHANGED <<cash, window, payment, mentions, intent, bySupport, refund, notices, ticket,
                     interrupted, deaths>>
      /\ c.pc = "block" /\ clerks' = clerks \ {c}
      /\ customer' = [customer EXCEPT !.codDisabled = TRUE]
  BY DEF BlockCash, At, moneyVars, Leaves
<1>1. Onward
  BY <1>0 DEF Onward
<1>2. SupportTypeOK'
  BY <1>0 DEF SupportInv, SupportTypeOK, Online
<1>3. CallsFit'
  BY <1>0, <1>1, CallsCarryOn
<1>4. TicketsFit' /\ OneKey'
  BY <1>0, <1>1, TicketsRest
<1>5. BlockComes'
  BY <1>0 DEF BlockComes, SupportInv, SupportTypeOK
<1>6. NoticesFit' /\ OrdersFit' /\ OrdersFollow'
  <2>1. \A p \in Online : OrderRests(p)
    BY <1>0 DEF OrderRests, EnginePcs, SyncPcs, TicketOf
  <2> QED
    BY <1>0, <2>1, OrdersStay DEF SupportInv, NoticesFit, Online
<1> QED
  BY <1>2, <1>3, <1>4, <1>5, <1>6 DEF SupportInv

LEMMA SaveCashTicketKeeps ==
    ASSUME SupportInv, NEW c \in clerks, SaveCashTicket(c)
    PROVE  SupportInv'
<1>0. /\ UNCHANGED <<cash, window, payment, mentions, intent, bySupport, refund, notices, customer,
                     interrupted, deaths>>
      /\ c.pc = "cod_ticket" /\ GoesTo(c, "cod_order")
  BY DEF SaveCashTicket, At, moneyVars
<1>1. /\ c \in TicketCall /\ c.order \in cash /\ c.ticket \in Ticket
      /\ ticket[c.ticket].order = c.order /\ ticket[c.ticket].status \in Approved
  BY <1>0 DEF SupportInv, SupportTypeOK, CallsFit, CallFits, OwnTicket
<1>2. \A s \in Ticket : /\ ticket'[s].order = ticket[s].order
                        /\ ticket'[s].keyed <=> ticket[s].keyed /\ s # c.ticket
                        /\ ticket'[s].status = IF s = c.ticket THEN "cod_refund_approved" ELSE ticket[s].status
  BY <1>1 DEF SaveCashTicket, SupportInv, SupportTypeOK
<1>3. ticket' \in [Ticket -> [order : Delivered \union {"none"}, status : TicketStatus, keyed : BOOLEAN]]
  BY <1>1 DEF SaveCashTicket, SupportInv, SupportTypeOK, TicketStatus
<1>4. PICK d : /\ Turns(c, d) /\ d.pc = "cod_order" /\ d.then = c.then /\ d.id = c.id
  BY <1>0, <1>1, Going DEF Pcs
<1>5. Onward
  BY <1>0, <1>2 DEF Onward, Approved
<1>6. SupportTypeOK'
  BY <1>0, <1>3, <1>4 DEF Turns, SupportInv, SupportTypeOK, Online
<1>7. CallsFit'
  <2>1. CallFits(d)'
    BY <1>0, <1>1, <1>2, <1>4 DEF Turns, Same, CallFits, OwnTicket, EnginePcs, SyncPcs, ApprovalPcs, SupportInv, CallsFit,
      Online, Approved
  <2> QED
    BY <1>4, <1>5, <2>1, CallsCarryOn DEF Turns
<1>8. TicketsFit' /\ OneKey'
  <2>1. TicketsFit'
    BY <1>0, <1>1, <1>2, SupportAssumption
    DEF TicketsFit, TicketFits, SupportInv, SupportTypeOK, Online, ActiveStatus
  <2>2. OneKey'
    BY <1>2 DEF OneKey, SupportInv
  <2> QED
    BY <2>1, <2>2
<1>9. BlockComes'
  BY <1>0, <1>4, BlockRests DEF Turns
<1>10. NoticesFit' /\ OrdersFit' /\ OrdersFollow'
  <2>1. \A p \in Online, t \in Ticket : TicketOf(t, p)' <=> TicketOf(t, p)
    BY <1>1, <1>2 DEF TicketOf, Online, Refunding
  <2>2. \A p \in Online : OrderRests(p)
    BY <1>0, <1>1, <1>4, <2>1 DEF Turns, Same, OrderRests, Online
  <2> QED
    BY <1>0, <2>2, OrdersStay DEF SupportInv, NoticesFit, Online
<1> QED
  BY <1>6, <1>7, <1>8, <1>9, <1>10 DEF SupportInv

LEMMA SaveCashOrderKeeps ==
    ASSUME SupportInv, NEW c \in clerks, SaveCashOrder(c)
    PROVE  SupportInv'
<1>0. /\ UNCHANGED <<cash, window, mentions, intent, bySupport, refund, notices, ticket, customer,
                     interrupted, deaths>>
      /\ c.pc = "cod_order" /\ clerks' = clerks \ {c}
      /\ payment' = [payment EXCEPT ![c.order] = "cod_refund_approved"]
  BY DEF SaveCashOrder, At, Leaves
<1>1. c \in TicketCall /\ c.order \in cash
  BY <1>0 DEF SupportInv, SupportTypeOK, CallsFit, CallFits
<1>2. Onward
  BY <1>0 DEF Onward, SupportInv, SupportTypeOK
<1>3. SupportTypeOK'
  BY <1>0 DEF SupportInv, SupportTypeOK, Online, PaymentStatus
<1>4. CallsFit'
  BY <1>0, <1>2, CallsCarryOn
<1>5. TicketsFit' /\ OneKey'
  BY <1>0, <1>2, TicketsRest
<1>6. BlockComes'
  BY <1>0, BlockRests
<1>7. NoticesFit' /\ OrdersFit' /\ OrdersFollow'
  <2>1. \A p \in Online : OrderRests(p)
    BY <1>0, <1>1 DEF OrderRests, TicketOf, Online, SupportInv, SupportTypeOK
  <2> QED
    BY <1>0, <2>1, OrdersStay DEF SupportInv, NoticesFit, Online
<1> QED
  BY <1>3, <1>4, <1>5, <1>6, <1>7 DEF SupportInv

-----------------------------------------------------------------------------
(* The approval's own steps *)

\* Without an interruption no two tickets of an order are active.
LEMMA OnlyOneActive ==
    ASSUME SupportInv, NEW s \in Ticket, NEW t \in Ticket, ticket[s].order = ticket[t].order,
           ticket[s].order \notin interrupted, ticket[s].status \in ActiveStatus, ticket[t].status \in ActiveStatus
    PROVE  s = t
BY DEF SupportInv, TicketsFit, TicketFits, OneKey

LEMMA ApproveKeeps ==
    ASSUME SupportInv, NEW w \in Clerk, NEW t \in Ticket, Approve(w, t)
    PROVE  SupportInv'
<1>10. PICK o : o = ticket[t].order
  OBVIOUS
<1>0. /\ UNCHANGED <<cash, window, payment, mentions, intent, bySupport, refund, notices, customer,
                     interrupted, deaths>>
      /\ ticket[t].status \in {"open", "pickup_scheduled"}
      /\ ticket' = [ticket EXCEPT ![t].status = "processing"]
      /\ Takes(w, CallAt(w, ticket[t].order, t, "read", "save"))
  BY DEF Approve, moneyVars
<1>1. \A s \in Ticket : /\ ticket'[s].order = ticket[s].order
                        /\ ticket'[s].keyed <=> ticket[s].keyed
                        /\ ticket'[s].status = IF s = t THEN "processing" ELSE ticket[s].status
  BY <1>0 DEF SupportInv, SupportTypeOK
<1>2. o \in Delivered
  BY <1>0, <1>10 DEF SupportInv, SupportTypeOK, TicketsFit, TicketFits
<1>3. PICK d \in TicketCall : /\ d.order = o /\ d.ticket = t /\ d.pc = "read" /\ d.then = "save" /\ d.id = 0
                              /\ d.status = "refund_pending" /\ clerks' = clerks \union {d}
  BY <1>0, <1>2, <1>10, Calling DEF Pcs
<1>4. SupportTypeOK'
  BY <1>0, <1>3 DEF SupportInv, SupportTypeOK, Online, TicketStatus, ActiveStatus
<1>5. Onward
  BY <1>0, <1>1 DEF Onward, Approved, Refunding
<1>6. CallsFit'
  <2>1. CallFits(d)'
    BY <1>1, <1>3, <1>10 DEF CallFits, OwnTicket, EnginePcs, SyncPcs, ApprovalPcs, Approved, Refunding
  <2> QED
    BY <1>3, <1>5, <2>1, CallsCarryOn
<1>7. TicketsFit' /\ OneKey'
  BY <1>0, <1>1, <1>5 DEF TicketsFit, TicketFits, OneKey, SupportInv, Online, ActiveStatus
<1>8. BlockComes'
  BY <1>0, <1>3, BlockRests
<1>9. NoticesFit' /\ OrdersFit' /\ OrdersFollow'
  <2>1. \A p \in Online \ {o} : OrderRests(p)
    BY <1>0, <1>1, <1>3, <1>10 DEF OrderRests, TicketOf
  <2>2. ASSUME o \in Online PROVE OrderFits(o)'
    BY <1>0, <1>3, <2>2 DEF SupportInv, OrdersFit, OrderFits, Announced
  <2>3. ASSUME o \in Online, o \notin interrupted PROVE OrderFollows(o)'
    <3>1. OrderFollows(o)
      BY <2>3 DEF SupportInv, OrdersFollow
    <3>2. \A s \in Ticket : TicketOf(s, o)' => s = t
      BY <1>0, <1>1, <1>10, <2>3, OnlyOneActive DEF TicketOf, Refunding, ActiveStatus
    <3>3. OnBehalf(o)' => o \in bySupport'
      BY <1>0, <1>3, <3>1 DEF OrderFollows, OnBehalf
    <3>4. Requested(t, o)'
      BY <1>3 DEF Requested, ApprovalPcs
    <3>5. PaymentFollows(o) => PaymentFollows(o)'
      BY <1>0, <1>3 DEF PaymentFollows, EventKey
    <3>6. TicketFollows(t, o)'
      BY <1>3 DEF TicketFollows, Approves, ApprovalPcs
    <3> QED
      BY <1>0, <3>1, <3>2, <3>3, <3>4, <3>5, <3>6 DEF OrderFollows
  <2> QED
    BY <1>0, <2>1, <2>2, <2>3, OrdersRest DEF SupportInv, NoticesFit, Online
<1> QED
  BY <1>4, <1>6, <1>7, <1>8, <1>9 DEF SupportInv

LEMMA ReadApprovedOrderKeeps ==
    ASSUME SupportInv, NEW c \in clerks, ReadApprovedOrder(c)
    PROVE  SupportInv'
<1> DEFINE o == c.order
<1>0. /\ UNCHANGED <<cash, window, payment, mentions, intent, bySupport, refund, notices, ticket, customer,
                     interrupted, deaths>>
      /\ c.pc = "read" 
  BY DEF ReadApprovedOrder, At, Becomes, moneyVars
<1>1. c \in TicketCall /\ o \in Delivered /\ CallFits(c)
  BY CallTypes DEF SupportInv, SupportTypeOK, CallsFit
<1>2. PICK b \in BOOLEAN : b = (payment[c.order] = "refunded")
  OBVIOUS
<1>3. PICK pc \in {"cod_ticket", "order"} : pc = IF c.order \in cash THEN "cod_ticket" ELSE "order"
  OBVIOUS
<1>10. clerks' = (clerks \ {c}) \union {[c EXCEPT !.pc = pc, !.settled = b]}
  BY <1>2, <1>3 DEF ReadApprovedOrder, Becomes
<1> DEFINE d == [c EXCEPT !.pc = pc, !.settled = b]
<1>11. d \in TicketCall
  BY <1>1 DEF TicketCall
<1>12. d.order = o /\ d.ticket = c.ticket /\ d.then = c.then /\ d.id = c.id /\ d.status = c.status /\ d.pc = pc
  BY <1>1 DEF TicketCall
<1>13. clerks' = (clerks \ {c}) \union {d}
  BY <1>10
<1> HIDE DEF d
<1>4. SupportTypeOK'
  BY <1>0, <1>11, <1>13 DEF SupportInv, SupportTypeOK, Online
<1>5. Onward
  BY <1>0 DEF Onward
<1>6. CallsFit'
  <2>1. CallFits(d)'
    BY <1>0, <1>1, <1>3, <1>12 DEF CallFits, OwnTicket, EnginePcs, SyncPcs, ApprovalPcs, Online
  <2> QED
    BY <1>0, <1>5, <1>13, <2>1, CallsCarryOn
<1>7. TicketsFit' /\ OneKey'
  BY <1>0, <1>5, TicketsRest
<1>8. BlockComes'
  BY <1>0, <1>13, BlockRests
<1>9. NoticesFit' /\ OrdersFit' /\ OrdersFollow'
  <2> HIDE DEF o
  <2>1. \A p \in Online \ {o} : OrderRests(p)
    BY <1>0, <1>3, <1>12, <1>13 DEF OrderRests, TicketOf, o
  <2>2. ASSUME o \in Online PROVE OrderFits(o)'
    BY <1>0, <2>2 DEF SupportInv, OrdersFit, OrderFits, Announced
  <2>3. ASSUME o \in Online, o \notin interrupted PROVE OrderFollows(o)'
    <3>1. OrderFollows(o)
      BY <2>3 DEF SupportInv, OrdersFollow
    <3>2. d.pc = "order"
      BY <1>3, <1>12, <2>3 DEF Online, o
    <3>3. OnBehalf(o)' => o \in bySupport'
      BY <1>0, <1>13, <3>1, <3>2 DEF OrderFollows, OnBehalf
    <3>4. ASSUME NEW t \in Ticket, Requested(t, o) PROVE Requested(t, o)'
      BY <1>0, <1>3, <1>12, <1>13, <3>2, <3>4 DEF Requested, ApprovalPcs, o
    <3>5. PaymentFollows(o) => PaymentFollows(o)'
      BY <1>0, <1>12, <1>13, <3>2 DEF PaymentFollows, EventKey
    <3>6. ASSUME NEW t \in Ticket, TicketFollows(t, o) PROVE TicketFollows(t, o)'
      <4>1. CASE \E e \in clerks : e.order = o /\ Approves(e, t)
        BY <1>0, <1>3, <1>12, <1>13, <3>2, <4>1 DEF TicketFollows, Approves, ApprovalPcs, o
      <4>2. CASE ~\E e \in clerks : e.order = o /\ Approves(e, t)
        BY <1>0, <1>3, <1>12, <1>13, <3>2, <3>6, <4>2 DEF TicketFollows, Delivers, EventKey, ApprovalPcs, o
      <4> QED
        BY <4>1, <4>2
    <3> QED
      BY <1>0, <3>1, <3>3, <3>4, <3>5, <3>6 DEF OrderFollows, TicketOf
  <2> QED
    BY <1>0, <2>1, <2>2, <2>3, OrdersRest DEF SupportInv, NoticesFit, Online
<1> QED
  BY <1>4, <1>6, <1>7, <1>8, <1>9 DEF SupportInv

LEMMA MarkOrderPendingKeeps ==
    ASSUME SupportInv, NEW c \in clerks, MarkOrderPending(c)
    PROVE  SupportInv'
<1> DEFINE o == c.order
<1>0. /\ UNCHANGED <<cash, window, mentions, intent, bySupport, refund, notices, ticket, customer, deaths>>
      /\ c.pc = "order" /\ GoesTo(c, "queue")
      /\ payment' = [payment EXCEPT ![o] = "refund_pending"]
      /\ interrupted \subseteq interrupted' /\ interrupted' \subseteq interrupted \union {o}
      /\ c.settled => o \in interrupted'
  BY DEF MarkOrderPending, At, moneyVars, Interrupting
<1>1. c \in TicketCall /\ o \in Online /\ o \in Delivered /\ CallFits(c)
  BY <1>0, CallTypes DEF SupportInv, SupportTypeOK, CallsFit, CallFits, EnginePcs
<1>2. PICK d : /\ Turns(c, d) /\ d.pc = "queue" /\ d.then = c.then
               /\ d.id = c.id /\ d.status = c.status /\ d.settled = c.settled
  BY <1>0, <1>1, Going DEF Pcs
<1>3. \A p \in Delivered : payment'[p] = IF p = o THEN "refund_pending" ELSE payment[p]
  BY <1>0 DEF SupportInv, SupportTypeOK
<1>4. SupportTypeOK'
  BY <1>0, <1>1, <1>2 DEF Turns, SupportInv, SupportTypeOK, Online, PaymentStatus, RefundStatus
<1>5. Onward
  BY <1>0, <1>3 DEF Onward
<1> HIDE DEF o
<1>6. CallsFit'
  <2>1. CallFits(d)'
    BY <1>0, <1>1, <1>2, <1>3 DEF Turns, Same, CallFits, OwnTicket, EnginePcs, SyncPcs, ApprovalPcs, Online, o
  <2> QED
    BY <1>2, <1>5, <2>1, CallsCarryOn DEF Turns
<1>7. TicketsFit' /\ OneKey'
  BY <1>0, <1>5, TicketsRest
<1>8. BlockComes'
  BY <1>0, <1>2, BlockRests DEF Turns
<1>9. NoticesFit' /\ OrdersFit' /\ OrdersFollow'
  <2>1. \A p \in Online \ {o} : OrderRests(p)
    BY <1>0, <1>2, <1>3 DEF Turns, Same, OrderRests, TicketOf, o, Online
  <2>2. OrderFits(o)'
    BY <1>0, <1>1, <1>3 DEF SupportInv, OrdersFit, OrderFits, Announced
  <2>3. ASSUME o \notin interrupted' PROVE OrderFollows(o)'
    <3>1. OrderFollows(o)
      BY <1>0, <1>1, <2>3 DEF SupportInv, OrdersFollow
    <3>2. d \in clerks' /\ d.order = o /\ d.ticket = c.ticket
      BY <1>2 DEF Turns, Same, o
    <3>3. OnBehalf(o)' => o \in bySupport'
      BY <1>0, <1>2, <3>1 DEF Turns, OrderFollows, OnBehalf
    <3>4. ASSUME NEW t \in Ticket, Requested(t, o) PROVE Requested(t, o)'
      BY <1>0, <1>2, <3>2, <3>4 DEF Turns, Requested, ApprovalPcs, o
    <3>5. PaymentFollows(o)'
      BY <1>2, <3>2 DEF PaymentFollows
    <3>6. ASSUME NEW t \in Ticket, TicketFollows(t, o) PROVE TicketFollows(t, o)'
      <4>1. CASE \E e \in clerks : e.order = o /\ Approves(e, t)
        BY <1>0, <1>2, <3>2, <4>1 DEF Turns, TicketFollows, Approves, ApprovalPcs, o
      <4>2. CASE ~\E e \in clerks : e.order = o /\ Approves(e, t)
        BY <1>0, <1>1, <1>2, <1>3, <3>2, <3>6, <4>2
        DEF Turns, TicketFollows, Delivers, EventKey, ApprovalPcs, Mutable, o
      <4> QED
        BY <4>1, <4>2
    <3> QED
      BY <1>0, <3>1, <3>3, <3>4, <3>5, <3>6 DEF OrderFollows, TicketOf
  <2> QED
    BY <1>0, <2>1, <2>2, <2>3, OrdersRest DEF SupportInv, NoticesFit, Online
<1> QED
  BY <1>4, <1>6, <1>7, <1>8, <1>9 DEF SupportInv

LEMMA QueueRefundKeeps ==
    ASSUME SupportInv, NEW c \in clerks, QueueRefund(c)
    PROVE  SupportInv'
<1> DEFINE o == c.order
<1>0. /\ UNCHANGED <<cash, window, mentions, refund, notices, ticket, customer, interrupted, deaths>>
      /\ c.pc = "queue"
  BY DEF QueueRefund, At
<1>1. c \in TicketCall /\ o \in Online /\ o \in Delivered /\ CallFits(c) /\ c.then = "save"
  BY <1>0, CallTypes DEF SupportInv, SupportTypeOK, CallsFit, CallFits, EnginePcs
<1>2. /\ payment[o] # "paid" /\ payment[o] # "cod_refund_approved" /\ OrderFits(o)
      /\ c.settled => o \in interrupted
  BY <1>0, <1>1 DEF CallFits, SupportInv, OrdersFit, OrderFits
<1>3. PICK d : /\ Turns(c, d) /\ d.then = "save" /\ d.id = c.id
               /\ \/ /\ c.settled /\ d.pc = "save" /\ d.status = c.status
                     /\ UNCHANGED <<payment, intent, bySupport>>
                  \/ /\ intent[o] = "refunded" /\ d.pc = "save" /\ d.status = "refunded"
                     /\ payment' = [payment EXCEPT ![o] = "refunded"]
                     /\ bySupport' = bySupport \union {o} /\ UNCHANGED intent
                  \/ /\ intent[o] = "consumed" /\ d.pc = "refund" /\ d.status = c.status
                     /\ intent' = [intent EXCEPT ![o] = "refund_pending"]
                     /\ bySupport' = bySupport \union {o} /\ UNCHANGED payment
                  \/ /\ ~c.settled /\ intent[o] \in {"refund_pending", "refund_failed"}
                     /\ d.pc = "refund" /\ d.status = c.status
                     /\ UNCHANGED <<payment, intent, bySupport>>
  <2>1. CASE c.settled /\ GoesTo(c, "save") /\ UNCHANGED <<payment, intent, bySupport>>
    BY <1>1, <2>1, Going DEF Pcs
  <2>2. CASE /\ ~c.settled /\ intent[o] = "refunded"
             /\ payment' = [payment EXCEPT ![o] = "refunded"]
             /\ bySupport' = bySupport \union {o}
             /\ Becomes(c, [c EXCEPT !.pc = "save", !.status = "refunded"])
             /\ UNCHANGED intent
    <3> DEFINE d == [c EXCEPT !.pc = "save", !.status = "refunded"]
    <3>1. d \in TicketCall
      BY <1>1 DEF TicketCall, RefundStatus
    <3>2. Same(c, d) /\ d.pc = "save" /\ d.status = "refunded" /\ d.then = "save" /\ d.id = c.id
      BY <1>1 DEF TicketCall, Same
    <3>3. Turns(c, d)
      BY <2>2, <3>1, <3>2 DEF Turns, Becomes
    <3> HIDE DEF d
    <3> QED
      BY <2>2, <3>2, <3>3
  <2>3. CASE /\ ~c.settled /\ intent[o] = "consumed"
             /\ intent' = [intent EXCEPT ![o] = "refund_pending"]
             /\ bySupport' = bySupport \union {o}
             /\ GoesTo(c, "refund") /\ UNCHANGED payment
    BY <1>1, <2>3, Going DEF Pcs
  <2>4. CASE /\ ~c.settled /\ intent[o] \in {"refund_pending", "refund_failed"}
             /\ GoesTo(c, "refund") /\ UNCHANGED <<payment, intent, bySupport>>
    BY <1>1, <2>4, Going DEF Pcs
  <2> QED
    BY <2>1, <2>2, <2>3, <2>4 DEF QueueRefund
<1> HIDE DEF o
<1>4. /\ d \in TicketCall /\ d.order = o /\ d.ticket = c.ticket /\ d.pc \in {"save", "refund"}
      /\ clerks' = (clerks \ {c}) \union {d}
  BY <1>3 DEF Turns, Same, o
<1>5. /\ \A p \in Delivered \ {o} : payment'[p] = payment[p]
      /\ \A p \in Online \ {o} : intent'[p] = intent[p]
      /\ bySupport \subseteq bySupport' /\ bySupport' \subseteq bySupport \union {o}
      /\ payment'[o] = payment[o] \/ (payment'[o] = "refunded" /\ intent[o] = "refunded")
      /\ intent[o] = "refunded" => intent'[o] = "refunded"
      /\ intent'[o] = "refunded" => intent[o] = "refunded"
  BY <1>1, <1>3 DEF SupportInv, SupportTypeOK
<1>6. SupportTypeOK'
  BY <1>0, <1>1, <1>3, <1>4 DEF SupportInv, SupportTypeOK, Online, PaymentStatus, RefundStatus
<1>7. Onward
  BY <1>0, <1>2, <1>5 DEF Onward
<1>8. CallsFit'
  <2>1. CallFits(d)'
    BY <1>0, <1>1, <1>3, <1>4 DEF CallFits, OwnTicket, EnginePcs, SyncPcs, ApprovalPcs, Online, o
  <2> QED
    BY <1>4, <1>7, <2>1, CallsCarryOn
<1>9. TicketsFit' /\ OneKey'
  BY <1>0, <1>7, TicketsRest
<1>10. BlockComes'
  BY <1>0, <1>4, BlockRests
<1>11. NoticesFit' /\ OrdersFit' /\ OrdersFollow'
  <2>1. \A p \in Online \ {o} : OrderRests(p)
    BY <1>0, <1>4, <1>5 DEF OrderRests, TicketOf, o, Online
  <2>2. OrderFits(o)'
    BY <1>0, <1>2, <1>5 DEF OrderFits, Announced
  <2>3. ASSUME o \notin interrupted PROVE OrderFollows(o)'
    <3>1. OrderFollows(o)
      BY <1>1, <2>3 DEF SupportInv, OrdersFollow
    <3>2. o \in bySupport'
      BY <1>2, <1>3, <2>3, <3>1 DEF OrderFollows, OnBehalf
    <3>3. ASSUME intent'[o] = "refunded"
          PROVE  intent[o] = "refunded" /\ payment'[o] = "refunded" /\ d.pc = "save" /\ d.status = "refunded"
      BY <1>1, <1>2, <1>3, <1>5, <2>3, <3>3 DEF SupportInv, SupportTypeOK
    <3>4. ASSUME intent'[o] = "refunded" PROVE PaymentFollows(o)'
      BY <3>3, <3>4 DEF PaymentFollows
    <3>5. ASSUME intent'[o] = "refunded", NEW t \in Ticket, TicketFollows(t, o) PROVE TicketFollows(t, o)'
      <4>1. \E e \in clerks : e.order = o /\ (Approves(e, t) \/ (e = c /\ c.ticket = t))
        BY <1>0, <3>5 DEF TicketFollows, ApprovalPcs, o
      <4> QED
        BY <1>3, <1>4, <3>3, <3>5, <4>1 DEF TicketFollows, Approves
    <3> QED
      BY <1>0, <3>1, <3>2, <3>3, <3>4, <3>5 DEF OrderFollows, TicketOf, Requested
  <2> QED
    BY <1>0, <2>1, <2>2, <2>3, OrdersRest DEF SupportInv, NoticesFit, Online
<1> QED
  BY <1>6, <1>8, <1>9, <1>10, <1>11 DEF SupportInv

\* A ticket takes a new status and keeps its key, unless the money is back.
TicketMoves(t, status) ==
    \A s \in Ticket : /\ ticket'[s].order = ticket[s].order
                      /\ ticket'[s].keyed <=> ticket[s].keyed /\ (s = t => status # "refunded")
                      /\ ticket'[s].status = IF s = t THEN status ELSE ticket[s].status

LEMMA TicketsMove ==
    ASSUME SupportInv, Onward, NEW t \in Ticket, NEW status \in RefundStatus, TicketMoves(t, status),
           ticket[t].order \in Online,
           ticket[t].status \in Refunding \/ (ticket[t].status = "refunded" /\ status = "refunded")
               \/ ticket[t].order \in interrupted',
           ticket[t].status \in Approved,
           status = "refunded" => intent'[ticket[t].order] = "refunded"
    PROVE  TicketsFit' /\ OneKey'
<1>0. Online' = Online /\ interrupted \subseteq interrupted' /\ cash' = cash
  BY DEF Onward, Online
<1>1. ASSUME NEW s \in Ticket PROVE TicketFits(s)'
  <2>1. CASE s = t
    BY <1>0, <2>1, SupportAssumption
    DEF TicketMoves, SupportInv, SupportTypeOK, TicketsFit, TicketFits, RefundStatus, Online, ActiveStatus, Refunding
  <2>2. CASE s # t
    BY <1>0, <2>2 DEF TicketMoves, SupportInv, TicketsFit, TicketFits, Onward
  <2> QED
    BY <2>1, <2>2
<1>2. OneKey'
  BY DEF TicketMoves, SupportInv, OneKey
<1> QED
  BY <1>1, <1>2 DEF TicketsFit

\* An approval saves what it came to: no document that was followed is let down.
LEMMA OrderCarriesOn ==
    ASSUME SupportInv, NEW o \in Online, o \notin interrupted', interrupted \subseteq interrupted',
           UNCHANGED <<mentions, intent, bySupport, refund, notices>>,
           payment'[o] = payment[o] \/ (payment[o] # "refunded" /\ payment'[o] = "refund_failed"),
           \A e \in clerks' : e \in clerks \/ e.pc = "error_order",
           \A e \in clerks : e.pc \in ApprovalPcs \union {"refund"} \union SyncPcs => e \in clerks',
           \A t \in Ticket : TicketOf(t, o)' =>
              TicketOf(t, o) /\ \A e \in clerks : e.order = o /\ Approves(e, t) => e \in clerks'
    PROVE  OrderFollows(o)'
<1>1. OrderFollows(o)
  BY DEF SupportInv, OrdersFollow
<1>2. OnBehalf(o)' => o \in bySupport'
  BY <1>1 DEF OrderFollows, OnBehalf
<1>3. ASSUME NEW t \in Ticket, Requested(t, o) PROVE Requested(t, o)'
  BY <1>3 DEF Requested, ApprovalPcs
<1>4. PaymentFollows(o) => PaymentFollows(o)'
  BY DEF PaymentFollows, EventKey, ApprovalPcs, SyncPcs
<1>5. ASSUME NEW t \in Ticket, TicketOf(t, o)', TicketFollows(t, o) PROVE TicketFollows(t, o)'
  <2>1. CASE \E e \in clerks : e.order = o /\ Approves(e, t)
    <3>1. PICK e \in clerks : e.order = o /\ Approves(e, t)
      BY <2>1
    <3>2. e \in clerks' /\ Approves(e, t)'
      BY <1>5, <3>1 DEF Approves
    <3> QED
      BY <3>1, <3>2 DEF TicketFollows
  <2>2. CASE ~\E e \in clerks : e.order = o /\ Approves(e, t)
    <3>1. PICK e \in clerks : e.order = o /\ Delivers(e)
      BY <1>5, <2>2 DEF TicketFollows
    <3>2. e \in clerks' /\ Delivers(e)'
      BY <3>1 DEF Delivers, EventKey, SyncPcs, Mutable
    <3>3. o \in bySupport' /\ \A x \in clerks' : x.order = o /\ x.pc \in ApprovalPcs => x.ticket = t
      BY <1>5, <2>2 DEF TicketFollows, ApprovalPcs
    <3> QED
      BY <3>1, <3>2, <3>3 DEF TicketFollows
  <2> QED
    BY <2>1, <2>2
<1> QED
  BY <1>1, <1>2, <1>3, <1>4, <1>5 DEF OrderFollows

LEMMA SaveTicketKeeps ==
    ASSUME SupportInv, NEW c \in clerks, SaveTicket(c)
    PROVE  SupportInv'
<1> DEFINE o == c.order
<1>0. /\ UNCHANGED <<cash, window, payment, mentions, intent, bySupport, refund, notices, customer, deaths>>
      /\ c.pc = "save" /\ clerks' = clerks \ {c}
      /\ interrupted \subseteq interrupted' /\ interrupted' \subseteq interrupted \union {o}
      /\ Overwrites(c, c.status) => o \in interrupted'
  BY DEF SaveTicket, At, Leaves, Interrupting, moneyVars
<1>1. /\ c \in TicketCall /\ o \in Online /\ o \in Delivered /\ c.status \in RefundStatus
      /\ c.ticket \in Ticket /\ ticket[c.ticket].order = o /\ ticket[c.ticket].status \in Approved
      /\ c.status = "refunded" => intent[o] = "refunded"
  BY <1>0, CallTypes DEF SupportInv, SupportTypeOK, CallsFit, CallFits, OwnTicket, EnginePcs
<1>2. TicketMoves(c.ticket, c.status)
  BY <1>1 DEF SaveTicket, TicketMoves, SupportInv, SupportTypeOK
<1>3. ticket' \in [Ticket -> [order : Delivered \union {"none"}, status : TicketStatus, keyed : BOOLEAN]]
  <2>1. PICK t \in Ticket : t = c.ticket
    BY <1>1
  <2>2. ticket[t] \in [order : Delivered \union {"none"}, status : TicketStatus, keyed : BOOLEAN]
    BY DEF SupportInv, SupportTypeOK
  <2>3. PICK k \in BOOLEAN : k = (ticket[t].keyed /\ c.status # "refunded")
    OBVIOUS
  <2>4. ticket' = [ticket EXCEPT ![t].status = c.status, ![t].keyed = k]
    BY <2>1, <2>3 DEF SaveTicket
  <2> QED
    BY <1>1, <2>2, <2>4 DEF SupportInv, SupportTypeOK, TicketStatus, RefundStatus, ActiveStatus
<1> HIDE DEF o
<1>4. SupportTypeOK'
  BY <1>0, <1>1, <1>3 DEF SupportInv, SupportTypeOK, Online
<1>5. Onward
  BY <1>0, <1>1, <1>2 DEF Onward, TicketMoves, Approved, RefundStatus, Refunding
<1>6. CallsFit'
  BY <1>0, <1>5, CallsCarryOn
<1>7. ticket[c.ticket].status \in Refunding \/ ticket[c.ticket].status = "refunded"
  BY <1>1 DEF Approved, SupportInv, TicketsFit, TicketFits, Online
<1>8. ticket[c.ticket].status = "refunded" => c.status = "refunded" \/ o \in interrupted'
  BY <1>0 DEF Overwrites
<1>9. TicketsFit' /\ OneKey'
  BY <1>0, <1>1, <1>2, <1>5, <1>7, <1>8, TicketsMove
<1>10. BlockComes'
  BY <1>0, BlockRests
<1>11. NoticesFit' /\ OrdersFit' /\ OrdersFollow'
  <2>1. \A p \in Online \ {o} : OrderRests(p)
    BY <1>0, <1>1, <1>2 DEF OrderRests, TicketOf, TicketMoves, o
  <2>2. OrderFits(o)'
    BY <1>0, <1>1 DEF SupportInv, OrdersFit, OrderFits, Announced
  <2>3. ASSUME o \notin interrupted' PROVE OrderFollows(o)'
    <3>1. ASSUME NEW t \in Ticket, TicketOf(t, o)'
          PROVE  TicketOf(t, o) /\ \A e \in clerks : e.order = o /\ Approves(e, t) => e \in clerks'
      BY <1>0, <1>1, <1>2, <1>7, <1>8, <2>3, <3>1
      DEF TicketOf, TicketMoves, Approves, ApprovalPcs, SyncPcs, Refunding
    <3> QED
      BY <1>0, <1>1, <2>3, <3>1, OrderCarriesOn DEF ApprovalPcs, SyncPcs
  <2> QED
    BY <1>0, <2>1, <2>2, <2>3, OrdersRest DEF SupportInv, NoticesFit, Online
<1> QED
  BY <1>4, <1>6, <1>9, <1>10, <1>11 DEF SupportInv

LEMMA SaveFailedTicketKeeps ==
    ASSUME SupportInv, NEW c \in clerks, SaveFailedTicket(c)
    PROVE  SupportInv'
<1> DEFINE o == c.order
<1>0. /\ UNCHANGED <<cash, window, payment, mentions, intent, bySupport, refund, notices, customer, deaths>>
      /\ c.pc = "error_ticket" /\ GoesTo(c, "error_order")
      /\ interrupted \subseteq interrupted' /\ interrupted' \subseteq interrupted \union {o}
      /\ Overwrites(c, "refund_failed") => o \in interrupted'
  BY DEF SaveFailedTicket, At, Interrupting, moneyVars
<1>1. /\ c \in TicketCall /\ o \in Online /\ o \in Delivered /\ CallFits(c)
      /\ c.ticket \in Ticket /\ ticket[c.ticket].order = o /\ ticket[c.ticket].status \in Approved
  BY <1>0, CallTypes DEF SupportInv, SupportTypeOK, CallsFit, CallFits, OwnTicket, EnginePcs
<1>2. TicketMoves(c.ticket, "refund_failed")
  BY <1>1 DEF SaveFailedTicket, TicketMoves, SupportInv, SupportTypeOK
<1>3. PICK d : /\ Turns(c, d) /\ d.pc = "error_order" /\ d.then = c.then /\ d.id = c.id
  BY <1>0, <1>1, Going DEF Pcs
<1>4. ticket' \in [Ticket -> [order : Delivered \union {"none"}, status : TicketStatus, keyed : BOOLEAN]]
  BY <1>1 DEF SaveFailedTicket, SupportInv, SupportTypeOK, TicketStatus, ActiveStatus
<1> HIDE DEF o
<1>5. SupportTypeOK'
  BY <1>0, <1>1, <1>3, <1>4 DEF Turns, SupportInv, SupportTypeOK, Online
<1>6. Onward
  BY <1>0, <1>1, <1>2 DEF Onward, TicketMoves, Approved, Refunding
<1>7. CallsFit'
  <2>1. CallFits(d)'
    BY <1>0, <1>1, <1>2, <1>3
    DEF Turns, Same, CallFits, OwnTicket, EnginePcs, SyncPcs, ApprovalPcs, Online, TicketMoves, Approved, Refunding, o
  <2> QED
    BY <1>3, <1>6, <2>1, CallsCarryOn DEF Turns
<1>8. ticket[c.ticket].status \in Refunding \/ ticket[c.ticket].status = "refunded"
  BY <1>1 DEF Approved, SupportInv, TicketsFit, TicketFits, Online
<1>9. ticket[c.ticket].status = "refunded" => o \in interrupted'
  BY <1>0 DEF Overwrites
<1>10. TicketsFit' /\ OneKey'
  BY <1>0, <1>1, <1>2, <1>6, <1>8, <1>9, TicketsMove DEF RefundStatus
<1>11. BlockComes'
  BY <1>0, <1>3, BlockRests DEF Turns
<1>12. NoticesFit' /\ OrdersFit' /\ OrdersFollow'
  <2>1. \A p \in Online \ {o} : OrderRests(p)
    BY <1>0, <1>1, <1>2, <1>3 DEF Turns, Same, OrderRests, TicketOf, TicketMoves, o
  <2>2. OrderFits(o)'
    BY <1>0, <1>1 DEF SupportInv, OrdersFit, OrderFits, Announced
  <2>3. ASSUME o \notin interrupted' PROVE OrderFollows(o)'
    <3>1. ASSUME NEW t \in Ticket, TicketOf(t, o)'
          PROVE  TicketOf(t, o) /\ \A e \in clerks : e.order = o /\ Approves(e, t) => e \in clerks'
      BY <1>0, <1>1, <1>2, <1>3, <1>8, <1>9, <2>3, <3>1
      DEF Turns, TicketOf, TicketMoves, Approves, ApprovalPcs, SyncPcs
    <3> QED
      BY <1>0, <1>1, <1>3, <2>3, <3>1, OrderCarriesOn DEF Turns, ApprovalPcs, SyncPcs
  <2> QED
    BY <1>0, <2>1, <2>2, <2>3, OrdersRest DEF SupportInv, NoticesFit, Online
<1> QED
  BY <1>5, <1>7, <1>10, <1>11, <1>12 DEF SupportInv

LEMMA SaveFailedOrderKeeps ==
    ASSUME SupportInv, NEW c \in clerks, SaveFailedOrder(c)
    PROVE  SupportInv'
<1> DEFINE o == c.order
<1>0. /\ UNCHANGED <<cash, window, mentions, intent, bySupport, refund, notices, ticket, customer, deaths>>
      /\ c.pc = "error_order" /\ clerks' = clerks \ {c}
      /\ payment' = [payment EXCEPT ![o] = "refund_failed"]
      /\ interrupted \subseteq interrupted' /\ interrupted' \subseteq interrupted \union {o}
      /\ payment[o] = "refunded" => o \in interrupted'
  BY DEF SaveFailedOrder, At, Leaves, Interrupting
<1>1. c \in TicketCall /\ o \in Online /\ o \in Delivered
  BY <1>0, CallTypes DEF SupportInv, SupportTypeOK, CallsFit, CallFits, EnginePcs
<1>2. \A p \in Delivered : payment'[p] = IF p = o THEN "refund_failed" ELSE payment[p]
  BY <1>0 DEF SupportInv, SupportTypeOK
<1> HIDE DEF o
<1>3. SupportTypeOK'
  BY <1>0, <1>1 DEF SupportInv, SupportTypeOK, Online, PaymentStatus, RefundStatus
<1>4. Onward
  BY <1>0, <1>2 DEF Onward
<1>5. CallsFit'
  BY <1>0, <1>4, CallsCarryOn
<1>6. TicketsFit' /\ OneKey'
  BY <1>0, <1>4, TicketsRest
<1>7. BlockComes'
  BY <1>0, BlockRests
<1>8. NoticesFit' /\ OrdersFit' /\ OrdersFollow'
  <2>1. \A p \in Online \ {o} : OrderRests(p)
    BY <1>0, <1>1, <1>2 DEF OrderRests, TicketOf, Online, o
  <2>2. OrderFits(o)'
    BY <1>0, <1>1, <1>2 DEF SupportInv, OrdersFit, OrderFits, Announced
  <2>3. ASSUME o \notin interrupted' PROVE OrderFollows(o)'
    <3>1. \A t \in Ticket : TicketOf(t, o)' =>
              TicketOf(t, o) /\ \A e \in clerks : e.order = o /\ Approves(e, t) => e \in clerks'
      BY <1>0 DEF TicketOf, Approves, ApprovalPcs, SyncPcs
    <3>2. payment[o] # "refunded" /\ payment'[o] = "refund_failed"
      BY <1>0, <1>1, <1>2, <2>3
    <3> QED
      BY <1>0, <1>1, <2>3, <3>1, <3>2, OrderCarriesOn DEF ApprovalPcs, SyncPcs
  <2> QED
    BY <1>0, <2>1, <2>2, <2>3, OrdersRest DEF SupportInv, NoticesFit, Online
<1> QED
  BY <1>3, <1>5, <1>6, <1>7, <1>8 DEF SupportInv

-----------------------------------------------------------------------------
(* The refund engine, the provider and its webhooks *)

LEMMA Syncing ==
    ASSUME NEW c \in TicketCall, NEW id \in 0..MaxAttempts, NEW status \in RefundStatus, Syncs(c, id, status)
    PROVE  \E d : Turns(c, d) /\ d.pc = "sync_order" /\ d.then = c.then /\ d.id = id /\ d.status = status
<1> DEFINE d == [c EXCEPT !.pc = "sync_order", !.id = id, !.status = status]
<1>1. d \in TicketCall
  BY DEF TicketCall
<1>2. Same(c, d) /\ d.pc = "sync_order" /\ d.then = c.then /\ d.id = id /\ d.status = status
  BY DEF TicketCall, Same
<1>3. clerks' = (clerks \ {c}) \union {d}
  BY DEF Syncs, Becomes
<1> HIDE DEF d
<1> QED
  BY <1>1, <1>2, <1>3 DEF Turns

\* A call that returns goes on with what it was asked for.
Resumed(c, d) ==
    /\ c.then # "end" /\ Turns(c, d) /\ d.pc = c.then /\ d.then = c.then /\ d.id = c.id
    /\ d.status = "refunded" <=> intent'[c.order] = "refunded"
Returned(c) == \/ c.then = "end" /\ clerks' = clerks \ {c}
               \/ \E d : Resumed(c, d)

LEMMA CallReturned ==
    ASSUME NEW c \in TicketCall, intent'[c.order] \in {"consumed"} \union RefundStatus, Returns(c)
    PROVE  Returned(c)
BY Returning DEF Returned, Resumed

LEMMA ReturnedFits ==
    ASSUME SupportInv, Onward, NEW c \in clerks, c.order \in Online, Returned(c)
    PROVE  CallsFit'
<1>1. ASSUME NEW d, Resumed(c, d) PROVE CallFits(d)'
  <2>1. c.then \in {"save", "error_ticket"} /\ CallFits(c)
    BY <1>1, CallTypes DEF Resumed, SupportInv, SupportTypeOK, CallsFit
  <2>2. OwnTicket(d)'
    BY <1>1, <2>1 DEF Resumed, Turns, Same, CallFits, OwnTicket, Onward
  <2> QED
    BY <1>1, <2>1, <2>2 DEF Resumed, Turns, Same, CallFits, EnginePcs, SyncPcs, ApprovalPcs, Onward, Online
<1>2. \A d \in clerks' : d \in clerks \/ CallFits(d)'
  BY <1>1 DEF Returned, Resumed, Turns
<1> QED
  BY <1>2, CallsCarryOn

\* An order whose refund was asked for has nothing to follow yet.
LEMMA OrderWaits ==
    ASSUME NEW o \in Online, intent'[o] # "refunded", o \in bySupport'
    PROVE  OrderFollows(o)'
BY DEF OrderFollows, Requested

\* A call of the order's returns; if it was to deliver the result, it did.
LEMMA OrderReturns ==
    ASSUME SupportInv, NEW o \in Online, o \notin interrupted', interrupted \subseteq interrupted',
           NEW c \in clerks, c.order = o, c.pc \in {"refund"} \union SyncPcs, Returned(c),
           UNCHANGED <<payment, mentions, intent, bySupport, refund, notices>>,
           c.pc = "sync_order" => payment[o] \notin Mutable \/ EventKey(c) \in mentions,
           \A t \in Ticket : TicketOf(t, o)' =>
              TicketOf(t, o) /\ (Delivers(c) => o \notin bySupport)
    PROVE  OrderFollows(o)'
<1>1. OrderFollows(o) /\ OrderFits(o) /\ payment[o] \in PaymentStatus
  BY DEF SupportInv, SupportTypeOK, OrdersFollow, OrdersFit, Online
<1>2. /\ \A e \in clerks : e # c => e \in clerks'
      /\ \A e \in clerks' : e \in clerks \/ (e.pc \in {"save", "error_ticket"} /\ Resumed(c, e))
  BY CallTypes DEF Returned, Resumed, Turns, SupportInv, SupportTypeOK
<1>3. OnBehalf(o)' => o \in bySupport'
  BY <1>1, <1>2 DEF OrderFollows, OnBehalf
<1>4. ASSUME NEW t \in Ticket, Requested(t, o) PROVE Requested(t, o)'
  BY <1>2, <1>4 DEF Requested, ApprovalPcs, SyncPcs
<1>5. PaymentFollows(o) => PaymentFollows(o)'
  BY <1>1, <1>2 DEF PaymentFollows, EventKey, SyncPcs, Mutable, OrderFits, PaymentStatus, RefundStatus
<1>6. ASSUME intent[o] = "refunded", NEW t \in Ticket, TicketOf(t, o)', TicketFollows(t, o)
      PROVE  TicketFollows(t, o)'
  <2>1. CASE \E e \in clerks : e.order = o /\ Approves(e, t)
    <3>1. PICK e \in clerks : e.order = o /\ Approves(e, t)
      BY <2>1
    <3>2. CASE e = c
      <4>1. PICK d : Resumed(c, d)
        BY <3>1, <3>2 DEF Approves, Returned
      <4>2. d \in clerks' /\ d.order = o /\ d.ticket = t /\ d.then = "save" /\ d.pc = "save" /\ d.status = "refunded"
        BY <1>6, <3>1, <3>2, <4>1 DEF Resumed, Turns, Same, Approves
      <4> QED
        BY <4>2 DEF TicketFollows, Approves
    <3>3. CASE e # c
      BY <1>2, <3>1, <3>3 DEF TicketFollows, Approves
    <3> QED
      BY <3>2, <3>3
  <2>2. CASE ~\E e \in clerks : e.order = o /\ Approves(e, t)
    <3>1. PICK e \in clerks : e.order = o /\ Delivers(e) /\ o \in bySupport
      BY <1>6, <2>2 DEF TicketFollows
    <3>2. e # c
      BY <1>6, <3>1 DEF Delivers
    <3>3. e \in clerks' /\ Delivers(e)'
      BY <1>2, <3>1, <3>2 DEF Delivers, EventKey
    <3>4. \A x \in clerks' : x.order = o /\ x.pc \in ApprovalPcs => x.ticket = t
      BY <1>2, <1>6, <2>2 DEF TicketFollows, ApprovalPcs
    <3> QED
      BY <3>1, <3>3, <3>4 DEF TicketFollows
  <2> QED
    BY <2>1, <2>2
<1> QED
  BY <1>1, <1>3, <1>4, <1>5, <1>6 DEF OrderFollows

\* The engine learns that the money is back: the call that learnt it, or the
\* ticket's own approval, will deliver it.
LEMMA RefundArrives ==
    ASSUME SupportInv, NEW o \in Online, o \notin interrupted, UNCHANGED <<mentions, bySupport, ticket>>,
           intent[o] # "refunded", OnBehalf(o)' => o \in bySupport,
           payment'[o] = payment[o] \/ (payment[o] = "paid" /\ payment'[o] = "refunded"),
           NEW d \in clerks', d.order = o, d.pc = "sync_order", d.status = "refunded",
           \A e \in clerks : e.pc \in ApprovalPcs => e \in clerks',
           \A e \in clerks' : e \in clerks \/ e.pc \notin ApprovalPcs
    PROVE  OrderFollows(o)'
<1>1. OrderFollows(o) /\ OrderFits(o) /\ payment[o] \in PaymentStatus
  BY DEF SupportInv, SupportTypeOK, OrdersFollow, OrdersFit, Online
<1>2. ASSUME NEW t \in Ticket, Requested(t, o) PROVE Requested(t, o)'
  BY <1>2 DEF Requested
<1>3. EventKey(d) \notin mentions'
  BY <1>1 DEF OrderFits, EventKey
<1>4. PaymentFollows(o)'
  BY <1>3 DEF PaymentFollows, EventKey
<1>5. ASSUME NEW t \in Ticket, TicketOf(t, o) PROVE TicketFollows(t, o)'
  <2>1. CASE o \in bySupport
    <3>1. Delivers(d)'
      BY <1>1, <1>3, <2>1 DEF Delivers, OrderFits, PaymentStatus, RefundStatus, Mutable, EventKey
    <3>2. ASSUME NEW e \in clerks, e.order = o, e.pc \in ApprovalPcs PROVE e.ticket = t
      <4>1. e.ticket \in Ticket /\ ticket[e.ticket].order = o /\ ticket[e.ticket].status \in Approved
        BY <3>2 DEF SupportInv, CallsFit, CallFits, OwnTicket, ApprovalPcs
      <4>2. ticket[e.ticket].status \in Refunding
        BY <4>1 DEF SupportInv, TicketsFit, TicketFits, Approved, Online
      <4> QED
        BY <1>5, <4>1, <4>2, OnlyOneActive DEF TicketOf, ActiveStatus, Refunding
    <3> QED
      BY <2>1, <3>1, <3>2 DEF TicketFollows
  <2>2. CASE o \notin bySupport
    <3>1. PICK e \in clerks : e.order = o /\ e.ticket = t /\ e.pc \in ApprovalPcs
      BY <1>1, <1>5, <2>2 DEF OrderFollows, Requested
    <3>2. e.then = "save"
      BY <3>1 DEF SupportInv, CallsFit, CallFits, ApprovalPcs
    <3> QED
      BY <3>1, <3>2 DEF TicketFollows, Approves
  <2> QED
    BY <2>1, <2>2
<1> QED
  BY <1>1, <1>2, <1>4, <1>5 DEF OrderFollows, TicketOf

\* The engine's answers change the intent and the refund of one order only.
LEMMA EngineTyped ==
    ASSUME SupportInv, NEW o \in Online, UNCHANGED <<cash, window, payment, mentions, bySupport, notices, ticket,
                                                     customer, interrupted, deaths>>,
           intent' = intent \/ (\E i \in RefundStatus : intent' = [intent EXCEPT ![o] = i]),
           refund' = refund \/ (\E r \in [id : 0..MaxAttempts, state : {"none", "pending", "processed", "failed"}] :
                                    refund' = [refund EXCEPT ![o] = r]),
           \A d \in clerks' : d \in clerks \/ d \in TicketCall
    PROVE  SupportTypeOK'
<1>1. intent' \in [Online -> {"consumed"} \union RefundStatus]
  BY DEF SupportInv, SupportTypeOK
<1>2. refund' \in [Online -> [id : 0..MaxAttempts, state : {"none", "pending", "processed", "failed"}]]
  BY DEF SupportInv, SupportTypeOK
<1>3. clerks' \subseteq TicketCall
  BY DEF SupportInv, SupportTypeOK
<1> QED
  BY <1>1, <1>2, <1>3 DEF SupportInv, SupportTypeOK, Online

LEMMA FindRefundKeeps ==
    ASSUME SupportInv, NEW c \in clerks, FindRefund(c)
    PROVE  SupportInv'
<1> DEFINE o == c.order
<1>0. /\ UNCHANGED <<cash, window, payment, mentions, bySupport, refund, notices, ticket, customer,
                     interrupted, deaths>>
      /\ c.pc = "refund"
  BY DEF FindRefund, At
<1>1. /\ c \in TicketCall /\ o \in Online /\ o \in Delivered /\ OrderFits(o)
      /\ refund[o].id \in 0..MaxAttempts /\ intent[o] \in {"consumed"} \union RefundStatus
  BY <1>0, CallTypes DEF SupportInv, SupportTypeOK, CallsFit, CallFits, EnginePcs, OrdersFit
<1>2. o \notin interrupted => o \in bySupport
  BY <1>0, <1>1 DEF SupportInv, OrdersFollow, OrderFollows, OnBehalf
<1>3. \/ intent[o] = "refunded" /\ UNCHANGED intent /\ Returned(c)
      \/ /\ intent[o] # "refunded" /\ refund[o].state = "pending"
         /\ intent' = [intent EXCEPT ![o] = "refund_pending"] /\ Returned(c)
      \/ /\ intent[o] # "refunded"
         /\ intent' = [intent EXCEPT ![o] = "refunded"]
         /\ \E d : Turns(c, d) /\ d.pc = "sync_order" /\ d.then = c.then /\ d.id = refund[o].id
                   /\ d.status = "refunded"
  <2>1. CASE intent[o] = "refunded" /\ UNCHANGED intent /\ Returns(c)
    <3>1. intent'[c.order] \in {"consumed"} \union RefundStatus
      BY <1>1, <2>1
    <3> QED
      BY <1>1, <2>1, <3>1, CallReturned
  <2>2. CASE /\ intent[o] # "refunded" /\ refund[o].state = "pending"
             /\ intent' = [intent EXCEPT ![o] = "refund_pending"] /\ Returns(c)
    <3>1. intent'[c.order] \in {"consumed"} \union RefundStatus
      BY <1>1, <2>2 DEF SupportInv, SupportTypeOK, RefundStatus
    <3> QED
      BY <1>1, <2>2, <3>1, CallReturned
  <2>3. CASE /\ intent[o] # "refunded" /\ refund[o].state = "processed"
             /\ intent' = [intent EXCEPT ![o] = "refunded"]
             /\ Syncs(c, refund[o].id, "refunded")
    <3>1. PICK i \in 0..MaxAttempts : i = refund[o].id
      BY <1>1
    <3>2. Syncs(c, i, "refunded")
      BY <2>3, <3>1 DEF Syncs
    <3> QED
      BY <1>1, <2>3, <3>1, <3>2, Syncing DEF RefundStatus
  <2> QED
    BY <2>1, <2>2, <2>3 DEF FindRefund
<1> HIDE DEF o
<1>4. /\ \A p \in Online \ {o} : intent'[p] = intent[p]
      /\ intent[o] = "refunded" => intent'[o] = "refunded"
  BY <1>1, <1>3 DEF SupportInv, SupportTypeOK
<1>5. /\ \A d \in clerks' : d \in clerks \/ (d \in TicketCall /\ d.order = o
                                              /\ d.pc \in {"save", "error_ticket", "sync_order"})
      /\ \A e \in clerks : e # c => e \in clerks'
  BY <1>1, <1>3, CallTypes DEF Returned, Resumed, Turns, Same, o
<1>6. SupportTypeOK'
  BY <1>0, <1>1, <1>3, <1>5, EngineTyped DEF RefundStatus
<1>7. Onward
  BY <1>0, <1>4 DEF Onward
<1>8. CallsFit'
  <2>1. CASE Returned(c)
    BY <1>1, <1>7, <2>1, ReturnedFits DEF o
  <2>2. CASE ~Returned(c)
    <3>1. PICK d : Turns(c, d) /\ d.pc = "sync_order" /\ d.then = c.then /\ d.status = "refunded"
      BY <1>3, <2>2
    <3>2. intent'[o] = "refunded"
      BY <1>1, <1>3, <2>2 DEF SupportInv, SupportTypeOK
    <3>3. CallFits(d)'
      <4>1. OwnTicket(d)'
        BY <1>0, <3>1 DEF SupportInv, CallsFit, CallFits, OwnTicket, Turns, Same
      <4> QED
        BY <1>0, <1>1, <3>1, <3>2, <4>1 DEF CallFits, Turns, Same, EnginePcs, SyncPcs, ApprovalPcs, Online, o
    <3> QED
      BY <1>7, <3>1, <3>3, CallsCarryOn DEF Turns
  <2> QED
    BY <2>1, <2>2
<1>9. TicketsFit' /\ OneKey'
  BY <1>0, <1>7, TicketsRest
<1>10. BlockComes'
  BY <1>0, <1>5, BlockRests
<1>11. NoticesFit' /\ OrdersFit' /\ OrdersFollow'
  <2>1. \A p \in Online \ {o} : OrderRests(p)
    BY <1>0, <1>4, <1>5 DEF OrderRests, TicketOf, o, Online
  <2>2. OrderFits(o)'
    BY <1>0, <1>1, <1>3, <1>4 DEF OrderFits, Announced, SupportInv, SupportTypeOK
  <2>3. ASSUME o \notin interrupted PROVE OrderFollows(o)'
    <3>1. CASE intent[o] = "refunded"
      <4>1. UNCHANGED intent /\ Returned(c)
        BY <1>3, <3>1
      <4> QED
        BY <1>0, <1>1, <2>3, <4>1, OrderReturns DEF TicketOf, Delivers, SyncPcs, o
    <3>2. CASE intent'[o] # "refunded"
      BY <1>0, <1>1, <1>2, <2>3, <3>2, OrderWaits
    <3>3. CASE intent[o] # "refunded" /\ intent'[o] = "refunded"
      <4>1. PICK d \in clerks' : d.order = o /\ d.pc = "sync_order" /\ d.status = "refunded"
        BY <1>1, <1>3, <3>3 DEF Turns, Same, o, SupportInv, SupportTypeOK
      <4>2. /\ \A e \in clerks : e.pc \in ApprovalPcs => e \in clerks'
            /\ \A e \in clerks' : e \in clerks \/ e.pc \notin ApprovalPcs
        BY <1>0, <1>5 DEF ApprovalPcs
      <4> QED
        BY <1>0, <1>1, <1>2, <2>3, <3>3, <4>1, <4>2, RefundArrives
    <3> QED
      BY <3>1, <3>2, <3>3
  <2> QED
    BY <1>0, <2>1, <2>2, <2>3, OrdersRest DEF SupportInv, NoticesFit, Online
<1> QED
  BY <1>6, <1>8, <1>9, <1>10, <1>11 DEF SupportInv

LEMMA RequestRefundKeeps ==
    ASSUME SupportInv, NEW c \in clerks, RequestRefund(c)
    PROVE  SupportInv'
<1> DEFINE o == c.order
<1>0. /\ UNCHANGED <<cash, window, payment, mentions, bySupport, notices, ticket, customer, interrupted, deaths>>
      /\ c.pc = "refund" /\ intent[o] # "refunded" /\ refund[o].state \in {"none", "failed"}
  BY DEF RequestRefund, At
<1>1. /\ c \in TicketCall /\ o \in Online /\ o \in Delivered /\ OrderFits(o) /\ CallFits(c)
      /\ refund[o] \in [id : 0..MaxAttempts, state : {"none", "pending", "processed", "failed"}]
  BY <1>0, CallTypes DEF SupportInv, SupportTypeOK, CallsFit, CallFits, EnginePcs, OrdersFit
<1>2. o \notin interrupted => o \in bySupport
  BY <1>0, <1>1 DEF SupportInv, OrdersFollow, OrderFollows, OnBehalf
<1>3. PICK d \in TicketCall, r \in [id : 0..MaxAttempts, state : {"none", "pending", "processed", "failed"}] :
        /\ Turns(c, d) /\ d.pc = "sync_order" /\ d.status \in RefundStatus
        /\ d.then = c.then \/ (c.then # "end" /\ d.then = "error_ticket" /\ d.status = "refund_failed")
               \/ (d.then = "end" /\ d.status = "refund_failed")
        /\ refund' = [refund EXCEPT ![o] = r] /\ intent' = [intent EXCEPT ![o] = d.status]
        /\ r = refund[o] \/ (r.state = "processed" => d.status = "refunded")
  <2>1. CASE /\ refund[o].id < MaxAttempts
             /\ \E state \in {"pending", "processed", "failed"} :
                   /\ refund' = [refund EXCEPT ![o] = [id |-> @.id + 1, state |-> state]]
                   /\ intent' = [intent EXCEPT ![o] = StatusOf(state)]
                   /\ Syncs(c, refund[o].id + 1, StatusOf(state))
    <3>1. PICK state \in {"pending", "processed", "failed"} :
                   /\ refund' = [refund EXCEPT ![o] = [id |-> @.id + 1, state |-> state]]
                   /\ intent' = [intent EXCEPT ![o] = StatusOf(state)]
                   /\ Syncs(c, refund[o].id + 1, StatusOf(state))
      BY <2>1
    <3>2. PICK i \in 0..MaxAttempts : i = refund[o].id + 1
      BY <1>1, <2>1, SupportAssumption
    <3>3. PICK status \in RefundStatus : status = StatusOf(state) /\ (status = "refunded" <=> state = "processed")
      BY <3>1 DEF StatusOf, RefundStatus
    <3>4. Syncs(c, i, status)
      BY <3>1, <3>2, <3>3 DEF Syncs
    <3>5. PICK d : Turns(c, d) /\ d.pc = "sync_order" /\ d.then = c.then /\ d.status = status
      BY <1>1, <3>4, Syncing
    <3> DEFINE r == [id |-> i, state |-> state]
    <3>6. r \in [id : 0..MaxAttempts, state : {"none", "pending", "processed", "failed"}] /\ r.state = state
      OBVIOUS
    <3>7. refund' = [refund EXCEPT ![o] = r]
      BY <1>1, <3>1, <3>2 DEF SupportInv, SupportTypeOK
    <3> HIDE DEF r
    <3> QED
      BY <3>1, <3>3, <3>5, <3>6, <3>7 DEF Turns
  <2>2. CASE /\ intent' = [intent EXCEPT ![o] = "refund_failed"]
             /\ Becomes(c, [c EXCEPT !.pc = "sync_order", !.id = Receipt, !.status = "refund_failed",
                                     !.then = IF @ = "save" THEN "error_ticket" ELSE "end"])
             /\ UNCHANGED refund
    <3>1. PICK then \in {"end", "error_ticket"} : then = IF c.then = "save" THEN "error_ticket" ELSE "end"
      OBVIOUS
    <3>7. PICK id \in 0..MaxAttempts : id = Receipt
      BY SupportAssumption DEF Receipt
    <3> DEFINE d == [c EXCEPT !.pc = "sync_order", !.id = id, !.status = "refund_failed", !.then = then]
    <3>2. d \in TicketCall
      BY <1>1 DEF TicketCall, RefundStatus
    <3>3. Same(c, d) /\ d.pc = "sync_order" /\ d.status = "refund_failed" /\ d.then = then
      BY <1>1 DEF TicketCall, Same
    <3>4. clerks' = (clerks \ {c}) \union {d}
      <4>1. d = [c EXCEPT !.pc = "sync_order", !.id = Receipt, !.status = "refund_failed",
                          !.then = IF @ = "save" THEN "error_ticket" ELSE "end"]
        BY <1>1, <3>1, <3>7 DEF TicketCall
      <4> QED
        BY <2>2, <4>1 DEF Becomes
    <3>5. refund' = [refund EXCEPT ![o] = refund[o]]
      BY <1>1, <2>2 DEF SupportInv, SupportTypeOK
    <3> HIDE DEF d
    <3>6. Turns(c, d)
      BY <3>2, <3>3, <3>4 DEF Turns
    <3> QED
      BY <1>1, <2>2, <3>1, <3>2, <3>3, <3>5, <3>6, CallTypes DEF RefundStatus
  <2> QED
    BY <2>1, <2>2 DEF RequestRefund
<1> HIDE DEF o
<1>4. /\ \A p \in Online \ {o} : intent'[p] = intent[p] /\ refund'[p] = refund[p]
      /\ intent'[o] = d.status /\ refund'[o] = r
  BY <1>1, <1>3 DEF SupportInv, SupportTypeOK
<1>5. d \in TicketCall /\ d.order = o /\ d.ticket = c.ticket /\ clerks' = (clerks \ {c}) \union {d}
  BY <1>3 DEF Turns, Same, o
<1>6. SupportTypeOK'
  BY <1>0, <1>1, <1>3, <1>5, EngineTyped
<1>7. Onward
  BY <1>0, <1>4 DEF Onward
<1>8. CallsFit'
  <2>1. OwnTicket(d)'
    BY <1>0, <1>1, <1>3, <1>5 DEF CallFits, OwnTicket, o
  <2>2. CallFits(d)'
    BY <1>0, <1>1, <1>3, <1>4, <1>5, <2>1 DEF CallFits, EnginePcs, SyncPcs, ApprovalPcs, Online
  <2> QED
    BY <1>5, <1>7, <2>2, CallsCarryOn
<1>9. TicketsFit' /\ OneKey'
  BY <1>0, <1>7, TicketsRest
<1>10. BlockComes'
  BY <1>0, <1>5, BlockRests
<1>11. NoticesFit' /\ OrdersFit' /\ OrdersFollow'
  <2>1. \A p \in Online \ {o} : OrderRests(p)
    BY <1>0, <1>4, <1>5 DEF OrderRests, TicketOf, o, Online
  <2>2. OrderFits(o)'
    BY <1>0, <1>1, <1>3, <1>4 DEF OrderFits, Announced
  <2>3. ASSUME o \notin interrupted PROVE OrderFollows(o)'
    <3>1. CASE intent'[o] # "refunded"
      BY <1>0, <1>1, <1>2, <2>3, <3>1, OrderWaits
    <3>2. CASE intent'[o] = "refunded"
      <4>1. /\ d \in clerks' /\ d.status = "refunded"
            /\ \A e \in clerks : e.pc \in ApprovalPcs => e \in clerks'
            /\ \A e \in clerks' : e \in clerks \/ e.pc \notin ApprovalPcs
        BY <1>0, <1>3, <1>4, <1>5, <3>2 DEF ApprovalPcs
      <4> QED
        BY <1>0, <1>1, <1>2, <1>3, <1>5, <2>3, <4>1, RefundArrives
    <3> QED
      BY <3>1, <3>2
  <2> QED
    BY <1>0, <2>1, <2>2, <2>3, OrdersRest DEF SupportInv, NoticesFit, Online
<1> QED
  BY <1>6, <1>8, <1>9, <1>10, <1>11 DEF SupportInv

LEMMA SweepRefundKeeps ==
    ASSUME SupportInv, NEW w \in Clerk, NEW o \in Delivered, SweepRefund(w, o)
    PROVE  SupportInv'
<1>0. /\ UNCHANGED <<cash, window, payment, mentions, intent, bySupport, refund, notices, ticket, customer,
                     interrupted, deaths>>
      /\ o \in Online /\ intent[o] \in {"refund_pending", "refund_failed"}
  BY DEF SweepRefund, moneyVars
<1>1. PICK d \in TicketCall : /\ d.order = o /\ d.pc = "refund" /\ d.then = "end" /\ d.id = 0
                              /\ d.status = "refund_pending" /\ clerks' = clerks \union {d}
  BY Calling DEF SweepRefund, Pcs
<1>2. SupportTypeOK'
  BY <1>0, <1>1 DEF SupportInv, SupportTypeOK, Online
<1>3. Onward
  BY <1>0 DEF Onward
<1>4. CallsFit'
  <2>1. CallFits(d)'
    BY <1>0, <1>1 DEF CallFits, OwnTicket, EnginePcs, SyncPcs, ApprovalPcs, Online
  <2> QED
    BY <1>1, <1>3, <2>1, CallsCarryOn
<1>5. TicketsFit' /\ OneKey'
  BY <1>0, <1>3, TicketsRest
<1>6. BlockComes'
  BY <1>0, <1>1, BlockRests
<1>7. NoticesFit' /\ OrdersFit' /\ OrdersFollow'
  <2>1. \A p \in Online \ {o} : OrderRests(p)
    BY <1>0, <1>1 DEF OrderRests, TicketOf
  <2>2. OrderFits(o)'
    BY <1>0 DEF SupportInv, OrdersFit, OrderFits, Announced
  <2>3. ASSUME o \notin interrupted PROVE OrderFollows(o)'
    BY <1>0, <2>3, OrderWaits DEF SupportInv, OrdersFollow, OrderFollows, OnBehalf
  <2> QED
    BY <1>0, <2>1, <2>2, <2>3, OrdersRest DEF SupportInv, NoticesFit, Online
<1> QED
  BY <1>2, <1>4, <1>5, <1>6, <1>7 DEF SupportInv

\* The provider's refund of one order changes, and a webhook says so.
LEMMA ProviderKeeps ==
    ASSUME SupportInv, NEW o \in Online, NEW status \in RefundStatus,
           NEW r \in [id : 0..MaxAttempts, state : {"none", "pending", "processed", "failed"}],
           refund' = [refund EXCEPT ![o] = r],
           notices' = notices \union {<<o, r.id, status>>},
           UNCHANGED <<cash, window, payment, mentions, intent, bySupport, ticket, customer, clerks,
                       interrupted, deaths>>,
           r.state = "processed" => status = "refunded",
           o \in interrupted \/ o \in bySupport \/ (r.state = "processed" /\ status = "refunded")
    PROVE  SupportInv'
<1>1. /\ \A p \in Online \ {o} : refund'[p] = refund[p]
      /\ refund'[o] = r
  BY DEF SupportInv, SupportTypeOK
<1>2. SupportTypeOK'
  BY DEF SupportInv, SupportTypeOK, Online
<1>3. Onward
  BY DEF Onward
<1>4. CallsFit'
  BY <1>3, CallsCarryOn
<1>5. TicketsFit' /\ OneKey'
  BY <1>3, TicketsRest
<1>6. BlockComes'
  BY BlockRests
<1>7. NoticesFit' /\ OrdersFit' /\ OrdersFollow'
  <2>0. NoticesFit'
    BY DEF SupportInv, NoticesFit, Online
  <2>1. \A p \in Online \ {o} : OrderRests(p)
    BY <1>1 DEF OrderRests, TicketOf
  <2>2. OrderFits(o)'
    <3>1. OrderFits(o)
      BY DEF SupportInv, OrdersFit
    <3>2. status = "refunded" => Announced(o)'
      <4>1. <<o, r.id, status>> \in notices'
        OBVIOUS
      <4> QED
        BY <4>1 DEF Announced
    <3> QED
      BY <1>1, <3>1, <3>2 DEF OrderFits
  <2>3. ASSUME o \notin interrupted PROVE OrderFollows(o)'
    <3>1. OrderFollows(o)
      BY <2>3 DEF SupportInv, OrdersFollow
    <3>2. OnBehalf(o)' => o \in bySupport'
      BY <1>1, <2>3, <3>1 DEF OrderFollows, OnBehalf
    <3>3. ASSUME NEW t \in Ticket PROVE Requested(t, o)' <=> Requested(t, o)
      BY DEF Requested
    <3>4. PaymentFollows(o) => PaymentFollows(o)'
      BY DEF PaymentFollows, EventKey
    <3>5. ASSUME NEW t \in Ticket, TicketFollows(t, o) PROVE TicketFollows(t, o)'
      BY <3>5 DEF TicketFollows, Approves, Delivers, EventKey
    <3> QED
      BY <3>1, <3>2, <3>3, <3>4, <3>5 DEF OrderFollows, TicketOf
  <2> QED
    BY <2>0, <2>1, <2>2, <2>3, OrdersRest
<1> QED
  BY <1>2, <1>4, <1>5, <1>6, <1>7 DEF SupportInv

LEMMA ProviderSettlesKeeps ==
    ASSUME SupportInv, NEW o \in Delivered, ProviderSettles(o)
    PROVE  SupportInv'
<1>1. PICK state \in {"processed", "failed"} :
         /\ refund' = [refund EXCEPT ![o].state = state]
         /\ notices' = notices \union {<<o, refund[o].id, StatusOf(state)>>}
  BY DEF ProviderSettles
<1>2. /\ o \in Online /\ refund[o].state = "pending"
      /\ UNCHANGED <<cash, window, payment, mentions, intent, bySupport, ticket, customer, clerks,
                     interrupted, deaths>>
  BY DEF ProviderSettles
<1>3. PICK status \in RefundStatus : status = StatusOf(state) /\ (state = "processed" => status = "refunded")
  BY <1>1 DEF StatusOf, RefundStatus
<1>4. PICK k \in [id : 0..MaxAttempts, state : {"none", "pending", "processed", "failed"}] : k = refund[o]
  BY <1>2 DEF SupportInv, SupportTypeOK
<1> DEFINE r == [k EXCEPT !.state = state]
<1>5. /\ r \in [id : 0..MaxAttempts, state : {"none", "pending", "processed", "failed"}]
      /\ r.state = state /\ r.id = k.id
  OBVIOUS
<1>6. refund' = [refund EXCEPT ![o] = r]
  BY <1>1, <1>2, <1>4 DEF SupportInv, SupportTypeOK
<1>7. notices' = notices \union {<<o, r.id, status>>}
  BY <1>1, <1>3, <1>4, <1>5
<1>8. o \in interrupted \/ o \in bySupport
  BY <1>2 DEF SupportInv, OrdersFollow, OrderFollows, OnBehalf
<1> HIDE DEF r
<1> QED
  BY <1>2, <1>3, <1>5, <1>6, <1>7, <1>8, ProviderKeeps

LEMMA DashboardRefundKeeps ==
    ASSUME SupportInv, NEW o \in Delivered, DashboardRefund(o)
    PROVE  SupportInv'
<1>1. /\ o \in Online /\ MaxAttempts > 0
      /\ refund' = [refund EXCEPT ![o] = [id |-> 1, state |-> "processed"]]
      /\ notices' = notices \union {<<o, 1, "refunded">>}
      /\ UNCHANGED <<cash, window, payment, mentions, intent, bySupport, ticket, customer, clerks,
                     interrupted, deaths>>
  BY DEF DashboardRefund
<1> DEFINE r == [id |-> 1, state |-> "processed"]
<1>2. /\ r \in [id : 0..MaxAttempts, state : {"none", "pending", "processed", "failed"}]
      /\ r.id = 1 /\ r.state = "processed"
  BY <1>1, SupportAssumption
<1>3. refund' = [refund EXCEPT ![o] = r] /\ notices' = notices \union {<<o, r.id, "refunded">>}
  BY <1>1
<1> HIDE DEF r
<1> QED
  BY <1>1, <1>2, <1>3, ProviderKeeps DEF RefundStatus

LEMMA RefundNoticeKeeps ==
    ASSUME SupportInv, NEW w \in Clerk, NEW n \in notices, RefundNotice(w, n)
    PROVE  SupportInv'
<1> DEFINE o == n[1]
<1>0. /\ UNCHANGED <<cash, window, mentions, bySupport, refund, ticket, customer, interrupted, deaths>>
      /\ intent' = [intent EXCEPT ![o] = IF @ = "refunded" THEN @ ELSE n[3]]
      /\ payment' = [payment EXCEPT ![o] = IF n[3] = "refunded" /\ @ = "paid" THEN "refunded" ELSE @]
      /\ clerks' = clerks \union {[CallAt(w, o, "none", "sync_order", "end") EXCEPT !.id = n[2], !.status = n[3]]}
      /\ notices' = notices \ {n}
  BY DEF RefundNotice, Takes
<1>1. /\ o \in Online /\ o \in Delivered /\ n[2] \in 0..MaxAttempts /\ n[3] \in RefundStatus
      /\ OrderFits(o) /\ payment[o] \in PaymentStatus
  BY DEF SupportInv, SupportTypeOK, NoticesFit, OrdersFit, Online
<1> DEFINE d == [CallAt(w, o, "none", "sync_order", "end") EXCEPT !.id = n[2], !.status = n[3]]
<1>2. d \in TicketCall
  BY <1>1 DEF CallAt, TicketCall
<1>3. d.order = o /\ d.pc = "sync_order" /\ d.then = "end" /\ d.status = n[3] /\ clerks' = clerks \union {d}
  BY <1>0 DEF CallAt
<1>4. /\ \A p \in Online \ {o} : intent'[p] = intent[p]
      /\ \A p \in Delivered \ {o} : payment'[p] = payment[p]
      /\ intent'[o] = IF intent[o] = "refunded" THEN "refunded" ELSE n[3]
      /\ payment'[o] = IF n[3] = "refunded" /\ payment[o] = "paid" THEN "refunded" ELSE payment[o]
  BY <1>0, <1>1 DEF SupportInv, SupportTypeOK
<1> HIDE DEF d
<1> HIDE DEF o
<1>5. SupportTypeOK'
  <2>1. intent' \in [Online -> {"consumed"} \union RefundStatus]
    BY <1>0, <1>1 DEF SupportInv, SupportTypeOK
  <2>2. payment' \in [Delivered -> PaymentStatus]
    BY <1>0, <1>1 DEF SupportInv, SupportTypeOK, PaymentStatus, RefundStatus
  <2> QED
    BY <1>0, <1>2, <1>3, <2>1, <2>2 DEF SupportInv, SupportTypeOK, Online
<1>6. Onward
  BY <1>0, <1>4 DEF Onward
<1>7. CallsFit'
  <2>1. CallFits(d)'
    BY <1>0, <1>1, <1>3, <1>4 DEF CallFits, OwnTicket, EnginePcs, SyncPcs, ApprovalPcs, Online
  <2> QED
    BY <1>3, <1>6, <2>1, CallsCarryOn
<1>8. TicketsFit' /\ OneKey'
  BY <1>0, <1>6, TicketsRest
<1>9. BlockComes'
  BY <1>0, <1>3, BlockRests
<1>10. NoticesFit' /\ OrdersFit' /\ OrdersFollow'
  <2>0. NoticesFit'
    BY <1>0 DEF SupportInv, NoticesFit, Online
  <2>1. \A p \in Online \ {o} : OrderRests(p)
    BY <1>0, <1>3, <1>4 DEF OrderRests, TicketOf, Online, o
  <2>2. OrderFits(o)'
    BY <1>0, <1>1, <1>4 DEF OrderFits, Announced, RefundStatus, PaymentStatus
  <2>3. ASSUME o \notin interrupted PROVE OrderFollows(o)'
    <3>1. OrderFollows(o)
      BY <1>1, <2>3 DEF SupportInv, OrdersFollow
    <3>2. CASE intent[o] # "refunded" /\ n[3] # "refunded"
      <4>1. o \in bySupport
        BY <3>1, <3>2 DEF OrderFollows, OnBehalf, o
      <4> QED
        BY <1>0, <1>1, <1>4, <3>2, <4>1, OrderWaits
    <3>3. CASE intent[o] # "refunded" /\ n[3] = "refunded"
      <4>1. OnBehalf(o)' => o \in bySupport
        BY <1>0, <1>3, <1>4, <3>1, <3>3 DEF OrderFollows, OnBehalf
      <4>2. /\ d \in clerks' /\ d.status = "refunded"
            /\ \A e \in clerks : e.pc \in ApprovalPcs => e \in clerks'
            /\ \A e \in clerks' : e \in clerks \/ e.pc \notin ApprovalPcs
        BY <1>3, <3>3 DEF ApprovalPcs
      <4> QED
        BY <1>0, <1>1, <1>3, <1>4, <2>3, <3>3, <4>1, <4>2, RefundArrives
    <3>4. CASE intent[o] = "refunded"
      <4>1. OnBehalf(o)' => o \in bySupport'
        BY <1>0, <1>3, <1>4, <3>1, <3>4 DEF OrderFollows, OnBehalf
      <4>2. ASSUME NEW t \in Ticket, Requested(t, o) PROVE Requested(t, o)'
        BY <1>0, <1>3, <4>2 DEF Requested
      <4>3. PaymentFollows(o) => PaymentFollows(o)'
        BY <1>0, <1>3, <1>4 DEF PaymentFollows, EventKey
      <4>4. ASSUME NEW t \in Ticket, TicketFollows(t, o) PROVE TicketFollows(t, o)'
        <5>1. CASE \E e \in clerks : e.order = o /\ Approves(e, t)
          BY <1>3, <5>1 DEF TicketFollows, Approves
        <5>2. CASE ~\E e \in clerks : e.order = o /\ Approves(e, t)
          <6>1. o \in bySupport /\ payment'[o] = payment[o]
            BY <1>1, <1>4, <4>4, <5>2 DEF TicketFollows, OrderFits
          <6> QED
            BY <1>0, <1>3, <4>4, <5>2, <6>1 DEF TicketFollows, Delivers, EventKey, ApprovalPcs
        <5> QED
          BY <5>1, <5>2
      <4> QED
        BY <1>0, <1>4, <3>1, <3>4, <4>1, <4>2, <4>3, <4>4 DEF OrderFollows, TicketOf
    <3> QED
      BY <3>2, <3>3, <3>4
  <2> QED
    BY <1>0, <2>0, <2>1, <2>2, <2>3, OrdersRest
<1> QED
  BY <1>5, <1>7, <1>8, <1>9, <1>10 DEF SupportInv

-----------------------------------------------------------------------------
(* syncOrderRefundState *)

LEMMA MentionKeeps ==
    ASSUME SupportInv, NEW c \in clerks, Mention(c)
    PROVE  SupportInv'
<1> DEFINE o == c.order
<1>0. /\ UNCHANGED <<cash, window, payment, intent, bySupport, refund, notices, ticket, customer,
                     interrupted, deaths>>
      /\ c.pc = "mention" /\ GoesTo(c, "sync_ticket")
      /\ mentions' = mentions \/ (payment[o] = c.status /\ mentions' = mentions \union {EventKey(c)})
  BY DEF Mention, At
<1>1. /\ c \in TicketCall /\ o \in Online /\ o \in Delivered /\ CallFits(c) /\ OrderFits(o)
      /\ c.id \in 0..MaxAttempts /\ c.status \in RefundStatus
  BY <1>0, CallTypes DEF SupportInv, SupportTypeOK, CallsFit, CallFits, EnginePcs, SyncPcs, OrdersFit
<1>2. PICK d : /\ Turns(c, d) /\ d.pc = "sync_ticket" /\ d.then = c.then
               /\ d.id = c.id /\ d.status = c.status
  BY <1>0, <1>1, Going DEF Pcs
<1>3. d \in TicketCall /\ d.order = o /\ d.ticket = c.ticket /\ clerks' = (clerks \ {c}) \union {d}
  BY <1>2 DEF Turns, Same
<1> HIDE DEF o
<1>4. SupportTypeOK'
  BY <1>0, <1>1, <1>3 DEF SupportInv, SupportTypeOK, Online, EventKey, o
<1>5. Onward
  BY <1>0 DEF Onward
<1>6. CallsFit'
  <2>1. OwnTicket(d)'
    BY <1>0, <1>1, <1>2, <1>3 DEF CallFits, OwnTicket, o
  <2>2. CallFits(d)'
    BY <1>0, <1>1, <1>2, <1>3, <2>1 DEF CallFits, EnginePcs, SyncPcs, ApprovalPcs, Online, o
  <2> QED
    BY <1>3, <1>5, <2>2, CallsCarryOn
<1>7. TicketsFit' /\ OneKey'
  BY <1>0, <1>5, TicketsRest
<1>8. BlockComes'
  BY <1>0, <1>3, BlockRests
<1>9. NoticesFit' /\ OrdersFit' /\ OrdersFollow'
  <2>0. NoticesFit'
    BY <1>0 DEF SupportInv, NoticesFit, Online
  <2>1. \A p \in Online \ {o} : OrderRests(p)
    BY <1>0, <1>3 DEF OrderRests, TicketOf, EventKey, o
  <2>2. OrderFits(o)'
    BY <1>0, <1>1 DEF OrderFits, Announced, CallFits, SyncPcs, EventKey, o
  <2>3. ASSUME o \notin interrupted PROVE OrderFollows(o)'
    <3>1. OrderFollows(o)
      BY <1>1, <2>3 DEF SupportInv, OrdersFollow
    <3>2. OnBehalf(o)' => o \in bySupport'
      BY <1>0, <1>2, <1>3, <3>1 DEF OrderFollows, OnBehalf
    <3>3. ASSUME NEW t \in Ticket, Requested(t, o) PROVE Requested(t, o)'
      BY <1>0, <1>3, <3>3 DEF Requested, ApprovalPcs
    <3>4. ASSUME NEW e \in clerks, e.pc = "sync_order", e.status = "refunded", payment[o] # "refunded",
                 EventKey(e) \notin mentions
          PROVE  EventKey(e) \notin mentions'
      BY <1>0, <3>4 DEF EventKey
    <3>5. PaymentFollows(o) => PaymentFollows(o)'
      BY <1>0, <1>3, <3>4 DEF PaymentFollows, EventKey
    <3>6. ASSUME NEW t \in Ticket, TicketFollows(t, o) PROVE TicketFollows(t, o)'
      <4>1. CASE \E e \in clerks : e.order = o /\ Approves(e, t)
        BY <1>0, <1>2, <1>3, <4>1 DEF TicketFollows, Approves, SyncPcs
      <4>2. CASE ~\E e \in clerks : e.order = o /\ Approves(e, t)
        <5>1. PICK e \in clerks : e.order = o /\ Delivers(e)
          BY <3>6, <4>2 DEF TicketFollows
        <5>2. \E x \in clerks' : x.order = o /\ Delivers(x)'
          <6>1. CASE e = c
            BY <1>2, <1>3, <5>1, <6>1 DEF Delivers
          <6>2. CASE e # c
            BY <1>0, <1>3, <3>4, <5>1, <6>2 DEF Delivers, EventKey, Mutable
          <6> QED
            BY <6>1, <6>2
        <5>3. o \in bySupport' /\ \A x \in clerks' : x.order = o /\ x.pc \in ApprovalPcs => x.ticket = t
          BY <1>0, <1>2, <1>3, <3>6, <4>2 DEF TicketFollows, ApprovalPcs
        <5> QED
          BY <5>2, <5>3 DEF TicketFollows
      <4> QED
        BY <4>1, <4>2
    <3> QED
      BY <1>0, <3>1, <3>2, <3>3, <3>5, <3>6 DEF OrderFollows, TicketOf
  <2> QED
    BY <1>0, <2>0, <2>1, <2>2, <2>3, OrdersRest
<1> QED
  BY <1>4, <1>6, <1>7, <1>8, <1>9 DEF SupportInv

LEMMA SyncOrderKeeps ==
    ASSUME SupportInv, NEW c \in clerks, SyncOrder(c)
    PROVE  SupportInv'
<1> DEFINE o == c.order
<1>0. /\ UNCHANGED <<cash, window, mentions, intent, bySupport, refund, notices, ticket, customer,
                     interrupted, deaths>>
      /\ c.pc = "sync_order"
      /\ \/ /\ payment[o] \in Mutable /\ EventKey(c) \notin mentions
            /\ payment' = [payment EXCEPT ![o] = c.status] /\ GoesTo(c, "mention")
         \/ /\ payment[o] \notin Mutable \/ EventKey(c) \in mentions
            /\ UNCHANGED payment /\ Returns(c)
  BY DEF SyncOrder, At
<1>1. /\ c \in TicketCall /\ o \in Online /\ o \in Delivered /\ CallFits(c) /\ OrderFits(o)
      /\ c.status \in RefundStatus /\ intent[o] \in {"consumed"} \union RefundStatus
      /\ c.status = "refunded" => intent[o] = "refunded"
  BY <1>0, CallTypes DEF SupportInv, SupportTypeOK, CallsFit, CallFits, EnginePcs, SyncPcs, OrdersFit
<1>2. \/ /\ payment[o] \in Mutable /\ EventKey(c) \notin mentions
         /\ payment' = [payment EXCEPT ![o] = c.status]
         /\ \E d : /\ Turns(c, d) /\ d.pc = "mention" /\ d.then = c.then
                   /\ d.id = c.id /\ d.status = c.status
      \/ /\ payment[o] \notin Mutable \/ EventKey(c) \in mentions
         /\ UNCHANGED payment /\ Returned(c)
  <2>1. CASE /\ payment[o] \in Mutable /\ EventKey(c) \notin mentions
             /\ payment' = [payment EXCEPT ![o] = c.status] /\ GoesTo(c, "mention")
    BY <1>1, <2>1, Going DEF Pcs
  <2>2. CASE /\ payment[o] \notin Mutable \/ EventKey(c) \in mentions
             /\ UNCHANGED payment /\ Returns(c)
    <3>1. intent'[c.order] \in {"consumed"} \union RefundStatus
      BY <1>0, <1>1
    <3> QED
      BY <1>1, <2>2, <3>1, CallReturned
  <2> QED
    BY <1>0, <2>1, <2>2
<1> HIDE DEF o
<1>3. /\ \A d \in clerks' : d \in clerks \/ (d \in TicketCall /\ d.order = o
                                              /\ d.pc \in {"save", "error_ticket", "mention"})
      /\ \A e \in clerks : e # c => e \in clerks'
  BY <1>1, <1>2, CallTypes DEF Returned, Resumed, Turns, Same, o
<1>4. \A p \in Delivered \ {o} : payment'[p] = payment[p]
  BY <1>1, <1>2 DEF SupportInv, SupportTypeOK
<1>5. payment'[o] = payment[o] \/ payment'[o] = c.status
  BY <1>1, <1>2 DEF SupportInv, SupportTypeOK
<1>6. SupportTypeOK'
  <2>1. payment' \in [Delivered -> PaymentStatus]
    BY <1>1, <1>2 DEF SupportInv, SupportTypeOK, PaymentStatus
  <2> QED
    BY <1>0, <1>3, <2>1 DEF SupportInv, SupportTypeOK, Online
<1>7. Onward
  BY <1>0, <1>1, <1>4, <1>5 DEF Onward, RefundStatus
<1>8. CallsFit'
  <2>1. CASE Returned(c)
    BY <1>1, <1>7, <2>1, ReturnedFits DEF o
  <2>2. CASE ~Returned(c)
    <3>1. PICK d : /\ Turns(c, d) /\ d.pc = "mention" /\ d.then = c.then
                   /\ d.id = c.id /\ d.status = c.status
      BY <1>2, <2>2
    <3>2. OwnTicket(d)'
      BY <1>0, <1>1, <3>1 DEF CallFits, OwnTicket, Turns, Same
    <3>3. CallFits(d)'
      BY <1>0, <1>1, <3>1, <3>2 DEF CallFits, Turns, Same, EnginePcs, SyncPcs, ApprovalPcs, Online, o
    <3> QED
      BY <1>7, <3>1, <3>3, CallsCarryOn DEF Turns
  <2> QED
    BY <2>1, <2>2
<1>9. TicketsFit' /\ OneKey'
  BY <1>0, <1>7, TicketsRest
<1>10. BlockComes'
  BY <1>0, <1>3, BlockRests
<1>11. NoticesFit' /\ OrdersFit' /\ OrdersFollow'
  <2>0. NoticesFit'
    BY <1>0 DEF SupportInv, NoticesFit, Online
  <2>1. \A p \in Online \ {o} : OrderRests(p)
    BY <1>0, <1>3, <1>4 DEF OrderRests, TicketOf, o, Online
  <2>2. OrderFits(o)'
    BY <1>0, <1>1, <1>5 DEF OrderFits, Announced, RefundStatus
  <2>3. ASSUME o \notin interrupted PROVE OrderFollows(o)'
    <3>1. OrderFollows(o)
      BY <1>1, <2>3 DEF SupportInv, OrdersFollow
    <3>2. CASE /\ payment[o] \notin Mutable \/ EventKey(c) \in mentions
               /\ UNCHANGED payment /\ Returned(c)
      <4>1. ~Delivers(c)
        BY <1>0, <3>2 DEF Delivers, o
      <4> QED
        BY <1>0, <1>1, <2>3, <3>2, <4>1, OrderReturns DEF TicketOf, SyncPcs, o
    <3>3. CASE /\ payment[o] \in Mutable /\ EventKey(c) \notin mentions
               /\ payment' = [payment EXCEPT ![o] = c.status]
               /\ \E d : /\ Turns(c, d) /\ d.pc = "mention" /\ d.then = c.then
                         /\ d.id = c.id /\ d.status = c.status
      <4>1. PICK d : /\ Turns(c, d) /\ d.pc = "mention" /\ d.then = c.then
                     /\ d.id = c.id /\ d.status = c.status
        BY <3>3
      <4>2. d.order = o /\ d.ticket = c.ticket /\ clerks' = (clerks \ {c}) \union {d} /\ payment'[o] = c.status
        BY <1>1, <3>3, <4>1 DEF Turns, Same, o, SupportInv, SupportTypeOK
      <4>3. OnBehalf(o)' => o \in bySupport'
        BY <1>0, <3>1, <4>1, <4>2 DEF OrderFollows, OnBehalf
      <4>4. ASSUME NEW t \in Ticket, Requested(t, o) PROVE Requested(t, o)'
        BY <1>0, <4>2, <4>4 DEF Requested, ApprovalPcs
      <4>5. PaymentFollows(o) => PaymentFollows(o)'
        BY <1>0, <3>3, <4>2 DEF PaymentFollows, EventKey, Mutable
      <4>6. ASSUME NEW t \in Ticket, TicketFollows(t, o) PROVE TicketFollows(t, o)'
        <5>1. CASE \E e \in clerks : e.order = o /\ Approves(e, t)
          BY <1>0, <4>1, <4>2, <5>1 DEF TicketFollows, Approves, SyncPcs
        <5>2. CASE ~\E e \in clerks : e.order = o /\ Approves(e, t)
          <6>1. PICK e \in clerks : e.order = o /\ Delivers(e)
            BY <4>6, <5>2 DEF TicketFollows
          <6>2. \E x \in clerks' : x.order = o /\ Delivers(x)'
            <7>1. CASE c.status = "refunded"
              BY <4>1, <4>2, <7>1 DEF Delivers
            <7>2. CASE c.status # "refunded"
              BY <1>0, <1>1, <4>2, <6>1, <7>2 DEF Delivers, EventKey, Mutable, RefundStatus
            <7> QED
              BY <7>1, <7>2
          <6>3. o \in bySupport' /\ \A x \in clerks' : x.order = o /\ x.pc \in ApprovalPcs => x.ticket = t
            BY <1>0, <4>1, <4>2, <4>6, <5>2 DEF TicketFollows, ApprovalPcs
          <6> QED
            BY <6>2, <6>3 DEF TicketFollows
        <5> QED
          BY <5>1, <5>2
      <4> QED
        BY <1>0, <3>1, <4>3, <4>4, <4>5, <4>6 DEF OrderFollows, TicketOf
    <3> QED
      BY <1>2, <3>2, <3>3
  <2> QED
    BY <1>0, <2>0, <2>1, <2>2, <2>3, OrdersRest
<1> QED
  BY <1>6, <1>8, <1>9, <1>10, <1>11 DEF SupportInv

LEMMA SyncTicketKeeps ==
    ASSUME SupportInv, NEW c \in clerks, SyncTicket(c)
    PROVE  SupportInv'
<1> DEFINE o == c.order
<1>0. /\ UNCHANGED <<cash, window, payment, mentions, intent, bySupport, refund, notices, customer,
                     interrupted, deaths>>
      /\ c.pc = "sync_ticket" /\ Returns(c)
      /\ \/ /\ o \in bySupport
            /\ \E t \in Refundable(o) :
                  ticket' = [ticket EXCEPT ![t].status = c.status, ![t].keyed = @ /\ c.status # "refunded"]
         \/ (o \notin bySupport \/ Refundable(o) = {}) /\ UNCHANGED ticket
  BY DEF SyncTicket, At
<1>1. /\ c \in TicketCall /\ o \in Online /\ o \in Delivered /\ CallFits(c)
      /\ c.status \in RefundStatus /\ intent[o] \in {"consumed"} \union RefundStatus
      /\ c.status = "refunded" => intent[o] = "refunded"
  BY <1>0, CallTypes DEF SupportInv, SupportTypeOK, CallsFit, CallFits, EnginePcs, SyncPcs
<1>2. Returned(c)
  <2>1. intent'[c.order] \in {"consumed"} \union RefundStatus
    BY <1>0, <1>1
  <2> QED
    BY <1>0, <1>1, <2>1, CallReturned
<1> HIDE DEF o
<1>3. \/ /\ o \in bySupport
         /\ \E t \in Ticket : TicketOf(t, o) /\ TicketMoves(t, c.status)
      \/ /\ o \notin bySupport \/ \A t \in Ticket : ~TicketOf(t, o)
         /\ UNCHANGED ticket
  <2>1. \A t \in Ticket : t \in Refundable(o) <=> TicketOf(t, o)
    BY DEF Refundable, TicketOf, Refunding
  <2>2. ASSUME NEW t \in Refundable(o),
               ticket' = [ticket EXCEPT ![t].status = c.status, ![t].keyed = @ /\ c.status # "refunded"]
        PROVE  t \in Ticket /\ TicketOf(t, o) /\ TicketMoves(t, c.status)
    <3>1. t \in Ticket
      BY DEF Refundable
    <3> QED
      BY <2>1, <2>2, <3>1 DEF TicketMoves, SupportInv, SupportTypeOK
  <2> QED
    BY <1>0, <2>1, <2>2
<1>4. ticket' \in [Ticket -> [order : Delivered \union {"none"}, status : TicketStatus, keyed : BOOLEAN]]
  <2>1. CASE UNCHANGED ticket
    BY <2>1 DEF SupportInv, SupportTypeOK
  <2>2. CASE ticket' # ticket
    <3>1. PICK t \in Ticket :
            ticket' = [ticket EXCEPT ![t].status = c.status, ![t].keyed = @ /\ c.status # "refunded"]
      BY <1>0, <2>2 DEF Refundable
    <3>2. ticket[t] \in [order : Delivered \union {"none"}, status : TicketStatus, keyed : BOOLEAN]
      BY DEF SupportInv, SupportTypeOK
    <3>3. PICK k \in BOOLEAN : k = (ticket[t].keyed /\ c.status # "refunded")
      OBVIOUS
    <3>4. ticket' = [ticket EXCEPT ![t].status = c.status, ![t].keyed = k]
      BY <3>1, <3>3
    <3> QED
      BY <1>1, <3>2, <3>4 DEF SupportInv, SupportTypeOK, TicketStatus, RefundStatus, ActiveStatus
  <2> QED
    BY <2>1, <2>2
<1>5. /\ \A d \in clerks' : d \in clerks \/ (d \in TicketCall /\ d.order = o
                                              /\ d.pc \in {"save", "error_ticket"})
      /\ \A e \in clerks : e # c => e \in clerks'
  BY <1>1, <1>2, CallTypes DEF Returned, Resumed, Turns, Same, o
<1>6. SupportTypeOK'
  BY <1>0, <1>4, <1>5 DEF SupportInv, SupportTypeOK, Online
<1>7. Onward
  BY <1>0, <1>1, <1>3 DEF Onward, TicketMoves, TicketOf, Approved, Refunding, RefundStatus
<1>8. CallsFit'
  BY <1>1, <1>2, <1>7, ReturnedFits DEF o
<1>9. TicketsFit' /\ OneKey'
  <2>1. CASE UNCHANGED ticket
    BY <1>7, <2>1, TicketsRest
  <2>2. CASE \E t \in Ticket : TicketOf(t, o) /\ TicketMoves(t, c.status)
    BY <1>0, <1>1, <1>7, <2>2, TicketsMove DEF TicketOf, Approved
  <2> QED
    BY <1>3, <2>1, <2>2
<1>10. BlockComes'
  BY <1>0, <1>5, BlockRests
<1>11. NoticesFit' /\ OrdersFit' /\ OrdersFollow'
  <2>0. NoticesFit'
    BY <1>0 DEF SupportInv, NoticesFit, Online
  <2>1. \A p \in Online \ {o} : OrderRests(p)
    <3>1. \A p \in Online \ {o}, t \in Ticket : TicketOf(t, p)' <=> TicketOf(t, p)
      BY <1>3 DEF TicketOf, TicketMoves
    <3> QED
      BY <1>0, <1>5, <3>1 DEF OrderRests, o, Online
  <2>2. OrderFits(o)'
    BY <1>0, <1>1 DEF SupportInv, OrdersFit, OrderFits, Announced
  <2>3. ASSUME o \notin interrupted PROVE OrderFollows(o)'
    <3>1. ASSUME NEW t \in Ticket, TicketOf(t, o)'
          PROVE  TicketOf(t, o) /\ (Delivers(c) => o \notin bySupport)
      <4>1. CASE UNCHANGED ticket
        BY <1>0, <1>3, <3>1, <4>1 DEF TicketOf, TicketMoves, Delivers, Refunding, RefundStatus
      <4>2. CASE \E s \in Ticket : TicketOf(s, o) /\ TicketMoves(s, c.status)
        <5>1. PICK s \in Ticket : TicketOf(s, o) /\ TicketMoves(s, c.status)
          BY <4>2
        <5>2. TicketOf(t, o)
          BY <1>1, <3>1, <5>1 DEF TicketOf, TicketMoves
        <5>3. s = t
          BY <2>3, <5>1, <5>2, OnlyOneActive DEF TicketOf, Refunding, ActiveStatus
        <5>4. c.status # "refunded"
          BY <3>1, <5>1, <5>3 DEF TicketOf, TicketMoves, Refunding
        <5> QED
          BY <5>2, <5>4 DEF Delivers
      <4> QED
        BY <1>3, <4>1, <4>2
    <3> QED
      BY <1>0, <1>1, <1>2, <2>3, <3>1, OrderReturns DEF SyncPcs, o
  <2> QED
    BY <1>0, <2>0, <2>1, <2>2, <2>3, OrdersRest
<1> QED
  BY <1>6, <1>8, <1>9, <1>10, <1>11 DEF SupportInv

-----------------------------------------------------------------------------
(* Crashes *)

LEMMA CallDiesKeeps ==
    ASSUME SupportInv, NEW c \in clerks, CallDies(c)
    PROVE  SupportInv'
<1> DEFINE o == c.order
<1>0. /\ UNCHANGED <<cash, window, payment, mentions, intent, bySupport, refund, ticket, customer>>
      /\ clerks' = clerks \ {c} /\ interrupted' = interrupted \union {o}
      /\ deaths < MaxDeaths /\ deaths' = deaths + 1
      /\ notices' = notices \/ (c.id > 0 /\ notices' = notices \union {EventKey(c)})
  BY DEF CallDies, Leaves, Interrupting
<1>1. /\ c \in TicketCall /\ o \in Delivered /\ CallFits(c)
      /\ c.id \in 0..MaxAttempts /\ c.status \in RefundStatus
  BY CallTypes DEF SupportInv, SupportTypeOK, CallsFit
<1> HIDE DEF o
<1>2. SupportTypeOK'
  <2>1. EventKey(c) \in Delivered \X (0..MaxAttempts) \X RefundStatus
    BY <1>1 DEF EventKey, o
  <2>2. deaths' \in 0..MaxDeaths
    BY <1>0, SupportAssumption DEF SupportInv, SupportTypeOK
  <2> QED
    BY <1>0, <1>1, <2>1, <2>2 DEF SupportInv, SupportTypeOK, Online
<1>3. Onward
  BY <1>0 DEF Onward
<1>4. CallsFit'
  BY <1>0, <1>3, CallsCarryOn
<1>5. TicketsFit' /\ OneKey'
  BY <1>0, <1>3, TicketsRest
<1>6. BlockComes'
  BY <1>0 DEF BlockComes
<1>7. NoticesFit' /\ OrdersFit' /\ OrdersFollow'
  <2>0. NoticesFit'
    <3>1. c.id > 0 => EventKey(c)[1] \in Online
      BY <1>1 DEF EventKey, CallFits
    <3> QED
      BY <1>0, <3>1 DEF SupportInv, NoticesFit, Online
  <2>1. \A p \in Online \ {o} : OrderRests(p)
    BY <1>0 DEF OrderRests, TicketOf, EventKey, o
  <2>2. ASSUME o \in Online PROVE OrderFits(o)'
    BY <1>0, <2>2 DEF SupportInv, OrdersFit, OrderFits, Announced
  <2>3. o \in interrupted'
    BY <1>0
  <2> QED
    BY <1>0, <2>0, <2>1, <2>2, <2>3, OrdersRest
<1> QED
  BY <1>2, <1>4, <1>5, <1>6, <1>7 DEF SupportInv

-----------------------------------------------------------------------------
(* The invariant and what it says *)

LEMMA SupportStarts == SupportInit => SupportInv
<1> SUFFICES ASSUME SupportInit PROVE SupportInv
  OBVIOUS
<1>1. SupportTypeOK
  BY SupportAssumption DEF SupportInit, SupportTypeOK, Online, PaymentStatus, RefundStatus, TicketStatus
<1>2. CallsFit /\ NoticesFit
  BY DEF SupportInit, CallsFit, NoticesFit
<1>3. TicketsFit /\ OneKey
  BY DEF SupportInit, TicketsFit, TicketFits, OneKey, ActiveStatus
<1>4. BlockComes
  BY SupportAssumption DEF SupportInit, BlockComes
<1>5. OrdersFit
  BY DEF SupportInit, OrdersFit, OrderFits, Online
<1>6. OrdersFollow
  BY DEF SupportInit, OrdersFollow, OrderFollows, OnBehalf, TicketOf, Refunding, Online
<1> QED
  BY <1>1, <1>2, <1>3, <1>4, <1>5, <1>6 DEF SupportInv

LEMMA SupportKeeps == SupportInv /\ [SupportNext]_supportVars => SupportInv'
<1> SUFFICES ASSUME SupportInv, [SupportNext]_supportVars PROVE SupportInv'
  OBVIOUS
<1>1. CASE UNCHANGED supportVars
  <2>0. UNCHANGED <<cash, window, payment, mentions, intent, bySupport, refund, notices, ticket, customer, clerks,
                    interrupted, deaths>>
    BY <1>1 DEF supportVars
  <2>1. SupportTypeOK' /\ NoticesFit'
    BY <2>0 DEF SupportInv, SupportTypeOK, NoticesFit, Online
  <2>2. Onward
    BY <2>0 DEF Onward
  <2>3. CallsFit' /\ TicketsFit' /\ OneKey' /\ BlockComes'
    BY <2>0, <2>2, CallsCarryOn, TicketsRest, BlockRests
  <2>4. \A o \in Online : OrderRests(o)
    BY <2>0 DEF OrderRests, TicketOf
  <2>5. OrdersFit' /\ OrdersFollow'
    BY <2>0, <2>4, OrdersStay
  <2> QED
    BY <2>1, <2>3, <2>5 DEF SupportInv
<1>2. CASE SupportNext
  BY <1>2, OpenTicketKeeps, SweepRefundKeeps, ApproveKeeps, RejectKeeps, RefundNoticeKeeps, WindowClosesKeeps,
     ProviderSettlesKeeps, DashboardRefundKeeps, SchedulePickupKeeps, CreateTicketKeeps, CountRejectionKeeps,
     BlockCashKeeps, ReadApprovedOrderKeeps, SaveCashTicketKeeps, SaveCashOrderKeeps, MarkOrderPendingKeeps,
     QueueRefundKeeps, FindRefundKeeps, RequestRefundKeeps, SaveTicketKeeps, SaveFailedTicketKeeps,
     SaveFailedOrderKeeps, SyncOrderKeeps, MentionKeeps, SyncTicketKeeps, CallDiesKeeps
  DEF SupportNext
<1> QED
  BY <1>1, <1>2

\* The documents, the calls and the provider stay related as the invariant says.
THEOREM SupportHolds == SupportSpec => []SupportInv
BY SupportStarts, SupportKeeps, PTL DEF SupportSpec

\* However requests race at creation (createSupportTicket looks for a duplicate
\* before the unique index decides), an order never has two tickets being
\* dealt with.
THEOREM OneTicketAtATime == SupportSpec => []OneActiveTicket
<1>1. SupportInv => OneActiveTicket
  BY OnlyOneActive DEF OneActiveTicket
<1> QED
  BY <1>1, SupportHolds, PTL

\* However many administrators reject at once, the customer whose rejections
\* exceed the limit is refused cash once their calls are through.
THEOREM RejectionsBlockCash == SupportSpec => []BlockedAfterRejections
<1>1. SupportInv => BlockedAfterRejections
  BY DEF SupportInv, BlockComes, BlockedAfterRejections
<1> QED
  BY <1>1, SupportHolds, PTL

\* Whatever order webhooks, sweeps and the approval's own saves come in, the
\* order, its intent and its approved ticket end up saying that the money is
\* back.
THEOREM AllThreeAgree == SupportSpec => []TicketFollowsRefund
<1>1. ASSUME SupportInv, NEW o \in Online, Quiet(o), o \notin interrupted, refund[o].state = "processed"
      PROVE  /\ payment[o] = "refunded" /\ intent[o] = "refunded"
             /\ \A t \in Ticket :
                   (ticket[t].order = o /\ ticket[t].status \notin {"open", "pickup_scheduled", "rejected"}) =>
                       ticket[t].status = "refunded" /\ ~ticket[t].keyed
  <2>1. OrderFits(o) /\ OrderFollows(o) /\ o \in Delivered
    BY <1>1 DEF SupportInv, OrdersFit, OrdersFollow, Online
  <2>2. intent[o] = "refunded"
    BY <1>1, <2>1 DEF OrderFits, Announced, Quiet
  <2>3. payment[o] = "refunded"
    BY <1>1, <2>1, <2>2 DEF OrderFollows, PaymentFollows, Quiet
  <2>4. ASSUME NEW t \in Ticket, ticket[t].order = o,
               ticket[t].status \notin {"open", "pickup_scheduled", "rejected"}
        PROVE  ticket[t].status = "refunded" /\ ~ticket[t].keyed
    <3>1. ~TicketOf(t, o)
      BY <1>1, <2>1, <2>2 DEF OrderFollows, TicketFollows, Quiet
    <3>2. ticket[t].status \in TicketStatus /\ TicketFits(t)
      BY <1>1 DEF SupportInv, SupportTypeOK, TicketsFit
    <3> QED
      BY <2>1, <2>4, <3>1, <3>2, SupportAssumption DEF TicketOf, TicketFits, TicketStatus, ActiveStatus, Refunding, Online
  <2> QED
    BY <2>2, <2>3, <2>4
<1>2. SupportInv => TicketFollowsRefund
  BY <1>1 DEF TicketFollowsRefund
<1> QED
  BY <1>2, SupportHolds, PTL
=============================================================================

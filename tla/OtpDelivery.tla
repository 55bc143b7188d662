----------------------------- MODULE OtpDelivery ----------------------------
(***************************************************************************)
(* How a login code reaches the customer: the queue and its worker         *)
(* (otp-notification), WhatsApp's Cloud API (meta-whatsapp.provider), the  *)
(* status webhooks it sends back (whatsapp.webhook), and the delivery      *)
(* status the challenge keeps of it all (secure-otp.service).              *)
(*                                                                         *)
(* An action is one Redis script or one call of the provider.  Statuses    *)
(* come back at any time after a message was taken, even before the worker *)
(* has its answer, in any order and any number of times.                   *)
(***************************************************************************)
EXTENDS Integers, FiniteSets

CONSTANTS
    Code,      \* bounds the codes asked for (otpId)
    Message,   \* bounds the messages the provider takes (providerMessageId)
    NoCode,
    Attempts,  \* attempts of a job: 3 in the code
    MaxStalls, \* bounds the jobs run again because their worker died
    MaxReports, \* bounds the statuses the provider reports of a message
    MaxHooks   \* bounds the webhooks in flight

ASSUME DeliveryAssumption ==
    /\ NoCode \notin Code /\ Attempts \in Nat \ {0}
    /\ MaxStalls \in Nat /\ MaxReports \in Nat /\ MaxHooks \in Nat

VARIABLES
    current,   \* otp:challenge: its code and deliveryStatus, or NoCode
    codeOfMsg, \* otp:message: the code a message was accepted for, or NoCode
    pending,   \* otp:pending-status of a message, or NONE
    jobs,      \* send-otp jobs
    hooks,     \* recordProviderStatus calls past their first read
    carried,   \* history: the code the provider took a message for, or NoCode
    emitted,   \* history: the statuses the provider has reported of a message
    seen,      \* history: those a webhook was answered 200 for
    stalls     \* history: the codes whose job was run again

deliveryVars == <<current, codeOfMsg, pending, jobs, hooks, carried, emitted, seen, stalls>>

Rank == [NONE |-> -1, QUEUED |-> 0, ACCEPTED |-> 1, SENT |-> 2, DELIVERED |-> 3, READ |-> 4]
Reported == {"SENT", "DELIVERED", "READ", "FAILED"}

DeliveryInit ==
    /\ current = NoCode /\ jobs = {} /\ hooks = {} /\ stalls = {}
    /\ codeOfMsg = [m \in Message |-> NoCode] /\ carried = [m \in Message |-> NoCode]
    /\ pending = [m \in Message |-> "NONE"]
    /\ emitted = [m \in Message |-> {}] /\ seen = [m \in Message |-> {}]

-----------------------------------------------------------------------------
(* The status of a message *)

\* UPDATE_STATUS_SCRIPT, RECORD_PENDING_STATUS_SCRIPT: statuses only advance,
\* FAILED is the last one, and nothing delivered fails.
Advances(from, to) ==
    /\ from # "FAILED"
    /\ IF to = "FAILED" THEN from \notin {"DELIVERED", "READ"} ELSE Rank[to] > Rank[from]
Latest(from, to) == IF Advances(from, to) THEN to ELSE from

\* Mutant: the last status to arrive is kept.
UpdatedUnranked(c, status) ==
    IF current # NoCode /\ current.code = c THEN [current EXCEPT !.status = status] ELSE current

\* UPDATE_STATUS_SCRIPT: of the code it was sent for, not of its successor.
Updated(c, status) ==
    IF current # NoCode /\ current.code = c
    THEN [current EXCEPT !.status = Latest(@, status)] ELSE current

-----------------------------------------------------------------------------
(* Asking for a code *)

\* CREATE_CHALLENGE_SCRIPT; a test account's fixed code is not sent.
AskForCode(c, fixed) ==
    /\ c \notin stalls /\ \A m \in Message : carried[m] # c
    /\ \A j \in jobs : j.code # c
    /\ current # NoCode => current.code # c
    /\ current' = [code |-> c, status |-> "QUEUED"]
    /\ jobs' = IF fixed THEN jobs
               ELSE jobs \union {[code |-> c, pc |-> "enqueue", made |-> 0, message |-> NoCode]}
    /\ UNCHANGED <<codeOfMsg, pending, hooks, carried, emitted, seen, stalls>>

Goes(j, k) == jobs' = (jobs \ {j}) \union {k}
Ends(j) == jobs' = jobs \ {j}

Queued(j) ==
    /\ j.pc = "enqueue"
    /\ Goes(j, [j EXCEPT !.pc = "queued"])
    /\ UNCHANGED <<current, codeOfMsg, pending, hooks, carried, emitted, seen, stalls>>

\* CLEANUP_FAILED_ENQUEUE_SCRIPT
NotQueued(j) ==
    /\ j.pc = "enqueue"
    /\ current' = IF current # NoCode /\ current.code = j.code THEN NoCode ELSE current
    /\ Ends(j)
    /\ UNCHANGED <<codeOfMsg, pending, hooks, carried, emitted, seen, stalls>>

\* The code was verified, guessed wrong too often, or has expired.
ChallengeGone ==
    /\ current # NoCode
    /\ current' = NoCode
    /\ UNCHANGED <<codeOfMsg, pending, jobs, hooks, carried, emitted, seen, stalls>>

-----------------------------------------------------------------------------
(* processOtpNotificationJob *)

Take(m, c) == carried[m] = NoCode /\ carried' = [carried EXCEPT ![m] = c]

\* sendLoginOtp: the provider takes the message and says so.
Accepted(j, m) ==
    /\ j.pc = "queued"
    /\ Take(m, j.code)
    /\ Goes(j, [j EXCEPT !.pc = "record", !.message = m])
    /\ UNCHANGED <<current, codeOfMsg, pending, hooks, emitted, seen, stalls>>

\* A job is tried again until its last attempt or an error that stays.
Retried(j) == IF j.made + 1 < Attempts THEN [j EXCEPT !.made = @ + 1] ELSE [j EXCEPT !.pc = "fail"]

\* A timeout, a broken connection, a 429 or a 5xx: the message may have been taken.
SendFails(j) ==
    /\ j.pc = "queued"
    /\ UNCHANGED carried \/ \E m \in Message : Take(m, j.code)
    /\ Goes(j, Retried(j))
    /\ UNCHANGED <<current, codeOfMsg, pending, hooks, emitted, seen, stalls>>

\* A rejection, or an answer without a message's name: this error stays.
SendIsRejected(j) ==
    /\ j.pc = "queued"
    /\ UNCHANGED carried \/ \E m \in Message : Take(m, j.code)
    /\ Goes(j, [j EXCEPT !.pc = "fail"])
    /\ UNCHANGED <<current, codeOfMsg, pending, hooks, emitted, seen, stalls>>

\* recordDeliveryFailed; whether it works or not, the job is over.
RecordFailed(j, works) ==
    /\ j.pc = "fail"
    /\ current' = IF works THEN Updated(j.code, "FAILED") ELSE current
    /\ Ends(j)
    /\ UNCHANGED <<codeOfMsg, pending, hooks, carried, emitted, seen, stalls>>

Recorded(j, status) ==
    /\ j.pc = "record"
    /\ codeOfMsg' = [codeOfMsg EXCEPT ![j.message] = j.code]
    /\ pending' = [pending EXCEPT ![j.message] = "NONE"]
    /\ current' = IF current # NoCode /\ current.code = j.code
                  THEN [current EXCEPT !.status = status] ELSE current
    /\ Ends(j)
    /\ UNCHANGED <<hooks, carried, emitted, seen, stalls>>

\* Mutant: the status that came first is dropped.
RecordAcceptedOnly(j) == Recorded(j, "ACCEPTED")

\* RECORD_ACCEPTED_SCRIPT: the status that came first counts.
RecordAccepted(j) ==
    Recorded(j, IF pending[j.message] = "NONE" THEN "ACCEPTED" ELSE pending[j.message])

\* Redis does not answer: the provider has taken the message, nothing is retried.
RecordAcceptedFails(j) ==
    /\ j.pc = "record"
    /\ Ends(j)
    /\ UNCHANGED <<current, codeOfMsg, pending, hooks, carried, emitted, seen, stalls>>

\* The worker dies and the queue gives its job to another.
Stalls(j) ==
    /\ j.pc \in {"record", "fail"} /\ Cardinality(stalls) < MaxStalls
    /\ stalls' = stalls \union {j.code}
    /\ Goes(j, [j EXCEPT !.pc = "queued", !.message = NoCode])
    /\ UNCHANGED <<current, codeOfMsg, pending, hooks, carried, emitted, seen>>

-----------------------------------------------------------------------------
(* The provider, and processWhatsAppMessageStatuses *)

Emit(m, status) ==
    /\ carried[m] # NoCode /\ Cardinality(emitted[m]) < MaxReports
    /\ \A s \in emitted[m] : Advances(s, status)
    /\ emitted' = [emitted EXCEPT ![m] = @ \union {status}]
    /\ UNCHANGED <<current, codeOfMsg, pending, jobs, hooks, carried, seen, stalls>>

\* recordProviderStatus reads what the message was sent for ...
Receive(m, status) ==
    /\ status \in emitted[m] /\ Cardinality(hooks) < MaxHooks
    /\ hooks' = hooks \union {[message |-> m, status |-> status, code |-> codeOfMsg[m]]}
    /\ UNCHANGED <<current, codeOfMsg, pending, jobs, carried, emitted, seen, stalls>>

\* ... and runs the one script or the other.
Apply(h) ==
    /\ IF h.code = NoCode
       THEN /\ pending' = [pending EXCEPT ![h.message] = Latest(@, h.status)]
            /\ UNCHANGED current
       ELSE /\ current' = Updated(h.code, h.status)
            /\ UNCHANGED pending
    /\ hooks' = hooks \ {h}
    /\ seen' = [seen EXCEPT ![h.message] = @ \union {h.status}]
    /\ UNCHANGED <<codeOfMsg, jobs, carried, emitted, stalls>>

\* Redis does not answer, or the process dies: the provider will call again.
HookFails(h) ==
    /\ hooks' = hooks \ {h}
    /\ UNCHANGED <<current, codeOfMsg, pending, jobs, carried, emitted, seen, stalls>>

DeliveryNext ==
    \/ \E c \in Code, fixed \in BOOLEAN : AskForCode(c, fixed)
    \/ \E j \in jobs :
          \/ Queued(j) \/ NotQueued(j) \/ SendFails(j) \/ SendIsRejected(j)
          \/ RecordAccepted(j) \/ RecordAcceptedFails(j) \/ Stalls(j)
          \/ \E works \in BOOLEAN : RecordFailed(j, works)
          \/ \E m \in Message : Accepted(j, m)
    \/ \E m \in Message, status \in Reported : Emit(m, status) \/ Receive(m, status)
    \/ \E h \in hooks : Apply(h) \/ HookFails(h)
    \/ ChallengeGone

DeliverySpec == DeliveryInit /\ [][DeliveryNext]_deliveryVars

-----------------------------------------------------------------------------
(* Properties *)

\* What a challenge says of its delivery never goes back, whatever the order in
\* which the worker and the webhooks write it: unless the job of its code was
\* run again, in which case the second message starts over.
DeliveryNeverGoesBack ==
    [][current # NoCode /\ current' # NoCode /\ current'.code = current.code
          /\ current.code \notin stalls =>
       \/ current'.status = current.status
       \/ Advances(current.status, current'.status)]_deliveryVars

Last(statuses) ==
    IF "FAILED" \in statuses THEN "FAILED"
    ELSE CHOOSE s \in statuses \union {"ACCEPTED"} :
            \A t \in statuses \union {"ACCEPTED"} : Rank[t] <= Rank[s]

\* Once the job of a code is over and every webhook was answered, the challenge
\* tells the last the provider said of the message, or a webhook that found no
\* message to belong to has left it under the pending key, where only the
\* recording of the acceptance would have read it.
DeliveryIsReported ==
    \A m \in Message :
        /\ current # NoCode /\ codeOfMsg[m] = current.code /\ current.code \notin stalls
        /\ \A j \in jobs : j.code # current.code
        /\ hooks = {} /\ emitted[m] = seen[m]
        => Latest(current.status, pending[m]) = Last(emitted[m])
=============================================================================

------------------------------ MODULE OtpLogin ------------------------------
(***************************************************************************)
(* One customer logs in: the WhatsApp code in Redis and the proof it turns *)
(* into (secure-otp.service), the transaction that turns a proof into a    *)
(* session once however often it is retried (auth.service,                 *)
(* login-completion.model), and what else replaces or ends the session:    *)
(* refresh, password login, registration, logout, blocking.                *)
(*                                                                         *)
(* An action is one Redis script, one transaction or one document update.  *)
(* Codes are told apart by the request that made them.  A refresh token is *)
(* its identity and the token version it was signed with; the tokens of a  *)
(* completed login are derived from its proof, so their identity is the    *)
(* proof.                                                                  *)
(***************************************************************************)
EXTENDS Integers, FiniteSets

CONSTANTS
    Otp,          \* bounds the codes asked for
    Proof,        \* bounds the proofs given (proofId)
    Token,        \* bounds the refresh tokens signed outside a code login
    Worker,       \* bounds the calls in flight
    None,         \* no challenge, no proof, no session
    MaxAttempts,  \* maxAttempts of a challenge
    MaxLogouts,   \* bounds the logouts
    MaxCrashes    \* bounds the calls lost to a crash

ASSUME LoginAssumption ==
    /\ Proof \intersect Token = {}
    /\ None \notin Otp \union Proof
    /\ MaxAttempts \in Nat \ {0}
    /\ MaxLogouts \in Nat /\ MaxCrashes \in Nat

VARIABLES
    challenge,      \* otp:challenge: the code and the wrong guesses, or None
    cooldown,       \* otp:cooldown is there
    proof,          \* otp:verified: proofId, its code, its state, or None
    registered,     \* the User document exists
    blocked,        \* User.status
    tokenVersion,   \* User.tokenVersion
    session,        \* User.refreshTokenHash: the token it is the hash of, or None
    completed,      \* LoginCompletion by proof: its tokenVersion, or Unset
    calls,
    asked,          \* history: the codes asked for
    codeOf,         \* history: the code a proof was given for
    begun,          \* history: for each token, the logouts before its account was read
    logouts,        \* history
    crashes

redisVars == <<challenge, cooldown, proof>>
userVars == <<registered, blocked, tokenVersion, session>>
historyVars == <<asked, codeOf, begun, logouts>>
vars == <<redisVars, userVars, completed, calls, historyVars, crashes>>

Unset == -1
Id == Proof \union Token
Call == [worker : Worker,
         pc : {"enqueue", "lookup", "complete", "durable", "resolve", "deny", "mark", "save"},
         code : Otp \union {None},      \* the code being sent
         proof : Proof \union {None},   \* the proof being completed
         refused : BOOLEAN,             \* the transaction found the account blocked
         attempt : 0..1,
         version : Unset..MaxLogouts,   \* the token version read
         after : 0..MaxLogouts]         \* history: the logouts when it was read

TypeOK ==
    /\ challenge \in [otp : Otp, attempts : 0..MaxAttempts - 1] \union {None}
    /\ cooldown \in BOOLEAN
    /\ proof \in [id : Proof, otp : Otp, state : {"VERIFIED", "COMPLETED", "DENIED"}] \union {None}
    /\ registered \in BOOLEAN /\ blocked \in BOOLEAN
    /\ tokenVersion \in 0..MaxLogouts
    /\ session \in [id : Id, version : 0..MaxLogouts] \union {None}
    /\ completed \in [Proof -> Unset..MaxLogouts]
    /\ calls \subseteq Call
    /\ asked \subseteq Otp
    /\ codeOf \in [Proof -> Otp \union {None}]
    /\ begun \in [Id -> Unset..MaxLogouts]
    /\ logouts \in 0..MaxLogouts
    /\ crashes \in 0..MaxCrashes

Init ==
    /\ challenge = None /\ cooldown = FALSE /\ proof = None
    /\ registered = FALSE /\ blocked = FALSE /\ tokenVersion = 0 /\ session = None
    /\ completed = [p \in Proof |-> Unset]
    /\ calls = {}
    /\ asked = {} /\ codeOf = [p \in Proof |-> None] /\ begun = [i \in Id |-> Unset]
    /\ logouts = 0 /\ crashes = 0

-----------------------------------------------------------------------------
(* Calls *)

Started(w, pc, o, p, v, n) ==
    [worker |-> w, pc |-> pc, code |-> o, proof |-> p, refused |-> FALSE, attempt |-> 0,
     version |-> v, after |-> n]
Sending(w, o) == Started(w, "enqueue", o, None, Unset, 0)
Completing(w, p) == Started(w, "lookup", None, p, Unset, 0)
Saving(w) == Started(w, "save", None, None, tokenVersion, logouts)

Begin(c) ==
    /\ \A d \in calls : d.worker # c.worker
    /\ calls' = calls \union {c}

Continue(c, d) == calls' = (calls \ {c}) \union {d}
At(c, pc) == [c EXCEPT !.pc = pc]
Go(c, pc) == Continue(c, At(c, pc))
Failed(c, refused) == [At(c, "resolve") EXCEPT !.refused = refused]
Again(c) == [At(c, "complete") EXCEPT !.attempt = 1]
Return(c) == calls' = calls \ {c}

-----------------------------------------------------------------------------
(* The code *)

\* requestOtp and resendOtp: a new code replaces the challenge unless one was
\* made less than thirty seconds ago; then it is queued for WhatsApp.
RequestOtp(w, o) ==
    /\ ~cooldown /\ o \notin asked
    /\ challenge' = [otp |-> o, attempts |-> 0] /\ cooldown' = TRUE
    /\ asked' = asked \union {o}
    /\ Begin(Sending(w, o))
    /\ UNCHANGED <<proof, userVars, completed, codeOf, begun, logouts, crashes>>

Enqueued(c) ==
    /\ c.pc = "enqueue"
    /\ Return(c)
    /\ UNCHANGED <<redisVars, userVars, completed, historyVars, crashes>>

\* CLEANUP_FAILED_ENQUEUE_SCRIPT
EnqueueFails(c) ==
    /\ c.pc = "enqueue"
    /\ IF challenge # None /\ challenge.otp = c.code
       THEN challenge' = None /\ cooldown' = FALSE
       ELSE UNCHANGED <<challenge, cooldown>>
    /\ Return(c)
    /\ UNCHANGED <<proof, userVars, completed, historyVars, crashes>>

\* Mutant: one guess more than allowed.
WrongGuessMore ==
    /\ challenge # None
    /\ challenge' = IF challenge.attempts + 1 > MaxAttempts
                    THEN None ELSE [challenge EXCEPT !.attempts = @ + 1]
    /\ UNCHANGED <<cooldown, proof, userVars, completed, calls, historyVars, crashes>>

\* VERIFY_TO_PROOF_SCRIPT, a live challenge and another code.
WrongGuess ==
    /\ challenge # None
    /\ challenge' = IF challenge.attempts + 1 >= MaxAttempts
                    THEN None ELSE [challenge EXCEPT !.attempts = @ + 1]
    /\ UNCHANGED <<cooldown, proof, userVars, completed, calls, historyVars, crashes>>

\* Mutant: the challenge survives the proof it was exchanged for.
RightGuessAgain(w, p) ==
    /\ challenge # None /\ codeOf[p] = None
    /\ proof' = [id |-> p, otp |-> challenge.otp, state |-> "VERIFIED"]
    /\ codeOf' = [codeOf EXCEPT ![p] = challenge.otp]
    /\ Begin(Completing(w, p))
    /\ UNCHANGED <<challenge, cooldown, userVars, completed, asked, begun, logouts, crashes>>

\* ... a live challenge and its code: the challenge becomes a proof.
RightGuess(w, p) ==
    /\ challenge # None /\ codeOf[p] = None
    /\ proof' = [id |-> p, otp |-> challenge.otp, state |-> "VERIFIED"]
    /\ challenge' = None
    /\ codeOf' = [codeOf EXCEPT ![p] = challenge.otp]
    /\ Begin(Completing(w, p))
    /\ UNCHANGED <<cooldown, userVars, completed, asked, begun, logouts, crashes>>

\* ... no challenge, and the code of a proof that is still good: the same proof.
RetryGuess(w) ==
    /\ challenge = None /\ proof # None
    /\ proof.state # "DENIED"
    /\ Begin(Completing(w, proof.id))
    /\ UNCHANGED <<redisVars, userVars, completed, historyVars, crashes>>

-----------------------------------------------------------------------------
(* completeVerifiedLogin: from the proof to a session *)

LoginToken(p) == [id |-> p, version |-> completed[p]]

\* assertLoginCompletionReplayCurrent
ReplayCurrent(p) ==
    /\ ~blocked
    /\ tokenVersion = completed[p]
    /\ session = LoginToken(p)

\* completedTokenPayload: the stored login is answered while it is current.
Replay(c, stale) == Go(c, IF ReplayCurrent(c.proof) THEN "mark" ELSE stale)

Lookup(c) ==
    /\ c.pc = "lookup"
    /\ IF completed[c.proof] # Unset THEN Replay(c, "deny") ELSE Go(c, "complete")
    /\ UNCHANGED <<redisVars, userVars, completed, historyVars, crashes>>

LogIn(p) ==
    /\ registered' = TRUE
    /\ session' = [id |-> p, version |-> tokenVersion]
    /\ completed' = [completed EXCEPT ![p] = tokenVersion]
    /\ begun' = [begun EXCEPT ![p] = logouts]
    /\ UNCHANGED <<blocked, tokenVersion>>

\* Mutant: the transaction does not look for a completion again.
CompleteAgain(c, acknowledged) ==
    /\ c.pc = "complete"
    /\ ~blocked
    /\ LogIn(c.proof)
    /\ Go(c, IF acknowledged THEN "durable" ELSE "resolve")
    /\ UNCHANGED <<redisVars, asked, codeOf, logouts, crashes>>

\* The transaction, when it commits; the acknowledgement may be lost.
Complete(c, acknowledged) ==
    /\ c.pc = "complete"
    /\ \/ /\ completed[c.proof] # Unset
          /\ UNCHANGED <<userVars, completed, begun>>
       \/ /\ completed[c.proof] = Unset /\ ~blocked
          /\ LogIn(c.proof)
    /\ Go(c, IF acknowledged THEN "durable" ELSE "resolve")
    /\ UNCHANGED <<redisVars, asked, codeOf, logouts, crashes>>

\* ... and when it does not: the account is blocked, or the database fails.
CompleteFails(c, refused) ==
    /\ c.pc = "complete"
    /\ refused => blocked /\ completed[c.proof] = Unset
    /\ Continue(c, Failed(c, refused))
    /\ UNCHANGED <<redisVars, userVars, completed, historyVars, crashes>>

Durable(c) ==
    /\ c.pc = "durable"
    /\ Replay(c, "resolve")
    /\ UNCHANGED <<redisVars, userVars, completed, historyVars, crashes>>

\* After an error: somebody may have completed this proof.  A duplicate key is
\* tried once more; a blocked account closes the proof.
Resolve(c) ==
    /\ c.pc = "resolve"
    /\ \/ /\ completed[c.proof] # Unset
          /\ Replay(c, "deny")
       \/ /\ completed[c.proof] = Unset /\ c.refused
          /\ Go(c, "deny")
       \/ /\ completed[c.proof] = Unset /\ ~c.refused
          /\ \/ Return(c)
             \/ c.attempt = 0 /\ Continue(c, Again(c))
    /\ UNCHANGED <<redisVars, userVars, completed, historyVars, crashes>>

-----------------------------------------------------------------------------
(* TRANSITION_VERIFIED_PROOF_SCRIPT *)

Holds(p) == proof # None /\ proof.id = p

Transition(c, state) ==
    /\ proof' = [proof EXCEPT !.state = state]
    /\ Return(c)
    /\ UNCHANGED <<challenge, cooldown, userVars, completed, historyVars, crashes>>

Deny(c) == c.pc = "deny" /\ Holds(c.proof) /\ Transition(c, "DENIED")

Mark(c) == c.pc = "mark" /\ Holds(c.proof) /\ proof.state = "VERIFIED" /\ Transition(c, "COMPLETED")

\* The proof is gone, in another state, or Redis does not answer.
TransitionInVain(c) ==
    /\ c.pc \in {"deny", "mark"}
    /\ Return(c)
    /\ UNCHANGED <<redisVars, userVars, completed, historyVars, crashes>>

-----------------------------------------------------------------------------
(* Other sessions *)

\* registerCustomer creates the account, login compares the password and
\* refreshSession the hash: each signs a token for the document it read, and
\* saves its hash after an await.
ReadAccount(w) == Begin(Saving(w))

RegisterCustomer(w) ==
    /\ ~registered
    /\ registered' = TRUE
    /\ ReadAccount(w)
    /\ UNCHANGED <<redisVars, blocked, tokenVersion, session, completed, historyVars, crashes>>

PasswordLogin(w) ==
    /\ registered /\ ~blocked
    /\ ReadAccount(w)
    /\ UNCHANGED <<redisVars, userVars, completed, historyVars, crashes>>

RefreshSession(w) ==
    /\ ~blocked /\ session # None /\ session.version = tokenVersion
    /\ ReadAccount(w)
    /\ UNCHANGED <<redisVars, userVars, completed, historyVars, crashes>>

\* The account is saved: only the hash is written.
Save(c, t) ==
    /\ c.pc = "save" /\ begun[t] = Unset
    /\ session' = [id |-> t, version |-> c.version]
    /\ begun' = [begun EXCEPT ![t] = c.after]
    /\ Return(c)
    /\ UNCHANGED <<redisVars, registered, blocked, tokenVersion, completed, asked, codeOf, logouts, crashes>>

\* Mutant: the token is dropped, but the version stays.
LogoutKeepingVersion ==
    /\ registered /\ logouts < MaxLogouts
    /\ session' = None
    /\ logouts' = logouts + 1
    /\ UNCHANGED <<redisVars, registered, blocked, tokenVersion, completed, calls, asked, codeOf, begun, crashes>>

\* One update by whoever has a current access token.
Logout ==
    /\ registered /\ logouts < MaxLogouts
    /\ session' = None /\ tokenVersion' = tokenVersion + 1
    /\ logouts' = logouts + 1
    /\ UNCHANGED <<redisVars, registered, blocked, completed, calls, asked, codeOf, begun, crashes>>

\* The administrator blocks the customer, or lifts the block.
ChangeStatus ==
    /\ registered
    /\ blocked' = ~blocked
    /\ UNCHANGED <<redisVars, registered, tokenVersion, session, completed, calls, historyVars, crashes>>

-----------------------------------------------------------------------------
(* Time and failure.  A proof has the time its challenge had left, so it     *)
(* expires before a challenge that was made after it.                        *)

ChallengeExpires ==
    /\ challenge # None /\ proof = None
    /\ challenge' = None
    /\ UNCHANGED <<cooldown, proof, userVars, completed, calls, historyVars, crashes>>

ProofExpires ==
    /\ proof # None
    /\ proof' = None
    /\ UNCHANGED <<challenge, cooldown, userVars, completed, calls, historyVars, crashes>>

CooldownExpires ==
    /\ cooldown
    /\ cooldown' = FALSE
    /\ UNCHANGED <<challenge, proof, userVars, completed, calls, historyVars, crashes>>

Crash(c) ==
    /\ crashes < MaxCrashes
    /\ crashes' = crashes + 1
    /\ Return(c)
    /\ UNCHANGED <<redisVars, userVars, completed, historyVars>>

-----------------------------------------------------------------------------
Handle(c) ==
    \/ Enqueued(c) \/ EnqueueFails(c)
    \/ Lookup(c) \/ Durable(c) \/ Resolve(c)
    \/ \E b \in BOOLEAN : Complete(c, b) \/ CompleteFails(c, b)
    \/ Deny(c) \/ Mark(c) \/ TransitionInVain(c)
    \/ \E t \in Token : Save(c, t)

Next ==
    \/ \E w \in Worker, o \in Otp : RequestOtp(w, o)
    \/ \E w \in Worker, p \in Proof : RightGuess(w, p)
    \/ \E w \in Worker : RetryGuess(w) \/ RegisterCustomer(w) \/ PasswordLogin(w) \/ RefreshSession(w)
    \/ \E c \in calls : Handle(c) \/ Crash(c)
    \/ WrongGuess \/ Logout \/ ChangeStatus
    \/ ChallengeExpires \/ ProofExpires \/ CooldownExpires

Spec == Init /\ [][Next]_vars

-----------------------------------------------------------------------------
(* Correctness *)

\* A code logs in once: submitted twice, retried after a lost answer or a lost
\* commit, or raced by itself, it leads to one completion (VERIFY_TO_PROOF_SCRIPT,
\* completeVerifiedLogin).
OneLoginPerCode ==
    \A p, q \in Proof :
        completed[p] # Unset /\ completed[q] # Unset /\ codeOf[p] = codeOf[q] => p = q

Current(i) == session # None /\ session.id = i /\ session.version = tokenVersion

\* A refresh token that was rotated, replaced by another login or ended by a
\* logout never works again: no retry of an old login and no late save brings
\* it back (replay of a completion, refreshSession).
RetiredStaysRetired ==
    [][\A i \in Id : begun[i] # Unset /\ ~Current(i) => ~Current(i)']_vars

\* A logout ends every session of the account, those whose refresh or login was
\* under way included: whatever they save afterwards is not accepted (logout).
LogoutEndsSessions ==
    \A i \in Id : Current(i) => begun[i] = logouts
=============================================================================

----------------------------- MODULE Edge_proofs ----------------------------
(***************************************************************************)
(* What meets the outside world, one component after another, for any      *)
(* number of calls, workers and messages: a code logs in once, a retired   *)
(* token stays retired, a logout ends every session; what the provider says*)
(* of a message is kept and only advances; an event the provider stops to  *)
(* send has been handled, except one answered as a duplicate while it was  *)
(* being handled, in vain.                                                 *)
(***************************************************************************)
EXTENDS OtpLogin, OtpDelivery, WebhookEvents, TLAPS

-----------------------------------------------------------------------------
(* Login *)

\* A token version is how often the account was logged out.
Versions ==
    /\ tokenVersion = logouts
    /\ session # None => begun[session.id] = session.version
    /\ \A c \in calls : c.pc = "save" => c.version = c.after

\* A proof that completed nothing has no token yet.
Unborn == \A p \in Proof : completed[p] = Unset => begun[p] = Unset

\* A code is exchanged for one proof, when its challenge goes.
Codes ==
    /\ challenge # None => challenge.otp \in asked /\ \A p \in Proof : codeOf[p] # challenge.otp
    /\ \A p \in Proof : codeOf[p] # None => codeOf[p] \in asked
    /\ \A p, q \in Proof : codeOf[p] # None /\ codeOf[p] = codeOf[q] => p = q
    /\ \A p \in Proof : completed[p] # Unset => codeOf[p] # None

\* Whoever works on a proof was given it for a code.
Working == {"lookup", "complete", "durable", "resolve", "deny", "mark"}
Proven ==
    /\ proof # None => codeOf[proof.id] # None
    /\ \A c \in calls : c.pc \in Working => c.proof \in Proof /\ codeOf[c.proof] # None

LoginInv == TypeOK /\ Versions /\ Unborn /\ Codes /\ Proven

-----------------------------------------------------------------------------
(* The calls an action starts, and those that go on. *)

Pcs == {"enqueue", "lookup", "complete", "durable", "resolve", "deny", "mark", "save"}

LEMMA StartedIsCall ==
    ASSUME NEW w \in Worker, NEW pc \in Pcs, NEW o \in Otp \union {None},
           NEW p \in Proof \union {None}, NEW v \in Unset..MaxLogouts, NEW n \in 0..MaxLogouts
    PROVE  Started(w, pc, o, p, v, n) \in Call
BY DEF Started, Call, Pcs

LEMMA MovedIsCall ==
    ASSUME NEW c \in Call
    PROVE  /\ \A pc \in Pcs : /\ At(c, pc) \in Call
                              /\ At(c, pc).pc = pc /\ At(c, pc).proof = c.proof
           /\ \A b \in BOOLEAN : LET d == [c EXCEPT !.refused = b]
                                 IN  d \in Call /\ d.pc = c.pc /\ d.proof = c.proof
BY DEF Call, Pcs, At

LEMMA StartedCalls ==
    ASSUME TypeOK, NEW w \in Worker
    PROVE  /\ \A o \in Otp : Sending(w, o) \in Call
           /\ \A p \in Proof : Completing(w, p) \in Call
           /\ Saving(w) \in Call
BY StartedIsCall, LoginAssumption DEF Sending, Completing, Saving, Unset, Pcs, TypeOK

LEMMA FailedCalls ==
    ASSUME TypeOK, NEW c \in calls
    PROVE  /\ \A b \in BOOLEAN : /\ Failed(c, b) \in Call
                                 /\ Failed(c, b).pc = "resolve" /\ Failed(c, b).proof = c.proof
           /\ Again(c) \in Call /\ Again(c).pc = "complete" /\ Again(c).proof = c.proof
<1>1. c \in Call
  BY DEF TypeOK
<1>2. /\ At(c, "resolve") \in Call /\ At(c, "resolve").pc = "resolve" /\ At(c, "resolve").proof = c.proof
      /\ At(c, "complete") \in Call /\ At(c, "complete").pc = "complete" /\ At(c, "complete").proof = c.proof
  BY <1>1, MovedIsCall DEF Pcs
<1>3. \A b \in BOOLEAN : /\ Failed(c, b) \in Call
                         /\ Failed(c, b).pc = "resolve" /\ Failed(c, b).proof = c.proof
  BY <1>2, MovedIsCall DEF Failed
<1>4. Again(c) \in Call /\ Again(c).pc = "complete" /\ Again(c).proof = c.proof
  <2> DEFINE d == At(c, "complete")
  <2>1. d \in Call /\ d.pc = "complete" /\ d.proof = c.proof
    BY <1>2
  <2>2. Again(c) = [d EXCEPT !.attempt = 1]
    BY DEF Again
  <2> HIDE DEF d
  <2> QED
    BY <2>1, <2>2 DEF Call
<1> QED
  BY <1>3, <1>4

-----------------------------------------------------------------------------
LEMMA TypeStep ==
    ASSUME TypeOK, Versions, Proven, [Next]_vars
    PROVE  TypeOK'
<1>1. ASSUME NEW w \in Worker, NEW o \in Otp, RequestOtp(w, o)
      PROVE  TypeOK'
  <2>1. Sending(w, o) \in Call
    BY StartedCalls
  <2>2. calls' \subseteq Call
    BY <1>1, <2>1 DEF RequestOtp, ReadAccount, Begin, TypeOK
  <2> QED
    BY <1>1, <2>2, LoginAssumption DEF RequestOtp, TypeOK, redisVars, userVars, historyVars
<1>2. ASSUME NEW w \in Worker, NEW p \in Proof, RightGuess(w, p)
      PROVE  TypeOK'
  <2>1. Completing(w, p) \in Call
    BY StartedCalls
  <2>2. calls' \subseteq Call
    BY <1>2, <2>1 DEF RightGuess, ReadAccount, Begin, TypeOK
  <2> QED
    BY <1>2, <2>2 DEF RightGuess, TypeOK, redisVars, userVars, historyVars
<1>3. ASSUME NEW w \in Worker, RetryGuess(w)
      PROVE  TypeOK'
  <2>1. proof.id \in Proof
    BY <1>3 DEF RetryGuess, TypeOK
  <2>2. Completing(w, proof.id) \in Call
    BY <2>1, StartedCalls
  <2>3. calls' \subseteq Call
    BY <1>3, <2>2 DEF RetryGuess, ReadAccount, Begin, TypeOK
  <2> QED
    BY <1>3, <2>3 DEF RetryGuess, TypeOK, redisVars, userVars, historyVars
<1>4. ASSUME NEW w \in Worker, RegisterCustomer(w)
      PROVE  TypeOK'
  <2>1. Saving(w) \in Call
    BY StartedCalls
  <2>2. calls' \subseteq Call
    BY <1>4, <2>1 DEF RegisterCustomer, ReadAccount, Begin, TypeOK
  <2> QED
    BY <1>4, <2>2 DEF RegisterCustomer, TypeOK, redisVars, userVars, historyVars
<1>5. ASSUME NEW w \in Worker, PasswordLogin(w)
      PROVE  TypeOK'
  <2>1. Saving(w) \in Call
    BY StartedCalls
  <2>2. calls' \subseteq Call
    BY <1>5, <2>1 DEF PasswordLogin, ReadAccount, Begin, TypeOK
  <2> QED
    BY <1>5, <2>2 DEF PasswordLogin, TypeOK, redisVars, userVars, historyVars
<1>6. ASSUME NEW w \in Worker, RefreshSession(w)
      PROVE  TypeOK'
  <2>1. Saving(w) \in Call
    BY StartedCalls
  <2>2. calls' \subseteq Call
    BY <1>6, <2>1 DEF RefreshSession, ReadAccount, Begin, TypeOK
  <2> QED
    BY <1>6, <2>2 DEF RefreshSession, TypeOK, redisVars, userVars, historyVars
<1>7. ASSUME NEW c \in calls, Enqueued(c)
      PROVE  TypeOK'
  BY <1>7, LoginAssumption DEF Enqueued, Return, Call, TypeOK, redisVars, userVars, historyVars
<1>8. ASSUME NEW c \in calls, EnqueueFails(c)
      PROVE  TypeOK'
  <2>1. challenge' \in {None, challenge} /\ cooldown' \in {FALSE, cooldown}
    BY <1>8 DEF EnqueueFails
  <2>2. cooldown' \in BOOLEAN
    BY <2>1 DEF TypeOK
  <2> QED
    BY <1>8, <2>1, <2>2 DEF EnqueueFails, Return, TypeOK, userVars, historyVars
<1>9. ASSUME NEW c \in calls, Lookup(c)
      PROVE  TypeOK'
  BY <1>9, LoginAssumption DEF Lookup, Replay, Go, Continue, At, Call, TypeOK, redisVars, userVars, historyVars
<1>10. ASSUME NEW c \in calls, NEW b \in BOOLEAN, Complete(c, b)
      PROVE  TypeOK'
  <2>1. c \in Call /\ c.proof \in Proof
    BY <1>10 DEF Complete, TypeOK, Proven, Working
  <2>2. At(c, IF b THEN "durable" ELSE "resolve") \in Call
    BY <2>1, MovedIsCall DEF Pcs
  <2>3. calls' \subseteq Call
    BY <1>10, <2>2 DEF Complete, Go, Continue, TypeOK
  <2>4. CASE UNCHANGED <<userVars, completed, begun>>
    BY <1>10, <2>3, <2>4 DEF Complete, TypeOK, redisVars, userVars
  <2>5. CASE LogIn(c.proof)
    BY <1>10, <2>1, <2>3, <2>5, LoginAssumption DEF Complete, LogIn, TypeOK, Id, Unset, redisVars
  <2> QED
    BY <1>10, <2>4, <2>5 DEF Complete
<1>11. ASSUME NEW c \in calls, NEW b \in BOOLEAN, CompleteFails(c, b)
      PROVE  TypeOK'
  <2>1. calls' \subseteq Call
    BY <1>11, FailedCalls DEF CompleteFails, Continue, TypeOK
  <2> QED
    BY <1>11, <2>1 DEF CompleteFails, TypeOK, redisVars, userVars, historyVars
<1>12. ASSUME NEW c \in calls, Durable(c)
      PROVE  TypeOK'
  BY <1>12, LoginAssumption DEF Durable, Replay, Go, Continue, At, Call, TypeOK, redisVars, userVars, historyVars
<1>13. ASSUME NEW c \in calls, Resolve(c)
      PROVE  TypeOK'
  <2>1. c \in Call
    BY DEF TypeOK
  <2>2. At(c, "deny") \in Call /\ At(c, "mark") \in Call /\ Again(c) \in Call
    BY <2>1, MovedIsCall, FailedCalls DEF Pcs
  <2>3. calls' \subseteq Call
    BY <1>13, <2>2 DEF Resolve, Replay, Go, Return, Continue, TypeOK
  <2> QED
    BY <1>13, <2>3 DEF Resolve, TypeOK, redisVars, userVars, historyVars
<1>14. ASSUME NEW c \in calls, Deny(c)
      PROVE  TypeOK'
  BY <1>14, LoginAssumption DEF Deny, Transition, Return, Holds, Call, TypeOK, redisVars, userVars, historyVars
<1>15. ASSUME NEW c \in calls, Mark(c)
      PROVE  TypeOK'
  BY <1>15, LoginAssumption DEF Mark, Transition, Return, Holds, Call, TypeOK, redisVars, userVars, historyVars
<1>16. ASSUME NEW c \in calls, TransitionInVain(c)
      PROVE  TypeOK'
  BY <1>16, LoginAssumption DEF TransitionInVain, Return, Call, TypeOK, redisVars, userVars, historyVars
<1>17. ASSUME NEW c \in calls, NEW t \in Token, Save(c, t)
      PROVE  TypeOK'
  BY <1>17, LoginAssumption DEF Save, Return, Versions, Id, Call, TypeOK, redisVars, userVars, historyVars
<1>18. ASSUME NEW c \in calls, Crash(c)
      PROVE  TypeOK'
  BY <1>18, LoginAssumption DEF Crash, Return, Call, TypeOK, redisVars, userVars, historyVars
<1>19. CASE WrongGuess
  BY <1>19, LoginAssumption DEF WrongGuess, Call, TypeOK, redisVars, userVars, historyVars
<1>20. CASE Logout
  BY <1>20, LoginAssumption DEF Logout, Versions, Call, TypeOK, redisVars, userVars, historyVars
<1>21. CASE ChangeStatus
  BY <1>21, LoginAssumption DEF ChangeStatus, Call, TypeOK, redisVars, userVars, historyVars
<1>22. CASE ChallengeExpires
  BY <1>22, LoginAssumption DEF ChallengeExpires, Call, TypeOK, redisVars, userVars, historyVars
<1>23. CASE ProofExpires
  BY <1>23, LoginAssumption DEF ProofExpires, Call, TypeOK, redisVars, userVars, historyVars
<1>24. CASE CooldownExpires
  <2>1. cooldown' \in BOOLEAN
    BY <1>24 DEF CooldownExpires
  <2> QED
    BY <1>24, <2>1 DEF CooldownExpires, TypeOK, userVars, historyVars
<1>25. CASE UNCHANGED vars
  BY <1>25, LoginAssumption DEF vars, Call, TypeOK, redisVars, userVars, historyVars
<1> QED
  BY <1>1, <1>2, <1>3, <1>4, <1>5, <1>6, <1>7, <1>8, <1>9, <1>10, <1>11, <1>12, <1>13, <1>14, <1>15, <1>16, <1>17, <1>18, <1>19, <1>20, <1>21, <1>22, <1>23, <1>24, <1>25 DEF Next, Handle

LEMMA VersionsStep ==
    ASSUME TypeOK, Versions, Unborn, Proven, [Next]_vars
    PROVE  Versions'
<1> USE LoginAssumption DEF TypeOK, Versions, Unborn, Proven, Call, vars, redisVars, userVars, historyVars, Begin, Continue, Go, At, Return, Started, Sending, Completing, Saving, ReadAccount, Replay, Transition, Holds, LogIn, LoginToken, Id, Working
<1>1. ASSUME NEW w \in Worker, NEW o \in Otp, RequestOtp(w, o)
      PROVE  Versions'
  BY <1>1, SMT DEF RequestOtp
<1>2. ASSUME NEW w \in Worker, NEW p \in Proof, RightGuess(w, p)
      PROVE  Versions'
  BY <1>2, SMT DEF RightGuess
<1>3. ASSUME NEW w \in Worker, RetryGuess(w)
      PROVE  Versions'
  BY <1>3, SMT DEF RetryGuess
<1>4. ASSUME NEW w \in Worker, RegisterCustomer(w)
      PROVE  Versions'
  BY <1>4, SMT DEF RegisterCustomer
<1>5. ASSUME NEW w \in Worker, PasswordLogin(w)
      PROVE  Versions'
  BY <1>5, SMT DEF PasswordLogin
<1>6. ASSUME NEW w \in Worker, RefreshSession(w)
      PROVE  Versions'
  BY <1>6, SMT DEF RefreshSession
<1>7. ASSUME NEW c \in calls, Enqueued(c)
      PROVE  Versions'
  BY <1>7, SMT DEF Enqueued
<1>8. ASSUME NEW c \in calls, EnqueueFails(c)
      PROVE  Versions'
  BY <1>8, SMT DEF EnqueueFails
<1>9. ASSUME NEW c \in calls, Lookup(c)
      PROVE  Versions'
  BY <1>9, SMT DEF Lookup
<1>10. ASSUME NEW c \in calls, NEW b \in BOOLEAN, Complete(c, b)
      PROVE  Versions'
  BY <1>10, SMT DEF Complete
<1>11. ASSUME NEW c \in calls, NEW b \in BOOLEAN, CompleteFails(c, b)
      PROVE  Versions'
  BY <1>11, FailedCalls, SMT DEF CompleteFails
<1>12. ASSUME NEW c \in calls, Durable(c)
      PROVE  Versions'
  BY <1>12, SMT DEF Durable
<1>13. ASSUME NEW c \in calls, Resolve(c)
      PROVE  Versions'
  BY <1>13, FailedCalls, SMT DEF Resolve
<1>14. ASSUME NEW c \in calls, Deny(c)
      PROVE  Versions'
  BY <1>14, SMT DEF Deny
<1>15. ASSUME NEW c \in calls, Mark(c)
      PROVE  Versions'
  BY <1>15, SMT DEF Mark
<1>16. ASSUME NEW c \in calls, TransitionInVain(c)
      PROVE  Versions'
  BY <1>16, SMT DEF TransitionInVain
<1>17. ASSUME NEW c \in calls, NEW t \in Token, Save(c, t)
      PROVE  Versions'
  BY <1>17, SMT DEF Save
<1>18. ASSUME NEW c \in calls, Crash(c)
      PROVE  Versions'
  BY <1>18, SMT DEF Crash
<1>19. CASE WrongGuess
  BY <1>19, SMT DEF WrongGuess
<1>20. CASE Logout
  BY <1>20, SMT DEF Logout
<1>21. CASE ChangeStatus
  BY <1>21, SMT DEF ChangeStatus
<1>22. CASE ChallengeExpires
  BY <1>22, SMT DEF ChallengeExpires
<1>23. CASE ProofExpires
  BY <1>23, SMT DEF ProofExpires
<1>24. CASE CooldownExpires
  BY <1>24, SMT DEF CooldownExpires
<1>25. CASE UNCHANGED vars
  BY <1>25, SMT DEF vars
<1> QED
  BY <1>1, <1>2, <1>3, <1>4, <1>5, <1>6, <1>7, <1>8, <1>9, <1>10, <1>11, <1>12, <1>13, <1>14, <1>15, <1>16, <1>17, <1>18, <1>19, <1>20, <1>21, <1>22, <1>23, <1>24, <1>25 DEF Next, Handle

LEMMA UnbornStep ==
    ASSUME TypeOK, Unborn, Proven, [Next]_vars
    PROVE  Unborn'
<1> USE LoginAssumption DEF TypeOK, Unborn, Proven, Call, vars, redisVars, userVars, historyVars, Begin, Continue, Go, At, Return, Started, Sending, Completing, Saving, ReadAccount, Replay, Transition, Holds, LogIn, LoginToken, Id, Working
<1>1. ASSUME NEW w \in Worker, NEW o \in Otp, RequestOtp(w, o)
      PROVE  Unborn'
  BY <1>1, SMT DEF RequestOtp
<1>2. ASSUME NEW w \in Worker, NEW p \in Proof, RightGuess(w, p)
      PROVE  Unborn'
  BY <1>2, SMT DEF RightGuess
<1>3. ASSUME NEW w \in Worker, RetryGuess(w)
      PROVE  Unborn'
  BY <1>3, SMT DEF RetryGuess
<1>4. ASSUME NEW w \in Worker, RegisterCustomer(w)
      PROVE  Unborn'
  BY <1>4, SMT DEF RegisterCustomer
<1>5. ASSUME NEW w \in Worker, PasswordLogin(w)
      PROVE  Unborn'
  BY <1>5, SMT DEF PasswordLogin
<1>6. ASSUME NEW w \in Worker, RefreshSession(w)
      PROVE  Unborn'
  BY <1>6, SMT DEF RefreshSession
<1>7. ASSUME NEW c \in calls, Enqueued(c)
      PROVE  Unborn'
  BY <1>7, SMT DEF Enqueued
<1>8. ASSUME NEW c \in calls, EnqueueFails(c)
      PROVE  Unborn'
  BY <1>8, SMT DEF EnqueueFails
<1>9. ASSUME NEW c \in calls, Lookup(c)
      PROVE  Unborn'
  BY <1>9, SMT DEF Lookup
<1>10. ASSUME NEW c \in calls, NEW b \in BOOLEAN, Complete(c, b)
      PROVE  Unborn'
  <2>1. CASE UNCHANGED <<userVars, completed, begun>>
    BY <2>1
  <2>2. CASE completed[c.proof] = Unset /\ LogIn(c.proof)
    <3>1. c.proof \in Proof /\ tokenVersion \in Nat
      BY <1>10 DEF Complete
    <3>2. completed'[c.proof] # Unset
      BY <2>2, <3>1 DEF Unset
    <3>3. \A p \in Proof : p # c.proof => completed'[p] = completed[p] /\ begun'[p] = begun[p]
      BY <2>2, <3>1
    <3> QED
      BY <3>2, <3>3
  <2> QED
    BY <1>10, <2>1, <2>2 DEF Complete
<1>11. ASSUME NEW c \in calls, NEW b \in BOOLEAN, CompleteFails(c, b)
      PROVE  Unborn'
  BY <1>11, FailedCalls, SMT DEF CompleteFails
<1>12. ASSUME NEW c \in calls, Durable(c)
      PROVE  Unborn'
  BY <1>12, SMT DEF Durable
<1>13. ASSUME NEW c \in calls, Resolve(c)
      PROVE  Unborn'
  BY <1>13, FailedCalls, SMT DEF Resolve
<1>14. ASSUME NEW c \in calls, Deny(c)
      PROVE  Unborn'
  BY <1>14, SMT DEF Deny
<1>15. ASSUME NEW c \in calls, Mark(c)
      PROVE  Unborn'
  BY <1>15, SMT DEF Mark
<1>16. ASSUME NEW c \in calls, TransitionInVain(c)
      PROVE  Unborn'
  BY <1>16, SMT DEF TransitionInVain
<1>17. ASSUME NEW c \in calls, NEW t \in Token, Save(c, t)
      PROVE  Unborn'
  BY <1>17, SMT DEF Save
<1>18. ASSUME NEW c \in calls, Crash(c)
      PROVE  Unborn'
  BY <1>18, SMT DEF Crash
<1>19. CASE WrongGuess
  BY <1>19, SMT DEF WrongGuess
<1>20. CASE Logout
  BY <1>20, SMT DEF Logout
<1>21. CASE ChangeStatus
  BY <1>21, SMT DEF ChangeStatus
<1>22. CASE ChallengeExpires
  BY <1>22, SMT DEF ChallengeExpires
<1>23. CASE ProofExpires
  BY <1>23, SMT DEF ProofExpires
<1>24. CASE CooldownExpires
  BY <1>24, SMT DEF CooldownExpires
<1>25. CASE UNCHANGED vars
  BY <1>25, SMT DEF vars
<1> QED
  BY <1>1, <1>2, <1>3, <1>4, <1>5, <1>6, <1>7, <1>8, <1>9, <1>10, <1>11, <1>12, <1>13, <1>14, <1>15, <1>16, <1>17, <1>18, <1>19, <1>20, <1>21, <1>22, <1>23, <1>24, <1>25 DEF Next, Handle

LEMMA CodesStep ==
    ASSUME TypeOK, Codes, Proven, [Next]_vars
    PROVE  Codes'
<1> USE LoginAssumption DEF TypeOK, Codes, Proven, Call, vars, redisVars, userVars, historyVars, Begin, Continue, Go, At, Return, Started, Sending, Completing, Saving, ReadAccount, Replay, Transition, Holds, LogIn, LoginToken, Id, Working
<1>1. ASSUME NEW w \in Worker, NEW o \in Otp, RequestOtp(w, o)
      PROVE  Codes'
  BY <1>1, SMT DEF RequestOtp
<1>2. ASSUME NEW w \in Worker, NEW p \in Proof, RightGuess(w, p)
      PROVE  Codes'
  BY <1>2, SMT DEF RightGuess
<1>3. ASSUME NEW w \in Worker, RetryGuess(w)
      PROVE  Codes'
  BY <1>3, SMT DEF RetryGuess
<1>4. ASSUME NEW w \in Worker, RegisterCustomer(w)
      PROVE  Codes'
  BY <1>4, SMT DEF RegisterCustomer
<1>5. ASSUME NEW w \in Worker, PasswordLogin(w)
      PROVE  Codes'
  BY <1>5, SMT DEF PasswordLogin
<1>6. ASSUME NEW w \in Worker, RefreshSession(w)
      PROVE  Codes'
  BY <1>6, SMT DEF RefreshSession
<1>7. ASSUME NEW c \in calls, Enqueued(c)
      PROVE  Codes'
  BY <1>7, SMT DEF Enqueued
<1>8. ASSUME NEW c \in calls, EnqueueFails(c)
      PROVE  Codes'
  BY <1>8, SMT DEF EnqueueFails
<1>9. ASSUME NEW c \in calls, Lookup(c)
      PROVE  Codes'
  BY <1>9, SMT DEF Lookup
<1>10. ASSUME NEW c \in calls, NEW b \in BOOLEAN, Complete(c, b)
      PROVE  Codes'
  BY <1>10, SMT DEF Complete
<1>11. ASSUME NEW c \in calls, NEW b \in BOOLEAN, CompleteFails(c, b)
      PROVE  Codes'
  BY <1>11, FailedCalls, SMT DEF CompleteFails
<1>12. ASSUME NEW c \in calls, Durable(c)
      PROVE  Codes'
  BY <1>12, SMT DEF Durable
<1>13. ASSUME NEW c \in calls, Resolve(c)
      PROVE  Codes'
  BY <1>13, FailedCalls, SMT DEF Resolve
<1>14. ASSUME NEW c \in calls, Deny(c)
      PROVE  Codes'
  BY <1>14, SMT DEF Deny
<1>15. ASSUME NEW c \in calls, Mark(c)
      PROVE  Codes'
  BY <1>15, SMT DEF Mark
<1>16. ASSUME NEW c \in calls, TransitionInVain(c)
      PROVE  Codes'
  BY <1>16, SMT DEF TransitionInVain
<1>17. ASSUME NEW c \in calls, NEW t \in Token, Save(c, t)
      PROVE  Codes'
  BY <1>17, SMT DEF Save
<1>18. ASSUME NEW c \in calls, Crash(c)
      PROVE  Codes'
  BY <1>18, SMT DEF Crash
<1>19. CASE WrongGuess
  BY <1>19, SMT DEF WrongGuess
<1>20. CASE Logout
  BY <1>20, SMT DEF Logout
<1>21. CASE ChangeStatus
  BY <1>21, SMT DEF ChangeStatus
<1>22. CASE ChallengeExpires
  BY <1>22, SMT DEF ChallengeExpires
<1>23. CASE ProofExpires
  BY <1>23, SMT DEF ProofExpires
<1>24. CASE CooldownExpires
  BY <1>24, SMT DEF CooldownExpires
<1>25. CASE UNCHANGED vars
  BY <1>25, SMT DEF vars
<1> QED
  BY <1>1, <1>2, <1>3, <1>4, <1>5, <1>6, <1>7, <1>8, <1>9, <1>10, <1>11, <1>12, <1>13, <1>14, <1>15, <1>16, <1>17, <1>18, <1>19, <1>20, <1>21, <1>22, <1>23, <1>24, <1>25 DEF Next, Handle

LEMMA ProvenStep ==
    ASSUME TypeOK, Codes, Proven, [Next]_vars
    PROVE  Proven'
<1> USE LoginAssumption DEF TypeOK, Codes, Proven, Call, vars, redisVars, userVars, historyVars, Begin, Continue, Go, At, Return, Started, Sending, Completing, Saving, ReadAccount, Replay, Transition, Holds, LogIn, LoginToken, Id, Working
<1>1. ASSUME NEW w \in Worker, NEW o \in Otp, RequestOtp(w, o)
      PROVE  Proven'
  BY <1>1, SMT DEF RequestOtp
<1>2. ASSUME NEW w \in Worker, NEW p \in Proof, RightGuess(w, p)
      PROVE  Proven'
  BY <1>2, SMT DEF RightGuess
<1>3. ASSUME NEW w \in Worker, RetryGuess(w)
      PROVE  Proven'
  BY <1>3, SMT DEF RetryGuess
<1>4. ASSUME NEW w \in Worker, RegisterCustomer(w)
      PROVE  Proven'
  BY <1>4, SMT DEF RegisterCustomer
<1>5. ASSUME NEW w \in Worker, PasswordLogin(w)
      PROVE  Proven'
  BY <1>5, SMT DEF PasswordLogin
<1>6. ASSUME NEW w \in Worker, RefreshSession(w)
      PROVE  Proven'
  BY <1>6, SMT DEF RefreshSession
<1>7. ASSUME NEW c \in calls, Enqueued(c)
      PROVE  Proven'
  BY <1>7, SMT DEF Enqueued
<1>8. ASSUME NEW c \in calls, EnqueueFails(c)
      PROVE  Proven'
  BY <1>8, SMT DEF EnqueueFails
<1>9. ASSUME NEW c \in calls, Lookup(c)
      PROVE  Proven'
  BY <1>9, SMT DEF Lookup
<1>10. ASSUME NEW c \in calls, NEW b \in BOOLEAN, Complete(c, b)
      PROVE  Proven'
  BY <1>10, SMT DEF Complete
<1>11. ASSUME NEW c \in calls, NEW b \in BOOLEAN, CompleteFails(c, b)
      PROVE  Proven'
  BY <1>11, FailedCalls, SMT DEF CompleteFails
<1>12. ASSUME NEW c \in calls, Durable(c)
      PROVE  Proven'
  BY <1>12, SMT DEF Durable
<1>13. ASSUME NEW c \in calls, Resolve(c)
      PROVE  Proven'
  BY <1>13, FailedCalls, SMT DEF Resolve
<1>14. ASSUME NEW c \in calls, Deny(c)
      PROVE  Proven'
  BY <1>14, SMT DEF Deny
<1>15. ASSUME NEW c \in calls, Mark(c)
      PROVE  Proven'
  BY <1>15, SMT DEF Mark
<1>16. ASSUME NEW c \in calls, TransitionInVain(c)
      PROVE  Proven'
  BY <1>16, SMT DEF TransitionInVain
<1>17. ASSUME NEW c \in calls, NEW t \in Token, Save(c, t)
      PROVE  Proven'
  BY <1>17, SMT DEF Save
<1>18. ASSUME NEW c \in calls, Crash(c)
      PROVE  Proven'
  BY <1>18, SMT DEF Crash
<1>19. CASE WrongGuess
  BY <1>19, SMT DEF WrongGuess
<1>20. CASE Logout
  BY <1>20, SMT DEF Logout
<1>21. CASE ChangeStatus
  BY <1>21, SMT DEF ChangeStatus
<1>22. CASE ChallengeExpires
  BY <1>22, SMT DEF ChallengeExpires
<1>23. CASE ProofExpires
  BY <1>23, SMT DEF ProofExpires
<1>24. CASE CooldownExpires
  BY <1>24, SMT DEF CooldownExpires
<1>25. CASE UNCHANGED vars
  BY <1>25, SMT DEF vars
<1> QED
  BY <1>1, <1>2, <1>3, <1>4, <1>5, <1>6, <1>7, <1>8, <1>9, <1>10, <1>11, <1>12, <1>13, <1>14, <1>15, <1>16, <1>17, <1>18, <1>19, <1>20, <1>21, <1>22, <1>23, <1>24, <1>25 DEF Next, Handle

-----------------------------------------------------------------------------
(* What the invariant gives. *)

LEMMA LoginInvInit == Init => LoginInv
<1> SUFFICES ASSUME Init PROVE LoginInv
  OBVIOUS
<1>1. TypeOK
  <2>1. completed \in [Proof -> Unset..MaxLogouts] /\ begun \in [Id -> Unset..MaxLogouts]
    BY LoginAssumption DEF Init, Unset
  <2>2. codeOf \in [Proof -> Otp \union {None}] /\ calls \subseteq Call /\ asked \subseteq Otp
    BY DEF Init
  <2>3. registered \in BOOLEAN /\ blocked \in BOOLEAN /\ cooldown \in BOOLEAN
    BY DEF Init
  <2>4. tokenVersion \in 0..MaxLogouts /\ logouts \in 0..MaxLogouts /\ crashes \in 0..MaxCrashes
    BY LoginAssumption DEF Init
  <2>5. challenge = None /\ proof = None /\ session = None
    BY DEF Init
  <2> QED
    BY <2>1, <2>2, <2>3, <2>4, <2>5 DEF TypeOK
<1>2. Versions /\ Unborn
  BY DEF Init, Versions, Unborn, Id
<1>3. Codes /\ Proven
  BY DEF Init, Codes, Proven
<1> QED
  BY <1>1, <1>2, <1>3 DEF LoginInv

LEMMA LoginInvStep == LoginInv /\ [Next]_vars => LoginInv'
BY TypeStep, VersionsStep, UnbornStep, CodesStep, ProvenStep DEF LoginInv

LEMMA LoginInvariant == Spec => []LoginInv
BY LoginInvInit, LoginInvStep, PTL DEF Spec

\* The state of the Redis keys, of the account and of the calls in flight stays
\* in its type: no challenge keeps as many wrong guesses as are allowed, and no
\* session carries a token version the account never had.
THEOREM LoginTypeOK == Spec => []TypeOK
BY LoginInvariant, PTL DEF LoginInv

\* A code leads to one completed login, however many calls submit it, retry it or
\* are cut off (VERIFY_TO_PROOF_SCRIPT, completeVerifiedLogin).
THEOREM CodeLogsInOnce == Spec => []OneLoginPerCode
<1>1. Codes => OneLoginPerCode
  BY DEF Codes, OneLoginPerCode
<1> QED
  BY <1>1, LoginInvariant, PTL DEF LoginInv

\* After a logout only what was signed for the account as it is since then works
\* (logout, refreshSession, login, completeVerifiedLogin).
THEOREM LogoutEnds == Spec => []LogoutEndsSessions
<1>1. Versions => LogoutEndsSessions
  BY DEF Versions, LogoutEndsSessions, Current
<1> QED
  BY <1>1, LoginInvariant, PTL DEF LoginInv

\* An action that leaves the session and the version alone keeps every token as
\* current as it was.
LEMMA SameAccount == ASSUME UNCHANGED <<session, tokenVersion>>, NEW i \in Id
                     PROVE  Current(i)' = Current(i)
BY DEF Current

LEMMA NoReturn ==
    ASSUME LoginInv, Next, NEW i \in Id, begun[i] # Unset, ~Current(i)
    PROVE  ~Current(i)'
<1>1. CASE UNCHANGED <<session, tokenVersion>>
  BY <1>1, SameAccount
<1>2. ASSUME NEW c \in calls, NEW b \in BOOLEAN, Complete(c, b), LogIn(c.proof), completed[c.proof] = Unset
      PROVE  ~Current(i)'
  <2>1. c.proof \in Proof
    BY <1>2 DEF LoginInv, Proven, Working, Complete
  <2>2. begun[c.proof] = Unset
    BY <1>2, <2>1 DEF LoginInv, Unborn
  <2>3. session' = [id |-> c.proof, version |-> tokenVersion]
    BY <1>2 DEF LogIn
  <2>4. i # c.proof
    BY <2>2
  <2> QED
    BY <2>3, <2>4 DEF Current
<1>3. ASSUME NEW c \in calls, NEW t \in Token, Save(c, t)
      PROVE  ~Current(i)'
  <2>1. session' = [id |-> t, version |-> c.version] /\ i # t
    BY <1>3 DEF Save
  <2> QED
    BY <2>1 DEF Current
<1>4. CASE Logout
  BY <1>4 DEF Logout, Current
<1>5. ASSUME NEW w \in Worker,
             \/ \E o \in Otp : RequestOtp(w, o)
             \/ \E p \in Proof : RightGuess(w, p)
             \/ RetryGuess(w) \/ RegisterCustomer(w) \/ PasswordLogin(w) \/ RefreshSession(w)
      PROVE  UNCHANGED <<session, tokenVersion>>
  BY <1>5 DEF RequestOtp, RightGuess, RetryGuess, RegisterCustomer, PasswordLogin, RefreshSession, userVars
<1>6. ASSUME NEW c \in calls, NEW b \in BOOLEAN, Complete(c, b)
      PROVE  UNCHANGED <<session, tokenVersion>> \/ (LogIn(c.proof) /\ completed[c.proof] = Unset)
  BY <1>6 DEF Complete, userVars
<1>7. ASSUME NEW c \in calls,
             \/ Enqueued(c) \/ EnqueueFails(c) \/ Lookup(c) \/ Durable(c) \/ Resolve(c)
             \/ \E b \in BOOLEAN : CompleteFails(c, b)
             \/ Deny(c) \/ Mark(c) \/ TransitionInVain(c) \/ Crash(c)
      PROVE  UNCHANGED <<session, tokenVersion>>
  BY <1>7 DEF Enqueued, EnqueueFails, Lookup, Durable, Resolve, CompleteFails, Deny, Mark, TransitionInVain,
              Transition, Crash, userVars
<1>8. ASSUME WrongGuess \/ ChangeStatus \/ ChallengeExpires \/ ProofExpires \/ CooldownExpires
      PROVE  UNCHANGED <<session, tokenVersion>>
  BY <1>8 DEF WrongGuess, ChangeStatus, ChallengeExpires, ProofExpires, CooldownExpires, userVars
<1> QED
  BY <1>1, <1>2, <1>3, <1>4, <1>5, <1>6, <1>7, <1>8 DEF Next, Handle

\* A refresh token that stopped working never works again, though old logins are
\* retried and late saves arrive (assertLoginCompletionReplayCurrent,
\* refreshSession, logout).
THEOREM RetiredStays == Spec => RetiredStaysRetired
<1>1. LoginInv /\ [Next]_vars => [\A i \in Id : begun[i] # Unset /\ ~Current(i) => ~Current(i)']_vars
  BY NoReturn
<1> QED
  BY <1>1, LoginInvariant, PTL DEF Spec, RetiredStaysRetired

-----------------------------------------------------------------------------
(* The delivery of a code *)

ChallengeStatuses == {"QUEUED", "ACCEPTED"} \union Reported
DeliveryJob == [code : Code, pc : {"enqueue", "queued", "record", "fail"}, made : Nat,
                message : Message \union {NoCode}]
Hook == [message : Message, status : Reported, code : Code \union {NoCode}]

DeliveryTyped ==
    /\ current # NoCode => current \in [code : Code, status : ChallengeStatuses]
    /\ codeOfMsg \in [Message -> Code \union {NoCode}]
    /\ carried \in [Message -> Code \union {NoCode}]
    /\ pending \in [Message -> {"NONE"} \union Reported]
    /\ jobs \subseteq DeliveryJob /\ hooks \subseteq Hook
    /\ emitted \in [Message -> SUBSET Reported] /\ seen \in [Message -> SUBSET Reported]
    /\ stalls \subseteq Code

\* What is said of a message was said by the provider, of the code it took it for.
MessagesFit ==
    \A m \in Message :
        /\ codeOfMsg[m] \in {NoCode, carried[m]}
        /\ seen[m] \subseteq emitted[m] /\ pending[m] \in {"NONE"} \union seen[m]
        /\ "FAILED" \in emitted[m] => "DELIVERED" \notin emitted[m] /\ "READ" \notin emitted[m]
HooksFit ==
    \A h \in hooks : /\ h.status \in emitted[h.message]
                     /\ h.code # NoCode => h.code = codeOfMsg[h.message]

\* A code has one job, and nothing was said of it before that is over.
JobsFit ==
    /\ \A j \in jobs : j.pc = "record" => j.message \in Message /\ carried[j.message] = j.code
    /\ \A j, k \in jobs : j.code = k.code => j = k
    /\ \A j \in jobs : j.code \notin stalls =>
          /\ \A m \in Message : codeOfMsg[m] # j.code
          /\ current # NoCode /\ current.code = j.code => current.status = "QUEUED"
OneMessage ==
    \A m, n \in Message :
        codeOfMsg[m] = codeOfMsg[n] /\ codeOfMsg[m] # NoCode /\ codeOfMsg[m] \notin stalls => m = n

\* Where what a webhook said is found again.
Within(s, status) == status = "FAILED" \/ (s # "FAILED" /\ Rank[s] <= Rank[status])
PendingKept == \A m \in Message : codeOfMsg[m] = NoCode => \A s \in seen[m] : Within(s, pending[m])
StatusKept ==
    \A m \in Message :
        current # NoCode /\ codeOfMsg[m] = current.code /\ current.code \notin stalls =>
            /\ current.status \in {"ACCEPTED"} \union seen[m]
            /\ \A s \in seen[m] : Within(s, current.status) \/ Within(s, pending[m])

DeliveryInv ==
    /\ DeliveryTyped /\ MessagesFit /\ HooksFit /\ JobsFit /\ OneMessage /\ PendingKept /\ StatusKept

LEMMA Ranks ==
    /\ Rank["NONE"] = -1 /\ Rank["QUEUED"] = 0 /\ Rank["ACCEPTED"] = 1 /\ Rank["SENT"] = 2
    /\ Rank["DELIVERED"] = 3 /\ Rank["READ"] = 4
BY DEF Rank

\* Latest keeps what was said before and what is said now.
LEMMA LatestKeeps ==
    ASSUME NEW p \in {"NONE"} \union ChallengeStatuses, NEW s \in Reported,
           s = "FAILED" => p \notin {"DELIVERED", "READ"}
    PROVE  /\ Latest(p, s) \in {p, s} /\ Within(s, Latest(p, s))
           /\ \A x \in Reported : Within(x, p) => Within(x, Latest(p, s))
<1>1. CASE s = "FAILED"
  BY <1>1 DEF Latest, Advances, Within
<1>2. CASE s # "FAILED" /\ p = "FAILED"
  BY <1>2 DEF Latest, Advances, Within
<1>3. CASE s # "FAILED" /\ p # "FAILED"
  <2>1. /\ Rank[p] \in Int /\ Rank[s] \in Int
        /\ \A x \in Reported : x # "FAILED" => Rank[x] \in Int
    BY <1>3, Ranks DEF Reported, ChallengeStatuses
  <2>2. CASE Rank[s] > Rank[p]
    <3>1. Latest(p, s) = s
      BY <1>3, <2>2 DEF Latest, Advances
    <3> QED
      BY <1>3, <2>1, <2>2, <3>1 DEF Within
  <2>3. CASE ~(Rank[s] > Rank[p])
    <3>1. Latest(p, s) = p
      BY <1>3, <2>3 DEF Latest, Advances
    <3> QED
      BY <1>3, <2>1, <2>3, <3>1 DEF Within
  <2> QED
    BY <2>2, <2>3
<1> QED
  BY <1>1, <1>2, <1>3

\* What is said last is found where it was kept.
LEMMA LastFound ==
    ASSUME NEW S \in SUBSET Reported, NEW p \in {"ACCEPTED"} \union S, NEW q \in {"NONE"} \union S,
           "FAILED" \in S => "DELIVERED" \notin S /\ "READ" \notin S,
           \A s \in S : Within(s, p) \/ Within(s, q)
    PROVE  Latest(p, q) = Last(S)
<1>1. CASE "FAILED" \in S
  <2>1. p = "FAILED" \/ q = "FAILED"
    BY <1>1 DEF Within
  <2>2. p \notin {"DELIVERED", "READ"}
    BY <1>1
  <2> QED
    BY <1>1, <2>1, <2>2 DEF Latest, Advances, Last
<1>2. CASE "FAILED" \notin S
  <2> DEFINE T == S \union {"ACCEPTED"}
  <2> DEFINE l == Latest(p, q)
  <2>1. T \subseteq {"ACCEPTED", "SENT", "DELIVERED", "READ"}
    BY <1>2 DEF Reported
  <2>2. q \in {"NONE", "SENT", "DELIVERED", "READ"} /\ p \in T
    BY <1>2 DEF Reported
  <2>3. /\ l = IF Rank[q] > Rank[p] THEN q ELSE p
        /\ l \in T
    BY <2>1, <2>2, Ranks DEF Latest, Advances
  <2>4. \A s \in T : Rank[s] <= Rank[l]
    BY <2>1, <2>2, <2>3, Ranks DEF Within
  <2>5. \A s \in T : Rank[s] = Rank[l] => s = l
    BY <2>1, <2>3, Ranks
  <2> HIDE DEF l
  <2>6. \A s \in T : (\A t \in T : Rank[t] <= Rank[s]) <=> s = l
    BY <2>1, <2>3, <2>4, <2>5, Ranks
  <2>7. l = CHOOSE s \in T : \A t \in T : Rank[t] <= Rank[s]
    BY <2>3, <2>6
  <2> QED
    BY <1>2, <2>7 DEF Last, l
<1> QED
  BY <1>1, <1>2

-----------------------------------------------------------------------------
(* The steps *)

\* A job goes on; what the provider took meanwhile was taken by nobody before.
LEMMA JobMoves ==
    ASSUME DeliveryInv, NEW j \in jobs, NEW k \in DeliveryJob, k.code = j.code,
           jobs' = (jobs \ {j}) \union {k},
           UNCHANGED <<current, codeOfMsg, pending, hooks, emitted, seen>>,
           carried' \in [Message -> Code \union {NoCode}],
           \A m \in Message : carried[m] # NoCode => carried'[m] = carried[m],
           k.pc = "record" => k.message \in Message /\ carried'[k.message] = k.code,
           stalls \subseteq stalls', stalls' \subseteq Code
    PROVE  DeliveryInv'
<1>1. DeliveryTyped'
  BY DEF DeliveryInv, DeliveryTyped
<1>2. MessagesFit' /\ HooksFit' /\ PendingKept'
  BY DEF DeliveryInv, MessagesFit, HooksFit, PendingKept
<1>3. OneMessage' /\ StatusKept'
  BY DEF DeliveryInv, OneMessage, StatusKept
<1>4. JobsFit'
  <2>1. \A i \in jobs : i.code \in Code
    BY DEF DeliveryInv, DeliveryTyped, DeliveryJob
  <2>2. \A i \in jobs' : i.pc = "record" => i.message \in Message /\ carried'[i.message] = i.code
    BY <2>1, DeliveryAssumption DEF DeliveryInv, JobsFit
  <2>3. \A i \in jobs' : \E e \in jobs : i.code = e.code /\ (i = k <=> e = j)
    BY DEF DeliveryInv, JobsFit
  <2>4. \A h, i \in jobs' : h.code = i.code => h = i
    BY DEF DeliveryInv, JobsFit
  <2>5. \A i \in jobs' : i.code \notin stalls' =>
           /\ \A m \in Message : codeOfMsg'[m] # i.code
           /\ current' # NoCode /\ current'.code = i.code => current'.status = "QUEUED"
    BY <2>3 DEF DeliveryInv, JobsFit
  <2> QED
    BY <2>2, <2>4, <2>5 DEF JobsFit
<1> QED
  BY <1>1, <1>2, <1>3, <1>4 DEF DeliveryInv

\* A job ends, or a challenge.
LEMMA JobEnds ==
    ASSUME DeliveryInv, jobs' \subseteq jobs, current' = current \/ current' = NoCode,
           UNCHANGED <<codeOfMsg, pending, hooks, carried, emitted, seen, stalls>>
    PROVE  DeliveryInv'
BY DEF DeliveryInv, DeliveryTyped, MessagesFit, HooksFit, JobsFit, OneMessage, PendingKept, StatusKept

LEMMA AskKeeps ==
    ASSUME DeliveryInv, NEW c \in Code, NEW fixed \in BOOLEAN, AskForCode(c, fixed)
    PROVE  DeliveryInv'
<1> DEFINE k == [code |-> c, pc |-> "enqueue", made |-> 0, message |-> NoCode]
<1>0. /\ c \notin stalls /\ \A m \in Message : carried[m] # c
      /\ \A j \in jobs : j.code # c
      /\ current' = [code |-> c, status |-> "QUEUED"]
      /\ jobs' = jobs \/ jobs' = jobs \union {k}
      /\ UNCHANGED <<codeOfMsg, pending, hooks, carried, emitted, seen, stalls>>
  BY DEF AskForCode
<1>1. k \in DeliveryJob /\ k.code = c /\ k.pc = "enqueue"
  BY DEF DeliveryJob
<1>2. current' \in [code : Code, status : ChallengeStatuses] /\ current'.code = c /\ current'.status = "QUEUED"
  BY <1>0 DEF ChallengeStatuses
<1>3. \A m \in Message : codeOfMsg[m] # c
  BY <1>0, DeliveryAssumption DEF DeliveryInv, MessagesFit
<1> HIDE DEF k
<1>4. DeliveryTyped'
  BY <1>0, <1>1, <1>2 DEF DeliveryInv, DeliveryTyped
<1>5. MessagesFit' /\ HooksFit' /\ PendingKept' /\ OneMessage'
  BY <1>0 DEF DeliveryInv, MessagesFit, HooksFit, PendingKept, OneMessage
<1>6. StatusKept'
  BY <1>0, <1>2, <1>3 DEF StatusKept
<1>7. JobsFit'
  BY <1>0, <1>1, <1>2, <1>3 DEF DeliveryInv, JobsFit
<1> QED
  BY <1>4, <1>5, <1>6, <1>7 DEF DeliveryInv

LEMMA QueuedKeeps ==
    ASSUME DeliveryInv, NEW j \in jobs, Queued(j)
    PROVE  DeliveryInv'
<1> DEFINE k == [j EXCEPT !.pc = "queued"]
<1>1. k \in DeliveryJob /\ k.code = j.code /\ k.pc = "queued"
  BY DEF DeliveryInv, DeliveryTyped, DeliveryJob
<1>2. jobs' = (jobs \ {j}) \union {k}
  BY DEF Queued, Goes
<1> HIDE DEF k
<1> QED
  BY <1>1, <1>2, JobMoves DEF Queued, DeliveryInv, DeliveryTyped

\* What Take does to the messages.
LEMMA Taking ==
    ASSUME DeliveryInv, NEW c \in Code, NEW m \in Message, Take(m, c)
    PROVE  /\ carried' \in [Message -> Code \union {NoCode}] /\ carried'[m] = c
           /\ \A n \in Message : carried[n] # NoCode => carried'[n] = carried[n]
BY DEF Take, DeliveryInv, DeliveryTyped

LEMMA AcceptedKeeps ==
    ASSUME DeliveryInv, NEW j \in jobs, NEW m \in Message, Accepted(j, m)
    PROVE  DeliveryInv'
<1> DEFINE k == [j EXCEPT !.pc = "record", !.message = m]
<1>1. k \in DeliveryJob /\ k.code = j.code /\ k.pc = "record" /\ k.message = m /\ j.code \in Code
  BY DEF DeliveryInv, DeliveryTyped, DeliveryJob
<1>2. jobs' = (jobs \ {j}) \union {k}
  BY DEF Accepted, Goes
<1> HIDE DEF k
<1>3. PICK c \in Code : c = j.code
  BY <1>1
<1>4. Take(m, c)
  BY <1>3 DEF Accepted, Take
<1> QED
  BY <1>1, <1>2, <1>3, <1>4, Taking, JobMoves DEF Accepted, DeliveryInv, DeliveryTyped

\* A job that goes on without a message of its own.
LEMMA JobFails ==
    ASSUME DeliveryInv, NEW j \in jobs, NEW k \in DeliveryJob, k.code = j.code, k.pc # "record", Goes(j, k),
           UNCHANGED carried \/ \E m \in Message : Take(m, j.code),
           UNCHANGED <<current, codeOfMsg, pending, hooks, emitted, seen, stalls>>
    PROVE  DeliveryInv'
<1>1. PICK c \in Code : c = j.code
  BY DEF DeliveryInv, DeliveryTyped, DeliveryJob
<1>2. UNCHANGED carried \/ \E m \in Message : Take(m, c)
  BY <1>1 DEF Take
<1>3. /\ carried' \in [Message -> Code \union {NoCode}]
      /\ \A n \in Message : carried[n] # NoCode => carried'[n] = carried[n]
  <2>1. CASE UNCHANGED carried
    BY <2>1 DEF DeliveryInv, DeliveryTyped
  <2>2. CASE \E m \in Message : Take(m, c)
    BY <2>2, Taking
  <2> QED
    BY <1>2, <2>1, <2>2
<1>4. jobs' = (jobs \ {j}) \union {k}
  BY DEF Goes
<1> QED
  BY <1>3, <1>4, JobMoves DEF DeliveryInv, DeliveryTyped

LEMMA SendFailsKeeps ==
    ASSUME DeliveryInv, NEW j \in jobs, SendFails(j)
    PROVE  DeliveryInv'
<1>0. j \in DeliveryJob /\ j.pc = "queued"
  BY DEF DeliveryInv, DeliveryTyped, SendFails
<1>1. CASE j.made + 1 < Attempts
  <2> DEFINE k == [j EXCEPT !.made = @ + 1]
  <2>1. k \in DeliveryJob /\ k.code = j.code /\ k.pc # "record"
    BY <1>0 DEF DeliveryJob
  <2>2. Goes(j, k)
    BY <1>1 DEF SendFails, Retried
  <2> HIDE DEF k
  <2> QED
    BY <2>1, <2>2, JobFails DEF SendFails
<1>2. CASE ~(j.made + 1 < Attempts)
  <2> DEFINE k == [j EXCEPT !.pc = "fail"]
  <2>1. k \in DeliveryJob /\ k.code = j.code /\ k.pc # "record"
    BY <1>0 DEF DeliveryJob
  <2>2. Goes(j, k)
    BY <1>2 DEF SendFails, Retried
  <2> HIDE DEF k
  <2> QED
    BY <2>1, <2>2, JobFails DEF SendFails
<1> QED
  BY <1>1, <1>2

LEMMA SendIsRejectedKeeps ==
    ASSUME DeliveryInv, NEW j \in jobs, SendIsRejected(j)
    PROVE  DeliveryInv'
<1> DEFINE k == [j EXCEPT !.pc = "fail"]
<1>1. k \in DeliveryJob /\ k.code = j.code /\ k.pc # "record"
  BY DEF DeliveryInv, DeliveryTyped, DeliveryJob
<1>2. Goes(j, k)
  BY DEF SendIsRejected
<1> HIDE DEF k
<1> QED
  BY <1>1, <1>2, JobFails DEF SendIsRejected

LEMMA StallsKeeps ==
    ASSUME DeliveryInv, NEW j \in jobs, Stalls(j)
    PROVE  DeliveryInv'
<1> DEFINE k == [j EXCEPT !.pc = "queued", !.message = NoCode]
<1>1. k \in DeliveryJob /\ k.code = j.code /\ k.pc = "queued" /\ j.code \in Code
  BY DEF DeliveryInv, DeliveryTyped, DeliveryJob
<1>2. jobs' = (jobs \ {j}) \union {k}
  BY DEF Stalls, Goes
<1> HIDE DEF k
<1> QED
  BY <1>1, <1>2, JobMoves DEF Stalls, DeliveryInv, DeliveryTyped

\* What a status does to the challenge.
LEMMA Updating ==
    ASSUME DeliveryInv, NEW c, NEW s \in Reported, current' = Updated(c, s)
    PROVE  /\ current = NoCode => current' = NoCode
           /\ current' # NoCode =>
                 /\ current # NoCode /\ current'.code = current.code
                 /\ current' \in [code : Code, status : ChallengeStatuses]
                 /\ current'.status = IF current.code = c THEN Latest(current.status, s) ELSE current.status
<1>1. CASE current # NoCode /\ current.code = c
  <2>1. PICK x \in [code : Code, status : ChallengeStatuses] : x = current
    BY <1>1 DEF DeliveryInv, DeliveryTyped
  <2>2. PICK l \in ChallengeStatuses : l = Latest(x.status, s)
    BY DEF Latest, ChallengeStatuses
  <2>3. current' = [x EXCEPT !.status = l]
    BY <1>1, <2>1, <2>2 DEF Updated
  <2> QED
    BY <1>1, <2>1, <2>2, <2>3
<1>2. CASE ~(current # NoCode /\ current.code = c)
  BY <1>2 DEF Updated, DeliveryInv, DeliveryTyped
<1> QED
  BY <1>1, <1>2

LEMMA RecordFailedKeeps ==
    ASSUME DeliveryInv, NEW j \in jobs, NEW works \in BOOLEAN, RecordFailed(j, works)
    PROVE  DeliveryInv'
<1>0. /\ UNCHANGED <<codeOfMsg, pending, hooks, carried, emitted, seen, stalls>>
      /\ jobs' = jobs \ {j}
      /\ current' = current \/ current' = Updated(j.code, "FAILED")
  BY DEF RecordFailed, Ends
<1>1. CASE current' = current
  BY <1>0, <1>1, JobEnds
<1>2. CASE current' = Updated(j.code, "FAILED")
  <2>1. current' # NoCode =>
                 /\ current # NoCode /\ current'.code = current.code
                 /\ current' \in [code : Code, status : ChallengeStatuses]
                 /\ current.code # j.code => current'.status = current.status
    BY <1>2, Updating DEF Reported
  <2>2. DeliveryTyped'
    BY <1>0, <2>1 DEF DeliveryInv, DeliveryTyped
  <2>3. MessagesFit' /\ HooksFit' /\ PendingKept' /\ OneMessage'
    BY <1>0 DEF DeliveryInv, MessagesFit, HooksFit, PendingKept, OneMessage
  <2>4. JobsFit'
    BY <1>0, <2>1 DEF DeliveryInv, JobsFit
  <2>5. StatusKept'
    BY <1>0, <2>1 DEF DeliveryInv, JobsFit, StatusKept
  <2> QED
    BY <2>2, <2>3, <2>4, <2>5 DEF DeliveryInv
<1> QED
  BY <1>0, <1>1, <1>2

LEMMA RecordAcceptedKeeps ==
    ASSUME DeliveryInv, NEW j \in jobs, RecordAccepted(j)
    PROVE  DeliveryInv'
<1>1. PICK m \in Message : m = j.message /\ carried[m] = j.code /\ j.code \in Code
  BY DEF RecordAccepted, Recorded, DeliveryInv, JobsFit, DeliveryTyped, DeliveryJob
<1>2. PICK s \in {"ACCEPTED"} \union Reported : s = IF pending[m] = "NONE" THEN "ACCEPTED" ELSE pending[m]
  BY DEF DeliveryInv, DeliveryTyped
<1>3. PICK c \in Code : c = j.code
  BY <1>1
<1>4. /\ codeOfMsg' = [codeOfMsg EXCEPT ![m] = c]
      /\ pending' = [pending EXCEPT ![m] = "NONE"]
      /\ current' = IF current # NoCode /\ current.code = c THEN [current EXCEPT !.status = s] ELSE current
      /\ jobs' = jobs \ {j}
      /\ UNCHANGED <<hooks, carried, emitted, seen, stalls>>
  BY <1>1, <1>2, <1>3 DEF RecordAccepted, Recorded, Ends
<1>5. /\ current = NoCode => current' = NoCode
      /\ current' # NoCode =>
                 /\ current # NoCode /\ current'.code = current.code
                 /\ current' \in [code : Code, status : ChallengeStatuses]
                 /\ current'.status = IF current.code = c THEN s ELSE current.status
  BY <1>4 DEF DeliveryInv, DeliveryTyped, ChallengeStatuses
<1>6. /\ \A n \in Message : codeOfMsg'[n] = IF n = m THEN c ELSE codeOfMsg[n]
      /\ \A n \in Message : pending'[n] = IF n = m THEN "NONE" ELSE pending[n]
  BY <1>4 DEF DeliveryInv, DeliveryTyped
<1>7. DeliveryTyped'
  BY <1>4, <1>5 DEF DeliveryInv, DeliveryTyped
<1>8. MessagesFit'
  BY <1>1, <1>3, <1>4, <1>6 DEF DeliveryInv, MessagesFit
<1>9. HooksFit'
  BY <1>1, <1>3, <1>4, <1>6, DeliveryAssumption DEF DeliveryInv, HooksFit, MessagesFit, DeliveryTyped, Hook
<1>10. JobsFit'
  BY <1>1, <1>3, <1>4, <1>5, <1>6 DEF DeliveryInv, JobsFit
<1>11. OneMessage'
  BY <1>1, <1>3, <1>4, <1>6 DEF DeliveryInv, OneMessage, JobsFit
<1>12. PendingKept'
  BY <1>3, <1>4, <1>6, DeliveryAssumption DEF DeliveryInv, PendingKept
<1>13. StatusKept'
  <2>1. ASSUME NEW n \in Message, current' # NoCode, codeOfMsg'[n] = current'.code, current'.code \notin stalls
        PROVE  /\ current'.status \in {"ACCEPTED"} \union seen[n]
               /\ \A x \in seen[n] : Within(x, current'.status) \/ Within(x, pending'[n])
    <3>1. CASE n = m
      <4>1. current.code = c /\ current'.status = s
        BY <1>5, <1>6, <2>1, <3>1
      <4>2. codeOfMsg[m] = NoCode
        BY <1>1, <1>3, <2>1, <3>1, <1>5, <1>6 DEF DeliveryInv, MessagesFit, JobsFit
      <4>3. \A x \in seen[m] : Within(x, pending[m])
        BY <4>2 DEF DeliveryInv, PendingKept
      <4>4. pending[m] \in {"NONE"} \union seen[m]
        BY DEF DeliveryInv, MessagesFit
      <4>5. pending[m] = "NONE" => \A x \in seen[m] : Within(x, "ACCEPTED")
        <5>1. \A x \in seen[m] : x # "FAILED" => Rank[x] \in Int /\ Rank[x] > -1
          BY Ranks DEF DeliveryInv, DeliveryTyped, Reported
        <5> QED
          BY <4>3, <5>1, Ranks DEF Within
      <4> QED
        BY <1>2, <3>1, <4>1, <4>3, <4>4, <4>5
    <3>2. CASE n # m
      <4>1. current.code = codeOfMsg[n] /\ current.code \notin stalls
        BY <1>5, <1>6, <2>1, <3>2
      <4>2. current.code # c
        BY <1>3, <4>1 DEF DeliveryInv, JobsFit
      <4> QED
        BY <1>5, <1>6, <2>1, <3>2, <4>1, <4>2 DEF DeliveryInv, StatusKept
    <3> QED
      BY <3>1, <3>2
  <2> QED
    BY <1>4, <2>1 DEF StatusKept
<1> QED
  BY <1>7, <1>8, <1>9, <1>10, <1>11, <1>12, <1>13 DEF DeliveryInv

LEMMA EmitKeeps ==
    ASSUME DeliveryInv, NEW m \in Message, NEW status \in Reported, Emit(m, status)
    PROVE  DeliveryInv'
<1>0. /\ \A s \in emitted[m] : Advances(s, status)
      /\ emitted' = [emitted EXCEPT ![m] = @ \union {status}]
      /\ UNCHANGED <<current, codeOfMsg, pending, jobs, hooks, carried, seen, stalls>>
  BY DEF Emit
<1>1. /\ \A n \in Message : emitted[n] \subseteq emitted'[n]
      /\ \A n \in Message : emitted'[n] = IF n = m THEN emitted[n] \union {status} ELSE emitted[n]
  BY <1>0 DEF DeliveryInv, DeliveryTyped
<1>2. DeliveryTyped'
  BY <1>0 DEF DeliveryInv, DeliveryTyped
<1>3. MessagesFit'
  BY <1>0, <1>1 DEF DeliveryInv, MessagesFit, Advances
<1>4. HooksFit'
  BY <1>0, <1>1 DEF DeliveryInv, HooksFit, DeliveryTyped, Hook
<1> QED
  BY <1>0, <1>2, <1>3, <1>4 DEF DeliveryInv, JobsFit, OneMessage, PendingKept, StatusKept

LEMMA ReceiveKeeps ==
    ASSUME DeliveryInv, NEW m \in Message, NEW status \in Reported, Receive(m, status)
    PROVE  DeliveryInv'
<1>1. PICK c \in Code \union {NoCode} : c = codeOfMsg[m]
  BY DEF DeliveryInv, DeliveryTyped
<1> DEFINE h == [message |-> m, status |-> status, code |-> c]
<1>2. h \in Hook /\ h.message = m /\ h.status = status /\ h.code = c
  BY DEF Hook
<1>3. /\ status \in emitted[m] /\ hooks' = hooks \union {h}
      /\ UNCHANGED <<current, codeOfMsg, pending, jobs, carried, emitted, seen, stalls>>
  BY <1>1 DEF Receive
<1> HIDE DEF h
<1>4. DeliveryTyped'
  BY <1>2, <1>3 DEF DeliveryInv, DeliveryTyped
<1>5. HooksFit'
  BY <1>1, <1>2, <1>3 DEF DeliveryInv, HooksFit
<1> QED
  BY <1>3, <1>4, <1>5 DEF DeliveryInv, MessagesFit, JobsFit, OneMessage, PendingKept, StatusKept

LEMMA ApplyKeeps ==
    ASSUME DeliveryInv, NEW h \in hooks, Apply(h)
    PROVE  DeliveryInv'
<1>1. PICK m \in Message, s \in Reported : m = h.message /\ s = h.status /\ s \in emitted[m]
  BY DEF DeliveryInv, DeliveryTyped, Hook, HooksFit
<1>2. /\ hooks' = hooks \ {h} /\ seen' = [seen EXCEPT ![m] = @ \union {s}]
      /\ UNCHANGED <<codeOfMsg, jobs, carried, emitted, stalls>>
  BY <1>1 DEF Apply
<1>3. /\ \A n \in Message : seen'[n] = IF n = m THEN seen[n] \union {s} ELSE seen[n]
      /\ seen' \in [Message -> SUBSET Reported]
  BY <1>2 DEF DeliveryInv, DeliveryTyped
<1>4. s = "FAILED" => "DELIVERED" \notin seen[m] /\ "READ" \notin seen[m]
  BY <1>1 DEF DeliveryInv, MessagesFit
<1>5. HooksFit' /\ OneMessage'
  BY <1>2 DEF DeliveryInv, HooksFit, OneMessage
<1>6. CASE h.code = NoCode
  <2>1. PICK p \in {"NONE"} \union Reported : p = pending[m] /\ p \in {"NONE"} \union seen[m]
    BY DEF DeliveryInv, DeliveryTyped, MessagesFit
  <2>2. PICK l : l = Latest(p, s)
    OBVIOUS
  <2>3. /\ l \in {p, s} /\ Within(s, l)
        /\ \A x \in Reported : Within(x, p) => Within(x, l)
    BY <1>4, <2>1, <2>2, LatestKeeps DEF ChallengeStatuses
  <2>4. pending' = [pending EXCEPT ![m] = l] /\ UNCHANGED current
    BY <1>1, <1>6, <2>1, <2>2 DEF Apply
  <2>5. \A n \in Message : pending'[n] = IF n = m THEN l ELSE pending[n]
    BY <2>4 DEF DeliveryInv, DeliveryTyped
  <2>6. DeliveryTyped'
    BY <1>2, <1>3, <2>3, <2>4 DEF DeliveryInv, DeliveryTyped
  <2>7. MessagesFit'
    BY <1>1, <1>2, <1>3, <2>1, <2>3, <2>5 DEF DeliveryInv, MessagesFit
  <2>8. JobsFit'
    BY <1>2, <2>4 DEF DeliveryInv, JobsFit
  <2>9. \A x \in seen[m] : x \in Reported
    BY DEF DeliveryInv, DeliveryTyped
  <2>10. PendingKept'
    BY <1>2, <1>3, <2>1, <2>3, <2>5, <2>9 DEF DeliveryInv, PendingKept
  <2>11. StatusKept'
    BY <1>2, <1>3, <2>1, <2>3, <2>4, <2>5, <2>9 DEF DeliveryInv, StatusKept
  <2> QED
    BY <1>5, <2>6, <2>7, <2>8, <2>10, <2>11 DEF DeliveryInv
<1>7. CASE h.code # NoCode
  <2>1. PICK c \in Code : c = h.code /\ codeOfMsg[m] = c
    BY <1>1, <1>7 DEF DeliveryInv, DeliveryTyped, Hook, HooksFit
  <2>2. current' = Updated(c, s) /\ UNCHANGED pending
    BY <1>1, <1>7, <2>1 DEF Apply
  <2>3. current' # NoCode =>
                 /\ current # NoCode /\ current'.code = current.code
                 /\ current' \in [code : Code, status : ChallengeStatuses]
                 /\ current'.status = IF current.code = c THEN Latest(current.status, s) ELSE current.status
    BY <2>2, Updating
  <2>4. DeliveryTyped'
    BY <1>2, <1>3, <2>2, <2>3 DEF DeliveryInv, DeliveryTyped
  <2>5. MessagesFit'
    BY <1>1, <1>2, <1>3, <2>2 DEF DeliveryInv, MessagesFit
  <2>6. JobsFit'
    BY <1>2, <2>1, <2>2, <2>3 DEF DeliveryInv, JobsFit
  <2>7. PendingKept'
    BY <1>2, <1>3, <2>1, <2>2, DeliveryAssumption DEF DeliveryInv, PendingKept
  <2>8. StatusKept'
    <3>1. ASSUME NEW n \in Message, current' # NoCode, codeOfMsg[n] = current'.code, current'.code \notin stalls
          PROVE  /\ current'.status \in {"ACCEPTED"} \union seen'[n]
                 /\ \A x \in seen'[n] : Within(x, current'.status) \/ Within(x, pending[n])
      <4>1. /\ current # NoCode /\ current.code = codeOfMsg[n] /\ current.code \notin stalls
            /\ current.status \in {"ACCEPTED"} \union seen[n]
            /\ \A x \in seen[n] : x \in Reported /\ (Within(x, current.status) \/ Within(x, pending[n]))
        BY <2>3, <3>1 DEF DeliveryInv, DeliveryTyped, StatusKept
      <4>2. CASE current.code = c
        <5>1. n = m
          BY <2>1, <4>1, <4>2, DeliveryAssumption DEF DeliveryInv, OneMessage
        <5>2. PICK p \in ChallengeStatuses : p = current.status /\ current'.status = Latest(p, s)
          BY <2>3, <3>1, <4>1, <4>2 DEF ChallengeStatuses
        <5>3. s = "FAILED" => p \notin {"DELIVERED", "READ"}
          BY <1>4, <4>1, <5>1, <5>2
        <5>4. /\ Latest(p, s) \in {p, s} /\ Within(s, Latest(p, s))
              /\ \A x \in Reported : Within(x, p) => Within(x, Latest(p, s))
          BY <5>3, LatestKeeps
        <5> QED
          BY <1>3, <4>1, <5>1, <5>2, <5>4
      <4>3. CASE current.code # c
        <5>1. n # m
          BY <2>1, <4>1, <4>3
        <5> QED
          BY <1>3, <2>3, <3>1, <4>1, <4>3, <5>1
      <4> QED
        BY <4>2, <4>3
    <3> QED
      BY <1>2, <2>2, <3>1 DEF StatusKept
  <2> QED
    BY <1>5, <2>4, <2>5, <2>6, <2>7, <2>8 DEF DeliveryInv
<1> QED
  BY <1>6, <1>7

LEMMA HookFailsKeeps ==
    ASSUME DeliveryInv, NEW h \in hooks, HookFails(h)
    PROVE  DeliveryInv'
BY DEF HookFails, DeliveryInv, DeliveryTyped, MessagesFit, HooksFit, JobsFit, OneMessage, PendingKept, StatusKept

LEMMA DeliveryStarts == DeliveryInit => DeliveryInv
BY DEF DeliveryInit, DeliveryInv, DeliveryTyped, MessagesFit, HooksFit, JobsFit, OneMessage, PendingKept, StatusKept

LEMMA DeliveryKeeps == DeliveryInv /\ [DeliveryNext]_deliveryVars => DeliveryInv'
<1> SUFFICES ASSUME DeliveryInv, [DeliveryNext]_deliveryVars PROVE DeliveryInv'
  OBVIOUS
<1>1. CASE UNCHANGED deliveryVars
  BY <1>1, JobEnds DEF deliveryVars
<1>2. ASSUME NEW j \in jobs, NotQueued(j) \/ RecordAcceptedFails(j) PROVE DeliveryInv'
  BY <1>2, JobEnds DEF NotQueued, RecordAcceptedFails, Ends
<1>3. ASSUME ChallengeGone PROVE DeliveryInv'
  BY <1>3, JobEnds DEF ChallengeGone
<1>4. CASE DeliveryNext
  BY <1>2, <1>3, <1>4, AskKeeps, QueuedKeeps, SendFailsKeeps, SendIsRejectedKeeps, RecordAcceptedKeeps, StallsKeeps,
     RecordFailedKeeps, AcceptedKeeps, EmitKeeps, ReceiveKeeps, ApplyKeeps, HookFailsKeeps
  DEF DeliveryNext
<1> QED
  BY <1>1, <1>4

\* What the code in force, its job, the pending reports and the webhooks under way
\* say about one another.
THEOREM DeliveryHolds == DeliverySpec => []DeliveryInv
BY DeliveryStarts, DeliveryKeeps, PTL DEF DeliverySpec

\* Once the job of a code is over and the webhooks of its message were
\* answered, the challenge, or what is left under the pending key, tells the
\* last the provider said: no order of the acceptance, the statuses and their
\* repetitions loses it.
THEOREM ReportsAreKept == DeliverySpec => []DeliveryIsReported
<1>1. ASSUME DeliveryInv, NEW m \in Message, current # NoCode, codeOfMsg[m] = current.code,
             current.code \notin stalls, emitted[m] = seen[m]
      PROVE  Latest(current.status, pending[m]) = Last(emitted[m])
  <2>1. PICK S \in SUBSET Reported : S = seen[m]
    BY <1>1 DEF DeliveryInv, DeliveryTyped
  <2>2. PICK p \in {"ACCEPTED"} \union S, q \in {"NONE"} \union S : p = current.status /\ q = pending[m]
    BY <1>1, <2>1 DEF DeliveryInv, MessagesFit, StatusKept
  <2>3. /\ "FAILED" \in S => "DELIVERED" \notin S /\ "READ" \notin S
        /\ \A s \in S : Within(s, p) \/ Within(s, q)
    BY <1>1, <2>1, <2>2 DEF DeliveryInv, MessagesFit, StatusKept
  <2> QED
    BY <1>1, <2>1, <2>2, <2>3, LastFound
<1>2. DeliveryInv => DeliveryIsReported
  BY <1>1 DEF DeliveryIsReported
<1> QED
  BY <1>2, DeliveryHolds, PTL

\* What the challenge says of the delivery only advances, whoever writes it:
\* the worker that records the acceptance late, its failure, or a webhook.
THEOREM DeliveryAdvances == DeliverySpec => DeliveryNeverGoesBack
<1>1. ASSUME DeliveryInv, [DeliveryNext]_deliveryVars, current # NoCode, current' # NoCode,
             current'.code = current.code, current.code \notin stalls
      PROVE  \/ current'.status = current.status
             \/ Advances(current.status, current'.status)
  <2>1. ASSUME NEW c, NEW s \in Reported, current' = Updated(c, s)
        PROVE  \/ current'.status = current.status
               \/ Advances(current.status, current'.status)
    <3>1. current'.status = IF current.code = c THEN Latest(current.status, s) ELSE current.status
      BY <1>1, <2>1, Updating
    <3> QED
      BY <3>1 DEF Latest
  <2>2. ASSUME NEW j \in jobs, RecordAccepted(j), current.code = j.code
        PROVE  Advances(current.status, current'.status)
    <3>1. PICK m \in Message : m = j.message /\ current.status = "QUEUED"
      BY <1>1, <2>2 DEF RecordAccepted, Recorded, DeliveryInv, JobsFit
    <3>2. PICK s \in {"ACCEPTED"} \union Reported : s = IF pending[m] = "NONE" THEN "ACCEPTED" ELSE pending[m]
      BY <1>1 DEF DeliveryInv, DeliveryTyped
    <3>3. current' = [current EXCEPT !.status = s]
      BY <1>1, <2>2, <3>1, <3>2 DEF RecordAccepted, Recorded
    <3>4. current'.status = s
      BY <1>1, <3>3 DEF DeliveryInv, DeliveryTyped
    <3>5. s # "FAILED" => Rank[s] > Rank["QUEUED"]
      BY Ranks DEF Reported
    <3> QED
      BY <3>1, <3>4, <3>5 DEF Advances
  <2>3. ASSUME NEW j \in jobs, RecordAccepted(j), current.code # j.code
        PROVE  current' = current
    BY <2>3 DEF RecordAccepted, Recorded
  <2>4. ASSUME NEW j \in jobs, NEW works \in BOOLEAN, RecordFailed(j, works)
        PROVE  current' = current \/ current' = Updated(j.code, "FAILED")
    BY <2>4 DEF RecordFailed
  <2>5. ASSUME NEW h \in hooks, Apply(h)
        PROVE  current' = current \/ (h.status \in Reported /\ current' = Updated(h.code, h.status))
    BY <1>1, <2>5 DEF Apply, DeliveryInv, DeliveryTyped, Hook
  <2>6. ASSUME NEW j \in jobs,
               Queued(j) \/ NotQueued(j) \/ SendFails(j) \/ SendIsRejected(j) \/ RecordAcceptedFails(j) \/ Stalls(j)
               \/ \E m \in Message : Accepted(j, m)
        PROVE  current' = current
    BY <1>1, <2>6 DEF Queued, NotQueued, SendFails, SendIsRejected, RecordAcceptedFails, Stalls, Accepted
  <2>7. ASSUME NEW c \in Code, NEW fixed \in BOOLEAN, AskForCode(c, fixed) PROVE FALSE
    BY <1>1, <2>7 DEF AskForCode
  <2>8. ASSUME (\E m \in Message, status \in Reported : Emit(m, status) \/ Receive(m, status))
               \/ \E h \in hooks : HookFails(h)
        PROVE  current' = current
    BY <2>8 DEF Emit, Receive, HookFails
  <2>9. ~ChallengeGone
    BY <1>1 DEF ChallengeGone
  <2>10. CASE UNCHANGED deliveryVars
    BY <2>10 DEF deliveryVars
  <2>11. CASE DeliveryNext
    <3>1. \/ current' = current
          \/ \E j \in jobs : RecordAccepted(j) /\ current.code = j.code
          \/ \E c, s : s \in Reported /\ current' = Updated(c, s)
      BY <2>3, <2>4, <2>5, <2>6, <2>7, <2>8, <2>9, <2>11 DEF DeliveryNext, Reported
    <3> QED
      BY <2>1, <2>2, <3>1
  <2> QED
    BY <1>1, <2>10, <2>11
<1>2. ASSUME DeliveryInv, [DeliveryNext]_deliveryVars
      PROVE  [current # NoCode /\ current' # NoCode /\ current'.code = current.code
                 /\ current.code \notin stalls =>
              \/ current'.status = current.status
              \/ Advances(current.status, current'.status)]_deliveryVars
  BY <1>1, <1>2
<1> QED
  BY <1>2, DeliveryHolds, PTL DEF DeliverySpec, DeliveryNeverGoesBack

-----------------------------------------------------------------------------
(* Webhooks *)

Outcomes == {"processed", "ignored", "failed"}
Succeeded == {"processed", "ignored"}

WebhookTypeOK ==
    /\ record \in [Event -> {"none", "processing"} \union Outcomes]
    /\ handlers \subseteq [worker : Handler, event : Event, outcome : {"none"} \union Outcomes]
    /\ answered \subseteq Event
    /\ failures \in Nat

\* What a record or a handler says was handled, was.
SuccessIsTrue ==
    /\ \A e \in Event : record[e] \in Succeeded => e \in handled
    /\ \A h \in handlers : h.outcome \in Succeeded => h.event \in handled

\* An event in process has somebody at it, or something went wrong.
SomebodyAtIt ==
    /\ \A e \in Event : record[e] = "processing" =>
          failures > 0 \/ \E h \in handlers : h.event = e
    /\ \A h \in handlers : h.outcome = "failed" => failures > 0

WebhookInv == WebhookTypeOK /\ SuccessIsTrue /\ SomebodyAtIt /\ EventNotLost

LEMMA WebhookInvInit == WebhookInit => WebhookInv
BY DEF WebhookInit, WebhookInv, WebhookTypeOK, SuccessIsTrue, SomebodyAtIt, EventNotLost, Succeeded, Outcomes

\* A handler gets on: it is replaced by itself with an outcome.
LEMMA BecomesKeeps ==
    ASSUME WebhookTypeOK, NEW h \in handlers, NEW o \in Outcomes, Becomes(h, o)
    PROVE  /\ handlers' \subseteq [worker : Handler, event : Event, outcome : {"none"} \union Outcomes]
           /\ \A g \in handlers : \E k \in handlers' : k.event = g.event
           /\ \A k \in handlers' : k \in handlers \/ (k.event = h.event /\ k.outcome = o)
<1> DEFINE d == [h EXCEPT !.outcome = o]
<1>1. d \in [worker : Handler, event : Event, outcome : {"none"} \union Outcomes]
      /\ d.event = h.event /\ d.outcome = o
  BY DEF WebhookTypeOK
<1>2. handlers' = (handlers \ {h}) \union {d}
  BY DEF Becomes
<1> HIDE DEF d
<1> QED
  BY <1>1, <1>2 DEF WebhookTypeOK

LEMMA StartKeeps ==
    ASSUME WebhookInv, NEW e \in Event, NEW w \in Handler, StartHandling(w, e)
    PROVE  WebhookInv'
<1> USE DEF WebhookInv
<1> DEFINE d == [worker |-> w, event |-> e, outcome |-> "none"]
<1>1. d \in [worker : Handler, event : Event, outcome : {"none"} \union Outcomes]
      /\ d.event = e /\ d.outcome = "none"
  OBVIOUS
<1>2. /\ handlers' = handlers \union {d}
      /\ record' = [record EXCEPT ![e] = "processing"]
      /\ UNCHANGED <<answered, failures, handled, early>>
  BY DEF StartHandling, Saves
<1> HIDE DEF d
<1>3. WebhookTypeOK'
  BY <1>1, <1>2 DEF WebhookTypeOK
<1>4. SuccessIsTrue' /\ SomebodyAtIt' /\ EventNotLost'
  BY <1>1, <1>2 DEF WebhookTypeOK, SuccessIsTrue, SomebodyAtIt, EventNotLost, Succeeded
<1> QED
  BY <1>3, <1>4

LEMMA AnswerKeeps ==
    ASSUME WebhookInv, NEW e \in Event, AnswerDuplicate(e)
    PROVE  WebhookInv'
<1> USE DEF WebhookInv
<1>1. /\ answered' = answered \union {e}
      /\ UNCHANGED <<record, handlers, failures, handled>>
      /\ early \subseteq early'
  BY DEF AnswerDuplicate
<1>2. record[e] = "processing" => e \in early'
  BY DEF AnswerDuplicate
<1>3. record[e] \in Succeeded \/ record[e] = "processing"
  BY DEF AnswerDuplicate, Claimable, WebhookTypeOK, Succeeded, Outcomes
<1>4. WebhookTypeOK' /\ SuccessIsTrue' /\ SomebodyAtIt'
  BY <1>1 DEF WebhookTypeOK, SuccessIsTrue, SomebodyAtIt
<1>5. EventNotLost'
  BY <1>1, <1>2, <1>3 DEF EventNotLost, SuccessIsTrue, SomebodyAtIt
<1> QED
  BY <1>4, <1>5

LEMMA OutcomeKeeps ==
    ASSUME WebhookInv, NEW h \in handlers,
           \/ \E o \in Succeeded : ProcessEvent(h, o)
           \/ ProcessFails(h) \/ SaveFails(h)
    PROVE  WebhookInv'
<1> USE DEF WebhookInv
<1>1. PICK o \in Outcomes :
        /\ Becomes(h, o) /\ UNCHANGED <<record, answered, early>>
        /\ handled \subseteq handled' /\ (o \in Succeeded => h.event \in handled')
        /\ failures' \in Nat /\ failures' >= failures /\ (o = "failed" => failures' > 0)
  BY DEF ProcessEvent, ProcessFails, SaveFails, Outcomes, Succeeded, WebhookTypeOK
<1>2. /\ handlers' \subseteq [worker : Handler, event : Event, outcome : {"none"} \union Outcomes]
      /\ \A g \in handlers : \E k \in handlers' : k.event = g.event
      /\ \A k \in handlers' : k \in handlers \/ (k.event = h.event /\ k.outcome = o)
  BY <1>1, BecomesKeeps
<1>3. WebhookTypeOK'
  BY <1>1, <1>2 DEF WebhookTypeOK
<1>4. SuccessIsTrue'
  BY <1>1, <1>2 DEF SuccessIsTrue
<1>5. failures > 0 => failures' > 0
  BY <1>1 DEF WebhookTypeOK
<1>6. SomebodyAtIt'
  BY <1>1, <1>2, <1>5 DEF SomebodyAtIt
<1>7. EventNotLost'
  BY <1>1, <1>2, <1>5 DEF EventNotLost
<1> QED
  BY <1>3, <1>4, <1>6, <1>7

LEMMA SaveKeeps ==
    ASSUME WebhookInv, NEW h \in handlers, SaveOutcome(h)
    PROVE  WebhookInv'
<1> USE DEF WebhookInv
<1>1. h.event \in Event /\ h.outcome \in Outcomes
  BY DEF SaveOutcome, WebhookTypeOK
<1>2. /\ record' = [record EXCEPT ![h.event] = h.outcome]
      /\ handlers' = handlers \ {h}
      /\ answered' = IF h.outcome = "failed" THEN answered ELSE answered \union {h.event}
      /\ UNCHANGED <<failures, handled, early>>
  BY DEF SaveOutcome, Saves, Done
<1>3. h.outcome \in Succeeded \/ (h.outcome = "failed" /\ failures > 0)
  BY <1>1 DEF Outcomes, Succeeded, SomebodyAtIt
<1>4. WebhookTypeOK'
  BY <1>1, <1>2 DEF WebhookTypeOK
<1>5. SuccessIsTrue'
  BY <1>1, <1>2, <1>3 DEF SuccessIsTrue, WebhookTypeOK
<1>6. SomebodyAtIt'
  BY <1>1, <1>2, <1>3 DEF SomebodyAtIt, WebhookTypeOK, Outcomes
<1>7. EventNotLost'
  <2>1. CASE h.outcome \in Succeeded
    BY <1>2, <2>1 DEF EventNotLost, SuccessIsTrue
  <2>2. CASE h.outcome = "failed" /\ failures > 0
    BY <1>2, <2>2 DEF EventNotLost
  <2> QED
    BY <1>3, <2>1, <2>2
<1> QED
  BY <1>4, <1>5, <1>6, <1>7

LEMMA StopsKeeps ==
    ASSUME WebhookInv, NEW h \in handlers, HandlerStops(h)
    PROVE  WebhookInv'
<1> USE DEF WebhookInv
<1>1. /\ handlers' = handlers \ {h} /\ failures' \in Nat /\ failures' > 0
      /\ UNCHANGED <<record, answered, handled, early>>
  BY DEF HandlerStops, Done, WebhookTypeOK
<1> QED
  BY <1>1 DEF WebhookTypeOK, SuccessIsTrue, SomebodyAtIt, EventNotLost

LEMMA WebhookInvNext ==
    ASSUME WebhookInv, [WebhookNext]_webhookVars
    PROVE  WebhookInv'
<1>1. CASE UNCHANGED webhookVars \/ \E e \in Event : LeaseEnds(e)
  BY <1>1 DEF WebhookInv, WebhookTypeOK, SuccessIsTrue, SomebodyAtIt, EventNotLost, LeaseEnds, webhookVars
<1> QED
  BY <1>1, StartKeeps, AnswerKeeps, OutcomeKeeps, SaveKeeps, StopsKeeps DEF WebhookNext, Succeeded

\* A payment or refund event is lost only in the one window the code leaves open.
THEOREM NoEventIsLost == WebhookSpec => []EventNotLost
<1>1. WebhookInit => WebhookInv
  BY WebhookInvInit
<1>2. WebhookInv /\ [WebhookNext]_webhookVars => WebhookInv'
  BY WebhookInvNext
<1>3. WebhookInv => EventNotLost
  BY DEF WebhookInv
<1> QED
  BY <1>1, <1>2, <1>3, PTL DEF WebhookSpec
=============================================================================

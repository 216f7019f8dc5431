------------------------------ MODULE Identity ------------------------------
(***************************************************************************)
(* The identity context: accounts, the confirmation of their e-mail,       *)
(* sessions and the rotation of refresh tokens.                            *)
(*                                                                         *)
(* A request is one goroutine in one handler.  Each query and each commit  *)
(* is a step at the level read committed; nothing is locked, and a commit  *)
(* succeeds only if the version of the row is the one read (Save...).      *)
(* What a request has read and keeps is in user, session and challenge.    *)
(*                                                                         *)
(* An account has one challenge, issued when it registers.  Time is        *)
(* abstract: a session lapses and a challenge runs out at any moment.      *)
(***************************************************************************)
EXTENDS Naturals, FiniteSets

CONSTANTS
    Users, Email,      \* accounts, and the address each registers with
    SessionIds,        \* ids of the sessions that can be started
    MaxToken,          \* bound on the refresh tokens generated
    MaxGuesses,        \* ChallengePolicy.MaxAttempts
    Goroutines,        \* what runs a handler
    Offered,           \* request -> the handlers it may run
    MaxChanges,        \* bound on the changes of one account or session
    Null               \* nobody and nothing

Tokens == 1 .. MaxToken
Roles == {"buyer", "content_moderator", "support_agent", "platform_admin"}

VARIABLES
    account,    \* identity.users
    code,       \* identity.challenges, by account
    live,       \* identity.sessions
    tokenOf,    \* identity.refresh_tokens: the session a token was issued for
    lapsed,     \* sessions whose expires_at has passed
    expired,    \* accounts whose challenge has passed its expires_at
    generated,  \* refresh tokens generated so far
    blocks,     \* identity.user_blocked events that wait for their consumer
    exchanged,  \* pairs of a token presented and the one answered for it
    guesses,    \* secrets compared with the one of an account and answered
    handler, place,              \* request -> the handler it runs, and the step of it
    who, sid, token, next,       \* request -> what it was called with, what it generated
    user, session, challenge,    \* request -> the rows it has read
    late,       \* request -> the row had passed its expires_at when it began
    todo        \* request -> the sessions that are left to be revoked

rows == <<account, code, live, tokenOf>>
clock == <<lapsed, expired>>
history == <<exchanged, guesses>>
requestVars == <<handler, place, who, sid, token, next, user, session, challenge, late, todo>>
identityVars == <<rows, clock, generated, blocks, history, requestVars>>

-----------------------------------------------------------------------------
(* Rows.                                                                   *)

AccountRow == [status : {"none", "pending_verification", "active", "blocked"},
               verified : BOOLEAN, roles : SUBSET Roles, version : 0 .. MaxChanges + 1]
SessionRow == [status : {"none", "active", "revoked"}, user : Users \cup {Null},
               digest : 0 .. MaxToken, version : 0 .. MaxChanges + MaxToken + 1]
ChallengeRow == [status : {"none", "pending", "verified", "exhausted"},
                 attempts : 0 .. MaxGuesses, version : 0 .. MaxGuesses + 1]

NoAccount == [status |-> "none", verified |-> FALSE, roles |-> {}, version |-> 0]
NoSession == [status |-> "none", user |-> Null, digest |-> 0, version |-> 0]
NoChallenge == [status |-> "none", attempts |-> 0, version |-> 0]

Operations == {"register", "confirm", "sign_in", "refresh", "revoke", "block",
               "unblock", "grant", "withdraw", "revoke_all"}

IdentityTypeOK ==
    /\ account \in [Users -> AccountRow]
    /\ code \in [Users -> ChallengeRow]
    /\ live \in [SessionIds -> SessionRow]
    /\ tokenOf \in [Tokens -> SessionIds \cup {Null}]
    /\ lapsed \subseteq SessionIds /\ expired \subseteq Users
    /\ generated \in 0 .. MaxToken
    /\ blocks \subseteq Users
    /\ exchanged \subseteq Tokens \X Tokens
    /\ guesses \in [Users -> Nat]
    /\ handler \in [Goroutines -> Operations \cup {"none"}]
    /\ who \in [Goroutines -> Users \cup {Null}]
    /\ sid \in [Goroutines -> SessionIds \cup {Null}]
    /\ token \in [Goroutines -> 0 .. MaxToken]
    /\ next \in [Goroutines -> 0 .. MaxToken]
    /\ user \in [Goroutines -> AccountRow]
    /\ session \in [Goroutines -> SessionRow]
    /\ challenge \in [Goroutines -> ChallengeRow]
    /\ late \in [Goroutines -> BOOLEAN]
    /\ todo \in [Goroutines -> SUBSET SessionIds]

IdentityInit ==
    /\ account = [u \in Users |-> NoAccount]
    /\ code = [u \in Users |-> NoChallenge]
    /\ live = [s \in SessionIds |-> NoSession]
    /\ tokenOf = [t \in Tokens |-> Null]
    /\ lapsed = {} /\ expired = {}
    /\ generated = 0
    /\ blocks = {}
    /\ exchanged = {}
    /\ guesses = [u \in Users |-> 0]
    /\ handler = [r \in Goroutines |-> "none"]
    /\ place = [r \in Goroutines |-> "idle"]
    /\ who = [r \in Goroutines |-> Null]
    /\ sid = [r \in Goroutines |-> Null]
    /\ token = [r \in Goroutines |-> 0]
    /\ next = [r \in Goroutines |-> 0]
    /\ user = [r \in Goroutines |-> NoAccount]
    /\ session = [r \in Goroutines |-> NoSession]
    /\ challenge = [r \in Goroutines |-> NoChallenge]
    /\ late = [r \in Goroutines |-> FALSE]
    /\ todo = [r \in Goroutines |-> {}]

-----------------------------------------------------------------------------
(* Permissions of a role.                                                  *)

PermissionsOf ==
    [r \in Roles |->
        CASE r = "platform_admin" -> {"users.block", "users.manage_roles", "sessions.revoke_any"}
          [] r = "support_agent" -> {"sessions.revoke_any"}
          [] OTHER -> {}]
Can(roles, permission) == \E r \in roles : permission \in PermissionsOf[r]

(* The aggregates: what a method makes of a row.                           *)

Registered == [status |-> "pending_verification", verified |-> FALSE,
               roles |-> {"buyer"}, version |-> 0]
ConfirmEmail(a) ==
    [a EXCEPT !.verified = TRUE,
              !.status = IF @ = "pending_verification" THEN "active" ELSE @]
Block(a) == [a EXCEPT !.status = "blocked"]
Unblock(a) == [a EXCEPT !.status = IF a.verified THEN "active" ELSE "pending_verification"]
GrantRole(a, role) == [a EXCEPT !.roles = @ \cup {role}]
RevokeRole(a, role) == [a EXCEPT !.roles = @ \ {role}]
CanSignIn(a) == a.status \notin {"blocked", "pending_verification"}

StartSession(u, t) == [status |-> "active", user |-> u, digest |-> t, version |-> 0]
Revoke(s) == [s EXCEPT !.status = "revoked"]

Rotate(s, presented, t, over) ==
    CASE s.status = "revoked" -> [row |-> s, error |-> "SESSION_REVOKED"]
      [] s.status # "revoked" /\ over -> [row |-> s, error |-> "SESSION_EXPIRED"]
      [] s.status # "revoked" /\ ~over /\ presented # s.digest ->
            [row |-> Revoke(s), error |-> "REFRESH_TOKEN_REUSED"]
      [] OTHER -> [row |-> [s EXCEPT !.digest = t], error |-> "none"]

Verify(c, right, over) ==
    CASE c.status = "verified" -> [row |-> c, error |-> "CHALLENGE_ALREADY_USED"]
      [] c.status = "exhausted" -> [row |-> c, error |-> "CHALLENGE_EXHAUSTED"]
      [] c.status = "pending" /\ over -> [row |-> c, error |-> "CHALLENGE_EXPIRED"]
      [] OTHER ->
            [row |-> [c EXCEPT !.attempts = @ + 1,
                               !.status = IF right THEN "verified"
                                          ELSE IF c.attempts + 1 >= MaxGuesses THEN "exhausted"
                                          ELSE @],
             error |-> IF right THEN "none" ELSE "INVALID_CONFIRMATION_TOKEN"]

-----------------------------------------------------------------------------
(* Repositories: a save of a row that was read at another version fails,   *)
(* and so does one that would verify an address twice.                     *)

Taken(u) == \E v \in Users \ {u} : Email[v] = Email[u] /\ account[v].verified

CanSaveUser(u, a) == account[u].version = a.version /\ (a.verified => ~Taken(u))
SaveUser(u, a) == account' = [account EXCEPT ![u] = [a EXCEPT !.version = @ + 1]]

(* Faulty: the update does not ask for the version.                        *)
SaveAnySession(s, row) == TRUE

CanSaveSession(s, row) == live[s].version = row.version
SaveSession(s, row) ==
    /\ live' = [live EXCEPT ![s] = [row EXCEPT !.version = @ + 1]]
    /\ tokenOf' = IF tokenOf[row.digest] = Null THEN [tokenOf EXCEPT ![row.digest] = s]
                                                ELSE tokenOf

CanSaveChallenge(u, c) == code[u].version = c.version
SaveChallenge(u, c) == code' = [code EXCEPT ![u] = [c EXCEPT !.version = @ + 1]]

-----------------------------------------------------------------------------
(* Requests.                                                               *)

Continue(r, step) == place' = [place EXCEPT ![r] = step]

EndHandler(r) ==
    /\ handler' = [handler EXCEPT ![r] = "none"]
    /\ place' = [place EXCEPT ![r] = "idle"]
    /\ who' = [who EXCEPT ![r] = Null]
    /\ sid' = [sid EXCEPT ![r] = Null]
    /\ token' = [token EXCEPT ![r] = 0]
    /\ next' = [next EXCEPT ![r] = 0]
    /\ user' = [user EXCEPT ![r] = NoAccount]
    /\ session' = [session EXCEPT ![r] = NoSession]
    /\ challenge' = [challenge EXCEPT ![r] = NoChallenge]
    /\ late' = [late EXCEPT ![r] = FALSE]
    /\ todo' = [todo EXCEPT ![r] = {}]

StartHandler(r, o) ==
    /\ place[r] = "idle" /\ o \in Offered[r]
    /\ handler' = [handler EXCEPT ![r] = o]

(* The first query of a command about an account.                          *)
FindUser(r, u, o, step) ==
    /\ StartHandler(r, o)
    /\ Continue(r, step)
    /\ who' = [who EXCEPT ![r] = u]
    /\ user' = [user EXCEPT ![r] = account[u]]
    /\ UNCHANGED <<sid, token, next, session, challenge, late, todo>>

StartRegister(r, u) ==
    /\ account[u].status = "none"
    /\ ~Taken(u)
    /\ \A q \in Goroutines : who[q] # u
    /\ FindUser(r, u, "register", "insert_user")
    /\ UNCHANGED <<rows, clock, generated, blocks, history>>

(* The account, and after it the challenge, whose secret is sent by mail.  *)
InsertUser(r) ==
    /\ place[r] = "insert_user"
    /\ SaveUser(who[r], Registered)
    /\ Continue(r, "insert_challenge")
    /\ UNCHANGED <<code, live, tokenOf, clock, generated, blocks, history, handler, who, sid,
                   token, next, user, session, challenge, late, todo>>

InsertChallenge(r) ==
    /\ place[r] = "insert_challenge"
    /\ SaveChallenge(who[r], [status |-> "pending", attempts |-> 0, version |-> 0])
    /\ EndHandler(r)
    /\ UNCHANGED <<account, live, tokenOf, clock, generated, blocks, history>>

StartConfirm(r, u) ==
    /\ code[u].status # "none" /\ code[u].version < MaxGuesses + 1
    /\ StartHandler(r, "confirm")
    /\ Continue(r, "save_challenge")
    /\ who' = [who EXCEPT ![r] = u]
    /\ challenge' = [challenge EXCEPT ![r] = code[u]]
    /\ late' = [late EXCEPT ![r] = u \in expired]
    /\ UNCHANGED <<rows, clock, generated, blocks, history, sid, token, next, user, session,
                   todo>>

(* The attempt is counted in a transaction of its own, whatever it found.  *)
SaveAttempt(r, right) ==
    /\ place[r] = "save_challenge"
    /\ LET verified == Verify(challenge[r], right, late[r])
       IN  IF CanSaveChallenge(who[r], challenge[r])
             THEN /\ SaveChallenge(who[r], verified.row)
                  /\ guesses' = IF verified.row = challenge[r] THEN guesses
                                  ELSE [guesses EXCEPT ![who[r]] = @ + 1]
                  /\ IF verified.error = "none"
                       THEN /\ Continue(r, "find_user")
                            /\ UNCHANGED <<handler, who, sid, token, next, user, session,
                                           challenge, late, todo>>
                       ELSE EndHandler(r)
             ELSE EndHandler(r) /\ UNCHANGED <<code, guesses>>
    /\ UNCHANGED <<account, live, tokenOf, clock, generated, blocks, exchanged>>

ReadConfirmed(r) ==
    /\ place[r] = "find_user"
    /\ user' = [user EXCEPT ![r] = account[who[r]]]
    /\ Continue(r, "save_user")
    /\ UNCHANGED <<rows, clock, generated, blocks, history, handler, who, sid, token, next,
                   session, challenge, late, todo>>

-----------------------------------------------------------------------------
(* Commands that change an account: confirm, block, unblock, roles.        *)

Operator(roles, permission, o) == Can(roles, permission) /\ o \in Operations

StartBlock(r, u) ==
    /\ Operator({"platform_admin"}, "users.block", "block")
    /\ account[u].status # "none" /\ account[u].version < MaxChanges
    /\ FindUser(r, u, "block", "save_user")
    /\ UNCHANGED <<rows, clock, generated, blocks, history>>

StartUnblock(r, u) ==
    /\ Operator({"platform_admin"}, "users.block", "unblock")
    /\ account[u].status # "none" /\ account[u].version < MaxChanges
    /\ FindUser(r, u, "unblock", "save_user")
    /\ UNCHANGED <<rows, clock, generated, blocks, history>>

ChangeRole(r, u, o) ==
    /\ o \in {"grant", "withdraw"}
    /\ Operator({"platform_admin"}, "users.manage_roles", o)
    /\ account[u].status # "none" /\ account[u].version < MaxChanges
    /\ FindUser(r, u, o, "save_user")
    /\ UNCHANGED <<rows, clock, generated, blocks, history>>

(* What the command makes of the account; None if it refuses.              *)
ChangedAccount(o, a) ==
    CASE o = "confirm" -> IF a.verified THEN Null ELSE ConfirmEmail(a)
      [] o = "block" -> IF a.status = "blocked" THEN Null ELSE Block(a)
      [] o = "unblock" -> IF a.status # "blocked" THEN Null ELSE Unblock(a)
      [] o = "grant" -> GrantRole(a, "support_agent")
      [] o = "withdraw" -> RevokeRole(a, "support_agent")

CommitUser(r) ==
    /\ place[r] = "save_user"
    /\ LET changed == ChangedAccount(handler[r], user[r])
       IN  IF changed # Null /\ CanSaveUser(who[r], changed)
             THEN /\ SaveUser(who[r], changed)
                  /\ blocks' = IF handler[r] = "block" THEN blocks \cup {who[r]} ELSE blocks
             ELSE UNCHANGED <<account, blocks>>
    /\ EndHandler(r)
    /\ UNCHANGED <<code, live, tokenOf, clock, generated, history>>

-----------------------------------------------------------------------------
(* Sessions.                                                               *)

(* The right password of a verified account that may sign in.              *)
StartSignIn(r, u, s) ==
    /\ account[u].verified /\ CanSignIn(account[u])
    /\ live[s].status = "none" /\ \A q \in Goroutines : sid[q] # s
    /\ generated < MaxToken
    /\ generated' = generated + 1
    /\ StartHandler(r, "sign_in")
    /\ Continue(r, "insert_session")
    /\ who' = [who EXCEPT ![r] = u]
    /\ sid' = [sid EXCEPT ![r] = s]
    /\ next' = [next EXCEPT ![r] = generated + 1]
    /\ user' = [user EXCEPT ![r] = account[u]]
    /\ UNCHANGED <<rows, clock, blocks, history, token, session, challenge, late, todo>>

InsertSession(r) ==
    /\ place[r] = "insert_session"
    /\ SaveSession(sid[r], StartSession(who[r], next[r]))
    /\ EndHandler(r)
    /\ UNCHANGED <<account, code, clock, generated, blocks, history>>

StartRefresh(r, t) ==
    /\ tokenOf[t] # Null
    /\ generated < MaxToken
    /\ generated' = generated + 1
    /\ StartHandler(r, "refresh")
    /\ Continue(r, "find_owner")
    /\ token' = [token EXCEPT ![r] = t]
    /\ next' = [next EXCEPT ![r] = generated + 1]
    /\ sid' = [sid EXCEPT ![r] = tokenOf[t]]
    /\ session' = [session EXCEPT ![r] = live[tokenOf[t]]]
    /\ late' = [late EXCEPT ![r] = tokenOf[t] \in lapsed]
    /\ UNCHANGED <<rows, clock, blocks, history, who, user, challenge, todo>>

FindOwner(r) ==
    /\ place[r] = "find_owner"
    /\ who' = [who EXCEPT ![r] = session[r].user]
    /\ user' = [user EXCEPT ![r] = account[session[r].user]]
    /\ Continue(r, "save_session")
    /\ UNCHANGED <<rows, clock, generated, blocks, history, handler, sid, token, next, session,
                   challenge, late, todo>>

(* The session is revoked if its owner may not sign in or the token is not *)
(* the last one; a save that comes too late is answered with a conflict.   *)
CommitRefresh(r) ==
    /\ place[r] = "save_session" /\ handler[r] = "refresh"
    /\ LET s == session[r]
           rotated == Rotate(s, token[r], next[r], late[r])
           saved == IF CanSignIn(user[r]) THEN rotated
                    ELSE [row |-> Revoke(s), error |-> "FORBIDDEN"]
       IN  IF CanSaveSession(sid[r], s)
             THEN /\ SaveSession(sid[r], saved.row)
                  /\ IF saved.error = "none"
                       THEN /\ exchanged' = exchanged \cup {<<token[r], next[r]>>}
                            /\ lapsed' = lapsed \ {sid[r]}
                       ELSE UNCHANGED <<exchanged, lapsed>>
             ELSE UNCHANGED <<live, tokenOf, exchanged, lapsed>>
    /\ EndHandler(r)
    /\ UNCHANGED <<account, code, expired, generated, blocks, guesses>>

(* By its owner, who may sign out with it, or by support.                  *)
StartRevoke(r, s) ==
    /\ live[s].status # "none" /\ live[s].version < MaxChanges
    /\ StartHandler(r, "revoke")
    /\ Continue(r, "save_session")
    /\ sid' = [sid EXCEPT ![r] = s]
    /\ session' = [session EXCEPT ![r] = live[s]]
    /\ UNCHANGED <<rows, clock, generated, blocks, history, who, token, next, user,
                   challenge, late, todo>>

CommitRevoke(r) ==
    /\ place[r] = "save_session" /\ handler[r] = "revoke"
    /\ IF CanSaveSession(sid[r], session[r])
         THEN SaveSession(sid[r], Revoke(session[r]))
         ELSE UNCHANGED <<live, tokenOf>>
    /\ EndHandler(r)
    /\ UNCHANGED <<account, code, clock, generated, blocks, history>>

-----------------------------------------------------------------------------
(* The consumer of identity.user_blocked.  It lists the active sessions    *)
(* and revokes them one by one; an error leaves the event to come again.   *)

ConsumeBlock(r, u) ==
    /\ u \in blocks
    /\ \A q \in Goroutines : handler[q] # "revoke_all"
    /\ StartHandler(r, "revoke_all")
    /\ Continue(r, "each")
    /\ who' = [who EXCEPT ![r] = u]
    /\ todo' = [todo EXCEPT ![r] = {s \in SessionIds : live[s].status = "active"
                                                       /\ live[s].user = u}]
    /\ UNCHANGED <<rows, clock, generated, blocks, history, sid, token, next, user, session,
                   challenge, late>>

FindNext(r) ==
    /\ place[r] = "each" /\ todo[r] # {}
    /\ \E s \in todo[r] :
          /\ sid' = [sid EXCEPT ![r] = s]
          /\ session' = [session EXCEPT ![r] = live[s]]
          /\ todo' = [todo EXCEPT ![r] = @ \ {s}]
    /\ Continue(r, "save_next")
    /\ UNCHANGED <<rows, clock, generated, blocks, history, handler, who, token, next, user,
                   challenge, late>>

(* Faulty: a session that changes meanwhile is passed over.                *)
PassOver(r) == Continue(r, "each") /\ UNCHANGED <<handler, who, sid, token, next, user, session,
                                              challenge, late, todo>>

Conflict(r) == EndHandler(r)

SaveNext(r) ==
    /\ place[r] = "save_next"
    /\ IF CanSaveSession(sid[r], session[r])
         THEN /\ SaveSession(sid[r], Revoke(session[r]))
              /\ Continue(r, "each")
              /\ UNCHANGED <<handler, who, sid, token, next, user, session, challenge, late, todo>>
         ELSE Conflict(r) /\ UNCHANGED <<live, tokenOf>>
    /\ UNCHANGED <<account, code, clock, generated, blocks, history>>

Consumed(r) ==
    /\ place[r] = "each" /\ todo[r] = {}
    /\ blocks' = blocks \ {who[r]}
    /\ EndHandler(r)
    /\ UNCHANGED <<rows, clock, generated, history>>

-----------------------------------------------------------------------------
(* Time, and goroutines that stop.                                         *)

Lapse(s) ==
    /\ live[s].status = "active" /\ s \notin lapsed
    /\ lapsed' = lapsed \cup {s}
    /\ UNCHANGED <<rows, expired, generated, blocks, history, requestVars>>

RunOut(u) ==
    /\ code[u].status # "none" /\ u \notin expired
    /\ expired' = expired \cup {u}
    /\ UNCHANGED <<rows, lapsed, generated, blocks, history, requestVars>>

(* The hourly job deletes the challenges that ran out a day ago.           *)
DeleteExpiredChallenge(u) ==
    /\ u \in expired /\ code[u].status # "none"
    /\ code' = [code EXCEPT ![u] = NoChallenge]
    /\ UNCHANGED <<account, live, tokenOf, clock, generated, blocks, history, requestVars>>

(* A consumer that stops leaves what a conflict leaves (SaveNext).         *)
Stop(r) ==
    /\ place[r] # "idle" /\ handler[r] # "revoke_all"
    /\ EndHandler(r)
    /\ UNCHANGED <<rows, clock, generated, blocks, history>>

Proceed(r) ==
    \/ InsertUser(r) \/ InsertChallenge(r) \/ ReadConfirmed(r) \/ CommitUser(r)
    \/ \E right \in BOOLEAN : SaveAttempt(r, right)
    \/ InsertSession(r) \/ FindOwner(r) \/ CommitRefresh(r) \/ CommitRevoke(r)
    \/ FindNext(r) \/ SaveNext(r) \/ Consumed(r)

Start(r) ==
    \/ \E u \in Users :
          \/ StartRegister(r, u) \/ StartConfirm(r, u)
          \/ StartBlock(r, u) \/ StartUnblock(r, u)
          \/ \E o \in {"grant", "withdraw"} : ChangeRole(r, u, o)
          \/ \E s \in SessionIds : StartSignIn(r, u, s)
    \/ \E t \in Tokens : StartRefresh(r, t)
    \/ \E s \in SessionIds : StartRevoke(r, s)

IdentityNext ==
    \/ \E r \in Goroutines :
          \/ Start(r) \/ Proceed(r) \/ Stop(r)
          \/ \E u \in Users : ConsumeBlock(r, u)
    \/ \E s \in SessionIds : Lapse(s)
    \/ \E u \in Users : RunOut(u) \/ DeleteExpiredChallenge(u)

(* A handler goes on, and the relay delivers an event again and again; a   *)
(* goroutine of it is free again and again.                                *)
Fairness == \A r \in Goroutines : WF_identityVars(Proceed(r))
Delivery == \A u \in Users : SF_identityVars(\E r \in Goroutines : ConsumeBlock(r, u))

IdentitySpec == IdentityInit /\ [][IdentityNext]_identityVars /\ Fairness /\ Delivery

-----------------------------------------------------------------------------
(* A refresh token is exchanged at most once, though two requests may      *)
(* present it at the same time and the tokens of before are kept.          *)
ExchangedOnce ==
    \A p, q \in exchanged : p[1] = q[1] => p = q

(* No more secrets are tried against a challenge than the policy allows,   *)
(* however many requests try at once.                                      *)
GuessesBounded ==
    \A u \in Users : guesses[u] <= MaxGuesses

(* What lets somebody in can be used, or tried, only so often.             *)
SecretsSpent == ExchangedOnce /\ GuessesBounded

(* Every session that is active when the event of a block is taken up is   *)
(* revoked in the end, also one that is being rotated meanwhile.           *)
BlockEndsSessions ==
    \A s \in SessionIds :
        (/\ live[s].status = "active" /\ live[s].user \in blocks
         /\ \A r \in Goroutines : handler[r] # "revoke_all")
            ~> live[s].status = "revoked"
=============================================================================

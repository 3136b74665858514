---------------------------- MODULE AuthSession ----------------------------
(***************************************************************************)
(* auth.service.ts: sign-ups staged in Redis until the address is          *)
(* verified, sessions in Redis, and the rotation of their refresh tokens;  *)
(* and user.service.ts: changes of passwords.                              *)
(*                                                                         *)
(* A sign-up names the data it submits, so that an account is the sign-up  *)
(* it was made from; it and a change of password name the passwords they   *)
(* set.  A session names its first refresh token, and a refresh the token  *)
(* it hands out; the access token handed out with it is its claim sub, the *)
(* user that the controllers act for.  Hashes stand for what they are the  *)
(* hashes of, and an address for the id of its account.                    *)
(***************************************************************************)
EXTENDS FiniteSets

CONSTANTS
    Emails,
    SignUps,                \* sign-up requests
    AddressOf,              \* the addresses of sign-ups and of changes
    Verifies, LinkOf,       \* clicks on the link of an address
    Sessions, ClaimOf,      \* sign-ins and the password they carry
    Changes, OldOf,         \* changes of passwords and the old ones they carry
    Refreshes, SessionOf,   \* refresh requests and their sessions
    LogOuts, EndsOf,        \* log-outs and their sessions
    Damaged,                \* what is left of a token in a damaged cookie
    None                    \* no data, no token

Requests == SignUps \cup Verifies \cup Sessions \cup Changes \cup Refreshes \cup LogOuts
Passwords == SignUps \cup Changes
Tokens == Sessions \cup Refreshes

(* A request is of one kind.                                               *)
ASSUME KindsAssumption ==
    /\ SignUps \cap (Verifies \cup Sessions \cup Changes \cup Refreshes \cup LogOuts) = {}
    /\ Verifies \cap (Sessions \cup Changes \cup Refreshes \cup LogOuts) = {}
    /\ Sessions \cap (Changes \cup Refreshes \cup LogOuts) = {}
    /\ Changes \cap (Refreshes \cup LogOuts) = {} /\ Refreshes \cap LogOuts = {}
ASSUME RequestsAssumption ==
    /\ AddressOf \in [Passwords -> Emails]
    /\ LinkOf \in [Verifies -> Emails]
    /\ ClaimOf \in [Sessions -> Passwords]
    /\ OldOf \in [Changes -> Passwords]
    /\ SessionOf \in [Refreshes -> Sessions]
    /\ EndsOf \in [LogOuts -> Sessions]
    /\ None \notin Requests /\ Damaged \notin Requests \cup {None}

VARIABLES
    users,       \* the User row of each address
    password,    \* its passwordHash
    tempUser,    \* Redis: tempUser:<email>
    session,     \* Redis: session:<sessionId>
    pc,          \* where each request's handler is
    found,       \* what a verification or a refresh has read from Redis
    presented,   \* the token of each refresh request's cookie
    sub,         \* the claim sub of the access token that goes with each token
    answer,      \* what each request was answered
    ahead        \* the sign-ins that had compared when each change was written

vars == <<users, password, tempUser, session, pc, found, presented, sub, answer, ahead>>

(* Sign-in and rotation write records of different fields,                 *)
(* auth.service.ts:83 and :124.                                            *)
Records == [userId : Emails, hashedToken : Tokens]
           \cup [userId : Emails \cup {None}, tokenHash : Tokens]

(* What JavaScript reads of a record: undefined where it has no such field. *)
Field(record, f) == IF f \in DOMAIN record THEN record[f] ELSE None

Init ==
    /\ users = [e \in Emails |-> None]
    /\ password = [e \in Emails |-> None]
    /\ tempUser = [e \in Emails |-> None]
    /\ session = [s \in Sessions |-> None]
    /\ pc = [r \in Requests |-> "start"]
    /\ found = [r \in Verifies \cup Refreshes |-> None]
    /\ presented = [r \in Refreshes |-> None]
    /\ sub = [t \in Tokens |-> None]
    /\ answer = [r \in Requests |-> "none"]
    /\ ahead = [w \in Changes |-> {}]
-----------------------------------------------------------------------------
Goto(r, l) == pc' = [pc EXCEPT ![r] = l]
Answer(r, what) == Goto(r, "done") /\ answer' = [answer EXCEPT ![r] = what]

(* Sign-up: the account is looked for before the data is staged.           *)

CheckAddress(u) ==
    /\ u \in SignUps /\ pc[u] = "start"
    /\ users[AddressOf[u]] = None
    /\ Goto(u, "stage")
    /\ UNCHANGED <<users, password, tempUser, session, found, presented, sub, answer, ahead>>

RefuseAddress(u) ==
    /\ u \in SignUps /\ pc[u] = "start"
    /\ users[AddressOf[u]] # None
    /\ Answer(u, "refused")
    /\ UNCHANGED <<users, password, tempUser, session, found, presented, sub, ahead>>

Stage(u) ==
    /\ pc[u] = "stage"
    /\ tempUser' = [tempUser EXCEPT ![AddressOf[u]] = u]
    /\ Answer(u, "accepted")
    /\ UNCHANGED <<users, password, session, found, presented, sub, ahead>>
-----------------------------------------------------------------------------
(* Verification: the staged data becomes an account; the deletion of the   *)
(* staged data is not awaited.                                             *)

ReadStaged(v) ==
    /\ v \in Verifies /\ pc[v] = "start"
    /\ tempUser[LinkOf[v]] # None
    /\ found' = [found EXCEPT ![v] = tempUser[LinkOf[v]]]
    /\ Goto(v, "insert")
    /\ UNCHANGED <<users, password, tempUser, session, presented, sub, answer, ahead>>

NothingStaged(v) ==
    /\ v \in Verifies /\ pc[v] = "start"
    /\ tempUser[LinkOf[v]] = None
    /\ Answer(v, "refused")
    /\ UNCHANGED <<users, password, tempUser, session, found, presented, sub, ahead>>

MutantAddressFree(e) == TRUE
(* User.email is unique.                                                   *)
AddressFree(e) == users[e] = None

CreateUser(v) ==
    /\ pc[v] = "insert"
    /\ AddressFree(LinkOf[v])
    /\ users' = [users EXCEPT ![LinkOf[v]] = found[v]]
    /\ password' = [password EXCEPT ![LinkOf[v]] = found[v]]
    /\ Goto(v, "forget")
    /\ answer' = [answer EXCEPT ![v] = "accepted"]
    /\ UNCHANGED <<tempUser, session, found, presented, sub, ahead>>

UserExists(v) ==
    /\ pc[v] = "insert"
    /\ ~ AddressFree(LinkOf[v])
    /\ Answer(v, "refused")
    /\ UNCHANGED <<users, password, tempUser, session, found, presented, sub, ahead>>

ForgetStaged(v) ==
    /\ pc[v] = "forget"
    /\ tempUser' = [tempUser EXCEPT ![LinkOf[v]] = None]
    /\ Goto(v, "done")
    /\ UNCHANGED <<users, password, session, found, presented, sub, answer, ahead>>
-----------------------------------------------------------------------------
(* Sign-in and the change of a password: what the password opens is        *)
(* written after it was compared.                                          *)

IsPassword(e, p) == password[e] = p
User(s) == AddressOf[ClaimOf[s]]
KnowsPassword(s) == IsPassword(User(s), ClaimOf[s])

MatchPassword(s) ==
    /\ s \in Sessions /\ pc[s] = "start"
    /\ KnowsPassword(s)
    /\ Goto(s, "open")
    /\ UNCHANGED <<users, password, tempUser, session, found, presented, sub, answer, ahead>>

SignIn(s) ==
    /\ pc[s] = "open"
    /\ session' = [session EXCEPT ![s] = [userId |-> User(s), hashedToken |-> s]]
    /\ sub' = [sub EXCEPT ![s] = User(s)]
    /\ Answer(s, "accepted")
    /\ UNCHANGED <<users, password, tempUser, found, presented, ahead>>

RefuseSignIn(s) ==
    /\ s \in Sessions /\ pc[s] = "start"
    /\ ~ KnowsPassword(s)
    /\ Answer(s, "refused")
    /\ UNCHANGED <<users, password, tempUser, session, found, presented, sub, ahead>>

MatchOld(w) ==
    /\ w \in Changes /\ pc[w] = "start"
    /\ IsPassword(AddressOf[w], OldOf[w])
    /\ Goto(w, "change")
    /\ UNCHANGED <<users, password, tempUser, session, found, presented, sub, answer, ahead>>

RefuseOld(w) ==
    /\ w \in Changes /\ pc[w] = "start"
    /\ ~ IsPassword(AddressOf[w], OldOf[w])
    /\ Answer(w, "refused")
    /\ UNCHANGED <<users, password, tempUser, session, found, presented, sub, ahead>>

ChangePassword(w) ==
    /\ pc[w] = "change"
    /\ password' = [password EXCEPT ![AddressOf[w]] = w]
    /\ ahead' = [ahead EXCEPT ![w] = {s \in Sessions : pc[s] # "start"}]
    /\ Answer(w, "accepted")
    /\ UNCHANGED <<users, tempUser, session, found, presented, sub>>
-----------------------------------------------------------------------------
(* Refresh: the session is read, the token compared with its hash, and     *)
(* then one command writes or deletes it, whatever it holds by then.       *)

(* The tokens in the cookies of a session: any of them may come again.     *)
Issued(s) ==
    {t \in Tokens : answer[t] = "accepted"
                    /\ (t = s \/ (t \in Refreshes /\ SessionOf[t] = s))}

Stored(r) == session[SessionOf[r]]
Matches(record, t) == Field(record, "hashedToken") = t

Read(r, t) ==
    /\ presented' = [presented EXCEPT ![r] = t]
    /\ found' = [found EXCEPT ![r] = Stored(r)]

SessionGone(r, t) ==
    /\ Stored(r) = None
    /\ Read(r, t)
    /\ Answer(r, "expired")
    /\ UNCHANGED <<users, password, tempUser, session, sub, ahead>>

HashNotFound(r, t) ==
    /\ Stored(r) # None
    /\ Matches(Stored(r), None)
    /\ Read(r, t)
    /\ Answer(r, "notfound")
    /\ UNCHANGED <<users, password, tempUser, session, sub, ahead>>

TokenMatches(r, t) ==
    /\ Stored(r) # None
    /\ Matches(Stored(r), t)
    /\ Read(r, t)
    /\ Goto(r, "rotate")
    /\ UNCHANGED <<users, password, tempUser, session, sub, answer, ahead>>

TokenDiffers(r, t) ==
    /\ Stored(r) # None
    /\ ~ Matches(Stored(r), None)
    /\ ~ Matches(Stored(r), t)
    /\ Read(r, t)
    /\ Goto(r, "purge")
    /\ UNCHANGED <<users, password, tempUser, session, sub, answer, ahead>>

Present(r) ==
    /\ r \in Refreshes /\ pc[r] = "start"
    /\ Issued(SessionOf[r]) # {}
    /\ \E t \in Issued(SessionOf[r]) \cup {Damaged} :
           SessionGone(r, t) \/ HashNotFound(r, t) \/ TokenMatches(r, t) \/ TokenDiffers(r, t)

MutantRotated(r) == [userId |-> None, hashedToken |-> r]
MutantRotatedKept(r) ==
    [userId |-> None, hashedToken |-> Field(found[r], "hashedToken"), tokenHash |-> r]
MutantRotatedBare(r) == r

Rotated(r) == [userId |-> Field(found[r], "sub"), tokenHash |-> r]

(* The claims of the new access token are the fields of the record.        *)
Rotate(r) ==
    /\ pc[r] = "rotate"
    /\ session' = [session EXCEPT ![SessionOf[r]] = Rotated(r)]
    /\ sub' = [sub EXCEPT ![r] = Field(found[r], "sub")]
    /\ Answer(r, "accepted")
    /\ UNCHANGED <<users, password, tempUser, found, presented, ahead>>

Purge(r) ==
    /\ pc[r] = "purge"
    /\ session' = [session EXCEPT ![SessionOf[r]] = None]
    /\ Answer(r, "breach")
    /\ UNCHANGED <<users, password, tempUser, found, presented, sub, ahead>>

(* Log-out deletes the session of whatever cookie it is sent.              *)
LogOut(l) ==
    /\ l \in LogOuts /\ pc[l] = "start"
    /\ Issued(EndsOf[l]) # {}
    /\ session' = [session EXCEPT ![EndsOf[l]] = None]
    /\ Answer(l, "accepted")
    /\ UNCHANGED <<users, password, tempUser, found, presented, sub, ahead>>
-----------------------------------------------------------------------------
(* Times to live, and handlers that fail before their next write.          *)

StagingExpires(e) ==
    /\ tempUser[e] # None
    /\ tempUser' = [tempUser EXCEPT ![e] = None]
    /\ UNCHANGED <<users, password, session, pc, found, presented, sub, answer, ahead>>

SessionExpires(s) ==
    /\ session[s] # None
    /\ session' = [session EXCEPT ![s] = None]
    /\ UNCHANGED <<users, password, tempUser, pc, found, presented, sub, answer, ahead>>

Fail(r) ==
    /\ pc[r] \in {"stage", "insert", "open", "change", "rotate", "purge"}
    /\ Answer(r, "failed")
    /\ UNCHANGED <<users, password, tempUser, session, found, presented, sub, ahead>>

ForgetFails(v) ==
    /\ pc[v] = "forget"
    /\ Goto(v, "done")
    /\ UNCHANGED <<users, password, tempUser, session, found, presented, sub, answer, ahead>>

Progress(r) ==
    \/ CheckAddress(r) \/ RefuseAddress(r) \/ Stage(r)
    \/ ReadStaged(r) \/ NothingStaged(r) \/ CreateUser(r) \/ UserExists(r) \/ ForgetStaged(r)
    \/ MatchPassword(r) \/ SignIn(r) \/ RefuseSignIn(r)
    \/ MatchOld(r) \/ RefuseOld(r) \/ ChangePassword(r)
    \/ Present(r) \/ Rotate(r) \/ Purge(r) \/ LogOut(r)

Next ==
    \/ \E r \in Requests : Progress(r) \/ Fail(r) \/ ForgetFails(r)
    \/ \E e \in Emails : StagingExpires(e)
    \/ \E s \in Sessions : SessionExpires(s)

Spec == Init /\ [][Next]_vars
-----------------------------------------------------------------------------
(* Each variable ranges over the values the code gives it.                 *)
TypeOK ==
    /\ users \in [Emails -> SignUps \cup {None}]
    /\ password \in [Emails -> Passwords \cup {None}]
    /\ tempUser \in [Emails -> SignUps \cup {None}]
    /\ session \in [Sessions -> Records \cup {None}]
    /\ pc \in [Requests -> {"start", "stage", "insert", "forget", "open", "change",
                         "rotate", "purge", "done"}]
    /\ found \in [Verifies \cup Refreshes -> SignUps \cup Records \cup {None}]
    /\ presented \in [Refreshes -> Tokens \cup {Damaged, None}]
    /\ sub \in [Tokens -> Emails \cup {None}]
    /\ answer \in [Requests -> {"none", "accepted", "refused", "expired", "notfound",
                                "breach", "failed"}]
    /\ ahead \in [Changes -> SUBSET Sessions]

(* The refreshes that this step lets through the comparison.               *)
Admitted == {r \in Refreshes : pc[r] = "start" /\ pc'[r] = "rotate"}

Spent == {presented[r] : r \in {q \in Refreshes : answer[q] = "accepted"}}
Closed ==
    {EndsOf[l] : l \in {m \in LogOuts : answer[m] = "accepted"}} \cup
    {SessionOf[r] : r \in {q \in Refreshes : answer[q] = "breach"}}

(* README.md:42: a token that was rotated away opens its session no more,  *)
(* even though refreshes and log-outs overwrite each other's records.      *)
SpentStaysSpent == [][\A r \in Admitted : presented'[r] \notin Spent]_vars

(* README.md:42 and :153: a session that was logged out or purged refuses  *)
(* every later refresh, although a refresh that had read it before writes  *)
(* it back.                                                                *)
ClosedStaysClosed == [][\A r \in Admitted : SessionOf[r] \notin Closed]_vars

(* user.service.ts:32: a password that was changed opens no session any    *)
(* more, whatever changes and verifications run beside the change, but for *)
(* the sign-ins that had compared it before the change was written:        *)
(* auth.service.ts:69 compares first and opens the session later.          *)
Opened == {s \in Sessions : pc[s] = "open" \/ answer[s] = "accepted"}
ChangedPasswordEnds ==
    \A w \in Changes, s \in Opened :
        answer[w] = "accepted" /\ OldOf[w] = ClaimOf[s] => s \in ahead[w]

(* README.md:42: a token that was rotated away purges its session when it  *)
(* is presented.                                                           *)
ReusePurges ==
    [][\A r \in Refreshes :
           pc[r] = "start" /\ presented'[r] \in Spent => answer'[r] # "notfound"]_vars

(* access-token.interface.ts:2: every access token names a user as its     *)
(* sub, which the controllers act for, and it is the user of the session.  *)
TokensNameTheirUser ==
    \A r \in Refreshes : answer[r] = "accepted" => sub[r] = User(SessionOf[r])
=============================================================================

----------------------------- MODULE AuthProofs -----------------------------
(***************************************************************************)
(* Theorems about AuthSession for every set of addresses and requests.     *)
(***************************************************************************)
EXTENDS AuthSession, TLAPS

(* What the assumptions say of each request.                               *)
LEMMA RequestFacts ==
    /\ \A u \in SignUps : u \in Requests /\ u \in Passwords /\ AddressOf[u] \in Emails
    /\ \A v \in Verifies : v \in Requests /\ LinkOf[v] \in Emails
    /\ \A s \in Sessions : /\ s \in Requests /\ s \in Tokens /\ ClaimOf[s] \in Passwords
                           /\ User(s) \in Emails
    /\ \A w \in Changes : /\ w \in Requests /\ w \in Passwords /\ AddressOf[w] \in Emails
                          /\ OldOf[w] \in Passwords
    /\ \A r \in Refreshes : r \in Requests /\ r \in Tokens /\ SessionOf[r] \in Sessions
    /\ \A l \in LogOuts : l \in Requests /\ EndsOf[l] \in Sessions
    /\ None \notin Requests /\ None \notin Passwords /\ None \notin Tokens /\ Damaged # None
  BY RequestsAssumption DEF Requests, Passwords, Tokens, User

USE RequestFacts

(* Each kind of request has its own statements, and begins without an      *)
(* answer; the data a verification inserts is a sign-up of its address.    *)
Kinds ==
    /\ \A u \in SignUps : pc[u] \in {"start", "stage", "done"}
    /\ \A v \in Verifies : pc[v] \in {"start", "insert", "forget", "done"}
    /\ \A s \in Sessions : pc[s] \in {"start", "open", "done"}
    /\ \A w \in Changes : pc[w] \in {"start", "change", "done"}
    /\ \A r \in Refreshes : pc[r] \in {"start", "rotate", "purge", "done"}
    /\ \A l \in LogOuts : pc[l] \in {"start", "done"}
    /\ \A r \in Requests : answer[r] # "none" => pc[r] \in {"forget", "done"}

FoundRight ==
    /\ \A v \in Verifies : pc[v] = "insert" => found[v] \in SignUps
    /\ \A r \in Refreshes : /\ found[r] \in Records \cup {None}
                            /\ pc[r] = "rotate" => found[r] # None

Typed == TypeOK /\ Kinds /\ FoundRight

(* At the start.                                                           *)
LEMMA InitTyped == Init => Typed
  BY DEF Init, Typed, TypeOK, Kinds, FoundRight, Requests

(* Sign-in and rotation write records.                                     *)
LEMMA RecordFacts ==
  ASSUME NEW e \in Emails \cup {None}, NEW t \in Tokens
  PROVE  /\ [userId |-> e, tokenHash |-> t] \in Records
         /\ e \in Emails => [userId |-> e, hashedToken |-> t] \in Records
         /\ Field([userId |-> e, tokenHash |-> t], "hashedToken") = None
         /\ Field([userId |-> e, hashedToken |-> t], "hashedToken") = t
  BY DEF Records, Field

(* The field the new access token takes its sub from is in no record.      *)
LEMMA NoSub == \A x \in Records : Field(x, "sub") = None
  BY DEF Records, Field

(* Which requests take which steps.                                        *)
LEMMA StepKinds ==
  ASSUME Kinds, NEW r \in Requests
  PROVE  /\ CheckAddress(r) \/ RefuseAddress(r) \/ Stage(r) => r \in SignUps
         /\ ReadStaged(r) \/ NothingStaged(r) \/ CreateUser(r) \/ UserExists(r)
            \/ ForgetStaged(r) \/ ForgetFails(r) => r \in Verifies
         /\ MatchPassword(r) \/ SignIn(r) \/ RefuseSignIn(r) => r \in Sessions
         /\ MatchOld(r) \/ RefuseOld(r) \/ ChangePassword(r) => r \in Changes
         /\ Present(r) \/ Rotate(r) \/ Purge(r) => r \in Refreshes
         /\ LogOut(r) => r \in LogOuts
  BY DEF Kinds, Requests, CheckAddress, RefuseAddress, Stage, ReadStaged, NothingStaged, CreateUser,
     UserExists, ForgetStaged, ForgetFails, MatchPassword, SignIn, RefuseSignIn, MatchOld,
     RefuseOld, ChangePassword, Present, Rotate, Purge, LogOut

(* A request moves alone, within its kind.                                 *)
LEMMA KindsMove ==
  ASSUME TypeOK, Kinds, NEW r \in Requests, NEW l, Goto(r, l),
         r \in SignUps => l \in {"stage", "done"},
         r \in Verifies => l \in {"insert", "forget", "done"},
         r \in Sessions => l \in {"open", "done"},
         r \in Changes => l \in {"change", "done"},
         r \in Refreshes => l \in {"rotate", "purge", "done"},
         r \in LogOuts => l = "done",
         UNCHANGED answer \/ (l \in {"forget", "done"} /\ \E w : answer' = [answer EXCEPT ![r] = w]),
         pc[r] # "done", pc[r] = "forget" => l = "done"
  PROVE  Kinds' /\ pc' \in [Requests -> {"start", "stage", "insert", "forget", "open", "change",
                                         "rotate", "purge", "done"}]
<1>1. \A q \in Requests : pc'[q] = IF q = r THEN l ELSE pc[q]
  BY DEF Goto, TypeOK
<1>2. \A q \in Requests : q # r => answer'[q] = answer[q]
  BY DEF TypeOK
<1>3. answer'[r] # "none" => l \in {"forget", "done"}
  BY DEF Kinds, TypeOK
<1>4. Kinds'
  BY <1>1, <1>2, <1>3 DEF Kinds
<1>5. pc' \in [Requests -> {"start", "stage", "insert", "forget", "open", "change",
                            "rotate", "purge", "done"}]
  <2>1. l \in {"start", "stage", "insert", "forget", "open", "change", "rotate", "purge", "done"}
    BY DEF Requests
  <2> QED
    BY <2>1 DEF Goto, TypeOK
<1> QED
  BY <1>4, <1>5

(* What a refresh or a verification has read stays, but when it reads.     *)
LEMMA FoundStays ==
  ASSUME Typed, NEW r \in Requests, NEW l, l \notin {"insert", "rotate"},
         Goto(r, l), UNCHANGED found
  PROVE  FoundRight'
  BY DEF Typed, TypeOK, FoundRight, Goto

(* Every step keeps the types.                                             *)
LEMMA NextTyped == Typed /\ [Next]_vars => Typed'
<1> SUFFICES ASSUME Typed, [Next]_vars PROVE Typed'
  OBVIOUS
<1> USE DEF Typed
<1>1. CASE UNCHANGED vars
  <2>1. TypeOK'
    BY <1>1 DEF vars, TypeOK
  <2>2. Kinds' /\ FoundRight'
    BY <1>1 DEF vars, Kinds, FoundRight
  <2> QED
    BY <2>1, <2>2
<1>2. ASSUME NEW e \in Emails, StagingExpires(e) PROVE Typed'
  <2>1. TypeOK'
    BY <1>2 DEF StagingExpires, TypeOK
  <2>2. Kinds' /\ FoundRight'
    BY <1>2 DEF StagingExpires, Kinds, FoundRight
  <2> QED
    BY <2>1, <2>2
<1>3. ASSUME NEW s \in Sessions, SessionExpires(s) PROVE Typed'
  <2>1. TypeOK'
    BY <1>3 DEF SessionExpires, TypeOK
  <2>2. Kinds' /\ FoundRight'
    BY <1>3 DEF SessionExpires, Kinds, FoundRight
  <2> QED
    BY <2>1, <2>2
<1>4. ASSUME NEW r \in Requests, Progress(r) \/ Fail(r) \/ ForgetFails(r) PROVE Typed'
  <2> DEFINE Labels == {"start", "stage", "insert", "forget", "open", "change",
                        "rotate", "purge", "done"}
             Answers == {"none", "accepted", "refused", "expired", "notfound",
                         "breach", "failed"}
             Rest == /\ users' \in [Emails -> SignUps \cup {None}]
                     /\ password' \in [Emails -> Passwords \cup {None}]
                     /\ tempUser' \in [Emails -> SignUps \cup {None}]
                     /\ session' \in [Sessions -> Records \cup {None}]
                     /\ found' \in [Verifies \cup Refreshes -> SignUps \cup Records \cup {None}]
                     /\ presented' \in [Refreshes -> Tokens \cup {Damaged, None}]
                     /\ sub' \in [Tokens -> Emails \cup {None}]
                     /\ ahead' \in [Changes -> SUBSET Sessions]
  <2>0. SUFFICES Rest /\ Kinds' /\ pc' \in [Requests -> Labels] /\ answer' \in [Requests -> Answers]
                 /\ FoundRight'
    BY DEF TypeOK
  <2>1. CASE CheckAddress(r)
    <3>1. r \in SignUps
      BY <2>1, StepKinds
    <3>2. Kinds' /\ pc' \in [Requests -> Labels]
      BY <2>1, <3>1, KindsMove, KindsAssumption DEF CheckAddress, Answer
    <3>3. FoundRight'
      BY <2>1, FoundStays DEF CheckAddress, Answer
    <3> QED
      BY <2>1, <3>1, <3>2, <3>3 DEF CheckAddress, Answer, TypeOK
  <2>2. CASE RefuseAddress(r)
    <3>1. r \in SignUps
      BY <2>2, StepKinds
    <3>2. Kinds' /\ pc' \in [Requests -> Labels]
      BY <2>2, <3>1, KindsMove, KindsAssumption DEF RefuseAddress, Answer
    <3>3. FoundRight'
      BY <2>2, FoundStays DEF RefuseAddress, Answer
    <3> QED
      BY <2>2, <3>1, <3>2, <3>3 DEF RefuseAddress, Answer, TypeOK
  <2>3. CASE Stage(r)
    <3>1. r \in SignUps
      BY <2>3, StepKinds
    <3>2. Kinds' /\ pc' \in [Requests -> Labels]
      BY <2>3, <3>1, KindsMove, KindsAssumption DEF Stage, Answer
    <3>3. FoundRight'
      BY <2>3, FoundStays DEF Stage, Answer
    <3> QED
      BY <2>3, <3>1, <3>2, <3>3 DEF Stage, Answer, TypeOK
  <2>4. CASE ReadStaged(r)
    <3>1. r \in Verifies
      BY <2>4, StepKinds
    <3>2. Kinds' /\ pc' \in [Requests -> Labels]
      BY <2>4, <3>1, KindsMove, KindsAssumption DEF ReadStaged, Answer
    <3>3. tempUser[LinkOf[r]] \in SignUps
      BY <2>4, <3>1 DEF ReadStaged, TypeOK
    <3>4. \A v \in Verifies : pc'[v] = "insert" => v = r \/ pc[v] = "insert"
      BY <2>4 DEF ReadStaged, Goto, TypeOK
    <3>5. \A q \in Refreshes : q # r /\ pc'[q] = pc[q]
      BY <2>4, <3>1, KindsAssumption DEF ReadStaged, Goto, TypeOK
    <3>6. FoundRight'
      BY <2>4, <3>1, <3>3, <3>4, <3>5 DEF ReadStaged, FoundRight, TypeOK
    <3> QED
      BY <2>4, <3>1, <3>2, <3>3, <3>6 DEF ReadStaged, TypeOK
  <2>5. CASE NothingStaged(r)
    <3>1. r \in Verifies
      BY <2>5, StepKinds
    <3>2. Kinds' /\ pc' \in [Requests -> Labels]
      BY <2>5, <3>1, KindsMove, KindsAssumption DEF NothingStaged, Answer
    <3>3. FoundRight'
      BY <2>5, FoundStays DEF NothingStaged, Answer
    <3> QED
      BY <2>5, <3>1, <3>2, <3>3 DEF NothingStaged, Answer, TypeOK
  <2>6. CASE CreateUser(r)
    <3>1. r \in Verifies
      BY <2>6, StepKinds
    <3>2. Kinds' /\ pc' \in [Requests -> Labels]
      BY <2>6, <3>1, KindsMove, KindsAssumption DEF CreateUser, Answer
    <3>4. found[r] \in SignUps /\ found[r] \in Passwords
      BY <2>6, <3>1 DEF CreateUser, FoundRight
    <3>3. FoundRight'
      BY <2>6, FoundStays DEF CreateUser, Answer
    <3> QED
      BY <2>6, <3>1, <3>2, <3>3, <3>4 DEF CreateUser, Answer, TypeOK
  <2>7. CASE UserExists(r)
    <3>1. r \in Verifies
      BY <2>7, StepKinds
    <3>2. Kinds' /\ pc' \in [Requests -> Labels]
      BY <2>7, <3>1, KindsMove, KindsAssumption DEF UserExists, Answer
    <3>3. FoundRight'
      BY <2>7, FoundStays DEF UserExists, Answer
    <3> QED
      BY <2>7, <3>1, <3>2, <3>3 DEF UserExists, Answer, TypeOK
  <2>8. CASE ForgetStaged(r)
    <3>1. r \in Verifies
      BY <2>8, StepKinds
    <3>2. Kinds' /\ pc' \in [Requests -> Labels]
      BY <2>8, <3>1, KindsMove, KindsAssumption DEF ForgetStaged, Answer
    <3>3. FoundRight'
      BY <2>8, FoundStays DEF ForgetStaged, Answer
    <3> QED
      BY <2>8, <3>1, <3>2, <3>3 DEF ForgetStaged, Answer, TypeOK
  <2>9. CASE MatchPassword(r)
    <3>1. r \in Sessions
      BY <2>9, StepKinds
    <3>2. Kinds' /\ pc' \in [Requests -> Labels]
      BY <2>9, <3>1, KindsMove, KindsAssumption DEF MatchPassword, Answer
    <3>3. FoundRight'
      BY <2>9, FoundStays DEF MatchPassword, Answer
    <3> QED
      BY <2>9, <3>1, <3>2, <3>3 DEF MatchPassword, Answer, TypeOK
  <2>10. CASE SignIn(r)
    <3>1. r \in Sessions
      BY <2>10, StepKinds
    <3>2. Kinds' /\ pc' \in [Requests -> Labels]
      BY <2>10, <3>1, KindsMove, KindsAssumption DEF SignIn, Answer
    <3>4. [userId |-> User(r), hashedToken |-> r] \in Records
      BY <3>1, RecordFacts
    <3>3. FoundRight'
      BY <2>10, FoundStays DEF SignIn, Answer
    <3>5. session' \in [Sessions -> Records \cup {None}]
      BY <2>10, <3>1, <3>4 DEF SignIn, TypeOK
    <3>6. sub' \in [Tokens -> Emails \cup {None}]
      BY <2>10, <3>1 DEF SignIn, TypeOK
    <3> QED
      BY <2>10, <3>1, <3>2, <3>3, <3>5, <3>6 DEF SignIn, Answer, TypeOK
  <2>11. CASE RefuseSignIn(r)
    <3>1. r \in Sessions
      BY <2>11, StepKinds
    <3>2. Kinds' /\ pc' \in [Requests -> Labels]
      BY <2>11, <3>1, KindsMove, KindsAssumption DEF RefuseSignIn, Answer
    <3>3. FoundRight'
      BY <2>11, FoundStays DEF RefuseSignIn, Answer
    <3> QED
      BY <2>11, <3>1, <3>2, <3>3 DEF RefuseSignIn, Answer, TypeOK
  <2>12. CASE MatchOld(r)
    <3>1. r \in Changes
      BY <2>12, StepKinds
    <3>2. Kinds' /\ pc' \in [Requests -> Labels]
      BY <2>12, <3>1, KindsMove, KindsAssumption DEF MatchOld, Answer
    <3>3. FoundRight'
      BY <2>12, FoundStays DEF MatchOld, Answer
    <3> QED
      BY <2>12, <3>1, <3>2, <3>3 DEF MatchOld, Answer, TypeOK
  <2>13. CASE RefuseOld(r)
    <3>1. r \in Changes
      BY <2>13, StepKinds
    <3>2. Kinds' /\ pc' \in [Requests -> Labels]
      BY <2>13, <3>1, KindsMove, KindsAssumption DEF RefuseOld, Answer
    <3>3. FoundRight'
      BY <2>13, FoundStays DEF RefuseOld, Answer
    <3> QED
      BY <2>13, <3>1, <3>2, <3>3 DEF RefuseOld, Answer, TypeOK
  <2>14. CASE ChangePassword(r)
    <3>1. r \in Changes
      BY <2>14, StepKinds
    <3>2. Kinds' /\ pc' \in [Requests -> Labels]
      BY <2>14, <3>1, KindsMove, KindsAssumption DEF ChangePassword, Answer
    <3>3. FoundRight'
      BY <2>14, FoundStays DEF ChangePassword, Answer
    <3> QED
      BY <2>14, <3>1, <3>2, <3>3 DEF ChangePassword, Answer, TypeOK
  <2>15. CASE Present(r)
    <3>1. r \in Refreshes
      BY <2>15, StepKinds
    <3>2. PICK t \in Issued(SessionOf[r]) \cup {Damaged} :
             SessionGone(r, t) \/ HashNotFound(r, t) \/ TokenMatches(r, t) \/ TokenDiffers(r, t)
      BY <2>15 DEF Present
    <3>3. Kinds' /\ pc' \in [Requests -> Labels]
      BY <2>15, <3>1, <3>2, KindsMove, KindsAssumption
      DEF Present, SessionGone, HashNotFound, TokenMatches, TokenDiffers, Answer
    <3>4. Stored(r) \in Records \cup {None} /\ t \in Tokens \cup {Damaged}
      BY <3>1 DEF Stored, TypeOK, Issued
    <3>5. Read(r, t) /\ UNCHANGED <<users, password, tempUser, session, sub, ahead>>
      BY <3>2 DEF SessionGone, HashNotFound, TokenMatches, TokenDiffers
    <3>6. Rest
      BY <3>1, <3>4, <3>5 DEF Read, TypeOK
    <3>7. answer' \in [Requests -> Answers]
      BY <3>2 DEF SessionGone, HashNotFound, TokenMatches, TokenDiffers, Answer, TypeOK
    <3>8. \A q \in Requests :
              pc'[q] = "rotate" => (q # r /\ pc[q] = "rotate") \/ (q = r /\ Stored(r) # None)
      BY <2>15, <3>2
      DEF Present, SessionGone, HashNotFound, TokenMatches, TokenDiffers, Answer, Goto, TypeOK
    <3>9. \A v \in Verifies : v # r /\ (pc'[v] = "insert" => pc[v] = "insert")
      BY <3>1, <3>2, KindsAssumption
      DEF SessionGone, HashNotFound, TokenMatches, TokenDiffers, Answer, Goto, TypeOK
    <3>10. \A q \in Verifies \cup Refreshes :
               found'[q] = IF q = r THEN Stored(r) ELSE found[q]
      BY <3>1, <3>5 DEF Read, TypeOK
    <3>11. \A v \in Verifies : pc'[v] = "insert" => found'[v] \in SignUps
      BY <3>9, <3>10 DEF FoundRight
    <3>12. \A q \in Refreshes : /\ found'[q] \in Records \cup {None}
                                /\ pc'[q] = "rotate" => found'[q] # None
      <4> TAKE q \in Refreshes
      <4>1. q \in Requests /\ found'[q] = IF q = r THEN Stored(r) ELSE found[q]
        BY <3>10
      <4>2. found[q] \in Records \cup {None} /\ (pc[q] = "rotate" => found[q] # None)
        BY DEF FoundRight
      <4>3. CASE q = r
        BY <3>4, <3>8, <4>1, <4>3
      <4>4. CASE q # r
        BY <3>8, <4>1, <4>2, <4>4
      <4> QED
        BY <4>3, <4>4
    <3>13. FoundRight'
      BY <3>11, <3>12 DEF FoundRight
    <3> QED
      BY <3>3, <3>6, <3>7, <3>13
  <2>16. CASE Rotate(r)
    <3>1. r \in Refreshes
      BY <2>16, StepKinds
    <3>2. Kinds' /\ pc' \in [Requests -> Labels]
      BY <2>16, <3>1, KindsMove, KindsAssumption DEF Rotate, Answer
    <3>4. Rotated(r) \in Records /\ Field(found[r], "sub") = None
      <4>1. found[r] \in Records
        BY <2>16, <3>1 DEF Rotate, FoundRight
      <4> QED
        BY <3>1, <4>1, NoSub, RecordFacts DEF Rotated
    <3>3. FoundRight'
      BY <2>16, FoundStays DEF Rotate, Answer
    <3> QED
      BY <2>16, <3>1, <3>2, <3>3, <3>4 DEF Rotate, Answer, TypeOK
  <2>17. CASE Purge(r)
    <3>1. r \in Refreshes
      BY <2>17, StepKinds
    <3>2. Kinds' /\ pc' \in [Requests -> Labels]
      BY <2>17, <3>1, KindsMove, KindsAssumption DEF Purge, Answer
    <3>3. FoundRight'
      BY <2>17, FoundStays DEF Purge, Answer
    <3> QED
      BY <2>17, <3>1, <3>2, <3>3 DEF Purge, Answer, TypeOK
  <2>18. CASE LogOut(r)
    <3>1. r \in LogOuts
      BY <2>18, StepKinds
    <3>2. Kinds' /\ pc' \in [Requests -> Labels]
      BY <2>18, <3>1, KindsMove, KindsAssumption DEF LogOut, Answer
    <3>3. FoundRight'
      BY <2>18, FoundStays DEF LogOut, Answer
    <3> QED
      BY <2>18, <3>1, <3>2, <3>3 DEF LogOut, Answer, TypeOK
  <2>19. CASE Fail(r)
    <3>1. Kinds' /\ pc' \in [Requests -> Labels]
      BY <2>19, KindsMove DEF Fail, Answer
    <3>2. FoundRight'
      BY <2>19, FoundStays DEF Fail, Answer
    <3> QED
      BY <2>19, <3>1, <3>2 DEF Fail, Answer, TypeOK
  <2>20. CASE ForgetFails(r)
    <3>1. Kinds' /\ pc' \in [Requests -> Labels]
      BY <2>20, StepKinds, KindsMove DEF ForgetFails
    <3>2. FoundRight'
      BY <2>20, FoundStays DEF ForgetFails
    <3> QED
      BY <2>20, <3>1, <3>2 DEF ForgetFails, TypeOK
  <2> QED
    BY <1>4, <2>1, <2>2, <2>3, <2>4, <2>5, <2>6, <2>7, <2>8, <2>9, <2>10, <2>11, <2>12, <2>13, <2>14, <2>15, <2>16, <2>17, <2>18, <2>19, <2>20
    DEF Progress
<1> QED
  BY <1>1, <1>2, <1>3, <1>4 DEF Next

(* TypeOK: each variable of the sessions ranges over the values the code   *)
(* gives it.                                                               *)
THEOREM AuthTyped == Spec => []TypeOK
<1>1. Init => Typed
  BY InitTyped
<1>2. Typed /\ [Next]_vars => Typed'
  BY NextTyped
<1>3. Typed => TypeOK
  BY DEF Typed
<1> QED
  BY <1>1, <1>2, <1>3, PTL DEF Spec

(* Only a verification that finds no account writes one.                   *)
LEMMA UsersStep ==
  ASSUME Typed, [Next]_vars, NEW e \in Emails, users[e] # None
  PROVE  users'[e] = users[e]
<1>1. UNCHANGED users \/ \E v \in Requests : CreateUser(v)
  BY DEF Next, vars, Progress, Fail, ForgetFails, StagingExpires, SessionExpires,
     CheckAddress, RefuseAddress, Stage, ReadStaged, NothingStaged, UserExists, ForgetStaged,
     MatchPassword, SignIn, RefuseSignIn, MatchOld, RefuseOld, ChangePassword,
     Present, SessionGone, HashNotFound, TokenMatches, TokenDiffers, Rotate, Purge, LogOut
<1>2. ASSUME NEW v \in Requests, CreateUser(v) PROVE users'[e] = users[e]
  BY <1>2 DEF CreateUser, AddressFree, Typed, TypeOK
<1> QED
  BY <1>1, <1>2

(* A step moves only the request that takes it.                            *)
Acts(r) == Progress(r) \/ Fail(r) \/ ForgetFails(r)

(* A request that is done takes none.                                      *)
LEMMA ActsBefore ==
  ASSUME NEW r \in Requests, Acts(r)
  PROVE  pc[r] # "done"
  BY DEF Acts, Progress, Fail, ForgetFails, CheckAddress, RefuseAddress, Stage, ReadStaged,
     NothingStaged, CreateUser, UserExists, ForgetStaged, MatchPassword, SignIn, RefuseSignIn,
     MatchOld, RefuseOld, ChangePassword, Present, Rotate, Purge, LogOut

(* A step writes the place of its request, and its answer if any.          *)
LEMMA ActsGo ==
  ASSUME NEW r \in Requests, Acts(r)
  PROVE  /\ \E l : Goto(r, l)
         /\ UNCHANGED answer \/ \E w : answer' = [answer EXCEPT ![r] = w]
<1>1. CASE Fail(r) \/ ForgetFails(r)
  BY <1>1 DEF Fail, ForgetFails, Answer, Goto
<1>2. CASE Progress(r)
  <2>1. CASE CheckAddress(r) \/ RefuseAddress(r) \/ Stage(r) \/ ReadStaged(r) \/ NothingStaged(r)
             \/ CreateUser(r) \/ UserExists(r) \/ ForgetStaged(r)
    BY <2>1 DEF CheckAddress, RefuseAddress, Stage, ReadStaged, NothingStaged, CreateUser,
       UserExists, ForgetStaged, Answer, Goto
  <2>2. CASE MatchPassword(r) \/ SignIn(r) \/ RefuseSignIn(r) \/ MatchOld(r) \/ RefuseOld(r)
             \/ ChangePassword(r)
    BY <2>2 DEF MatchPassword, SignIn, RefuseSignIn, MatchOld, RefuseOld, ChangePassword, Answer,
       Goto
  <2>3. CASE Present(r)
    BY <2>3 DEF Present, SessionGone, HashNotFound, TokenMatches, TokenDiffers, Answer, Goto
  <2>4. CASE Rotate(r) \/ Purge(r) \/ LogOut(r)
    BY <2>4 DEF Rotate, Purge, LogOut, Answer, Goto
  <2> QED
    BY <1>2, <2>1, <2>2, <2>3, <2>4 DEF Progress
<1> QED
  BY <1>1, <1>2 DEF Acts

(* It and no other has its place and its answer changed.                   *)
LEMMA OthersStay ==
  ASSUME Typed, [Next]_vars, NEW q \in Requests, ~ Acts(q)
  PROVE  pc'[q] = pc[q] /\ answer'[q] = answer[q]
<1>1. UNCHANGED <<pc, answer>> \/ \E r \in Requests : r # q /\ Acts(r)
  BY DEF Next, vars, StagingExpires, SessionExpires, Acts
<1>2. ASSUME NEW r \in Requests, r # q, Acts(r) PROVE pc'[q] = pc[q] /\ answer'[q] = answer[q]
  BY <1>2, ActsGo DEF Typed, TypeOK, Goto
<1> QED
  BY <1>1, <1>2

(* What a request of each kind may do.                                     *)
LEMMA ActsOfKind ==
  ASSUME Typed, NEW r \in Requests, Acts(r)
  PROVE  /\ r \in Changes => MatchOld(r) \/ RefuseOld(r) \/ ChangePassword(r) \/ Fail(r)
         /\ r \in Refreshes => Present(r) \/ Rotate(r) \/ Purge(r) \/ Fail(r)
         /\ r \in LogOuts => LogOut(r) \/ Fail(r)
         /\ r \in Sessions => MatchPassword(r) \/ SignIn(r) \/ RefuseSignIn(r) \/ Fail(r)
  BY StepKinds, KindsAssumption DEF Typed, Acts, Progress

(* A request that was answered for good takes no further step.             *)
LEMMA DoneStays ==
  ASSUME Typed, [Next]_vars, NEW q \in Requests, pc[q] = "done"
  PROVE  pc'[q] = "done" /\ answer'[q] = answer[q]
  BY ActsBefore, OthersStay

(* What is staged for an address was submitted with it.                    *)
LEMMA TempUserStep ==
  ASSUME Typed, [Next]_vars, NEW e \in Emails, tempUser'[e] # tempUser[e], tempUser'[e] # None
  PROVE  \E u \in SignUps : AddressOf[u] = e /\ tempUser'[e] = u
<1>1. PICK r \in Requests : Stage(r)
  BY DEF Typed, TypeOK, Next, vars, Progress, Fail, ForgetFails, StagingExpires, SessionExpires,
     CheckAddress, RefuseAddress, ReadStaged, NothingStaged, CreateUser, UserExists,
     ForgetStaged, MatchPassword, SignIn, RefuseSignIn, MatchOld, RefuseOld, ChangePassword,
     Present, SessionGone, HashNotFound, TokenMatches, TokenDiffers, Rotate, Purge, LogOut
<1>2. r \in SignUps
  BY <1>1, StepKinds DEF Typed
<1> QED
  BY <1>1, <1>2 DEF Stage, Typed, TypeOK

(* A verification inserts what it found staged for its address.            *)
LEMMA InsertStep ==
  ASSUME Typed, [Next]_vars, NEW v \in Verifies, pc'[v] = "insert"
  PROVE  \/ pc[v] = "insert" /\ found'[v] = found[v]
         \/ tempUser[LinkOf[v]] # None /\ found'[v] = tempUser[LinkOf[v]]
<1>1. ReadStaged(v) \/ pc[v] = "insert"
  BY DEF Typed, TypeOK, Next, vars, Progress, Fail, ForgetFails, StagingExpires, SessionExpires,
     CheckAddress, RefuseAddress, Stage, ReadStaged, NothingStaged, CreateUser, UserExists,
     ForgetStaged, MatchPassword, SignIn, RefuseSignIn, MatchOld, RefuseOld, ChangePassword,
     Present, SessionGone, HashNotFound, TokenMatches, TokenDiffers, Rotate, Purge, LogOut,
     Answer, Goto
<1>2. CASE ReadStaged(v)
  BY <1>2 DEF ReadStaged, Typed, TypeOK
<1>3. CASE ~ ReadStaged(v) /\ pc[v] = "insert"
  <2>1. \/ UNCHANGED found
        \/ \E q \in Requests : q # v /\ ReadStaged(q)
        \/ \E q \in Requests : Present(q)
    BY <1>3 DEF Next, vars, Progress, Fail, ForgetFails, StagingExpires, SessionExpires,
     CheckAddress, RefuseAddress, Stage, NothingStaged, CreateUser, UserExists,
     ForgetStaged, MatchPassword, SignIn, RefuseSignIn, MatchOld, RefuseOld, ChangePassword,
     Rotate, Purge, LogOut
  <2>2. ASSUME NEW q \in Requests, q # v, ReadStaged(q) PROVE found'[v] = found[v]
    BY <2>2 DEF ReadStaged, Typed, TypeOK
  <2>3. ASSUME NEW q \in Requests, Present(q) PROVE found'[v] = found[v]
    <3>1. q \in Refreshes /\ q # v
      BY <2>3, KindsAssumption DEF Present
    <3> QED
      BY <2>3, <3>1 DEF Present, SessionGone, HashNotFound, TokenMatches, TokenDiffers, Read,
         Typed, TypeOK
  <2> QED
    BY <1>3, <2>1, <2>2, <2>3
<1> QED
  BY <1>1, <1>2, <1>3

(* Passwords are written by verifications and by changes.                  *)
LEMMA PasswordStep ==
  ASSUME Typed, [Next]_vars
  PROVE  \/ UNCHANGED <<users, password>>
         \/ \E v \in Verifies : CreateUser(v)
         \/ \E w \in Changes : ChangePassword(w)
<1>1. \/ UNCHANGED <<users, password>>
      \/ \E r \in Requests : CreateUser(r) \/ ChangePassword(r)
  BY DEF Next, vars, Progress, Fail, ForgetFails, StagingExpires, SessionExpires,
     CheckAddress, RefuseAddress, Stage, ReadStaged, NothingStaged, UserExists, ForgetStaged,
     MatchPassword, SignIn, RefuseSignIn, MatchOld, RefuseOld,
     Present, SessionGone, HashNotFound, TokenMatches, TokenDiffers, Rotate, Purge, LogOut
<1> QED
  BY <1>1, StepKinds DEF Typed

(* A change of a password compares the old one first.                      *)
LEMMA ChangeStep ==
  ASSUME Typed, [Next]_vars, NEW w \in Changes
  PROVE  /\ pc'[w] = "change" => pc[w] = "change" \/ MatchOld(w)
         /\ answer'[w] = "accepted" => answer[w] = "accepted" \/ ChangePassword(w)
<1>1. CASE ~ Acts(w)
  BY <1>1, OthersStay
<1>2. CASE Acts(w)
  <2>1. MatchOld(w) \/ RefuseOld(w) \/ ChangePassword(w) \/ Fail(w)
    BY <1>2, ActsOfKind
  <2> QED
    BY <2>1 DEF MatchOld, RefuseOld, Fail, ChangePassword, Answer, Goto, Typed, TypeOK
<1> QED
  BY <1>1, <1>2

(***************************************************************************)
(* Passwords: what is staged for an address, found there and set for it    *)
(* was submitted with that address; a change that goes on has matched a    *)
(* password of its own address that was set before; and a password that a  *)
(* change replaced is not set again.                                       *)
(***************************************************************************)
StagedRight ==
    /\ \A e \in Emails : tempUser[e] # None => AddressOf[tempUser[e]] = e
    /\ \A v \in Verifies : pc[v] = "insert" => AddressOf[found[v]] = LinkOf[v]

PasswordsRight ==
    \A e \in Emails : password[e] # None =>
        /\ AddressOf[password[e]] = e /\ users[e] # None
        /\ password[e] \in Changes => pc[password[e]] = "done"

ChangesRight ==
    \A w \in Changes : pc[w] = "change" \/ answer[w] = "accepted" =>
        /\ users[AddressOf[w]] # None /\ AddressOf[OldOf[w]] = AddressOf[w]
        /\ OldOf[w] \in Changes => pc[OldOf[w]] = "done"

ReplacedGone ==
    \A w \in Changes : answer[w] = "accepted" => password[AddressOf[w]] # OldOf[w]

PasswordInv == StagedRight /\ PasswordsRight /\ ChangesRight /\ ReplacedGone

(***************************************************************************)
(* Sessions: a record holds the hash of its session's first token or none; *)
(* a refresh that goes on presented that token; and once a session was     *)
(* refreshed, purged or logged out its record holds no such hash again.    *)
(***************************************************************************)
HashesRight ==
    \A s \in Sessions : session[s] # None /\ Field(session[s], "hashedToken") # None =>
        Field(session[s], "hashedToken") = s

RotatesFirst ==
    \A r \in Refreshes : pc[r] = "rotate" \/ answer[r] = "accepted" =>
        presented[r] = SessionOf[r]

SessionsBegan ==
    /\ \A r \in Refreshes : pc[r] # "start" => pc[SessionOf[r]] = "done"
    /\ \A l \in LogOuts : pc[l] # "start" => pc[EndsOf[l]] = "done"

Barred == Closed \cup {SessionOf[r] : r \in {q \in Refreshes : answer[q] = "accepted"}}

BarredUnhashed ==
    \A s \in Barred : session[s] # None => Field(session[s], "hashedToken") = None

SessionInv == HashesRight /\ RotatesFirst /\ SessionsBegan /\ BarredUnhashed

(* At the start.                                                           *)
LEMMA InitPasswords == Init => PasswordInv /\ SessionInv
<1> SUFFICES ASSUME Init PROVE PasswordInv /\ SessionInv
  OBVIOUS
<1>1. PasswordInv
  BY DEF Init, PasswordInv, StagedRight, PasswordsRight, ChangesRight, ReplacedGone
<1>2. HashesRight /\ RotatesFirst /\ SessionsBegan
  BY DEF Init, HashesRight, RotatesFirst, SessionsBegan
<1>3. Barred = {}
  BY DEF Init, Barred, Closed
<1> QED
  BY <1>1, <1>2, <1>3 DEF SessionInv, BarredUnhashed

(* Staged data keeps its address until it is inserted.                     *)
LEMMA NextStaged == Typed /\ PasswordInv /\ [Next]_vars => StagedRight'
<1> SUFFICES ASSUME Typed, PasswordInv, [Next]_vars PROVE StagedRight'
  OBVIOUS
<1>1. ASSUME NEW e \in Emails, tempUser'[e] # None PROVE AddressOf[tempUser'[e]] = e
  BY <1>1, TempUserStep DEF PasswordInv, StagedRight
<1>2. ASSUME NEW v \in Verifies, pc'[v] = "insert" PROVE AddressOf[found'[v]] = LinkOf[v]
  BY <1>2, InsertStep DEF PasswordInv, StagedRight
<1> QED
  BY <1>1, <1>2 DEF StagedRight

(* A password that is set was submitted for its address.                   *)
LEMMA NextPasswords == Typed /\ PasswordInv /\ [Next]_vars => PasswordsRight'
<1> SUFFICES ASSUME Typed, PasswordInv, [Next]_vars,
                    NEW e \in Emails, password'[e] # None
             PROVE  /\ AddressOf[password'[e]] = e /\ users'[e] # None
                    /\ password'[e] \in Changes => pc'[password'[e]] = "done"
  BY DEF PasswordsRight
<1>1. CASE UNCHANGED <<users, password>>
  <2>1. password[e] \in Changes => pc'[password[e]] = "done"
    BY <1>1, DoneStays DEF PasswordInv, PasswordsRight
  <2> QED
    BY <1>1, <2>1 DEF PasswordInv, PasswordsRight
<1>2. ASSUME NEW v \in Verifies, CreateUser(v)
      PROVE  /\ AddressOf[password'[e]] = e /\ users'[e] # None
             /\ password'[e] \in Changes => pc'[password'[e]] = "done"
  <2>1. found[v] \in SignUps /\ AddressOf[found[v]] = LinkOf[v] /\ found[v] \notin Changes
    BY <1>2, KindsAssumption
    DEF CreateUser, Typed, FoundRight, PasswordInv, StagedRight
  <2>2. CASE e = LinkOf[v]
    <3>1. password'[e] = found[v] /\ users'[e] = found[v]
      BY <1>2, <2>2 DEF CreateUser, Typed, TypeOK
    <3> QED
      BY <2>1, <2>2, <3>1
  <2>3. CASE e # LinkOf[v]
    <3>1. password'[e] = password[e] /\ users'[e] = users[e]
      BY <1>2, <2>3 DEF CreateUser, Typed, TypeOK
    <3>2. password[e] \in Changes => pc'[password[e]] = "done"
      BY <3>1, DoneStays DEF PasswordInv, PasswordsRight
    <3> QED
      BY <3>1, <3>2 DEF PasswordInv, PasswordsRight
  <2> QED
    BY <2>2, <2>3
<1>3. ASSUME NEW w \in Changes, ChangePassword(w)
      PROVE  /\ AddressOf[password'[e]] = e /\ users'[e] # None
             /\ password'[e] \in Changes => pc'[password'[e]] = "done"
  <2>1. users[AddressOf[w]] # None
    BY <1>3 DEF ChangePassword, PasswordInv, ChangesRight
  <2>2. UNCHANGED users /\ pc'[w] = "done"
    BY <1>3 DEF ChangePassword, Answer, Goto, Typed, TypeOK
  <2>3. CASE e = AddressOf[w]
    <3>1. password'[e] = w
      BY <1>3, <2>3 DEF ChangePassword, Typed, TypeOK
    <3> QED
      BY <2>1, <2>2, <2>3, <3>1
  <2>4. CASE e # AddressOf[w]
    <3>1. password'[e] = password[e]
      BY <1>3, <2>4 DEF ChangePassword, Typed, TypeOK
    <3>2. password[e] \in Changes => pc'[password[e]] = "done"
      BY <3>1, DoneStays DEF PasswordInv, PasswordsRight
    <3> QED
      BY <2>2, <3>1, <3>2 DEF PasswordInv, PasswordsRight
  <2> QED
    BY <2>3, <2>4
<1> QED
  BY <1>1, <1>2, <1>3, PasswordStep

(* A change that goes on has matched a password of its own address.        *)
LEMMA NextChanges == Typed /\ PasswordInv /\ [Next]_vars => ChangesRight'
<1> SUFFICES ASSUME Typed, PasswordInv, [Next]_vars,
                    NEW w \in Changes, pc'[w] = "change" \/ answer'[w] = "accepted"
             PROVE  /\ users'[AddressOf[w]] # None /\ AddressOf[OldOf[w]] = AddressOf[w]
                    /\ OldOf[w] \in Changes => pc'[OldOf[w]] = "done"
  BY DEF ChangesRight
<1>1. CASE MatchOld(w)
  <2>1. password[AddressOf[w]] = OldOf[w] /\ OldOf[w] # None /\ UNCHANGED users
    BY <1>1 DEF MatchOld, IsPassword
  <2>2. /\ users[AddressOf[w]] # None /\ AddressOf[OldOf[w]] = AddressOf[w]
        /\ OldOf[w] \in Changes => pc[OldOf[w]] = "done"
    BY <2>1 DEF PasswordInv, PasswordsRight
  <2> QED
    BY <2>1, <2>2, DoneStays
<1>2. CASE pc[w] = "change" \/ answer[w] = "accepted"
  <2>1. /\ users[AddressOf[w]] # None /\ AddressOf[OldOf[w]] = AddressOf[w]
        /\ OldOf[w] \in Changes => pc[OldOf[w]] = "done"
    BY <1>2 DEF PasswordInv, ChangesRight
  <2> QED
    BY <2>1, DoneStays, UsersStep
<1> QED
  BY <1>1, <1>2, ChangeStep DEF ChangePassword

(* A password that was replaced is set no more.                            *)
LEMMA NextReplaced == Typed /\ PasswordInv /\ [Next]_vars => ReplacedGone'
<1> SUFFICES ASSUME Typed, PasswordInv, [Next]_vars,
                    NEW w \in Changes, answer'[w] = "accepted"
             PROVE  password'[AddressOf[w]] # OldOf[w]
  BY DEF ReplacedGone
<1> DEFINE e == AddressOf[w]
<1>1. pc[w] = "change" \/ answer[w] = "accepted"
  BY ChangeStep DEF ChangePassword
<1>2. /\ users[e] # None
      /\ OldOf[w] \in Changes => pc[OldOf[w]] = "done"
  BY <1>1 DEF PasswordInv, ChangesRight
<1>3. ASSUME NEW q \in Changes, ChangePassword(q), AddressOf[q] = e
      PROVE  password'[e] # OldOf[w]
  <2>1. password'[e] = q /\ pc[q] = "change"
    BY <1>3 DEF ChangePassword, Typed, TypeOK
  <2> QED
    BY <1>2, <2>1
<1>4. CASE ~ \E q \in Changes : ChangePassword(q) /\ AddressOf[q] = e
  <2>1. answer[w] = "accepted" /\ password[e] # OldOf[w]
    BY <1>4, ChangeStep DEF PasswordInv, ReplacedGone
  <2>2. ASSUME NEW v \in Verifies, CreateUser(v) PROVE password'[e] = password[e]
    BY <1>2, <2>2 DEF CreateUser, AddressFree, Typed, TypeOK
  <2>3. ASSUME NEW q \in Changes, ChangePassword(q) PROVE password'[e] = password[e]
    BY <1>4, <2>3 DEF ChangePassword, Typed, TypeOK
  <2> QED
    BY <2>1, <2>2, <2>3, PasswordStep
<1> QED
  BY <1>3, <1>4

(* A sign-in opens what it has compared, and only when it compares does    *)
(* it leave the start.                                                     *)
LEMMA OpensStep ==
  ASSUME Typed, [Next]_vars, NEW s \in Opened'
  PROVE  s \in Opened \/ MatchPassword(s)
<1>1. s \in Sessions /\ (pc'[s] = "open" \/ answer'[s] = "accepted")
  BY DEF Opened
<1>2. CASE ~ Acts(s)
  BY <1>1, <1>2, OthersStay DEF Opened
<1>3. CASE Acts(s)
  <2>1. MatchPassword(s) \/ SignIn(s) \/ RefuseSignIn(s) \/ Fail(s)
    BY <1>1, <1>3, ActsOfKind
  <2> QED
    BY <1>1, <2>1 DEF SignIn, RefuseSignIn, Fail, Answer, Goto, Opened, Typed, TypeOK
<1> QED
  BY <1>2, <1>3

(* What a change found compared is kept with it.                           *)
LEMMA AheadStays ==
  ASSUME Typed, [Next]_vars, NEW w \in Changes, ~ ChangePassword(w)
  PROVE  ahead'[w] = ahead[w]
<1>1. UNCHANGED ahead \/ \E r \in Requests : ChangePassword(r)
  BY DEF Next, vars, Progress, Fail, ForgetFails, StagingExpires, SessionExpires,
     CheckAddress, RefuseAddress, Stage, ReadStaged, NothingStaged, CreateUser, UserExists,
     ForgetStaged, MatchPassword, SignIn, RefuseSignIn, MatchOld, RefuseOld,
     Present, SessionGone, HashNotFound, TokenMatches, TokenDiffers, Rotate, Purge, LogOut
<1>2. ASSUME NEW r \in Requests, r # w, ChangePassword(r) PROVE ahead'[w] = ahead[w]
  BY <1>2 DEF ChangePassword, Typed, TypeOK
<1> QED
  BY <1>1, <1>2

(* ChangedPasswordEnds is kept: after the change the old password is gone  *)
(* for good, and whoever had compared it by then is ahead of the change.   *)
LEMMA NextEnds ==
  Typed /\ PasswordInv /\ ChangedPasswordEnds /\ [Next]_vars => ChangedPasswordEnds'
<1> SUFFICES ASSUME Typed, PasswordInv, ChangedPasswordEnds, [Next]_vars,
                    NEW w \in Changes, NEW s \in Opened',
                    answer'[w] = "accepted", OldOf[w] = ClaimOf[s]
             PROVE  s \in ahead'[w]
  BY DEF ChangedPasswordEnds
<1>1. s \in Sessions
  BY DEF Opened
<1>2. CASE ChangePassword(w)
  <2>1. ~ MatchPassword(s)
    <3>1. pc'[w] # pc[w]
      BY <1>2 DEF ChangePassword, Answer, Goto, Typed, TypeOK
    <3>2. MatchPassword(s) => pc'[w] = pc[w]
      BY <1>1, KindsAssumption DEF MatchPassword, Goto, Typed, TypeOK
    <3> QED
      BY <3>1, <3>2
  <2>2. pc[s] # "start"
    BY <1>1, <2>1, OpensStep DEF Opened, Typed, Kinds
  <2> QED
    BY <1>1, <1>2, <2>2 DEF ChangePassword, Typed, TypeOK
<1>3. CASE ~ ChangePassword(w)
  <2>1. answer[w] = "accepted" /\ ahead'[w] = ahead[w]
    BY <1>3, ChangeStep, AheadStays
  <2>2. ~ MatchPassword(s)
    <3>1. AddressOf[OldOf[w]] = AddressOf[w] /\ password[AddressOf[w]] # OldOf[w]
      BY <2>1 DEF PasswordInv, ChangesRight, ReplacedGone
    <3> QED
      BY <3>1 DEF MatchPassword, KnowsPassword, IsPassword, User
  <2>3. s \in Opened
    BY <2>2, OpensStep
  <2> QED
    BY <2>1, <2>3 DEF ChangedPasswordEnds
<1> QED
  BY <1>2, <1>3

(* ChangedPasswordEnds: whatever changes, verifications and sign-ins run   *)
(* beside a change of a password, a session that carries the old one was   *)
(* opened, or is about to be, by a sign-in that had compared it before the *)
(* change was written.                                                     *)
THEOREM AuthChangedPasswordEnds == Spec => []ChangedPasswordEnds
<1>1. Init => ChangedPasswordEnds
  BY DEF Init, ChangedPasswordEnds
<1>2. Typed /\ PasswordInv /\ [Next]_vars => PasswordInv'
  BY NextStaged, NextPasswords, NextChanges, NextReplaced DEF PasswordInv
<1> QED
  BY <1>1, <1>2, NextEnds, InitTyped, NextTyped, InitPasswords, PTL DEF Spec

(* What a step does to the record of a session.                            *)
LEMMA SessionStep ==
  ASSUME Typed, [Next]_vars, NEW s \in Sessions, session'[s] # session[s], session'[s] # None
  PROVE  \/ SignIn(s)
         \/ \E r \in Refreshes : Rotate(r) /\ SessionOf[r] = s
<1>1. \/ UNCHANGED session
      \/ \E r \in Requests : SignIn(r) \/ Rotate(r) \/ Purge(r) \/ LogOut(r)
      \/ \E q \in Sessions : SessionExpires(q)
  BY DEF Next, vars, Progress, Fail, ForgetFails, StagingExpires,
     CheckAddress, RefuseAddress, Stage, ReadStaged, NothingStaged, CreateUser, UserExists,
     ForgetStaged, MatchPassword, RefuseSignIn, MatchOld, RefuseOld, ChangePassword,
     Present, SessionGone, HashNotFound, TokenMatches, TokenDiffers
<1>2. PICK r \in Requests : SignIn(r) \/ Rotate(r)
  BY <1>1 DEF Purge, LogOut, SessionExpires, Typed, TypeOK
<1>3. CASE SignIn(r)
  <2>1. r = s
    BY <1>3 DEF SignIn, Typed, TypeOK
  <2> QED
    BY <1>3, <2>1
<1>4. CASE Rotate(r)
  <2>1. r \in Refreshes
    BY <1>4, StepKinds DEF Typed
  <2>2. SessionOf[r] = s
    BY <1>4, <2>1 DEF Rotate, Typed, TypeOK
  <2> QED
    BY <1>4, <2>1, <2>2
<1> QED
  BY <1>2, <1>3, <1>4

(* What sign-in and rotation leave in the record.                          *)
LEMMA SignInWrites ==
  ASSUME Typed, NEW s \in Sessions, SignIn(s)
  PROVE  Field(session'[s], "hashedToken") = s /\ pc[s] = "open"
  BY RecordFacts DEF SignIn, Typed, TypeOK, Field

(* Rotation keeps no hash under the name that the comparison reads.         *)
LEMMA RotateWrites ==
  ASSUME Typed, NEW r \in Refreshes, Rotate(r)
  PROVE  Field(session'[SessionOf[r]], "hashedToken") = None
<1>1. session'[SessionOf[r]] = Rotated(r)
  BY DEF Rotate, Typed, TypeOK
<1>2. found[r] \in Records
  BY DEF Rotate, Typed, FoundRight
<1>3. Field(found[r], "sub") = None
  BY <1>2, NoSub
<1>4. Rotated(r) = [userId |-> None, tokenHash |-> r]
  BY <1>3 DEF Rotated
<1>5. Field([userId |-> None, tokenHash |-> r], "hashedToken") = None
  BY RecordFacts
<1> QED
  BY <1>1, <1>4, <1>5

(* Which step admits, answers or begins a refresh, and begins a log-out.   *)
LEMMA RefreshStep ==
  ASSUME Typed, [Next]_vars, NEW r \in Refreshes
  PROVE  /\ pc'[r] = "rotate" => pc[r] = "rotate" \/ Present(r)
         /\ answer'[r] = "accepted" => answer[r] = "accepted" \/ Rotate(r)
         /\ answer'[r] = "breach" => answer[r] = "breach" \/ Purge(r)
         /\ pc'[r] # "start" => pc[r] # "start" \/ Present(r)
<1>1. CASE ~ Acts(r)
  BY <1>1, OthersStay
<1>2. CASE Acts(r)
  <2>1. Present(r) \/ Rotate(r) \/ Purge(r) \/ Fail(r)
    BY <1>2, ActsOfKind
  <2>2. Present(r) => answer'[r] \in {answer[r], "expired", "notfound"}
    BY DEF Present, SessionGone, HashNotFound, TokenMatches, TokenDiffers, Answer, Typed, TypeOK
  <2> QED
    BY <2>1, <2>2 DEF Rotate, Purge, Fail, Answer, Goto, Typed, TypeOK
<1> QED
  BY <1>1, <1>2

(* The same of a log-out.                                                  *)
LEMMA LogOutStep ==
  ASSUME Typed, [Next]_vars, NEW l \in LogOuts
  PROVE  /\ pc'[l] # "start" => pc[l] # "start" \/ LogOut(l)
         /\ answer'[l] = "accepted" => answer[l] = "accepted" \/ LogOut(l)
<1>1. CASE ~ Acts(l)
  BY <1>1, OthersStay
<1>2. CASE Acts(l)
  BY <1>2, ActsOfKind DEF Fail, Answer, Goto, Typed, TypeOK
<1> QED
  BY <1>1, <1>2

(* A token in the cookies of a session was issued by its sign-in or later. *)
LEMMA IssuedBegan ==
  ASSUME Typed, SessionInv, NEW s \in Sessions, Issued(s) # {}
  PROVE  pc[s] = "done"
<1>1. PICK t \in Tokens : answer[t] = "accepted"
                          /\ (t = s \/ (t \in Refreshes /\ SessionOf[t] = s))
  BY DEF Issued
<1>2. pc[t] \in {"forget", "done"}
  BY <1>1 DEF Typed, Kinds, Tokens, Requests
<1>3. CASE t = s
  BY <1>2, <1>3 DEF Typed, Kinds
<1>4. CASE t \in Refreshes /\ SessionOf[t] = s
  BY <1>2, <1>4 DEF SessionInv, SessionsBegan
<1> QED
  BY <1>1, <1>3, <1>4

(* A refresh and a log-out begin after the sign-in of their session.       *)
LEMMA NextBegan == Typed /\ SessionInv /\ [Next]_vars => SessionsBegan'
<1> SUFFICES ASSUME Typed, SessionInv, [Next]_vars PROVE SessionsBegan'
  OBVIOUS
<1>1. ASSUME NEW r \in Refreshes, pc'[r] # "start" PROVE pc'[SessionOf[r]] = "done"
  <2>1. pc[r] # "start" \/ Issued(SessionOf[r]) # {}
    BY <1>1, RefreshStep DEF Present
  <2> QED
    BY <2>1, IssuedBegan, DoneStays DEF SessionInv, SessionsBegan
<1>2. ASSUME NEW l \in LogOuts, pc'[l] # "start" PROVE pc'[EndsOf[l]] = "done"
  <2>1. pc[l] # "start" \/ Issued(EndsOf[l]) # {}
    BY <1>2, LogOutStep DEF LogOut
  <2> QED
    BY <2>1, IssuedBegan, DoneStays DEF SessionInv, SessionsBegan
<1> QED
  BY <1>1, <1>2 DEF SessionsBegan

(* A hash that a record holds is that of the session's first token.        *)
LEMMA NextHashes == Typed /\ SessionInv /\ [Next]_vars => HashesRight'
<1> SUFFICES ASSUME Typed, SessionInv, [Next]_vars, NEW s \in Sessions,
                    session'[s] # None, Field(session'[s], "hashedToken") # None
             PROVE  Field(session'[s], "hashedToken") = s
  BY DEF HashesRight, Field
<1>1. CASE session'[s] = session[s]
  BY <1>1 DEF SessionInv, HashesRight, Field
<1>2. CASE session'[s] # session[s]
  BY <1>2, SessionStep, SignInWrites, RotateWrites
<1> QED
  BY <1>1, <1>2

(* What a refresh that passes the comparison has presented.                *)
LEMMA Admits ==
  ASSUME Typed, SessionInv, NEW r \in Refreshes, Present(r), pc'[r] = "rotate"
  PROVE  /\ presented'[r] = SessionOf[r] /\ session[SessionOf[r]] # None
         /\ Field(session[SessionOf[r]], "hashedToken") # None
<1>1. PICK t \in Issued(SessionOf[r]) \cup {Damaged} : TokenMatches(r, t)
  BY DEF Present, SessionGone, HashNotFound, TokenDiffers, Answer, Goto, Typed, TypeOK
<1>2. t # None
  BY DEF Issued
<1>3. presented'[r] = t /\ Field(session[SessionOf[r]], "hashedToken") = t
      /\ session[SessionOf[r]] # None
  BY <1>1 DEF TokenMatches, Matches, Stored, Read, Typed, TypeOK
<1> QED
  BY <1>2, <1>3 DEF SessionInv, HashesRight

(* What a refresh presented stays.                                         *)
LEMMA PresentedStays ==
  ASSUME Typed, [Next]_vars, NEW r \in Refreshes, pc[r] # "start"
  PROVE  presented'[r] = presented[r]
<1>1. UNCHANGED presented \/ \E q \in Requests : Present(q)
  BY DEF Next, vars, Progress, Fail, ForgetFails, StagingExpires, SessionExpires,
     CheckAddress, RefuseAddress, Stage, ReadStaged, NothingStaged, CreateUser, UserExists,
     ForgetStaged, MatchPassword, SignIn, RefuseSignIn, MatchOld, RefuseOld, ChangePassword,
     Rotate, Purge, LogOut
<1> QED
  BY <1>1 DEF Present, SessionGone, HashNotFound, TokenMatches, TokenDiffers, Read, Typed, TypeOK

(* A refresh that goes on has presented the first token of its session.    *)
LEMMA NextRotates == Typed /\ SessionInv /\ [Next]_vars => RotatesFirst'
<1> SUFFICES ASSUME Typed, SessionInv, [Next]_vars, NEW r \in Refreshes,
                    pc'[r] = "rotate" \/ answer'[r] = "accepted"
             PROVE  presented'[r] = SessionOf[r]
  BY DEF RotatesFirst
<1>1. CASE pc[r] = "rotate" \/ answer[r] = "accepted"
  <2>1. pc[r] # "start"
    BY <1>1 DEF Typed, Kinds
  <2> QED
    BY <1>1, <2>1, PresentedStays DEF SessionInv, RotatesFirst
<1>2. CASE Present(r) /\ pc'[r] = "rotate"
  BY <1>2, Admits
<1> QED
  BY <1>1, <1>2, RefreshStep DEF Rotate

(* A session is barred when it is refreshed, purged or logged out.         *)
LEMMA BarredStep ==
  ASSUME Typed, [Next]_vars, NEW s \in Barred', s \notin Barred
  PROVE  \/ \E r \in Refreshes : SessionOf[r] = s /\ (Rotate(r) \/ Purge(r))
         \/ \E l \in LogOuts : EndsOf[l] = s /\ LogOut(l)
<1>1. \/ \E l \in LogOuts : answer'[l] = "accepted" /\ s = EndsOf[l]
      \/ \E r \in Refreshes : answer'[r] \in {"breach", "accepted"} /\ s = SessionOf[r]
  BY DEF Barred, Closed
<1>2. /\ \A l \in LogOuts : s = EndsOf[l] => answer[l] # "accepted"
      /\ \A r \in Refreshes : s = SessionOf[r] => answer[r] \notin {"breach", "accepted"}
  BY DEF Barred, Closed
<1> QED
  BY <1>1, <1>2, RefreshStep, LogOutStep

(* A session that is barred began, and so did every later request of it.   *)
LEMMA BarredBegan ==
  ASSUME Typed, SessionInv, NEW s \in Barred
  PROVE  s \in Sessions /\ pc[s] = "done"
<1>1. \/ \E l \in LogOuts : answer[l] = "accepted" /\ s = EndsOf[l]
      \/ \E r \in Refreshes : answer[r] \in {"breach", "accepted"} /\ s = SessionOf[r]
  BY DEF Barred, Closed
<1> QED
  BY <1>1 DEF Typed, Kinds, SessionInv, SessionsBegan

(* The record of a barred session holds no hash of a token again.          *)
LEMMA NextBarred == Typed /\ SessionInv /\ [Next]_vars => BarredUnhashed'
<1> SUFFICES ASSUME Typed, SessionInv, [Next]_vars, NEW s \in Barred', session'[s] # None
             PROVE  Field(session'[s], "hashedToken") = None
  BY DEF BarredUnhashed, Field
<1>1. CASE s \in Barred
  <2>1. s \in Sessions /\ pc[s] = "done"
    BY <1>1, BarredBegan
  <2>2. CASE session'[s] = session[s]
    BY <1>1, <2>2 DEF SessionInv, BarredUnhashed, Field
  <2>3. CASE session'[s] # session[s]
    BY <2>1, <2>3, SessionStep, SignInWrites, RotateWrites
  <2> QED
    BY <2>2, <2>3
<1>2. ASSUME NEW r \in Refreshes, SessionOf[r] = s, Rotate(r)
      PROVE  Field(session'[s], "hashedToken") = None
  BY <1>2, RotateWrites
<1>3. ASSUME NEW r \in Refreshes, SessionOf[r] = s, Purge(r) PROVE FALSE
  BY <1>3 DEF Purge, Typed, TypeOK
<1>4. ASSUME NEW l \in LogOuts, EndsOf[l] = s, LogOut(l) PROVE FALSE
  BY <1>4 DEF LogOut, Typed, TypeOK
<1> QED
  BY <1>1, <1>2, <1>3, <1>4, BarredStep

(* The inductive invariant of the sessions.                                *)
LEMMA NextSessions == Typed /\ SessionInv /\ [Next]_vars => SessionInv'
  BY NextBegan, NextHashes, NextRotates, NextBarred DEF SessionInv

(* A refresh that is admitted found the first token of a session that is   *)
(* not barred.                                                             *)
LEMMA AdmittedUnbarred ==
  ASSUME Typed, SessionInv, [Next]_vars, NEW r \in Admitted
  PROVE  presented'[r] = SessionOf[r] /\ SessionOf[r] \notin Barred
<1>1. r \in Refreshes /\ Present(r) /\ pc'[r] = "rotate"
  BY RefreshStep DEF Admitted
<1>2. /\ presented'[r] = SessionOf[r] /\ session[SessionOf[r]] # None
      /\ Field(session[SessionOf[r]], "hashedToken") # None
  BY <1>1, Admits
<1> QED
  BY <1>2 DEF SessionInv, BarredUnhashed

(* SpentStaysSpent: a token that was rotated away opens its session no     *)
(* more, even though refreshes and log-outs overwrite each other's record. *)
THEOREM AuthSpentStaysSpent == Spec => SpentStaysSpent
<1>1. Typed /\ SessionInv /\ [Next]_vars => (\A r \in Admitted : presented'[r] \notin Spent)
  <2> SUFFICES ASSUME Typed, SessionInv, [Next]_vars, NEW r \in Admitted,
                      NEW q \in Refreshes, answer[q] = "accepted", presented'[r] = presented[q]
               PROVE  FALSE
    BY DEF Spent
  <2>1. presented[q] = SessionOf[q] /\ SessionOf[q] \in Barred
    BY DEF SessionInv, RotatesFirst, Barred
  <2> QED
    BY <2>1, AdmittedUnbarred
<1> QED
  BY <1>1, InitTyped, NextTyped, InitPasswords, NextSessions, PTL DEF Spec, SpentStaysSpent

(* ClosedStaysClosed: a session that was logged out or purged refuses      *)
(* every later refresh, although a refresh that had read its record before *)
(* writes it back.                                                         *)
THEOREM AuthClosedStaysClosed == Spec => ClosedStaysClosed
<1>1. Typed /\ SessionInv /\ [Next]_vars => (\A r \in Admitted : SessionOf[r] \notin Closed)
  BY AdmittedUnbarred DEF Barred
<1> QED
  BY <1>1, InitTyped, NextTyped, InitPasswords, NextSessions, PTL DEF Spec, ClosedStaysClosed
=============================================================================

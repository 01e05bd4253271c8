------------------------------- MODULE Accounts -------------------------------
(***************************************************************************)
(* One account from its registration on: signing in, the lockout after     *)
(* wrong passwords, the one-time codes mailed for a verification, a second *)
(* factor or a reset (auth.service.ts), with what an admin or the user do  *)
(* to its status (users.service.ts) and the nightly cleanup                *)
(* (tasks.service.ts).                                                     *)
(*                                                                         *)
(* A request reads the user once and decides from that copy to its end,    *)
(* while others write.  The codes are rows under (email, type); mail is    *)
(* queued without waiting, so it may be lost.  A password is right or      *)
(* wrong, and the login history is kept as far as it is read: how many of  *)
(* the last rows are FAILED.                                               *)
(***************************************************************************)
EXTENDS Integers, FiniteSets

CONSTANTS
    Requests,     \* HTTP requests served at once
    Ops,          \* the operations these requests ask for
    Kinds,        \* how the account may be registered
    OtpType,      \* types of codes
    MaxAttempts,  \* FAILED rows in a row that block (3 in the code)
    MaxCodes      \* bound: codes ever generated

AllOps == {"signUp", "socialLogin", "signIn", "signInWeb", "resendOtp",
           "resend2fa", "forgotPassword", "verifyEmail", "verifyOtp",
           "verify2fa", "writePassword", "toggleTwoFactor"}

ASSUME AccountsAssumption ==
    /\ IsFiniteSet(Requests)
    /\ Ops \subseteq AllOps
    /\ Kinds \subseteq {"credentials", "social"}
    /\ {"VERIFY_EMAIL", "TWO_FACTOR"} \subseteq OtpType
    /\ MaxAttempts \in Nat \ {0} /\ MaxCodes \in Nat

VARIABLES
    user,     \* the User row, or NoUser; blocked: BLOCKED, and blockedUntil is to come
    failed,   \* FAILED rows that end the login history, MaxAttempts at most
    code,     \* code[t]: the UserOtp row of type t
    issued,   \* codes generated so far: their values are 1..issued
    request,  \* request[r]: where r stands
    used,     \* codes that were accepted
    lifted    \* a block was lifted, or a check died, since the last check
                  \* of a history that ends in MaxAttempts FAILED rows

accountVars == <<user, failed, code, issued, request, used, lifted>>

SignInOps == {"signIn", "signInWeb"}
UserStatus == {"ACTIVE", "BLOCKED", "SUSPENDED"}  \* the third: any other
Codes == 1..MaxCodes

NoUser == [kind |-> "none"]
User == [kind : Kinds, status : UserStatus, blocked : BOOLEAN,
         isEmailVerified : BOOLEAN, isTwoFactorEnabled : BOOLEAN]
(* An expired row answers every query as no row does: it is left out. *)
NoCode == [id |-> 0, mailed |-> FALSE]
Otp == [id : Codes \cup {0}, mailed : BOOLEAN]

(* What a request keeps of the user it read, besides its code and type. *)
Copy == [status : UserStatus, isEmailVerified : BOOLEAN,
         isTwoFactorEnabled : BOOLEAN]
Unread == [status |-> "ACTIVE", isEmailVerified |-> FALSE,
           isTwoFactorEnabled |-> FALSE]
Request == [op : AllOps, saw : Copy, code : Codes \cup {0}, type : OtpType,
            pc : {"create user", "unblock", "next", "compare", "check",
                  "block", "delete codes", "delete 2fa", "create code",
                  "mail", "tokens", "read user", "accept", "write"}]
Idle == [pc |-> "idle"]

AccountTypeOK ==
    /\ user \in User \cup {NoUser}
    /\ failed \in 0..MaxAttempts
    /\ code \in [OtpType -> Otp]
    /\ issued \in 0..MaxCodes
    /\ request \in [Requests -> Request \cup {Idle}]
    /\ used \subseteq Codes
    /\ lifted \in BOOLEAN

AccountsInit ==
    /\ user = NoUser
    /\ failed = 0
    /\ code = [t \in OtpType |-> NoCode]
    /\ issued = 0
    /\ request = [r \in Requests |-> Idle]
    /\ used = {}
    /\ lifted = FALSE

-----------------------------------------------------------------------------
(* Steps that several operations share. *)

Registered == user # NoUser

At(r, pc) == request[r].pc = pc

Serves(r, ops) == request[r].op \in ops

GoTo(r, pc) == request' = [request EXCEPT ![r].pc = pc]

Done(r) == request' = [request EXCEPT ![r] = Idle]

(* The last steps of a request look at nothing it has read, and once a code
   is to be issued only signIn goes on after the mail: all others are one. *)
GoToLast(r, pc) ==
    request' = [request EXCEPT ![r] =
                  [op |-> "signIn", pc |-> pc, saw |-> Unread, code |-> 0,
                   type |-> "VERIFY_EMAIL"]]

GoToIssue(r, pc, t) ==
    request' = [request EXCEPT ![r] =
                  IF @.op = "signIn"
                  THEN [@ EXCEPT !.pc = pc, !.type = t,
                                 !.saw = IF t = "TWO_FACTOR" THEN Unread
                                        ELSE request[r].saw]
                  ELSE [op |-> "resendOtp", pc |-> pc, saw |-> Unread,
                        code |-> 0, type |-> t]]

Begin(r, op, pc, saw, id) ==
    /\ At(r, "idle")
    /\ op \in Ops
    /\ request' = [request EXCEPT ![r] =
                     [op |-> op, pc |-> pc, saw |-> saw, code |-> id,
                      type |-> "VERIFY_EMAIL"]]

(* The part of the user an operation looks at again later. *)
CopyOf(u, op) ==
    [status |-> IF u.status = "BLOCKED" \/ op = "forgotPassword"
                THEN u.status ELSE "ACTIVE",
     isEmailVerified |-> op \in SignInOps /\ u.isEmailVerified,
     isTwoFactorEnabled |-> op \in SignInOps \cup {"toggleTwoFactor"}
                            /\ u.isTwoFactorEnabled]

(* The history grows by rows of one outcome. *)
logLoginAttempt(attempt) ==
    failed' = IF attempt # "FAILED" THEN 0
              ELSE IF failed < MaxAttempts THEN failed + 1 ELSE failed

DeleteAllCodes == code' = [t \in OtpType |-> NoCode]

(* Lifting a block counts while the rows say there should be one. *)
Lift(blocked) == lifted' = (lifted \/ (blocked /\ failed = MaxAttempts))

-----------------------------------------------------------------------------
(* Registration. *)

StartSignUp(r) ==
    /\ ~Registered
    /\ Begin(r, "signUp", "create user", Unread, 0)
    /\ UNCHANGED <<user, failed, code, issued, used, lifted>>

(* User, account, role and the first code are created in one transaction;
   of two at once the second fails on the unique email. *)
SignUp(r) ==
    /\ At(r, "create user") /\ Serves(r, {"signUp"})
    /\ IF Registered
       THEN /\ Done(r)
            /\ UNCHANGED <<user, code, issued>>
       ELSE /\ issued < MaxCodes
            /\ "credentials" \in Kinds
            /\ user' = [kind |-> "credentials", status |-> "ACTIVE",
                        blocked |-> FALSE, isEmailVerified |-> FALSE,
                        isTwoFactorEnabled |-> FALSE]
            /\ issued' = issued + 1
            /\ code' = [t \in OtpType |->
                          IF t = "VERIFY_EMAIL"
                          THEN [id |-> issued + 1, mailed |-> FALSE]
                          ELSE NoCode]
            /\ request' = [request EXCEPT ![r].pc = "mail",
                                          ![r].op = "resendOtp",
                                          ![r].code = issued + 1]
    /\ UNCHANGED <<failed, used, lifted>>

(* socialLogin creates a verified user without a password, or takes the one
   there is whatever its status. *)
SocialLogin(r) ==
    \/ /\ At(r, "idle") /\ "socialLogin" \in Ops
       /\ IF Registered THEN GoToLast(r, "tokens")
          ELSE Begin(r, "socialLogin", "create user", Unread, 0)
       /\ UNCHANGED <<user, failed, code, issued, used, lifted>>
    \/ /\ At(r, "create user") /\ Serves(r, {"socialLogin"})
       /\ IF Registered
          THEN Done(r) /\ UNCHANGED user
          ELSE /\ "social" \in Kinds
               /\ user' = [kind |-> "social", status |-> "ACTIVE",
                           blocked |-> FALSE, isEmailVerified |-> TRUE,
                           isTwoFactorEnabled |-> FALSE]
               /\ GoToLast(r, "tokens")
       /\ UNCHANGED <<failed, code, issued, used, lifted>>

-----------------------------------------------------------------------------
(* Reading the user and the gate of a blocked account. *)

GatedOps == {"signIn", "signInWeb", "resendOtp", "resend2fa",
             "forgotPassword"}

(* A slip: anything but ACTIVE counts as a block. *)
RunOutUnlessActive(u) == u.status # "ACTIVE" /\ ~u.blocked

RunOut(u) == u.status = "BLOCKED" /\ ~u.blocked

AfterGate(op) == IF op \in SignInOps THEN "compare" ELSE "next"

(* An account without a password is refused at sign-in, with a FAILED row;
   a block that still runs refuses; one that has run out is lifted next. *)
ReadUser(r, op) ==
    /\ Registered
    /\ \/ /\ op \in SignInOps /\ user.kind = "social"
          /\ At(r, "idle") /\ op \in Ops
          /\ logLoginAttempt("FAILED")
          /\ UNCHANGED request
       \/ /\ ~(op \in SignInOps /\ user.kind = "social")
          /\ ~(user.status = "BLOCKED" /\ user.blocked)
          /\ Begin(r, op, IF RunOut(user) THEN "unblock"
                          ELSE AfterGate(op), CopyOf(user, op), 0)
          /\ UNCHANGED failed
    /\ UNCHANGED <<user, code, issued, used, lifted>>

Unblocked(u) == [u EXCEPT !.status = "ACTIVE", !.blocked = FALSE]

Unblock(r) ==
    /\ At(r, "unblock")
    /\ user' = Unblocked(user)
    /\ Lift(user.status = "BLOCKED")
    /\ GoTo(r, AfterGate(request[r].op))
    /\ UNCHANGED <<failed, code, issued, used>>

(* What follows the gate, decided from the copy: forgotPassword refuses a
   copy that is not ACTIVE even when it has just lifted the block, and an
   account without a password; resend2fa refuses while a code still runs. *)
PastGate(r) ==
    /\ At(r, "next")
    /\ LET refused ==
             \/ /\ Serves(r, {"forgotPassword"})
                /\ \/ request[r].saw.status # "ACTIVE"
                   \/ user.kind = "social"
             \/ /\ Serves(r, {"resend2fa"})
                /\ code["TWO_FACTOR"] # NoCode
       IN  IF refused THEN Done(r)
           ELSE \E t \in OtpType :
                  /\ Serves(r, {"resend2fa"}) => t = "TWO_FACTOR"
                  /\ Serves(r, {"forgotPassword"}) => t = "VERIFY_EMAIL"
                  /\ GoToIssue(r, "delete codes", t)
    /\ UNCHANGED <<user, failed, code, issued, used, lifted>>

-----------------------------------------------------------------------------
(* Signing in. *)

(* Where a sign-in goes after the right password, and after the mail of a
   verification code, with which signInWeb ends. *)
NextFactor(r) ==
    IF request[r].saw.isTwoFactorEnabled
    THEN GoToIssue(r, "delete 2fa", "TWO_FACTOR")
    ELSE GoToLast(r, "tokens")

Compare(r) ==
    /\ At(r, "compare")
    /\ \/ /\ logLoginAttempt("FAILED")
          /\ GoToLast(r, "check")
       \/ /\ IF request[r].saw.isEmailVerified THEN NextFactor(r)
             ELSE GoToIssue(r, "delete codes", "VERIFY_EMAIL")
          /\ UNCHANGED failed
    /\ UNCHANGED <<user, code, issued, used, lifted>>

(* checkLoginAttempts reads the last rows, then blocks. *)
(* A slip: more than the attempts read, which never happens. *)
TooManyByOne == failed > MaxAttempts

TooMany == failed = MaxAttempts

(* A slip: the status of the same meaning that no sign-in looks for. *)
LockedByName(u) == [u EXCEPT !.status = "LOCKED", !.blocked = TRUE]

Locked(u) == [u EXCEPT !.status = "BLOCKED", !.blocked = TRUE]

CheckAttempts(r) ==
    /\ At(r, "check")
    /\ IF TooMany THEN GoTo(r, "block") ELSE Done(r)
    /\ lifted' = FALSE
    /\ UNCHANGED <<user, failed, code, issued, used>>

Block(r) ==
    /\ At(r, "block")
    /\ user' = Locked(user)
    /\ Done(r)
    /\ UNCHANGED <<failed, code, issued, used, lifted>>

(* The tokens of a sign-in: its row in the history.  (The refresh token is
   stored with the account and compared with nothing.) *)
Succeed(r) ==
    /\ At(r, "tokens")
    /\ logLoginAttempt("SUCCESS")
    /\ lifted' = FALSE
    /\ Done(r)
    /\ UNCHANGED <<user, code, issued, used>>

-----------------------------------------------------------------------------
(* Issuing a code: delete, create, mail.  Every issuer deletes the codes of
   all types, except for the second factor of a sign-in. *)

DeleteCodes(r) ==
    /\ At(r, "delete codes")
    /\ DeleteAllCodes
    /\ GoTo(r, "create code")
    /\ UNCHANGED <<user, failed, issued, used, lifted>>

DeleteTwoFactor(r) ==
    /\ At(r, "delete 2fa")
    /\ code' = [code EXCEPT !["TWO_FACTOR"] = NoCode]
    /\ GoTo(r, "create code")
    /\ UNCHANGED <<user, failed, issued, used, lifted>>

(* Two issuers at once: the second creation fails on (email, type). *)
CreateCode(r) ==
    /\ At(r, "create code")
    /\ LET t == request[r].type
       IN  IF code[t] # NoCode
           THEN /\ Done(r)
                /\ UNCHANGED <<code, issued>>
           ELSE /\ issued < MaxCodes
                /\ issued' = issued + 1
                /\ code' = [code EXCEPT ![t] = [id |-> issued + 1,
                                                mailed |-> FALSE]]
                /\ request' = [request EXCEPT ![r].pc = "mail",
                                              ![r].code = issued + 1]
    /\ UNCHANGED <<user, failed, used, lifted>>

(* The queue is not waited for: the mail may be lost without a word. *)
AfterMail(r) ==
    CASE Serves(r, {"signIn"}) /\ request[r].type = "VERIFY_EMAIL" ->
             NextFactor(r)
      [] Serves(r, {"signIn"}) /\ request[r].type # "VERIFY_EMAIL" ->
             GoToLast(r, "tokens")
      [] OTHER -> Done(r)

Mail(r) ==
    /\ At(r, "mail")
    /\ \/ code' = [t \in OtpType |->
                     IF code[t].id = request[r].code
                     THEN [code[t] EXCEPT !.mailed = TRUE] ELSE code[t]]
       \/ UNCHANGED code
    /\ AfterMail(r)
    /\ UNCHANGED <<user, failed, issued, used, lifted>>

-----------------------------------------------------------------------------
(* Answering with a code.  None of the three asks for the type. *)

Valid(c) == \E t \in OtpType : code[t] = [id |-> c, mailed |-> TRUE]

FindCode(r, op, c) ==
    /\ Valid(c)
    /\ Begin(r, op, IF op = "verifyEmail" THEN "accept" ELSE "read user",
             Unread, c)
    /\ UNCHANGED <<user, failed, code, issued, used, lifted>>

ReadOwner(r) ==
    /\ At(r, "read user")
    /\ IF user.status = "ACTIVE" THEN GoTo(r, "accept") ELSE Done(r)
    /\ UNCHANGED <<user, failed, code, issued, used, lifted>>

(* A slip: the codes of the second factor only. *)
DropTwoFactor == code' = [code EXCEPT !["TWO_FACTOR"] = NoCode]

DropCodes == DeleteAllCodes

(* verifyEmail makes the account ACTIVE whatever it has become. *)
AcceptCode(r) ==
    /\ At(r, "accept")
    /\ DropCodes
    /\ used' = used \cup {request[r].code}
    /\ IF Serves(r, {"verifyEmail"})
       THEN /\ user' = [user EXCEPT !.status = "ACTIVE",
                                    !.blocked = FALSE,
                                    !.isEmailVerified = TRUE]
            /\ Lift(user.status = "BLOCKED")
       ELSE UNCHANGED <<user, lifted>>
    /\ IF Serves(r, {"verify2fa"}) THEN GoToLast(r, "tokens") ELSE Done(r)
    /\ UNCHANGED <<failed, issued>>

-----------------------------------------------------------------------------
(* Operations of a user who is signed in, or holds the token of a reset. *)

StartSigned(r, op) ==
    /\ Registered
    /\ op \in {"writePassword", "toggleTwoFactor"}
    /\ op # "toggleTwoFactor" => user.status = "ACTIVE"
    /\ Begin(r, op, "write", CopyOf(user, op), 0)
    /\ UNCHANGED <<user, failed, code, issued, used, lifted>>

(* changePassword and resetPassword leave a RESET_PASSWORD row; the toggle
   writes the negation of what it read. *)
WriteUser(r) ==
    /\ At(r, "write")
    /\ IF Serves(r, {"writePassword"})
       THEN /\ logLoginAttempt("RESET_PASSWORD")
            /\ lifted' = FALSE
            /\ UNCHANGED user
       ELSE /\ user' = [user EXCEPT !.isTwoFactorEnabled =
                          ~request[r].saw.isTwoFactorEnabled]
            /\ UNCHANGED <<failed, lifted>>
    /\ Done(r)
    /\ UNCHANGED <<code, issued, used>>

(* An admin writes any status; deleting the account writes one that is
   neither ACTIVE nor BLOCKED.  BLOCKED finds blockedUntil as it was left,
   past or to come; no other status looks at it. *)
ToggleStatus(s, until) ==
    /\ Registered
    /\ until => s = "BLOCKED"
    /\ user' = [user EXCEPT !.status = s, !.blocked = until]
    /\ Lift(user.status = "BLOCKED")
    /\ UNCHANGED <<failed, code, issued, request, used>>

-----------------------------------------------------------------------------
(* Time, the nightly cleanup and dying requests. *)

BlockRunsOut ==
    /\ Registered /\ user.blocked
    /\ user' = [user EXCEPT !.blocked = FALSE]
    /\ UNCHANGED <<failed, code, issued, request, used, lifted>>

CodeExpires(t) ==
    /\ code[t] # NoCode
    /\ code' = [code EXCEPT ![t] = NoCode]
    /\ UNCHANGED <<user, failed, issued, request, used, lifted>>

(* projectCleanup deletes expired codes and, from the old end, rows of the
   login history. *)
projectCleanup ==
    /\ \E n \in 0..failed : failed' = n /\ lifted' = (lifted /\ n = failed)
    /\ UNCHANGED <<user, code, issued, request, used>>

(* The process dies, or a query of the request fails. *)
Dies(r) ==
    /\ ~At(r, "idle")
    /\ Lift(request[r].pc \in {"check", "block"})
    /\ Done(r)
    /\ UNCHANGED <<user, failed, code, issued, used>>

Step(r) ==
    \/ StartSignUp(r) \/ SignUp(r) \/ SocialLogin(r)
    \/ \E op \in GatedOps : ReadUser(r, op)
    \/ Unblock(r) \/ PastGate(r)
    \/ Compare(r) \/ CheckAttempts(r) \/ Block(r) \/ Succeed(r)
    \/ DeleteCodes(r) \/ DeleteTwoFactor(r) \/ CreateCode(r) \/ Mail(r)
    \/ \E op \in {"verifyEmail", "verifyOtp", "verify2fa"}, c \in Codes :
         FindCode(r, op, c)
    \/ ReadOwner(r) \/ AcceptCode(r)
    \/ \E op \in AllOps : StartSigned(r, op)
    \/ WriteUser(r) \/ Dies(r)

AccountsNext ==
    \/ \E r \in Requests : Step(r)
    \/ \E s \in UserStatus, until \in BOOLEAN : ToggleStatus(s, until)
    \/ BlockRunsOut
    \/ \E t \in OtpType : CodeExpires(t)
    \/ projectCleanup

AccountsSpec == AccountsInit /\ [][AccountsNext]_accountVars

-----------------------------------------------------------------------------
(* Properties. *)

(* A code that was accepted is gone: it answers no later request, although
   the endpoints look it up and delete it in different steps, take codes of
   any type, and codes are issued meanwhile.  (Two that found it before
   either deleted it both accept it.) *)
UsedCodesAreGone == \A t \in OtpType : code[t].id \notin used

(* The lockout comes: once the last rows are FAILED and no request is about
   to look at them, the account is not ACTIVE, unless a block was lifted
   since, by time, an admin or a verified code, or a check died. *)
LockoutComes ==
    /\ Registered /\ user.kind = "credentials"
    /\ failed = MaxAttempts
    /\ ~lifted
    /\ \A r \in Requests : request[r].pc \notin {"check", "block"}
    => user.status # "ACTIVE"

(* A suspended or deleted account comes back by an admin or a verified
   code, or by a request that read it while it was blocked and writes late:
   never by one that read the suspension. *)
SuspensionStands ==
    [][ /\ Registered /\ user.status = "SUSPENDED"
        /\ user'.status = "ACTIVE"
        => \/ \E r \in Requests :
                /\ ~At(r, "idle")
                /\ request'[r] # request[r]
                /\ \/ Serves(r, {"verifyEmail"})
                   \/ request[r].saw.status = "BLOCKED"
           \/ UNCHANGED request ]_accountVars
=============================================================================

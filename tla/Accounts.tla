------------------------------ MODULE Accounts ------------------------------
(***************************************************************************)
(* Accounts and the codes that reset their passwords: the requests login,  *)
(* register, send-verification-code and reset-password of auth_routes.py,  *)
(* with AuthService, EmailService, the users collection and the Redis      *)
(* cache behind them.  Every await is a step: a request reads a user or a  *)
(* cache entry, and what it writes later is what it read.                  *)
(*                                                                         *)
(* A document of the collection is a password: the other fields change at  *)
(* no operation a request can reach, since get_current_user makes every    *)
(* caller the user "anonymous", which has no document and is no admin.     *)
(* Codes are numbered in the order they are mailed; 0 is a wrong code.     *)
(***************************************************************************)
EXTENDS Integers, Sequences, FiniteSets, TLC

CONSTANTS Emails, Passwords, Requests,
          Kinds,       \* the requests of this instance
          Resend,      \* 60 seconds, in ticks
          Expiry,      \* VERIFICATION_CODE_EXPIRY_SECONDS, in ticks
          Serial,      \* one request at a time
          CacheFails,  \* commands of the cache may fail
          MaxMails, MaxClock,
          None

AccountsAssumption ==
    /\ Kinds \subseteq {"login", "register", "send", "verify"}
    /\ Resend \in Nat \ {0} /\ Expiry \in Nat \ {0} /\ Resend < Expiry
    /\ MaxMails \in Nat /\ MaxClock \in Nat
    /\ Serial \in BOOLEAN /\ CacheFails \in BOOLEAN
    /\ None \notin Passwords

VARIABLES
    users,     \* the users collection: the password of each e-mail
    cache,     \* the entry of each e-mail's verification code
    clock,
    mails,     \* the mails sent: code -> its e-mail and time
    req,       \* the requests
    given,     \* history: the passwords a registration or an accepted code gave
    created,   \* history: the registrations answered with success
    accepted,  \* history: the codes accepted, with the time
    tries,     \* history: how often a code was compared before its last second
    reset      \* history: the password of the last successful reset

vars == <<users, cache, clock, mails, req, given, created, accepted, tries, reset>>

Symmetry == Permutations(Requests)

Codes == DOMAIN mails

Entry == [code : 1..MaxMails, at : Nat, expires : Nat, attempts : 0..3, dies : Nat]
Pc == {"idle", "login", "relogin", "register", "insert", "send", "check", "store",
       "verify", "forget", "drop", "note", "reset", "rewrite", "done"}

Idle == [pc |-> "idle", email |-> None, password |-> None, code |-> 0,
         entry |-> None, ttl |-> 0]

Init == /\ users \in [Emails -> Passwords \cup {None}]
        /\ cache = [e \in Emails |-> None]
        /\ clock = 0 /\ mails = <<>>
        /\ req = [r \in Requests |-> Idle]
        /\ given = [e \in Emails |-> {users[e]} \ {None}]
        /\ created = [e \in Emails |-> 0]
        /\ accepted = {} /\ tries = <<>>
        /\ reset = [e \in Emails |-> None]

Goto(r, pc) == req' = [req EXCEPT ![r].pc = pc]
At(r, pc) == req[r].pc = pc
Answer(r) == req' = [req EXCEPT ![r] = [Idle EXCEPT !.pc = "done"]]

\* What cache.get returns: nothing after the TTL, and nothing on an error.
CacheGet(e) == (IF cache[e] # None /\ clock <= cache[e].dies THEN {cache[e]} ELSE {None})
               \cup (IF CacheFails THEN {None} ELSE {})
\* cache.set and cache.delete answer False on an error, which no caller looks at.
CachePut(e, entry) == \/ cache' = [cache EXCEPT ![e] = entry]
                      \/ CacheFails /\ UNCHANGED cache

(* Requests and time. *)

Start(r, kind, e, p, c) ==
    /\ At(r, "idle") /\ kind \in Kinds
    /\ Serial => \A s \in Requests : req[s].pc \in {"idle", "done"}
    /\ req' = [req EXCEPT ![r] = [Idle EXCEPT !.pc = kind, !.email = e,
                                              !.password = p, !.code = c]]
    /\ UNCHANGED <<users, cache, clock, mails, given, created, accepted, tries, reset>>

Tick == /\ clock < MaxClock /\ clock' = clock + 1
        /\ UNCHANGED <<users, cache, mails, req, given, created, accepted, tries, reset>>

(* login_with_tokens: the user is read and checked, and written back whole *)
(* with the time of the login.                                             *)

Login(r) ==
    /\ At(r, "login")
    /\ IF users[req[r].email] = req[r].password THEN Goto(r, "relogin") ELSE Answer(r)
    /\ UNCHANGED <<users, cache, clock, mails, given, created, accepted, tries, reset>>

UpdateLogin(r) ==
    /\ At(r, "relogin") /\ Answer(r)
    /\ users' = [users EXCEPT ![req[r].email] = req[r].password]
    /\ UNCHANGED <<cache, clock, mails, given, created, accepted, tries, reset>>

(* register_user: email_exists, then the insertion under the unique index. *)

EmailExists(r) ==
    /\ At(r, "register")
    /\ IF users[req[r].email] = None THEN Goto(r, "insert") ELSE Answer(r)
    /\ UNCHANGED <<users, cache, clock, mails, given, created, accepted, tries, reset>>

Insert(r) ==
    LET e == req[r].email IN
    /\ At(r, "insert") /\ Answer(r)
    /\ IF users[e] = None
       THEN /\ users' = [users EXCEPT ![e] = req[r].password]
            /\ given' = [given EXCEPT ![e] = @ \cup {req[r].password}]
            /\ created' = [created EXCEPT ![e] = @ + 1]
       ELSE UNCHANGED <<users, given, created>>
    /\ UNCHANGED <<cache, clock, mails, accepted, tries, reset>>

(* send_verification_code: the user, the entry, the mail, the new entry.   *)
(* The mail is sent without an await, so nothing runs between the look at  *)
(* the entry and the mail.                                                 *)

CheckUser(r) ==
    /\ At(r, "send")
    /\ IF users[req[r].email] # None THEN Goto(r, "check") ELSE Answer(r)
    /\ UNCHANGED <<users, cache, clock, mails, given, created, accepted, tries, reset>>

TooSoon(entry) == entry # None /\ clock - entry.at < Resend

Mail(r) ==
    LET e == req[r].email  c == Len(mails) + 1 IN
    /\ At(r, "check")
    /\ \E old \in CacheGet(e) :
        \/ /\ ~TooSoon(old) /\ c <= MaxMails
           /\ mails' = Append(mails, [email |-> e, at |-> clock])
           /\ tries' = Append(tries, 0)
           /\ req' = [req EXCEPT ![r].pc = "store", ![r].entry =
                [code |-> c, at |-> clock, expires |-> clock + Expiry, attempts |-> 0, dies |-> 0]]
        \/ Answer(r) /\ UNCHANGED <<mails, tries>>      \* too soon, or SMTP fails
    /\ UNCHANGED <<users, cache, clock, given, created, accepted, reset>>

Store(r) ==
    /\ At(r, "store") /\ Answer(r)
    /\ CachePut(req[r].email, [req[r].entry EXCEPT !.dies = clock + Expiry])
    /\ UNCHANGED <<users, clock, mails, given, created, accepted, tries, reset>>

(* verify_code: after the entry is read nothing is awaited until the next  *)
(* command of the cache.                                                   *)

Exhausted(entry) == entry.attempts >= 3

\* What a failed attempt writes back; the mutant counts down.
NotedDown(entry) == [entry EXCEPT !.attempts = @ - 1]
Noted(entry) == [entry EXCEPT !.attempts = @ + 1]

Verify(r) ==
    /\ At(r, "verify")
    /\ \E entry \in CacheGet(req[r].email) :
        \/ /\ entry = None
           /\ Answer(r) /\ UNCHANGED <<accepted, given, tries>>
        \/ /\ entry # None /\ (clock > entry.expires \/ Exhausted(entry))
           /\ Goto(r, "drop") /\ UNCHANGED <<accepted, given, tries>>
        \/ /\ entry # None /\ clock <= entry.expires /\ ~Exhausted(entry)
           /\ tries' = [tries EXCEPT ![entry.code] = @ + IF clock < entry.expires THEN 1 ELSE 0]
           /\ \/ /\ req[r].code = entry.code
                 /\ accepted' = accepted \cup {[code |-> entry.code, at |-> clock]}
                 /\ given' = [given EXCEPT ![req[r].email] = @ \cup {req[r].password}]
                 /\ Goto(r, "forget")
              \/ /\ req[r].code # entry.code /\ UNCHANGED <<accepted, given>>
                 /\ IF clock < entry.expires
                    THEN req' = [req EXCEPT ![r].pc = "note", ![r].entry = Noted(entry),
                                            ![r].ttl = entry.expires - clock]
                    ELSE Answer(r)
    /\ UNCHANGED <<users, cache, clock, mails, created, reset>>

\* Mutant of Forget: a reset goes on after too many attempts.
ForgetAndReset(r) ==
    /\ req[r].pc \in {"forget", "drop"}
    /\ CachePut(req[r].email, None) /\ Goto(r, "reset")
    /\ UNCHANGED <<users, clock, mails, given, created, accepted, tries, reset>>

Forget(r) ==
    /\ req[r].pc \in {"forget", "drop"}
    /\ CachePut(req[r].email, None)
    /\ IF At(r, "forget") THEN Goto(r, "reset") ELSE Answer(r)
    /\ UNCHANGED <<users, clock, mails, given, created, accepted, tries, reset>>

NoteAttempt(r) ==
    /\ At(r, "note") /\ Answer(r)
    /\ CachePut(req[r].email, [req[r].entry EXCEPT !.dies = clock + req[r].ttl])
    /\ UNCHANGED <<users, clock, mails, given, created, accepted, tries, reset>>

(* reset_password: the user is read, and written back whole.               *)

ReadUser(r) ==
    /\ At(r, "reset")
    /\ IF users[req[r].email] # None THEN Goto(r, "rewrite") ELSE Answer(r)
    /\ UNCHANGED <<users, cache, clock, mails, given, created, accepted, tries, reset>>

ResetPassword(r) ==
    LET e == req[r].email IN
    /\ At(r, "rewrite") /\ Answer(r)
    /\ users' = [users EXCEPT ![e] = req[r].password]
    /\ reset' = [reset EXCEPT ![e] = req[r].password]
    /\ UNCHANGED <<cache, clock, mails, given, created, accepted, tries>>

Next ==
    \/ Tick
    \/ \E r \in Requests :
        \/ \E kind \in {"login", "register"}, e \in Emails, p \in Passwords : Start(r, kind, e, p, 0)
        \/ \E e \in Emails : Start(r, "send", e, None, 0)
        \/ \E e \in Emails, p \in Passwords, c \in Codes \cup {0} : Start(r, "verify", e, p, c)
        \/ Login(r) \/ UpdateLogin(r) \/ EmailExists(r) \/ Insert(r)
        \/ CheckUser(r) \/ Mail(r) \/ Store(r)
        \/ Verify(r) \/ Forget(r) \/ NoteAttempt(r) \/ ReadUser(r) \/ ResetPassword(r)

Spec == Init /\ [][Next]_vars

(***************************************************************************)
(* Properties                                                              *)
(***************************************************************************)

\* Type correctness; a stored entry never counts more than three attempts.
TypeOK ==
    /\ users \in [Emails -> Passwords \cup {None}]
    /\ \A e \in Emails : cache[e] # None => cache[e] \in Entry
    /\ clock \in 0..MaxClock
    /\ \A c \in Codes : mails[c].email \in Emails /\ mails[c].at \in 0..clock
    /\ \A r \in Requests : req[r].pc \in Pc /\ req[r].code \in 0..MaxMails

\* Requests that race never give an account away.  Of registrations for one
\* e-mail at most one succeeds, although email_exists is tested before the
\* insertion; a password is one its registration or a reset with an accepted code
\* gave it, whichever request writes back the document it read; and a code is
\* accepted in the five minutes of its life only, although failed attempts write
\* the entry back with a TTL of their own.
OneAccount       == \A e \in Emails : created[e] <= 1
PasswordWasGiven == \A e \in Emails : users[e] # None => users[e] \in given[e]
ExpiresOnTime    == \A a \in accepted : a.at <= mails[a.code].at + Expiry
AccountsKept     == OneAccount /\ PasswordWasGiven /\ ExpiresOnTime

\* The newest code mailed to an e-mail, that nothing was compared with yet, is
\* the one that is stored until it expires ("This code will expire in 5 minutes").
Newest(c) == \A d \in Codes : mails[d].email = mails[c].email => d <= c
Storing(c) == \E r \in Requests : At(r, "store") /\ req[r].entry.code = c
NewestStays ==
    \A c \in Codes :
        (Newest(c) /\ ~Storing(c) /\ tries[c] = 0 /\ clock < mails[c].at + Expiry)
        => cache[mails[c].email] # None /\ cache[mails[c].email].code = c

\* "Password reset successfully": the password of the last reset that was
\* answered with success is the account's.
ResetSticks == \A e \in Emails : reset[e] # None => users[e] = reset[e]
=============================================================================

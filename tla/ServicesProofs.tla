---------------------------- MODULE ServicesProofs ----------------------------
(***************************************************************************)
(* What the services promise, for every set of addresses, requests, chats,   *)
(* files, pages and servers, and every bound: each component has an inductive *)
(* invariant, and a step of one leaves the variables of the others alone.     *)
(***************************************************************************)
EXTENDS MCServices, FiniteSetTheorems, SequenceTheorems, TLAPS

-----------------------------------------------------------------------------
(* Tokens of the web client (TokenRefresh)                                  *)
(*                                                                         *)
(* That one refresh serves all who wait for it needs no strengthening but   *)
(* the type of the calls: an action of a request leaves the sets of those    *)
(* that lead and of those that wait as they were, but for the one that joins  *)
(* them.  That the tokens are the user's needs that the refresh on its way is. *)

Waits == {c \in All : call[c].pc = "waits"}

\* The refresh on its way is for the user the tab shows.
FlightIsTheUsers == Tight => TokensAreTheUsers /\ flight \in {None, user}

IInv == TypeOK /\ WaitersHaveALeader /\ FlightIsTheUsers

\* The variables keep their types, whatever the server answers.
LEMMA TypeStep == TypeOK /\ [Next]_vars => TypeOK'
<1> SUFFICES ASSUME TypeOK, [Next]_vars PROVE TypeOK'
  OBVIOUS
<1> USE RefreshAssumption DEF TypeOK, Tokens, Ends, NoCall
<1>1. ASSUME NEW u \in People, Login(u) PROVE TypeOK'
  BY <1>1 DEF Login, Issue
<1>2. CASE Logout
  BY <1>2 DEF Logout, Cleared
<1>3. CASE Expire
  BY <1>3 DEF Expire, Issued
<1>4. CASE Refreshed
  <2>1. PICK t \in Tokens :
          /\ owner' = [owner EXCEPT ![t] = flight] /\ access' = t
          /\ call' = [c \in All |-> IF c \in queue \cup Leads
                                    THEN [call[c] EXCEPT !.pc = "sent",
                                      !.token = t] ELSE call[c]]
    BY <1>4 DEF Refreshed, Issue
  <2>2. flight' = None /\ queue' = {} /\ UNCHANGED <<refresh, user, expired>>
    BY <1>4 DEF Refreshed
  <2>3. call' \in [All -> [pc : {"idle", "sent", "leads", "waits", "ok", "failed"},
                          token : {0} \cup Tokens, retried : BOOLEAN]]
    BY <2>1
  <2>4. owner' \in [Tokens -> People \cup {None}]
    BY <2>1
  <2>5. QED
    BY ZenonT(60), <2>1, <2>2, <2>3, <2>4
<1>5. CASE RefreshFails
  BY <1>5 DEF RefreshFails, Cleared
<1>6. ASSUME NEW c \in All, Send(c) PROVE TypeOK'
  BY <1>6 DEF Send
<1>7. ASSUME NEW c \in All, Answered(c) PROVE TypeOK'
  BY <1>7 DEF Answered
<1>8. ASSUME NEW c \in All, Fails(c) PROVE TypeOK'
  BY <1>8 DEF Fails
<1>9. ASSUME NEW c \in All, QueueUp(c) PROVE TypeOK'
  <2>1. (c \in Calls) \in BOOLEAN
    OBVIOUS
  <2>2. PICK b \in BOOLEAN : b = (c \in Calls)
    BY <2>1, Zenon
  <2>3. QED
    BY <1>9, <2>2 DEF QueueUp
<1>10. ASSUME NEW c \in All, Lead(c) PROVE TypeOK'
  <2>1. (c \in Calls) \in BOOLEAN
    OBVIOUS
  <2>2. PICK b \in BOOLEAN : b = (c \in Calls)
    BY <2>1, Zenon
  <2>3. QED
    BY ZenonT(60), <1>10, <2>2 DEF Lead
<1>11. ASSUME NEW c \in All, NothingToRefresh(c) PROVE TypeOK'
  BY <1>11 DEF NothingToRefresh, Cleared
<1>12. CASE UNCHANGED vars
  BY <1>12 DEF vars
<1>13. QED
  BY <1>1, <1>2, <1>3, <1>4, <1>5, <1>6, <1>7, <1>8, <1>9, <1>10, <1>11, <1>12 DEF Next

\* A new tab has no tokens, shows nobody and sends nothing.
LEMMA InitTypes == Init => TypeOK
  BY RefreshAssumption DEF Init, TypeOK, Tokens, NoCall

\* The tab's tokens, its queue and its requests keep their types.
THEOREM TypesHold == Spec => []TypeOK
  BY InitTypes, TypeStep, PTL DEF Spec

\* A step that moves a request which neither led nor waited, and not to either,
\* keeps the sets of those that do.
LEMMA OthersStay ==
    ASSUME TypeOK, NEW c \in All, call[c].pc \in {"idle", "sent"},
           NEW to \in {"sent", "ok", "failed"},
           call' \in [All -> [pc : {"idle", "sent", "leads", "waits", "ok", "failed"},
                              token : {0} \cup Tokens, retried : BOOLEAN]],
           call'[c].pc = to, \A d \in All \ {c} : call'[d] = call[d]
    PROVE  Leads' = Leads /\ Waits' = Waits
  BY DEF Leads, Waits, TypeOK

\* Whoever waits has one leader: no step leaves one behind.
LEMMA WaitersStep == TypeOK /\ WaitersHaveALeader /\ [Next]_vars => WaitersHaveALeader'
<1> SUFFICES ASSUME TypeOK, WaitersHaveALeader, [Next]_vars PROVE WaitersHaveALeader'
  OBVIOUS
<1> DEFINE Same == flight' = flight /\ queue' = queue /\ Leads' = Leads /\ Waits' = Waits
<1>a. TypeOK'
  BY TypeStep
<1>b. queue = Waits /\ IF flight = None THEN queue \cup Leads = {} ELSE Cardinality(Leads) = 1
  BY DEF WaitersHaveALeader, Waits
<1>c. ASSUME Same PROVE WaitersHaveALeader'
  BY <1>b, <1>c DEF WaitersHaveALeader, Waits
<1>1. ASSUME NEW u \in People, Login(u) PROVE WaitersHaveALeader'
  BY <1>1, <1>c DEF Login, Leads, Waits
<1>2. CASE Logout
  BY <1>2, <1>c DEF Logout, Leads, Waits
<1>3. CASE Expire
  BY <1>3, <1>c DEF Expire, Leads, Waits
<1>4. CASE Refreshed
  <2>1. ASSUME NEW c \in All PROVE call'[c].pc \notin {"leads", "waits"}
    <3>1. PICK t \in Tokens :
            call' = [d \in All |-> IF d \in queue \cup Leads
                                   THEN [call[d] EXCEPT !.pc = "sent",
                                     !.token = t] ELSE call[d]]
      BY <1>4 DEF Refreshed
    <3>2. CASE c \in queue \cup Leads
      BY <3>1, <3>2 DEF TypeOK
    <3>3. CASE c \notin queue \cup Leads
      BY <3>1, <3>3, <1>b DEF Leads, Waits
    <3>4. QED
      BY SMTT(40), <3>2, <3>3
  <2>2. flight' = None /\ queue' = {}
    BY <1>4 DEF Refreshed
  <2>3. QED
    BY <2>1, <2>2 DEF WaitersHaveALeader, Leads
<1>5. CASE RefreshFails
  <2>1. \A c \in All : call'[c].pc \notin {"leads", "waits"}
    BY <1>5, <1>b DEF RefreshFails, Rejected, Ends, NoCall, Leads, Waits
  <2>2. flight' = None /\ queue' = {}
    BY <1>5 DEF RefreshFails
  <2>3. QED
    BY <2>1, <2>2 DEF WaitersHaveALeader, Leads
<1>6. ASSUME NEW c \in All, Send(c) PROVE WaitersHaveALeader'
  BY <1>6, <1>a, <1>c, OthersStay DEF Send, TypeOK
<1>7. ASSUME NEW c \in All, Answered(c) PROVE WaitersHaveALeader'
  BY <1>7, <1>a, <1>c, OthersStay DEF Answered, Ends, NoCall, TypeOK
<1>8. ASSUME NEW c \in All, Fails(c) PROVE WaitersHaveALeader'
  BY <1>8, <1>a, <1>c, OthersStay DEF Fails, Ends, NoCall, TypeOK
<1>9. ASSUME NEW c \in All, QueueUp(c) PROVE WaitersHaveALeader'
  <2>1. Waits' = Waits \cup {c} /\ Leads' = Leads
    BY <1>9 DEF QueueUp, Unauthorized, Waits, Leads, TypeOK
  <2>2. queue' = queue \cup {c} /\ flight' = flight /\ flight # None
    BY <1>9 DEF QueueUp
  <2>3. QED
    BY <2>1, <2>2, <1>b DEF WaitersHaveALeader, Waits
<1>10. ASSUME NEW c \in All, Lead(c) PROVE WaitersHaveALeader'
  <2>1. Leads' = Leads \cup {c} /\ Waits' = Waits
    BY <1>10 DEF Lead, Unauthorized, Waits, Leads, TypeOK
  <2>2. Leads = {} /\ queue' = queue /\ flight' # None
    BY <1>10, <1>b DEF Lead
  <2>3. Cardinality(Leads') = 1
    BY <2>1, <2>2, FS_Singleton
  <2>4. QED
    BY <2>1, <2>2, <2>3, <1>b DEF WaitersHaveALeader, Waits
<1>11. ASSUME NEW c \in All, NothingToRefresh(c) PROVE WaitersHaveALeader'
  BY <1>11, <1>a, <1>c, OthersStay DEF NothingToRefresh, Unauthorized, Ends, NoCall, TypeOK
<1>12. CASE UNCHANGED vars
  BY <1>12, <1>c DEF vars, Leads, Waits
<1>13. QED
  BY <1>1, <1>2, <1>3, <1>4, <1>5, <1>6, <1>7, <1>8, <1>9, <1>10, <1>11, <1>12 DEF Next

\* The refresh on its way brings the user's token: nobody logs in or out under it.
LEMMA FlightStep == TypeOK /\ FlightIsTheUsers /\ [Next]_vars => FlightIsTheUsers'
<1> SUFFICES ASSUME TypeOK, FlightIsTheUsers, [Next]_vars, Tight PROVE FlightIsTheUsers'
  BY DEF FlightIsTheUsers
<1> USE RefreshAssumption DEF TypeOK, FlightIsTheUsers, TokensAreTheUsers
<1>1. ASSUME NEW u \in People, Login(u) PROVE FlightIsTheUsers'
  BY <1>1 DEF Login, Calm, Issue, Tokens
<1>2. CASE Logout
  BY <1>2 DEF Logout, Calm, Cleared
<1>3. CASE Expire
  BY <1>3 DEF Expire
<1>4. CASE Refreshed
  <2>1. PICK t \in Tokens : owner' = [owner EXCEPT ![t] = flight] /\ access' = t
    BY <1>4 DEF Refreshed, Issue
  <2>2. flight # None /\ flight' = None /\ UNCHANGED <<refresh, user>>
    BY <1>4 DEF Refreshed
  <2>3. user # None /\ access' # 0 /\ owner'[access'] = user
    BY <2>1, <2>2 DEF Tokens
  <2>4. QED
    BY <2>2, <2>3
<1>5. CASE RefreshFails
  BY <1>5 DEF RefreshFails, Cleared
<1>6. ASSUME NEW c \in All, Send(c) \/ Answered(c) \/ Fails(c) \/ QueueUp(c)
      PROVE  FlightIsTheUsers'
  BY <1>6 DEF Send, Answered, Fails, QueueUp
<1>7. ASSUME NEW c \in All, Lead(c) PROVE FlightIsTheUsers'
  BY <1>7 DEF Lead
<1>8. ASSUME NEW c \in All, NothingToRefresh(c) PROVE FlightIsTheUsers'
  BY <1>8 DEF NothingToRefresh, Cleared
<1>9. CASE UNCHANGED vars
  BY <1>9 DEF vars
<1>10. QED
  BY <1>1, <1>2, <1>3, <1>4, <1>5, <1>6, <1>7, <1>8, <1>9 DEF Next

\* In a new tab nobody waits and nobody is shown.
LEMMA InvInit == Init => IInv
  BY InitTypes DEF Init, IInv, WaitersHaveALeader, FlightIsTheUsers, TokensAreTheUsers,
     Leads,
     NoCall

\* Every step keeps the invariant.
LEMMA InvStep == IInv /\ [Next]_vars => IInv'
  BY TypeStep, WaitersStep, FlightStep DEF IInv

\* A request never stays in the queue without a refresh that will release it, two
\* refreshes never race, and without a login or logout under a refresh the tab has
\* the tokens of the user it shows (refreshAuthToken, processQueue, clearAuth).
THEOREM TokensStayShared == Spec => []TokensAreShared
<1>1. IInv => TokensAreShared
  BY DEF IInv, TokensAreShared, FlightIsTheUsers
<1>2. QED
  BY InvInit, InvStep, <1>1, PTL DEF Spec

-----------------------------------------------------------------------------
(* Signed links (FileLinks) *)

\* A page of the public is signed while the session is shared, or in the tick it
\* ceased to be: so a link of such a page ends within its life of the last moment
\* that the session was shared.
LinksInv ==
    /\ Links!TypeOK
    /\ page \in [Pages -> [pc : {"idle", "events", "shown", "refused", "failed"},
                           who : Links!Viewers, todo : SUBSET Files, all : SUBSET Files,
                           signed : SUBSET Files]]
    /\ \A l \in links : l.made \in Nat /\ l.expires \in Nat
    /\ shared => lastShared = hour
    /\ \A v \in Pages : page[v].pc = "events" /\ page[v].who = "public" => lastShared = hour
    /\ \A l \in links : l.who = "public" => l.expires <= lastShared + LinkLife
    /\ Links!PublicAccessLapses

\* Initially nothing is signed.
LEMMA LinksInit == Links!Init => LinksInv
<1> SUFFICES ASSUME Links!Init PROVE LinksInv
  OBVIOUS
<1>1. LinkLife \in Nat /\ MaxClock \in Nat
  BY ServicesAssumption DEF Links!FileLinksAssumption
<1>2. Links!TypeOK
  <2>1. /\ hour \in 0 .. MaxClock /\ lastShared \in 0 .. hour /\ opened.at \in 0 .. hour
        /\ opened.who \in Links!Viewers
    BY <1>1 DEF Links!Init, Links!NotOpened, Links!Viewers
  <2>2. \A v \in Pages : page[v].signed \cup page[v].todo \subseteq attached
    BY DEF Links!Init, Links!NoPage
  <2>3. QED
    BY <2>1, <2>2 DEF Links!TypeOK, Links!Init
<1>3. Links!PublicAccessLapses
  BY DEF Links!Init, Links!NotOpened, Links!PublicAccessLapses
<1>4. QED
  BY <1>2, <1>3 DEF LinksInv, Links!Init, Links!NoPage, Links!Viewers

\* Every step keeps it; the clock rests while a page is being signed.
LEMMA LinksStep == LinksInv /\ [Links!Next]_linkVars => LinksInv'
<1> SUFFICES ASSUME LinksInv, [Links!Next]_linkVars PROVE LinksInv'
  OBVIOUS
<1> USE ServicesAssumption DEF Links!FileLinksAssumption, LinksInv, Links!TypeOK, Links!Viewers,
         Links!PublicAccessLapses
<1>1. ASSUME Links!SignScreen PROVE LinksInv'
  BY <1>1 DEF Links!SignScreen, Links!Signed, Links!Least
<1>2. ASSUME Links!Tick PROVE LinksInv'
  <2>1. /\ hour' = hour + 1 /\ hour' <= MaxClock /\ \A v \in Pages : page[v].pc # "events"
        /\ lastShared' = IF shared THEN hour + 1 ELSE lastShared
        /\ links' = {l \in links : hour <= l.expires}
        /\ UNCHANGED <<stored, gone, attached, shared, page, opened>>
    BY <1>2 DEF Links!Tick
  <2>2. hour' \in 0 .. MaxClock /\ lastShared' \in 0 .. hour' /\ lastShared <= lastShared'
    BY <2>1
  <2>3. Links!TypeOK'
    BY <2>1, <2>2
  <2>4. \A l \in links' : /\ l.made \in Nat /\ l.expires \in Nat
                          /\ l.who = "public" => l.expires <= lastShared' + LinkLife
    BY <2>1, <2>2
  <2>5. opened'.who = "public" => opened'.at <= lastShared' + LinkLife
    BY <2>1, <2>2
  <2>6. QED
    BY <2>1, <2>2, <2>3, <2>4, <2>5
<1>3. ASSUME NEW on \in BOOLEAN, Links!Share(on) PROVE LinksInv'
  BY <1>3 DEF Links!Share
<1>4. ASSUME NEW f \in Files, Links!Upload(f) PROVE LinksInv'
  BY <1>4 DEF Links!Upload
<1>5. ASSUME NEW f \in Files, Links!Delete(f) PROVE LinksInv'
  BY <1>5 DEF Links!Delete
<1>6. ASSUME NEW f \in Files, Links!Attach(f) PROVE LinksInv'
  BY <1>6 DEF Links!Attach
<1>7. ASSUME NEW f \in Files, Links!SignFile(f) PROVE LinksInv'
  BY <1>7 DEF Links!SignFile, Links!Signed, Links!Least
<1>8. ASSUME NEW l \in links, Links!Open(l) PROVE LinksInv'
  BY <1>8 DEF Links!Open, Links!Verified
<1>9. ASSUME NEW v \in Pages, NEW who \in Links!Viewers, Links!Find(v, who) PROVE LinksInv'
  BY <1>9 DEF Links!Find, Links!Allowed, Links!NoPage
<1>10. ASSUME NEW v \in Pages, NEW f \in Files, Links!SignAttachment(v, f) PROVE LinksInv'
  <2>1. /\ page[v].pc = "events" /\ f \in page[v].todo
        /\ page' = [page EXCEPT ![v] = [page[v] EXCEPT !.todo = page[v].todo \ {f},
                                                      !.signed = page[v].signed \cup {f}]]
        /\ links' = links \cup {Links!Signed(f, LinkLife, page[v].who)}
        /\ UNCHANGED <<stored, gone, attached, shared, hour, lastShared, opened>>
    BY <1>10 DEF Links!SignAttachment
  <2>2. page' \in [Pages -> [pc : {"idle", "events", "shown", "refused", "failed"},
                            who : Links!Viewers, todo : SUBSET Files, all : SUBSET Files,
                            signed : SUBSET Files]]
    <3> DEFINE R == [pc : {"idle", "events", "shown", "refused", "failed"},
                     who : Links!Viewers, todo : SUBSET Files, all : SUBSET Files,
                     signed : SUBSET Files]
               q == [page[v] EXCEPT !.todo = page[v].todo \ {f},
                                    !.signed = page[v].signed \cup {f}]
    <3>1. page \in [Pages -> R] /\ page[v] \in R
      OBVIOUS
    <3>2. q \in R
      BY <3>1
    <3>3. page' = [page EXCEPT ![v] = q]
      BY <2>1
    <3> HIDE DEF q
    <3>4. page' \in [Pages -> R]
      <4> HIDE DEF R
      <4>1. QED
        BY <3>1, <3>2, <3>3
    <3>5. QED
      BY <3>4
  <2>3. ASSUME NEW u \in Pages
        PROVE  /\ page'[u].pc = page[u].pc /\ page'[u].who = page[u].who
               /\ page'[u].signed \cup page'[u].todo \subseteq attached
    <3>1. CASE u = v
      BY <2>1, <3>1
    <3>2. CASE u # v
      BY <2>1, <3>2
    <3>3. QED
      BY <3>1, <3>2
  <2>4. \A l \in links' : /\ l.res \in Files \cup {Screen} /\ l.made <= hour
                          /\ l.who \in Links!Viewers /\ l.made \in Nat /\ l.expires \in Nat
                          /\ l.who = "public" => l.expires <= lastShared + LinkLife
    BY <2>1 DEF Links!Signed
  <2>5. QED
    BY <2>1, <2>2, <2>3, <2>4
<1>11. ASSUME NEW v \in Pages, NEW f \in Files, Links!AttachmentGone(v, f) PROVE LinksInv'
  BY <1>11 DEF Links!AttachmentGone
<1>12. ASSUME NEW v \in Pages, Links!Answer(v) PROVE LinksInv'
  BY <1>12 DEF Links!Answer
<1>13. ASSUME NEW v \in Pages, Links!Again(v) PROVE LinksInv'
  BY <1>13 DEF Links!Again, Links!NoPage
<1>14. CASE UNCHANGED linkVars
  BY <1>14 DEF linkVars
<1>15. QED
  BY <1>1, <1>2, <1>3, <1>4, <1>5, <1>6, <1>7, <1>8, <1>9, <1>10,
     <1>11, <1>12, <1>13, <1>14
     DEF Links!Next

\* It holds throughout.
LEMMA LinksHold == AllSpec => []LinksInv
<1>1. AllInit => LinksInv
  BY LinksInit DEF AllInit
<1>2. LinksInv /\ [AllNext]_allVars => LinksInv'
  BY LinksStep DEF AllNext, allVars, linkVars
<1>3. QED
  BY <1>1, <1>2, PTL DEF AllSpec


-----------------------------------------------------------------------------
(* Accounts and verification codes (Accounts) *)

\* An entry of the cache, or one that a request is about to write, has the expiry
\* of the mail that it is of.
EntryIs(x) == /\ x \in Users!Entry /\ x.code \in Users!Codes
              /\ x.expires = mails[x.code].at + Expiry

\* What a request has read holds when it writes: a password that it will write was
\* given to the account before, and passwords are never taken back.
RequestIs(x) ==
    /\ x.pc \notin {"idle", "done"} => x.email \in Emails
    /\ x.pc \notin {"idle", "done", "send", "check", "store"} => x.password \in Passwords
    /\ x.pc \in {"relogin", "forget", "reset", "rewrite"} => x.password \in given[x.email]
    /\ x.pc \in {"store", "note"} => EntryIs(x.entry)

UserRequest == [pc : Users!Pc, email : Emails \cup {None}, password : Passwords \cup {None},
                code : 0 .. MaxMails, entry : Users!Entry \cup {None}, ttl : Nat]

Mailed == mails \in Seq([email : Emails, at : 0 .. MaxClock]) /\ Len(mails) <= MaxMails

\* The collection, the cache and the history.
Accounted ==
    /\ users \in [Emails -> Passwords \cup {None}]
    /\ cache \in [Emails -> Users!Entry \cup {None}]
    /\ \A e \in Emails : cache[e] # None => EntryIs(cache[e])
    /\ clock \in 0 .. MaxClock
    /\ Mailed /\ \A c \in Users!Codes : mails[c].at <= clock
    /\ given \in [Emails -> SUBSET Passwords] /\ created \in [Emails -> {0, 1}]
    /\ \A e \in Emails : /\ created[e] = 1 => users[e] # None
                         /\ users[e] # None => users[e] \in given[e]
    /\ \A a \in accepted : a.code \in Users!Codes /\ a.at <= mails[a.code].at + Expiry

UsersInv == /\ Accounted
            /\ req \in [Requests -> UserRequest] /\ \A r \in Requests : RequestIs(req[r])

\* Passwords are given and mails sent, and neither is taken back.
Onward == /\ \A e \in Emails : given[e] \subseteq given'[e]
          /\ Users!Codes \subseteq Users!Codes'
          /\ \A c \in Users!Codes : mails'[c] = mails[c]

\* What is assumed of the constants.
LEMMA UserConstants == /\ None \notin Passwords /\ MaxMails \in Nat /\ MaxClock \in Nat
                       /\ Expiry \in Nat /\ Expiry > 0 /\ Resend \in Nat
  BY ServicesAssumption DEF Users!AccountsAssumption

\* The invariant holds what the run checks.
LEMMA UsersMeans == UsersInv => Users!TypeOK /\ Users!AccountsKept
<1> SUFFICES ASSUME UsersInv PROVE Users!TypeOK /\ Users!AccountsKept
  OBVIOUS
<1>1. \A c \in Users!Codes : mails[c].email \in Emails /\ mails[c].at \in 0 .. clock
  <2>1. ASSUME NEW c \in Users!Codes PROVE mails[c] \in [email : Emails, at : 0 .. MaxClock]
    <3> DEFINE S == [email : Emails, at : 0 .. MaxClock]
    <3>1. mails \in Seq(S) /\ c \in DOMAIN mails
      BY DEF UsersInv, Accounted, Mailed, Users!Codes
    <3> HIDE DEF S
    <3>2. mails[c] \in S
      BY <3>1
    <3>3. QED
      BY <3>2 DEF S
  <2>2. ASSUME NEW c \in Users!Codes PROVE mails[c].at <= clock
    BY DEF UsersInv, Accounted
  <2>3. QED
    BY <2>1, <2>2, UserConstants DEF UsersInv, Accounted
<1>2. \A r \in Requests : req[r].pc \in Users!Pc /\ req[r].code \in 0 .. MaxMails
  BY DEF UsersInv, UserRequest
<1>3. Users!TypeOK
  BY <1>1, <1>2 DEF Users!TypeOK, UsersInv, Accounted
<1>4. Users!AccountsKept
  BY DEF UsersInv, Accounted, Users!AccountsKept, Users!OneAccount,
     Users!PasswordWasGiven, Users!ExpiresOnTime
<1>5. QED
  BY <1>3, <1>4

\* Initially no code was mailed.
LEMMA UsersInit == Users!Init => UsersInv
<1> SUFFICES ASSUME Users!Init PROVE UsersInv
  OBVIOUS
<1>1. Users!Codes = {}
  BY DEF Users!Init, Users!Codes
<1>2. Mailed
  BY UserConstants DEF Users!Init, Mailed
<1>3. req \in [Requests -> UserRequest] /\ \A r \in Requests : RequestIs(req[r])
  BY UserConstants DEF Users!Init, UserRequest, Users!Idle, Users!Pc, RequestIs
<1>4. Accounted
  BY <1>1, <1>2, UserConstants DEF Users!Init, Accounted
<1>5. QED
  BY <1>3, <1>4 DEF UsersInv

\* What is known of a request or an entry stays known.
LEMMA EntryOnward == ASSUME Onward, NEW x, EntryIs(x) PROVE EntryIs(x)'
  BY DEF Onward, EntryIs, Users!Entry

\* The same of a request.
LEMMA RequestOnward == ASSUME Onward, NEW x, RequestIs(x) PROVE RequestIs(x)'
  BY EntryOnward DEF Onward, RequestIs

\* A request answers, goes on to its next await, or does so with what it has read.
LEMMA UserTurn ==
    ASSUME UsersInv, Accounted', Onward, NEW r \in Requests, NEW q \in UserRequest, RequestIs(q)',
           req' = [req EXCEPT ![r] = q]
    PROVE  UsersInv'
<1>1. req' \in [Requests -> UserRequest]
  BY DEF UsersInv
<1>2. ASSUME NEW s \in Requests PROVE RequestIs(req[s])'
  <2>1. CASE s = r
    BY <2>1 DEF UsersInv
  <2>2. CASE s # r
    BY <2>2, RequestOnward DEF UsersInv
  <2>3. QED
    BY <2>1, <2>2
<1>3. QED
  BY <1>1, <1>2 DEF UsersInv

\* A request answers.
LEMMA AnswerTurn ==
    ASSUME UsersInv, Accounted', Onward, NEW r \in Requests, Users!Answer(r)
    PROVE  UsersInv'
<1> DEFINE q == [Users!Idle EXCEPT !.pc = "done"]
<1>1. q \in UserRequest /\ q.pc = "done"
  BY UserConstants DEF Users!Idle, UserRequest, Users!Pc
<1>2. req' = [req EXCEPT ![r] = q]
  BY DEF Users!Answer
<1> HIDE DEF q
<1>3. RequestIs(q)'
  BY <1>1 DEF RequestIs
<1>4. QED
  BY <1>1, <1>2, <1>3, UserTurn

\* A request goes on to its next await.
LEMMA GotoTurn ==
    ASSUME UsersInv, Accounted', Onward, NEW r \in Requests, NEW next \in Users!Pc,
           Users!Goto(r, next),
           next \in {"relogin", "insert", "check", "forget", "drop", "reset", "rewrite"},
           req[r].pc \notin {"idle", "done"},
           next # "check" => req[r].password \in Passwords,
           next \in {"relogin", "forget", "reset", "rewrite"}
             => req[r].password \in given'[req[r].email]
    PROVE  UsersInv'
<1>0. PICK q : q = [req[r] EXCEPT !.pc = next]
  OBVIOUS
<1>1. req[r] \in UserRequest /\ RequestIs(req[r])
  BY DEF UsersInv
<1>2. /\ q \in UserRequest /\ q.pc = next /\ q.email = req[r].email
      /\ q.password = req[r].password
  BY <1>0, <1>1 DEF UserRequest
<1>3. req' = [req EXCEPT ![r] = q]
  BY <1>0 DEF Users!Goto, UsersInv, UserRequest
<1>4. RequestIs(q)'
  <2>1. q.email \in Emails /\ (next # "check" => q.password \in Passwords)
    BY <1>1, <1>2 DEF RequestIs
  <2>2. next \in {"relogin", "forget", "reset", "rewrite"} => q.password \in given'[q.email]
    BY <1>2
  <2>3. next \notin {"store", "note"}
    OBVIOUS
  <2>4. q.pc = next /\ q.pc \notin {"store", "note"}
    BY <1>2, <2>3
  <2>5. QED
    BY <2>1, <2>2, <2>4 DEF RequestIs
<1>5. QED
  BY <1>2, <1>3, <1>4, UserTurn


\* A step that writes nothing, or an entry to the cache.
LEMMA NothingWritten ==
    ASSUME Accounted, UNCHANGED <<users, cache, clock, mails, given, created, accepted>>
    PROVE  Accounted' /\ Onward
<1>1. Onward
  BY DEF Onward, Users!Codes
<1>2. Mailed' /\ Users!Codes' = Users!Codes
  BY DEF Accounted, Mailed, Users!Codes
<1>3. QED
  BY <1>1, <1>2 DEF Accounted, EntryIs

\* A step that writes one entry.
LEMMA CacheWritten ==
    ASSUME Accounted, NEW e \in Emails, NEW x, x = None \/ EntryIs(x), Users!CachePut(e, x),
           UNCHANGED <<users, clock, mails, given, created, accepted>>
    PROVE  Accounted' /\ Onward
<1>1. Onward
  BY DEF Onward, Users!Codes
<1>2. Mailed' /\ Users!Codes' = Users!Codes
  BY DEF Accounted, Mailed, Users!Codes
<1>3. x \in Users!Entry \cup {None}
  BY DEF EntryIs
<1>4. cache' \in [Emails -> Users!Entry \cup {None}]
  BY <1>3 DEF Accounted, Users!CachePut
<1>5. \A f \in Emails : cache'[f] # None => EntryIs(cache'[f])
  BY DEF Accounted, Users!CachePut
<1>6. \A f \in Emails : cache'[f] # None => EntryIs(cache[f])'
  BY <1>2, <1>5 DEF EntryIs
<1>7. QED
  BY <1>1, <1>2, <1>4, <1>6 DEF Accounted

\* A password is written to an account that it was given to.
LEMMA PasswordWritten ==
    ASSUME Accounted, NEW e \in Emails, NEW p \in Passwords, p \in given[e],
           users' = [users EXCEPT ![e] = p],
           UNCHANGED <<cache, clock, mails, given, created, accepted>>
    PROVE  Accounted' /\ Onward
<1>1. Onward
  BY DEF Onward, Users!Codes
<1>2. Mailed' /\ Users!Codes' = Users!Codes
  BY DEF Accounted, Mailed, Users!Codes
<1>3. users' \in [Emails -> Passwords \cup {None}]
  BY DEF Accounted
<1>4. \A f \in Emails : /\ created'[f] = 1 => users'[f] # None
                        /\ users'[f] # None => users'[f] \in given'[f]
  BY UserConstants DEF Accounted
<1>5. QED
  BY <1>1, <1>2, <1>3, <1>4 DEF Accounted, EntryIs

\* Every step keeps it.
LEMMA UsersStep == UsersInv /\ [Users!Next]_userVars => UsersInv'
<1> SUFFICES ASSUME UsersInv, [Users!Next]_userVars PROVE UsersInv'
  OBVIOUS
<1>1. ASSUME Users!Tick PROVE UsersInv'
  <2>1. clock' \in 0 .. MaxClock /\ clock' >= clock /\ clock \in Nat
    BY <1>1, UserConstants DEF Users!Tick, UsersInv, Accounted
  <2>2. \A c \in Users!Codes : mails[c].at \in Nat
    BY UsersMeans, <2>1 DEF Users!TypeOK
  <2>3. UNCHANGED <<users, cache, mails, req, given, created, accepted>>
    BY <1>1 DEF Users!Tick
  <2>4. Mailed' /\ Users!Codes' = Users!Codes
    BY <2>3 DEF UsersInv, Accounted, Mailed, Users!Codes
  <2>5. \A c \in Users!Codes : mails[c].at <= clock'
    BY <2>1, <2>2 DEF UsersInv, Accounted
  <2>6. QED
    BY <2>1, <2>3, <2>4, <2>5 DEF UsersInv, Accounted, EntryIs, RequestIs
<1>2. ASSUME NEW r \in Requests,
        NEW kind, NEW e \in Emails, NEW p \in Passwords \cup {None}, NEW c \in Users!Codes \cup {0},
        kind = "send" \/ p \in Passwords, Users!Start(r, kind, e, p, c) PROVE UsersInv'
  <2>1. Accounted' /\ Onward
    BY <1>2, NothingWritten DEF UsersInv, Users!Start
  <2>2. PICK q : q = [Users!Idle EXCEPT !.pc = kind, !.email = e, !.password = p, !.code = c]
    OBVIOUS
  <2>3. kind \in {"login", "register", "send", "verify"} /\ c \in 0 .. MaxMails
    BY <1>2, UserConstants DEF Users!Start, UsersInv, Accounted, Mailed, Users!Codes
  <2>4. /\ q \in UserRequest /\ q.pc = kind /\ q.email = e /\ q.password = p
    BY <2>2, <2>3 DEF UserRequest, Users!Idle, Users!Pc
  <2>5. req' = [req EXCEPT ![r] = q]
    BY <1>2, <2>2 DEF Users!Start
  <2>6. RequestIs(q)'
    BY <1>2, <2>3, <2>4 DEF RequestIs
  <2>7. QED
    BY <2>1, <2>4, <2>5, <2>6, UserTurn
<1>3. ASSUME NEW r \in Requests, Users!Login(r) PROVE UsersInv'
  <2>1. Accounted' /\ Onward
    BY <1>3, NothingWritten DEF UsersInv, Users!Login

  <2>2. /\ req[r].pc = "login" /\ req[r].email \in Emails /\ req[r].password \in Passwords
    BY <1>3 DEF Users!Login, UsersInv, RequestIs, Users!At
  <2>3. CASE users[req[r].email] = req[r].password /\ Users!Goto(r, "relogin")
    <3>1. req[r].password \in given'[req[r].email]
      BY <2>1, <2>2, <2>3, UserConstants DEF UsersInv, Accounted, Onward
    <3>2. QED
      BY <2>1, <2>2, <2>3, <3>1, GotoTurn DEF Users!Pc
  <2>4. CASE Users!Answer(r)
    BY <2>1, <2>4, AnswerTurn
  <2>5. QED
    BY <1>3, <2>3, <2>4 DEF Users!Login
<1>4. ASSUME NEW r \in Requests, Users!UpdateLogin(r) PROVE UsersInv'
  <2>1. /\ req[r].email \in Emails /\ req[r].password \in Passwords
        /\ req[r].password \in given[req[r].email]
    BY <1>4 DEF Users!UpdateLogin, UsersInv, RequestIs, Users!At
  <2>2. Accounted' /\ Onward
    BY <1>4, <2>1, PasswordWritten DEF UsersInv, Users!UpdateLogin
  <2>3. QED
    BY <1>4, <2>2, AnswerTurn DEF Users!UpdateLogin
<1>5. ASSUME NEW r \in Requests, Users!EmailExists(r) PROVE UsersInv'
  <2>1. Accounted' /\ Onward
    BY <1>5, NothingWritten DEF UsersInv, Users!EmailExists

  <2>2. req[r].pc = "register" /\ req[r].password \in Passwords
    BY <1>5 DEF Users!EmailExists, UsersInv, RequestIs, Users!At
  <2>3. CASE Users!Goto(r, "insert")
    BY <2>1, <2>2, <2>3, GotoTurn DEF Users!Pc
  <2>4. CASE Users!Answer(r)
    BY <2>1, <2>4, AnswerTurn
  <2>5. QED
    BY <1>5, <2>3, <2>4 DEF Users!EmailExists
<1>6. ASSUME NEW r \in Requests, Users!Insert(r) PROVE UsersInv'
  <2> DEFINE e == req[r].email
             p == req[r].password
  <2>1. e \in Emails /\ p \in Passwords /\ p # None
    BY <1>6, UserConstants DEF Users!Insert, UsersInv, RequestIs, Users!At
  <2>2. Accounted' /\ Onward
    <3>1. CASE UNCHANGED <<users, given, created>>
      BY <1>6, <3>1, NothingWritten DEF UsersInv, Users!Insert
    <3>2. CASE /\ users[e] = None /\ users' = [users EXCEPT ![e] = p]
               /\ given' = [given EXCEPT ![e] = @ \cup {p}]
               /\ created' = [created EXCEPT ![e] = @ + 1]
      <4>0. UNCHANGED <<cache, clock, mails, accepted>>
        BY <1>6 DEF Users!Insert
      <4>1. Mailed' /\ Users!Codes' = Users!Codes
        BY <4>0 DEF UsersInv, Accounted, Mailed, Users!Codes
      <4> HIDE DEF e, p
      <4>2. created[e] = 0
        BY <2>1, <3>2 DEF UsersInv, Accounted
      <4>3. /\ users' \in [Emails -> Passwords \cup {None}]
            /\ given' \in [Emails -> SUBSET Passwords] /\ created' \in [Emails -> {0, 1}]
        BY <2>1, <3>2, <4>2 DEF UsersInv, Accounted
      <4>4. \A f \in Emails : /\ created'[f] = 1 => users'[f] # None
                              /\ users'[f] # None => users'[f] \in given'[f]
                              /\ given[f] \subseteq given'[f]
        BY <2>1, <3>2, <4>2 DEF UsersInv, Accounted
      <4>5. QED
        BY <4>0, <4>1, <4>3, <4>4 DEF UsersInv, Accounted, EntryIs, Onward
    <3>3. QED
      BY <1>6, <3>1, <3>2 DEF Users!Insert
  <2>3. QED
    BY <1>6, <2>2, AnswerTurn DEF Users!Insert
<1>7. ASSUME NEW r \in Requests, Users!CheckUser(r) PROVE UsersInv'
  <2>1. Accounted' /\ Onward
    BY <1>7, NothingWritten DEF UsersInv, Users!CheckUser

  <2>2. req[r].pc = "send"
    BY <1>7 DEF Users!CheckUser, Users!At
  <2>3. CASE Users!Goto(r, "check")
    BY <2>1, <2>2, <2>3, GotoTurn DEF Users!Pc
  <2>4. CASE Users!Answer(r)
    BY <2>1, <2>4, AnswerTurn
  <2>5. QED
    BY <1>7, <2>3, <2>4 DEF Users!CheckUser
<1>8. ASSUME NEW r \in Requests, Users!Mail(r) PROVE UsersInv'
  <2> DEFINE e == req[r].email
             c == Len(mails) + 1
             m == [email |-> e, at |-> clock]
             x == [code |-> c, at |-> clock, expires |-> clock + Expiry, attempts |-> 0, dies |-> 0]
             S == [email : Emails, at : 0 .. MaxClock]
  <2>1. e \in Emails /\ clock \in 0 .. MaxClock
    BY <1>8 DEF Users!Mail, UsersInv, RequestIs, Users!At, Accounted
  <2>2. UNCHANGED <<users, cache, clock, given, created, accepted>>
    BY <1>8 DEF Users!Mail
  <2>3. CASE Users!Answer(r) /\ UNCHANGED mails
    <3>1. Accounted' /\ Onward
      BY <2>2, <2>3, NothingWritten DEF UsersInv
    <3>2. QED
      BY <2>3, <3>1, AnswerTurn
  <2>4. CASE /\ c <= MaxMails /\ mails' = Append(mails, m)
             /\ req' = [req EXCEPT ![r].pc = "store", ![r].entry = x]
    <3>1. m \in S
      BY <2>1
    <3> HIDE DEF m, S
    <3>2. mails \in Seq(S) /\ Len(mails) \in Nat
      BY DEF S, UsersInv, Accounted, Mailed
    <3>3. /\ mails' \in Seq(S) /\ Len(mails') = c /\ Users!Codes' = Users!Codes \cup {c}
          /\ \A d \in Users!Codes : mails'[d] = mails[d]
          /\ mails'[c] = m /\ c \in 1 .. MaxMails
      BY <2>4, <3>1, <3>2, UserConstants DEF Users!Codes
    <3>4. Mailed'
      BY <2>4, <3>3 DEF S, Mailed
    <3>5. Onward
      BY <2>2, <3>3 DEF Onward
    <3>6. mails'[c].at = clock
      BY <3>3 DEF m
    <3>7. Accounted'
      <4>1. \A f \in Emails : cache'[f] # None => EntryIs(cache[f])'
        BY <2>2, <3>5, EntryOnward DEF UsersInv, Accounted
      <4>2. \A a \in accepted : a.code \in Users!Codes' /\ a.at <= mails'[a.code].at + Expiry
        BY <3>3 DEF UsersInv, Accounted
      <4>3. \A d \in Users!Codes' : mails'[d].at <= clock
        BY <2>1, <3>3, <3>6 DEF UsersInv, Accounted
      <4>4. QED
        BY <2>2, <3>4, <4>1, <4>2, <4>3 DEF UsersInv, Accounted
    <3>8. PICK q : q = [req[r] EXCEPT !.pc = "store", !.entry = x]
      OBVIOUS
    <3>9. x \in Users!Entry /\ x.code = c /\ x.expires = clock + Expiry
      BY <2>1, <3>3, UserConstants DEF Users!Entry
    <3>10. EntryIs(q.entry)' /\ q.entry = x
      <4>1. q.entry = x
        BY <3>8 DEF UsersInv, UserRequest
      <4>2. q.entry \in Users!Entry /\ q.entry.code \in Users!Codes'
            /\ q.entry.expires = mails'[q.entry.code].at + Expiry
        BY <3>3, <3>6, <3>9, <4>1
      <4>3. QED
        BY <4>1, <4>2 DEF EntryIs, Users!Entry
    <3> HIDE DEF x, c, e
    <3>11. /\ q \in UserRequest /\ q.pc = "store" /\ q.email = req[r].email
           /\ req' = [req EXCEPT ![r] = q]
      BY <2>4, <3>8, <3>9 DEF UsersInv, UserRequest, Users!Pc
    <3>12. RequestIs(q)'
      BY <2>1, <3>10, <3>11 DEF RequestIs, e
    <3>13. QED
      BY <3>5, <3>7, <3>11, <3>12, UserTurn
  <2>5. QED
    BY <1>8, <2>3, <2>4 DEF Users!Mail
<1>9. ASSUME NEW r \in Requests, Users!Store(r) PROVE UsersInv'
  <2>1. PICK x : x = [req[r].entry EXCEPT !.dies = clock + Expiry]
    OBVIOUS
  <2>2. req[r].email \in Emails /\ EntryIs(req[r].entry) /\ clock \in Nat
    BY <1>9, UserConstants DEF Users!Store, UsersInv, RequestIs, Users!At, Accounted
  <2>3. EntryIs(x)
    BY <2>1, <2>2, UserConstants DEF EntryIs, Users!Entry
  <2>4. Accounted' /\ Onward
    BY <1>9, <2>1, <2>2, <2>3, CacheWritten DEF UsersInv, Users!Store
  <2>5. QED
    BY <1>9, <2>4, AnswerTurn DEF Users!Store
<1>10. ASSUME NEW r \in Requests, Users!Verify(r) PROVE UsersInv'
  <2> DEFINE e == req[r].email
  <2>1. req[r].pc = "verify" /\ e \in Emails /\ req[r].password \in Passwords
    BY <1>10 DEF Users!Verify, UsersInv, RequestIs, Users!At
  <2>2. UNCHANGED <<users, cache, clock, mails, created>>
    BY <1>10 DEF Users!Verify
  <2>3. PICK entry \in Users!CacheGet(e) :
        \/ entry = None /\ Users!Answer(r) /\ UNCHANGED <<accepted, given>>
        \/ Users!Goto(r, "drop") /\ UNCHANGED <<accepted, given>>
        \/ /\ entry # None /\ clock <= entry.expires /\ ~Users!Exhausted(entry)
           /\ \/ /\ accepted' = accepted \cup {[code |-> entry.code, at |-> clock]}
                 /\ given' = [given EXCEPT ![e] = @ \cup {req[r].password}]
                 /\ Users!Goto(r, "forget")
              \/ /\ UNCHANGED <<accepted, given>>
                 /\ IF clock < entry.expires
                    THEN req' = [req EXCEPT ![r].pc = "note", ![r].entry = Users!Noted(entry),
                                            ![r].ttl = entry.expires - clock]
                    ELSE Users!Answer(r)
    BY <1>10 DEF Users!Verify
  <2>4. entry # None => EntryIs(entry)
    BY <2>1, <2>3 DEF Users!CacheGet, UsersInv, Accounted
  <2>5. CASE /\ UNCHANGED <<accepted, given>>
             /\ \/ Users!Answer(r) \/ Users!Goto(r, "drop")
                \/ /\ entry # None /\ clock < entry.expires /\ ~Users!Exhausted(entry)
                   /\ req' = [req EXCEPT ![r].pc = "note", ![r].entry = Users!Noted(entry),
                                         ![r].ttl = entry.expires - clock]
    <3>1. Accounted' /\ Onward
      BY <2>2, <2>5, NothingWritten DEF UsersInv
    <3>2. CASE Users!Answer(r)
      BY <3>1, <3>2, AnswerTurn
    <3>3. CASE Users!Goto(r, "drop")
      BY <2>1, <3>1, <3>3, GotoTurn DEF Users!Pc
    <3>4. CASE /\ entry # None /\ clock < entry.expires /\ ~Users!Exhausted(entry)
               /\ req' = [req EXCEPT ![r].pc = "note", ![r].entry = Users!Noted(entry),
                                     ![r].ttl = entry.expires - clock]
      <4>1. PICK x : x = Users!Noted(entry)
        OBVIOUS
      <4>2. EntryIs(x) /\ x \in Users!Entry
        BY <2>4, <3>4, <4>1 DEF Users!Noted, Users!Exhausted, EntryIs, Users!Entry
      <4>3. entry.expires - clock \in Nat
        BY <2>4, <3>4, UserConstants DEF EntryIs, Users!Entry, UsersInv, Accounted
      <4>4. PICK q : q = [req[r] EXCEPT !.pc = "note", !.entry = x, !.ttl = entry.expires - clock]
        OBVIOUS
      <4>5. /\ q \in UserRequest /\ q.pc = "note" /\ q.email = e
            /\ q.password = req[r].password /\ q.entry = x
        BY <4>2, <4>3, <4>4 DEF UsersInv, UserRequest, Users!Pc
      <4>6. req' = [req EXCEPT ![r] = q]
        BY <3>4, <4>1, <4>4 DEF UsersInv
      <4>7. RequestIs(q)'
        BY <2>1, <3>1, <4>2, <4>5, EntryOnward DEF RequestIs
      <4>8. QED
        BY <3>1, <4>5, <4>6, <4>7, UserTurn
    <3>5. QED
      BY <2>5, <3>2, <3>3, <3>4
  <2>6. CASE /\ entry # None /\ clock <= entry.expires
             /\ accepted' = accepted \cup {[code |-> entry.code, at |-> clock]}
             /\ given' = [given EXCEPT ![e] = @ \cup {req[r].password}]
             /\ Users!Goto(r, "forget")
    <3>1. /\ given' \in [Emails -> SUBSET Passwords] /\ req[r].password \in given'[e]
          /\ \A f \in Emails : given[f] \subseteq given'[f]
      BY <2>1, <2>6 DEF UsersInv, Accounted
    <3>2. Mailed' /\ Users!Codes' = Users!Codes
      BY <2>2 DEF UsersInv, Accounted, Mailed, Users!Codes
    <3>3. \A a \in accepted' : a.code \in Users!Codes /\ a.at <= mails[a.code].at + Expiry
      BY <2>4, <2>6 DEF UsersInv, Accounted, EntryIs
    <3>4. Accounted' /\ Onward
      BY <2>2, <3>1, <3>2, <3>3 DEF UsersInv, Accounted, EntryIs, Onward
    <3>5. QED
      BY <2>1, <2>6, <3>1, <3>4, GotoTurn DEF Users!Pc
  <2>7. QED
    BY <2>3, <2>5, <2>6
<1>11. ASSUME NEW r \in Requests, Users!Forget(r) PROVE UsersInv'
  <2>1. req[r].pc \in {"forget", "drop"} /\ req[r].email \in Emails /\ req[r].password \in Passwords
    BY <1>11 DEF Users!Forget, UsersInv, RequestIs
  <2>2. Accounted' /\ Onward
    BY <1>11, <2>1, CacheWritten DEF UsersInv, Users!Forget
  <2>3. CASE req[r].pc = "forget" /\ Users!Goto(r, "reset")
    <3>1. req[r].password \in given'[req[r].email]
      BY <2>1, <2>2, <2>3 DEF UsersInv, RequestIs, Onward
    <3>2. QED
      BY <2>1, <2>2, <2>3, <3>1, GotoTurn DEF Users!Pc
  <2>4. CASE Users!Answer(r)
    BY <2>2, <2>4, AnswerTurn
  <2>5. QED
    BY <1>11, <2>3, <2>4 DEF Users!Forget, Users!At
<1>12. ASSUME NEW r \in Requests, Users!NoteAttempt(r) PROVE UsersInv'
  <2>1. PICK x : x = [req[r].entry EXCEPT !.dies = clock + req[r].ttl]
    OBVIOUS
  <2>2. /\ req[r].email \in Emails /\ EntryIs(req[r].entry) /\ clock \in Nat
        /\ req[r].ttl \in Nat
    BY <1>12, UserConstants DEF Users!NoteAttempt, UsersInv, RequestIs, Users!At,
       Accounted, UserRequest
  <2>3. EntryIs(x)
    BY <2>1, <2>2 DEF EntryIs, Users!Entry
  <2>4. Accounted' /\ Onward
    BY <1>12, <2>1, <2>2, <2>3, CacheWritten DEF UsersInv, Users!NoteAttempt
  <2>5. QED
    BY <1>12, <2>4, AnswerTurn DEF Users!NoteAttempt
<1>13. ASSUME NEW r \in Requests, Users!ReadUser(r) PROVE UsersInv'
  <2>1. Accounted' /\ Onward
    BY <1>13, NothingWritten DEF UsersInv, Users!ReadUser

  <2>2. /\ req[r].pc = "reset" /\ req[r].email \in Emails /\ req[r].password \in Passwords
        /\ req[r].password \in given'[req[r].email]
    BY <1>13, <2>1 DEF Users!ReadUser, UsersInv, RequestIs, Users!At, Onward
  <2>3. CASE Users!Goto(r, "rewrite")
    BY <2>1, <2>2, <2>3, GotoTurn DEF Users!Pc
  <2>4. CASE Users!Answer(r)
    BY <2>1, <2>4, AnswerTurn
  <2>5. QED
    BY <1>13, <2>3, <2>4 DEF Users!ReadUser
<1>14. ASSUME NEW r \in Requests, Users!ResetPassword(r) PROVE UsersInv'
  <2>1. /\ req[r].email \in Emails /\ req[r].password \in Passwords
        /\ req[r].password \in given[req[r].email]
    BY <1>14 DEF Users!ResetPassword, UsersInv, RequestIs, Users!At
  <2>2. Accounted' /\ Onward
    BY <1>14, <2>1, PasswordWritten DEF UsersInv, Users!ResetPassword
  <2>3. QED
    BY <1>14, <2>2, AnswerTurn DEF Users!ResetPassword
<1>15. CASE UNCHANGED userVars
  <2>1. Accounted' /\ Onward
    BY <1>15, NothingWritten DEF UsersInv, userVars
  <2>2. QED
    BY <1>15, <2>1, RequestOnward DEF UsersInv, userVars
<1>16. QED
  BY <1>1, <1>2, <1>3, <1>4, <1>5, <1>6, <1>7, <1>8, <1>9, <1>10,
     <1>11, <1>12, <1>13, <1>14, <1>15
     DEF Users!Next

\* It holds throughout.
LEMMA UsersHold == AllSpec => []UsersInv
<1>1. AllInit => UsersInv
  BY UsersInit DEF AllInit
<1>2. UsersInv /\ [AllNext]_allVars => UsersInv'
  BY UsersStep DEF AllNext, allVars, userVars
<1>3. QED
  BY <1>1, <1>2, PTL DEF AllSpec


-----------------------------------------------------------------------------
(* Tools of MCP servers (McpTools) *)

\* What starts a longer sequence, and what is left of it.
LEMMA StartAndRest ==
    ASSUME NEW S, NEW A \in Seq(S), NEW T \in Seq(S)
    PROVE  Mcp!IsPrefix(A, A \o T) /\ SubSeq(A \o T, Len(A) + 1, Len(A \o T)) = T
<1>1. /\ A \o T \in Seq(S) /\ Len(A \o T) = Len(A) + Len(T) /\ Len(A) \in Nat /\ Len(T) \in Nat
      /\ \A i \in 1 .. Len(A) : (A \o T)[i] = A[i]
      /\ \A i \in 1 .. Len(T) : (A \o T)[Len(A) + i] = T[i]
  BY ConcatProperties, LenProperties
<1>2. SubSeq(A, 1, Len(A)) = SubSeq(A \o T, 1, Len(A))
  <2>1. /\ SubSeq(A, 1, Len(A)) \in Seq(S) /\ Len(SubSeq(A, 1, Len(A))) = Len(A)
        /\ \A i \in 1 .. Len(A) : SubSeq(A, 1, Len(A))[i] = A[i]
    BY <1>1
  <2>2. /\ SubSeq(A \o T, 1, Len(A)) \in Seq(S) /\ Len(SubSeq(A \o T, 1, Len(A))) = Len(A)
        /\ \A i \in 1 .. Len(A) : SubSeq(A \o T, 1, Len(A))[i] = A[i]
    BY <1>1
  <2>3. QED
    BY <2>1, <2>2, SeqEqual, LenProperties
<1>3. SubSeq(A \o T, Len(A) + 1, Len(A \o T)) = T
  BY <1>1, SubSeqProperties, SeqEqual
<1>4. QED
  BY <1>1, <1>2, <1>3 DEF Mcp!IsPrefix

\* Of two that start the same sequence one starts the other.
LEMMA StartsCompare ==
    ASSUME NEW S, NEW A \in Seq(S), NEW B \in Seq(S), NEW C \in Seq(S),
           Mcp!IsPrefix(A, C), Mcp!IsPrefix(B, C), Len(A) <= Len(B)
    PROVE  Mcp!IsPrefix(A, B)
<1>1. Len(A) \in Nat /\ Len(B) \in Nat /\ Len(C) \in Nat /\ Len(A) <= Len(C) /\ Len(B) <= Len(C)
  BY LenProperties DEF Mcp!IsPrefix
<1>2. \A i \in 1 .. Len(A) : A[i] = C[i]
  <2>1. SubSeq(A, 1, Len(A)) = SubSeq(C, 1, Len(A))
    BY DEF Mcp!IsPrefix
  <2>2. QED
    BY <1>1, <2>1, SubSeqProperties
<1>3. \A i \in 1 .. Len(B) : B[i] = C[i]
  <2>1. SubSeq(B, 1, Len(B)) = SubSeq(C, 1, Len(B))
    BY DEF Mcp!IsPrefix
  <2>2. QED
    BY <1>1, <2>1, SubSeqProperties
<1>4. /\ SubSeq(A, 1, Len(A)) \in Seq(S) /\ Len(SubSeq(A, 1, Len(A))) = Len(A)
      /\ \A i \in 1 .. Len(A) : SubSeq(A, 1, Len(A))[i] = A[i]
  BY <1>1, SubSeqProperties
<1>5. /\ SubSeq(B, 1, Len(A)) \in Seq(S) /\ Len(SubSeq(B, 1, Len(A))) = Len(A)
      /\ \A i \in 1 .. Len(A) : SubSeq(B, 1, Len(A))[i] = B[i]
  BY <1>1, SubSeqProperties
<1>6. SubSeq(A, 1, Len(A)) = SubSeq(B, 1, Len(A))
  BY <1>1, <1>2, <1>3, <1>4, <1>5, SeqEqual
<1>7. QED
  BY <1>1, <1>6 DEF Mcp!IsPrefix

Chars == {"M", "_", "a", "b"}

\* A composed name starts with its server's prefix and an underscore, and ends
\* with the tool's name.
LEMMA NameIsComposed ==
    ASSUME NEW n \in Names, NEW x \in ToolNames
    PROVE  /\ Mcp!Prefix(n) \o <<"_">> \in Seq(Chars) /\ Mcp!ToolName(n, x) \in Seq(Chars)
           /\ Mcp!Matches(n, Mcp!ToolName(n, x)) /\ Mcp!Rest(n, Mcp!ToolName(n, x)) = x
<1> DEFINE P == Mcp!Prefix(n)
           A == P \o <<"_">>
<1>1. n \in Seq(Chars) /\ x \in Seq(Chars)
  BY ServicesAssumption DEF Mcp!McpAssumption, Chars
<1>2. P \in Seq(Chars) /\ <<"_">> \in Seq(Chars) /\ Len(<<"_">>) = 1
  <2>1. Mcp!MCP \in Seq(Chars) /\ <<"_">> \in Seq(Chars) /\ Len(<<"_">>) = 1
    BY DEF Mcp!MCP, Chars
  <2>2. Mcp!MCP \o n \in Seq(Chars)
    BY <1>1, <2>1, ConcatProperties
  <2>3. QED
    BY <1>1, <2>1, <2>2 DEF Mcp!Prefix
<1>3. Mcp!ToolName(n, x) = A \o x
  BY DEF Mcp!ToolName
<1> HIDE DEF P
<1>4. A \in Seq(Chars) /\ Len(A) = Len(P) + 1 /\ Len(P) \in Nat
  BY <1>2, ConcatProperties, LenProperties
<1>a. A \o x \in Seq(Chars)
  BY <1>1, <1>4, ConcatProperties
<1>5. Mcp!IsPrefix(A, A \o x) /\ SubSeq(A \o x, Len(A) + 1, Len(A \o x)) = x
  <2> HIDE DEF A
  <2>1. QED
    BY <1>1, <1>4, StartAndRest
<1>6. Mcp!Matches(n, A \o x) /\ Mcp!Rest(n, A \o x) = x
  <2>1. Len(A) + 1 = Len(P) + 2
    <3> HIDE DEF A
    <3>1. QED
      BY <1>4
  <2>2. SubSeq(A \o x, Len(P) + 2, Len(A \o x)) = x
    BY <1>5, <2>1
  <2>3. QED
    BY <1>5, <2>2 DEF Mcp!Matches, Mcp!Rest, P
<1>7. QED
  BY <1>3, <1>4, <1>a, <1>6 DEF P

\* What the cache says of the entries that were connected, what of it is offered,
\* and that an offered tool is known by its composed name also after the cleanup.
OfferedTools == UNION {{[name |-> Mcp!ToolName(config[i].name, t), entry |-> i, tool |-> t] :
                           t \in tools[i]} : i \in DOMAIN tools}
Composed(t) == /\ t.entry \in DOMAIN config /\ t.tool \in ToolNames
               /\ t.name = Mcp!ToolName(config[t.entry].name, t.tool)

McpInv ==
    /\ Mcp!TypeOK
    /\ state \in {"new", "connecting", "ready", "destroyed"}
    /\ state = "new" => open = {}
    /\ state \in {"new", "connecting"} => offered = {}
    /\ state = "connecting" /\ at \in DOMAIN config =>
         /\ stage = "handshake" => at \in open
         /\ stage = "list" => at \in clients
    /\ \A i \in DOMAIN tools :
         tools[i] = IF config[i].kind = "works" THEN config[i].has ELSE {}
    /\ state \in {"connecting", "ready"} => 
         \A i \in DOMAIN config : i < at /\ config[i].kind = "works" => i \in DOMAIN tools
    /\ state = "ready" => at = Len(config) + 1 /\ offered = OfferedTools
    /\ \A t \in offered : Composed(t)

\* Initially nothing was read.
LEMMA McpInit == Mcp!Init => McpInv
<1> SUFFICES ASSUME Mcp!Init PROVE McpInv
  OBVIOUS
<1>1. MaxServers \in Nat
  BY ServicesAssumption DEF Mcp!McpAssumption
<1>2. config = <<>> /\ config \in Seq(Mcp!Entries) /\ Len(config) = 0 /\ DOMAIN tools = {}
  BY DEF Mcp!Init
<1>3. QED
  BY <1>1, <1>2 DEF Mcp!Init, McpInv, Mcp!TypeOK

\* Every step of the toolkit keeps it.
LEMMA McpStep == McpInv /\ [Mcp!Next]_mcpVars => McpInv'
<1> SUFFICES ASSUME McpInv, [Mcp!Next]_mcpVars PROVE McpInv'
  OBVIOUS
<1>1. ASSUME Mcp!ReadConfig PROVE McpInv'
  <2>1. MaxServers \in Nat
    BY ServicesAssumption DEF Mcp!McpAssumption
  <2>2. config' \in Seq(Mcp!Entries) /\ Len(config') <= MaxServers
    <3>1. PICK c \in Mcp!Configs :
              config' = IF \E i \in DOMAIN c : c[i].kind = "invalid" THEN <<>> ELSE c
      BY <1>1 DEF Mcp!ReadConfig
    <3>2. PICK n \in 0 .. MaxServers : c \in [1 .. n -> Mcp!Entries]
      BY <3>1 DEF Mcp!Configs
    <3> HIDE DEF Mcp!Entries
    <3>3. c \in Seq(Mcp!Entries) /\ Len(c) = n
      BY <2>1, <3>2
    <3>4. <<>> \in Seq(Mcp!Entries) /\ Len(<<>>) = 0
      OBVIOUS
    <3>5. QED
      BY <2>1, <3>1, <3>2, <3>3, <3>4
  <2>3. Len(config') \in Nat /\ DOMAIN config' = 1 .. Len(config')
    BY <2>2, LenProperties
  <2>4. DOMAIN tools = {} /\ clients = {} /\ open = {} /\ offered = {} /\ unknown = {}
    BY <1>1 DEF Mcp!ReadConfig, McpInv, Mcp!TypeOK
  <2>5. QED
    BY <1>1, <2>2, <2>3, <2>4 DEF Mcp!ReadConfig, McpInv, Mcp!TypeOK
<1>2. ASSUME Mcp!Fail PROVE McpInv'
  <2>1. at \in DOMAIN config /\ Len(config) \in Nat /\ DOMAIN config = 1 .. Len(config)
    BY <1>2, LenProperties DEF Mcp!Fail, Mcp!Connecting, McpInv, Mcp!TypeOK
  <2>2. config[at].kind # "works"
          /\ UNCHANGED <<config, state, open, clients, tools, offered, unknown>>
        /\ at' = at + 1 /\ stage' = "open" /\ state = "connecting"
    BY <1>2 DEF Mcp!Fail, Mcp!Connecting, Mcp!NextEntry
  <2>3. \A t \in offered : Composed(t)'
    BY <2>2 DEF McpInv, Composed
  <2>4. QED
    BY <2>1, <2>2, <2>3 DEF McpInv, Mcp!TypeOK
<1>3. ASSUME Mcp!Open PROVE McpInv'
  <2>1. QED
    BY <1>3 DEF Mcp!Open, Mcp!Connecting, McpInv, Mcp!TypeOK, Composed
<1>4. ASSUME Mcp!Handshake PROVE McpInv'
  <2>1. QED
    BY <1>4 DEF Mcp!Handshake, Mcp!Connecting, McpInv, Mcp!TypeOK, Composed
<1>5. ASSUME Mcp!List PROVE McpInv'
  <2>1. at \in DOMAIN config /\ Len(config) \in Nat /\ DOMAIN config = 1 .. Len(config)
        /\ at \in clients /\ state = "connecting" /\ offered = {}
    BY <1>5, LenProperties DEF Mcp!List, Mcp!Connecting, McpInv, Mcp!TypeOK
  <2>2. /\ at' = at + 1 /\ stage' = "open"
        /\ UNCHANGED <<config, state, open, clients, offered, unknown>>
        /\ DOMAIN tools' = DOMAIN tools \cup {at}
        /\ \A i \in DOMAIN tools \cup {at} :
             tools'[i] = IF i # at THEN tools[i]
                         ELSE IF config[at].kind = "works" THEN config[at].has ELSE {}
    BY <1>5 DEF Mcp!List, Mcp!NextEntry
  <2>3. Mcp!TypeOK'
    BY <2>1, <2>2 DEF McpInv, Mcp!TypeOK
  <2>4. \A i \in DOMAIN tools' :
          tools'[i] = IF config'[i].kind = "works" THEN config'[i].has ELSE {}
    BY <2>2 DEF McpInv
  <2>5. QED
    BY <2>1, <2>2, <2>3, <2>4 DEF McpInv
<1>6. ASSUME Mcp!Ready PROVE McpInv'
  <2>1. /\ offered' = OfferedTools /\ offered' = OfferedTools'
        /\ UNCHANGED <<config, at, stage, open, clients, tools, unknown>>
        /\ state = "connecting" /\ state' = "ready" /\ at = Len(config) + 1
    BY <1>6 DEF Mcp!Ready, OfferedTools
  <2>2. ASSUME NEW t \in offered' PROVE Composed(t)'
    <3>1. PICK i \in DOMAIN tools : \E x \in tools[i] :
              t = [name |-> Mcp!ToolName(config[i].name, x), entry |-> i, tool |-> x]
      BY <2>1 DEF OfferedTools
    <3>2. PICK x \in tools[i] :
              t = [name |-> Mcp!ToolName(config[i].name, x), entry |-> i, tool |-> x]
      BY <3>1
    <3>3. i \in DOMAIN config /\ x \in ToolNames
      <4>1. i \in DOMAIN config /\ config[i] \in Mcp!Entries /\ x \in config[i].has
        BY <3>2, ElementOfSeq DEF McpInv, Mcp!TypeOK
      <4>2. QED
        BY <4>1 DEF Mcp!Entries
    <3>4. QED
      BY <2>1, <3>2, <3>3 DEF Composed
  <2>3. unknown = {}
    BY <2>1 DEF McpInv, Mcp!TypeOK
  <2>4. QED
    BY <2>1, <2>2, <2>3 DEF McpInv, Mcp!TypeOK
<1>7. ASSUME Mcp!AgentCalls PROVE McpInv'
  <2>1. /\ unknown' \subseteq offered
        /\ UNCHANGED <<config, state, at, stage, open, clients, tools, offered>>
    BY <1>7 DEF Mcp!AgentCalls, McpInv, Mcp!TypeOK
  <2>2. OfferedTools' = OfferedTools /\ \A t \in offered : Composed(t)'
    BY <2>1 DEF McpInv, OfferedTools, Composed
  <2>3. QED
    BY <2>1, <2>2 DEF McpInv, Mcp!TypeOK
<1>8. ASSUME Mcp!Cleanup PROVE McpInv'
  <2>1. /\ state' = "destroyed" /\ UNCHANGED <<config, at, stage, offered, unknown>>
        /\ \/ open' = {} /\ clients' = {} /\ DOMAIN tools' = {}
           \/ UNCHANGED <<open, clients, tools>>
    BY <1>8 DEF Mcp!Cleanup
  <2>2. \A t \in offered : Composed(t)'
    BY <2>1 DEF McpInv, Composed
  <2>3. QED
    BY <2>1, <2>2 DEF McpInv, Mcp!TypeOK
<1>9. CASE UNCHANGED mcpVars
  <2>1. OfferedTools' = OfferedTools /\ \A t \in offered : Composed(t)'
    BY <1>9 DEF McpInv, mcpVars, OfferedTools, Composed
  <2>2. QED
    BY <1>9, <2>1 DEF McpInv, mcpVars, Mcp!TypeOK
<1>10. QED
  BY <1>1, <1>2, <1>3, <1>4, <1>5, <1>6, <1>7, <1>8, <1>9
     DEF Mcp!Next

\* It holds throughout.
LEMMA McpHold == AllSpec => []McpInv
<1>1. AllInit => McpInv
  BY McpInit DEF AllInit
<1>2. McpInv /\ [AllNext]_allVars => McpInv'
  BY McpStep DEF AllNext, allVars, mcpVars
<1>3. QED
  BY <1>1, <1>2, PTL DEF AllSpec

\* What the invariant says of a toolkit that is ready.
LEMMA WorkingOffered == McpInv => Mcp!WorkingAreOffered
<1> SUFFICES ASSUME McpInv, state = "ready" PROVE Mcp!WorkingAreOffered
  BY DEF Mcp!WorkingAreOffered
<1>1. /\ DOMAIN config = 1 .. Len(config) /\ Len(config) \in Nat /\ at = Len(config) + 1
      /\ \A i \in DOMAIN config : config[i] \in Mcp!Entries
      /\ offered = OfferedTools /\ DOMAIN tools \subseteq clients
           /\ DOMAIN tools \subseteq DOMAIN config
  <2> HIDE DEF Mcp!Entries
  <2>1. QED
    BY LenProperties, ElementOfSeq DEF McpInv, Mcp!TypeOK
<1>2. \A i \in DOMAIN config : config[i].kind = "works" =>
          i \in DOMAIN tools /\ i \in clients /\ tools[i] = config[i].has
  BY <1>1 DEF McpInv
<1>3. \A i \in DOMAIN config : \A x \in config[i].has : config[i].kind = "works" =>
          [name |-> Mcp!ToolName(config[i].name, x), entry |-> i, tool |-> x] \in offered
  BY <1>1, <1>2 DEF OfferedTools
<1>4. \A t \in offered : \E i \in DOMAIN config : \E x \in config[i].has :
          /\ config[i].kind = "works" /\ x \in ToolNames
          /\ t = [name |-> Mcp!ToolName(config[i].name, x), entry |-> i, tool |-> x]
  <2>1. SUFFICES ASSUME NEW t \in offered
                 PROVE  \E i \in DOMAIN config : \E x \in config[i].has :
                          /\ config[i].kind = "works" /\ x \in ToolNames
                          /\ t = [name |-> Mcp!ToolName(config[i].name, x), entry |-> i, tool |-> x]
    OBVIOUS
  <2>2. PICK i \in DOMAIN tools : \E x \in tools[i] :
            t = [name |-> Mcp!ToolName(config[i].name, x), entry |-> i, tool |-> x]
    BY <1>1 DEF OfferedTools
  <2>3. /\ i \in DOMAIN config /\ config[i] \in Mcp!Entries
        /\ tools[i] = IF config[i].kind = "works" THEN config[i].has ELSE {}
    BY <1>1 DEF McpInv
  <2>4. config[i].kind = "works" /\ tools[i] = config[i].has
    BY <2>2, <2>3
  <2>5. config[i].has \subseteq ToolNames
    BY <2>3 DEF Mcp!Entries
  <2>6. QED
    BY <2>2, <2>3, <2>4, <2>5
<1> DEFINE R == [name : {u.name : u \in offered}, entry : DOMAIN config, tool : ToolNames]
           Q(t) == /\ config[t.entry].kind = "works" /\ t.tool \in config[t.entry].has
                   /\ t.name = Mcp!ToolName(config[t.entry].name, t.tool)
<1>5. \A t \in offered : t \in R /\ Q(t)
  BY <1>4
<1>6. \A t \in R : Q(t) => t \in offered
  <2>1. SUFFICES ASSUME NEW t \in R, Q(t) PROVE t \in offered
    OBVIOUS
  <2>2. t = [name |-> t.name, entry |-> t.entry, tool |-> t.tool]
    OBVIOUS
  <2>3. QED
    BY <1>3, <2>1, <2>2
<1>7. offered = {t \in R : Q(t)}
  BY <1>5, <1>6
<1>8. \A i \in DOMAIN config : config[i].kind = "works" =>
          i \in clients /\ \A x \in config[i].has : \E t \in offered : t.entry = i /\ t.tool = x
  BY <1>2, <1>3
<1>9. QED
  BY <1>7, <1>8 DEF Mcp!WorkingAreOffered

\* What it says of the names.
LEMMA NamesResolve == McpInv /\ Mcp!PrefixFree => Mcp!CallReachesTool
<1> SUFFICES ASSUME McpInv, Mcp!PrefixFree, NEW t \in offered
             PROVE  Mcp!Resolve(t.name) = <<t.entry, t.tool>>
  BY DEF Mcp!CallReachesTool
<1> DEFINE P(i) == Mcp!Prefix(config[i].name) \o <<"_">>
           e == t.entry
           hits == {i \in DOMAIN config : Mcp!Matches(config[i].name, t.name)}
<1>1. /\ e \in DOMAIN config /\ t.tool \in ToolNames
      /\ t.name = Mcp!ToolName(config[e].name, t.tool)
  BY DEF McpInv, Composed
<1>2. \A i \in DOMAIN config : config[i].name \in Names
  <2>1. \A i \in DOMAIN config : config[i] \in Mcp!Entries
    <3> HIDE DEF Mcp!Entries
    <3>1. QED
      BY ElementOfSeq, LenProperties DEF McpInv, Mcp!TypeOK
  <2>2. QED
    BY <2>1 DEF Mcp!Entries
<1>3. /\ \A i \in DOMAIN config : P(i) \in Seq(Chars) /\ Len(P(i)) \in Nat
      /\ t.name \in Seq(Chars) /\ Mcp!Rest(config[e].name, t.name) = t.tool
      /\ Mcp!Matches(config[e].name, t.name)
  <2>1. \A i \in DOMAIN config : P(i) \in Seq(Chars)
    BY <1>1, <1>2, NameIsComposed
  <2>2. \A i \in DOMAIN config : Len(P(i)) \in Nat
    <3> HIDE DEF P
    <3>1. QED
      BY <2>1, LenProperties
  <2>3. QED
    <3>1. config[e].name \in Names /\ t.tool \in ToolNames
      BY <1>1, <1>2
    <3>2. /\ Mcp!Rest(config[e].name, Mcp!ToolName(config[e].name, t.tool)) = t.tool
          /\ Mcp!Matches(config[e].name, Mcp!ToolName(config[e].name, t.tool))
          /\ Mcp!ToolName(config[e].name, t.tool) \in Seq(Chars)
      BY <3>1, NameIsComposed
    <3>3. QED
      BY <1>1, <2>1, <2>2, <3>2
<1>4. \A i \in hits : Mcp!IsPrefix(P(i), t.name)
  BY DEF Mcp!Matches
<1>5. \A i \in hits : i = e
  <2>1. SUFFICES ASSUME NEW i \in hits, i # e PROVE FALSE
    OBVIOUS
  <2>2. Mcp!IsPrefix(P(i), t.name) /\ Mcp!IsPrefix(P(e), t.name)
    BY <1>1, <1>3, <1>4
  <2>3. ~Mcp!IsPrefix(P(i), P(e)) /\ ~Mcp!IsPrefix(P(e), P(i))
    BY <1>1, <2>1 DEF Mcp!PrefixFree
  <2>4. P(i) \in Seq(Chars) /\ P(e) \in Seq(Chars) /\ Len(P(i)) \in Nat /\ Len(P(e)) \in Nat
        /\ t.name \in Seq(Chars)
    BY <1>1, <1>3
  <2> HIDE DEF P
  <2>5. CASE Len(P(i)) <= Len(P(e))
    BY <2>2, <2>3, <2>4, <2>5, StartsCompare
  <2>6. CASE Len(P(e)) <= Len(P(i))
    BY <2>2, <2>3, <2>4, <2>6, StartsCompare
  <2>7. QED
    BY <2>4, <2>5, <2>6
<1>6. hits = {e} /\ e \in Nat
  <2>1. Len(config) \in Nat /\ DOMAIN config = 1 .. Len(config)
    <3> HIDE DEF Mcp!Entries
    <3>1. QED
      BY LenProperties DEF McpInv, Mcp!TypeOK
  <2>2. e \in hits
    BY <1>1, <1>3
  <2>3. QED
    BY <1>1, <1>5, <2>1, <2>2
<1>7. (CHOOSE h \in hits : \A g \in hits : h <= g) = e
  BY <1>6
<1>8. Mcp!Resolve(t.name) = IF hits = {} THEN <<>>
                            ELSE LET i == CHOOSE h \in hits : \A g \in hits : h <= g
                                 IN  <<i, Mcp!Rest(config[i].name, t.name)>>
  BY DEF Mcp!Resolve
<1>9. QED
  BY <1>3, <1>6, <1>7, <1>8


-----------------------------------------------------------------------------
(* Fields of a session (SessionFields) *)

\* The cardinality the instance counts with is that of FiniteSets.
LEMMA SameCount == ASSUME NEW S PROVE Fields!Cardinality(S) = Cardinality(S)
  BY DEF Fields!Cardinality, Cardinality

\* What is assumed of the constants.
LEMMA FieldConstants == MaxEvents \in Nat /\ None \notin Chats /\ IsFiniteSet(Chats)
<1>1. IsFiniteSet(Chats) <=> Fields!IsFiniteSet(Chats)
  BY DEF Fields!IsFiniteSet, IsFiniteSet
<1>2. QED
  BY <1>1, ServicesAssumption DEF Fields!SessionFieldsAssumption

FileEntries == [path : Paths, by : Chats, event : Nat]
Docs == [unread : Nat, shared : BOOLEAN, files : SUBSET FileEntries,
         status : {"pending", "running", "completed"}, task : Chats \cup {None}]
ChatRecs == [pc : {"idle", "sandbox", "browser", "create", "watch", "leave", "done"},
             snap : Docs, task : Chats \cup {None}, at : Nat]
RunRecs == [pc : {"off", "start", "flow", "count", "settle", "remove", "upload", "add"},
            left : 0 .. MaxEvents, path : Paths \cup {None}, old : FileEntries \cup {None}]

FieldTypes ==
    /\ doc \in Docs /\ chat \in [Chats -> ChatRecs] /\ run \in [Chats -> RunRecs]
    /\ out \in [Chats -> Seq({"message", "done"})] /\ covered \in [Chats -> Nat]
    /\ stale \in SUBSET Chats /\ revived \in BOOLEAN

\* A chat that made no task yet has none; one that reads a stream has one.
ChatIs(c) ==
    /\ chat[c].pc = "idle" \/ Fields!Creating(c) => run[c].pc = "off" /\ out[c] = <<>>
    /\ chat[c].pc = "watch" => chat[c].task \in Chats
    /\ chat[c].at > 0 => chat[c].task \in Chats /\ chat[c].at <= Len(out[chat[c].task])

\* A stream is messages and then the done event of a flow that ended; a message is
\* published before it is counted, and covered is the place of a done event.
RunIs(r) ==
    /\ covered[r] <= Len(out[r])
    /\ covered[r] > 0 => out[r][covered[r]] = "done"
    /\ \A i \in DOMAIN out[r] : /\ out[r][i] = "done" => run[r].pc \in {"settle", "off"}
                                /\ out[r][i] = "message" => i <= MaxEvents
    /\ run[r].pc \notin {"settle", "off"} => Len(out[r]) + run[r].left <= MaxEvents
    /\ run[r].pc = "count" => Len(out[r]) > 0 /\ out[r][Len(out[r])] = "message"
    /\ run[r].pc \in {"remove", "upload", "add"} => run[r].path \in Paths

\* The messages that were counted and that nobody watched to the end.
IsCounted(c, i) ==
    /\ i \in DOMAIN out[c] /\ out[c][i] = "message" /\ i > covered[c]
    /\ run[c].pc = "count" => i < Len(out[c])
Counted == {x \in Chats \X (1 .. MaxEvents) : IsCounted(x[1], x[2])}

\* No count is larger: not the document's, but for one that a stale save brought
\* back, and not the one a chat will write back, but for the stale ones.
CountsHold ==
    /\ ~revived => doc.unread <= Cardinality(Counted)
    /\ \A c \in Chats : Fields!Creating(c) /\ c \notin stale
                             => chat[c].snap.unread <= Cardinality(Counted)

FieldsInv ==
    /\ FieldTypes
    /\ \A c \in Chats : ChatIs(c)
    /\ \A r \in Chats : RunIs(r)
    /\ CountsHold

\* Sets of places in the streams are finite, and at most MaxEvents for each chat.
LEMMA PlacesAreFinite ==
    ASSUME NEW S \in SUBSET (Chats \X (1 .. MaxEvents))
    PROVE  /\ IsFiniteSet(S) /\ Cardinality(S) \in Nat
           /\ Cardinality(S) <= Cardinality(Chats) * MaxEvents
<1>1. IsFiniteSet(1 .. MaxEvents) /\ Cardinality(1 .. MaxEvents) = MaxEvents
  BY FieldConstants, FS_Interval
<1>2. /\ IsFiniteSet(Chats \X (1 .. MaxEvents))
      /\ Cardinality(Chats \X (1 .. MaxEvents)) = Cardinality(Chats) * MaxEvents
  BY <1>1, FieldConstants, FS_Product
<1>3. IsFiniteSet(S) /\ Cardinality(S) <= Cardinality(Chats \X (1 .. MaxEvents))
  BY <1>2, FS_Subset
<1>4. QED
  BY <1>2, <1>3, FS_CardinalityType

\* What was counted stays counted, so there is no less of it.
LEMMA CountKept ==
    ASSUME FieldsInv, \A c \in Chats : \A i : IsCounted(c, i) => IsCounted(c, i)'
    PROVE  /\ Cardinality(Counted) \in Nat /\ Cardinality(Counted') \in Nat
           /\ Cardinality(Counted) <= Cardinality(Counted')
<1>1. Counted \subseteq Counted'
  BY DEF Counted
<1>2. QED
  BY <1>1, PlacesAreFinite, FS_Subset DEF Counted

\* No document a chat holds is the worse for it.
LEMMA SnapsKept ==
    ASSUME FieldsInv, Cardinality(Counted) \in Nat, Cardinality(Counted') \in Nat,
           Cardinality(Counted) <= Cardinality(Counted'),
           NEW d \in Chats, Fields!Creating(d)', d \notin stale', d \notin stale, chat'[d] = chat[d]
    PROVE  chat'[d].snap.unread <= Cardinality(Counted')
<1>1. chat[d].snap.unread <= Cardinality(Counted) /\ chat[d].snap.unread \in Nat
  BY DEF FieldsInv, FieldTypes, ChatRecs, Docs, CountsHold, Fields!Creating
<1>2. QED
  BY <1>1

\* A chat goes on, and nothing is counted: what it holds it has just found or held
\* before, and what is in the document now was, or it held.
LEMMA CountTurn ==
    ASSUME FieldsInv, NEW c \in Chats, NEW q \in ChatRecs, chat' = [chat EXCEPT ![c] = q],
           Counted' = Counted,
           \A d \in Chats \ {c} : d \in stale => d \in stale',
           q.pc \in {"sandbox", "browser", "create"} /\ c \notin stale' =>
               \/ ~revived /\ q.snap = doc
               \/ Fields!Creating(c) /\ c \notin stale /\ q.snap = chat[c].snap,
           \/ revived'
           \/ doc'.unread = 0
           \/ ~revived /\ doc'.unread = doc.unread
           \/ Fields!Creating(c) /\ c \notin stale /\ doc'.unread = chat[c].snap.unread
    PROVE  CountsHold'
<1>1. Cardinality(Counted) \in Nat /\ Cardinality(Counted') = Cardinality(Counted)
  BY PlacesAreFinite DEF Counted
<1>2. chat'[c] = q /\ \A d \in Chats \ {c} : chat'[d] = chat[d]
  BY DEF FieldsInv, FieldTypes
<1>3. ASSUME NEW d \in Chats, Fields!Creating(d)', d \notin stale'
      PROVE  chat'[d].snap.unread <= Cardinality(Counted')
  <2>1. CASE d = c
    BY <1>1, <1>2, <1>3, <2>1 DEF FieldsInv, CountsHold, Fields!Creating
  <2>2. CASE d # c
    BY <1>1, <1>2, <1>3, <2>2, SnapsKept
  <2>3. QED
    BY <2>1, <2>2
<1>4. ~revived' => doc'.unread <= Cardinality(Counted')
  BY <1>1 DEF FieldsInv, CountsHold
<1>5. QED
  BY <1>3, <1>4 DEF CountsHold

\* Initially nothing was sent.
LEMMA FieldsInit == Fields!Init => FieldsInv
<1> SUFFICES ASSUME Fields!Init PROVE FieldsInv
  OBVIOUS
<1> USE FieldConstants
<1>1. Fields!Fresh \in Docs /\ Fields!Fresh.unread = 0
  BY DEF Fields!Fresh, Docs
<1>2. /\ Fields!NoChat \in ChatRecs /\ Fields!NoChat.pc = "idle" /\ Fields!NoChat.at = 0
      /\ Fields!NoRun \in RunRecs /\ Fields!NoRun.pc = "off"
  <2>1. Fields!NoChat \in ChatRecs
    <3> HIDE DEF Docs
    <3>1. QED
      BY <1>1 DEF Fields!NoChat, ChatRecs
  <2>2. QED
    BY <2>1 DEF Fields!NoChat, Fields!NoRun, RunRecs
<1>3. FieldTypes
  <2>1. stale \in SUBSET Chats /\ revived \in BOOLEAN
    BY DEF Fields!Init
  <2>2. QED
    BY <1>1, <1>2, <2>1 DEF Fields!Init, FieldTypes
<1>4. \A c \in Chats : ChatIs(c) /\ RunIs(c)
  BY <1>2 DEF Fields!Init, ChatIs, RunIs, Fields!Creating
<1>5. CountsHold
  <2>1. Cardinality(Counted) \in Nat
    BY PlacesAreFinite DEF Counted
  <2>2. QED
    BY <1>1, <1>2, <2>1 DEF Fields!Init, CountsHold, Fields!Creating
<1>6. QED
  BY <1>1, <1>3, <1>4, <1>5 DEF Fields!Init, FieldsInv

\* A runner goes on, with what it appends to its stream.
LEMMA RunnerTurn ==
    ASSUME FieldsInv, NEW r \in Chats, NEW q \in RunRecs, NEW s \in Seq({"message", "done"}),
           run' = [run EXCEPT ![r] = q], out' = [out EXCEPT ![r] = s], Len(out[r]) <= Len(s),
           run[r].pc # "off", UNCHANGED <<chat, covered, stale, revived>>, doc' \in Docs,
           RunIs(r)', \A c \in Chats : \A i : IsCounted(c, i) => IsCounted(c, i)',
           doc'.unread = doc.unread \/ (~revived => doc'.unread <= Cardinality(Counted'))
    PROVE  FieldsInv'
<1>1. FieldTypes'
  BY DEF FieldsInv, FieldTypes
<1>2. /\ run'[r] = q /\ out'[r] = s
      /\ \A c \in Chats \ {r} : run'[c] = run[c] /\ out'[c] = out[c]
      /\ \A c \in Chats : Len(out[c]) \in Nat /\ Len(out'[c]) \in Nat /\ Len(out[c]) <= Len(out'[c])
  BY LenProperties DEF FieldsInv, FieldTypes
<1>3. ASSUME NEW c \in Chats PROVE RunIs(c)'
  BY <1>2 DEF FieldsInv, RunIs
<1>4. ASSUME NEW c \in Chats PROVE ChatIs(c)'
  <2>1. ChatIs(c) /\ chat'[c] = chat[c] /\ chat[c] \in ChatRecs
    BY DEF FieldsInv, FieldTypes
  <2>2. chat[c].at > 0 => chat[c].task \in Chats /\ chat[c].at <= Len(out'[chat[c].task])
    BY <1>2, <2>1 DEF ChatIs, ChatRecs
  <2>3. chat[c].pc = "idle" \/ Fields!Creating(c) => c # r
    BY <2>1 DEF ChatIs
  <2>4. QED
    BY <1>2, <2>1, <2>2, <2>3 DEF ChatIs, Fields!Creating
<1>5. /\ Cardinality(Counted) \in Nat /\ Cardinality(Counted') \in Nat
      /\ Cardinality(Counted) <= Cardinality(Counted')
  BY CountKept
<1>6. CountsHold'
  <2>1. \A d \in Chats : Fields!Creating(d)' /\ d \notin stale'
                            => chat'[d].snap.unread <= Cardinality(Counted')
    BY <1>5, SnapsKept
  <2>2. ~revived' => doc'.unread <= Cardinality(Counted')
    BY <1>5 DEF FieldsInv, FieldTypes, Docs, CountsHold
  <2>3. QED
    BY <2>1, <2>2 DEF CountsHold
<1>7. QED
  BY <1>1, <1>3, <1>4, <1>6 DEF FieldsInv

\* It goes on without a word.
LEMMA SilentTurn ==
    ASSUME FieldsInv, NEW r \in Chats, NEW q \in RunRecs, run' = [run EXCEPT ![r] = q],
           run[r].pc \notin {"off", "count"}, q.pc # "count", q.left <= run[r].left,
           run[r].pc = "settle" => q.pc = "off",
           q.pc \in {"remove", "upload", "add"} => q.path \in Paths,
           UNCHANGED <<chat, out, covered, stale, revived>>, doc' \in Docs,
           doc'.unread = doc.unread
    PROVE  FieldsInv'
<1>1. out' = [out EXCEPT ![r] = out[r]] /\ out[r] \in Seq({"message", "done"})
        /\ Len(out[r]) \in Nat
  BY LenProperties DEF FieldsInv, FieldTypes
<1>2. run'[r] = q /\ (\A c \in Chats \ {r} : run'[c] = run[c]) /\ run[r] \in RunRecs
  BY DEF FieldsInv, FieldTypes
<1>3. q.left \in Nat /\ run[r].left \in Nat
  BY <1>2, FieldConstants DEF RunRecs
<1>4. RunIs(r)'
  BY <1>1, <1>2, <1>3, FieldConstants DEF FieldsInv, RunIs
<1>5. \A c \in Chats : \A i : IsCounted(c, i) => IsCounted(c, i)'
  BY <1>2 DEF IsCounted
<1>6. Len(out[r]) <= Len(out[r]) /\ UNCHANGED <<chat, covered, stale, revived>>
  BY <1>1
<1>7. QED
  BY <1>1, <1>4, <1>5, <1>6, RunnerTurn

\* A chat goes on: it creates a task that is not there yet, or it reads its stream.
LEMMA ChatTurn ==
    ASSUME FieldsInv, NEW c \in Chats, NEW q \in ChatRecs, chat' = [chat EXCEPT ![c] = q],
           UNCHANGED <<run, out>>, doc' \in Docs, covered' \in [Chats -> Nat],
           stale' \in SUBSET Chats, revived' \in BOOLEAN,
           q.pc \in {"idle", "sandbox", "browser", "create"} =>
               chat[c].pc \in {"idle", "sandbox", "browser", "create"},
           q.pc = "watch" => q.task \in Chats,
           q.at > 0 => q.task \in Chats /\ q.at <= Len(out[q.task]),
           \A r \in Chats : RunIs(r)', CountsHold'
    PROVE  FieldsInv'
<1>1. FieldTypes'
  BY DEF FieldsInv, FieldTypes
<1>2. chat'[c] = q /\ \A d \in Chats \ {c} : chat'[d] = chat[d]
  BY DEF FieldsInv, FieldTypes
<1>3. ASSUME NEW d \in Chats PROVE ChatIs(d)'
  <2>1. CASE d = c
    <3>1. ChatIs(c)
      BY DEF FieldsInv
    <3>2. q.pc \in {"idle", "sandbox", "browser", "create"} => run[c].pc = "off" /\ out[c] = <<>>
      BY <3>1 DEF ChatIs, Fields!Creating
    <3>3. QED
      BY <1>2, <2>1, <3>2 DEF ChatIs, Fields!Creating
  <2>2. CASE d # c
    BY <1>2, <2>2 DEF FieldsInv, ChatIs, Fields!Creating
  <2>3. QED
    BY <2>1, <2>2
<1>4. QED
  BY <1>1, <1>3 DEF FieldsInv

\* A chat that covers nothing new leaves the streams' history as it is.
LEMMA StreamsStay ==
    ASSUME FieldsInv, UNCHANGED <<run, out, covered>>
    PROVE  /\ covered' \in [Chats -> Nat] /\ \A r \in Chats : RunIs(r)'
           /\ Counted' = Counted
BY DEF FieldsInv, FieldTypes, RunIs, Counted, IsCounted

\* A route updates one field.
LEMMA RouteTurn ==
    ASSUME FieldsInv, UNCHANGED <<chat, run, out, covered, stale>>, doc' \in Docs,
           revived' \in BOOLEAN,
           doc'.unread = 0 \/ (doc'.unread = doc.unread /\ revived' = revived)
    PROVE  FieldsInv'
<1>1. FieldTypes'
  BY DEF FieldsInv, FieldTypes
<1>2. \A c \in Chats : ChatIs(c)'
  BY DEF FieldsInv, ChatIs, Fields!Creating
<1>3. CountsHold'
  <2>1. Cardinality(Counted) \in Nat /\ Counted' = Counted
    BY PlacesAreFinite, StreamsStay DEF Counted
  <2>2. QED
    BY <2>1 DEF FieldsInv, CountsHold, Fields!Creating
<1>4. QED
  BY <1>1, <1>2, <1>3, StreamsStay DEF FieldsInv

\* Every step of a runner keeps it.
LEMMA RunnerKeeps ==
    ASSUME FieldsInv, NEW r \in Chats,
           Fields!Begin(r) \/ Fields!Publish(r) \/ Fields!Increment(r) \/ Fields!Close(r) 
           \/ Fields!Settle(r) \/ Fields!LookUp(r) \/ Fields!Remove(r) 
           \/ Fields!Upload(r) \/ Fields!UploadFails(r) \/ Fields!Add(r)
    PROVE  FieldsInv'
<1>1. ASSUME Fields!Begin(r) PROVE FieldsInv'
  <2>0. PICK q : q = [run[r] EXCEPT !.pc = "flow"]
    OBVIOUS
  <2>1. run[r] \in RunRecs /\ doc \in Docs
    BY DEF FieldsInv, FieldTypes
  <2>2. q \in RunRecs /\ q.pc = "flow" /\ q.left <= run[r].left
    BY <2>0, <2>1, FieldConstants DEF RunRecs
  <2>3. run' = [run EXCEPT ![r] = q]
    BY <1>1, <2>0 DEF Fields!Begin, Fields!Step, FieldsInv, FieldTypes
  <2>4. doc' \in Docs /\ doc'.unread = doc.unread
    BY <1>1, <2>1 DEF Fields!Begin, Fields!Update, Docs
  <2>5. QED
    BY <1>1, <2>2, <2>3, <2>4, SilentTurn DEF Fields!Begin, Fields!Step, Fields!Update, Fields!Untouched
<1>2. ASSUME Fields!Publish(r) PROVE FieldsInv'
  <2>1. PICK q : q = [run[r] EXCEPT !.pc = "count", !.left = run[r].left - 1]
    OBVIOUS
  <2>2. PICK s : s = Append(out[r], "message")
    OBVIOUS
  <2>3. /\ run[r] \in RunRecs /\ run[r].left > 0 /\ run[r].pc = "flow"
        /\ run[r].left \in Nat /\ run[r].left <= MaxEvents
    BY <1>2, FieldConstants DEF Fields!Publish, FieldsInv, FieldTypes, RunRecs
  <2>4. q \in RunRecs /\ q.pc = "count" /\ q.left = run[r].left - 1
    <3>1. PICK n : n = run[r].left - 1
      OBVIOUS
    <3>2. n \in 0 .. MaxEvents
      BY <3>1, <2>3, FieldConstants
    <3> DEFINE Left == 0 .. MaxEvents
               R == [run[r] EXCEPT !.pc = "count", !.left = n]
    <3>3. n \in Left /\ q = R /\ q.pc = "count" /\ q.left = n
      BY <2>1, <2>3, <3>1, <3>2 DEF RunRecs
    <3> HIDE DEF Left
    <3>4. R \in RunRecs
      BY <2>3, <3>3 DEF RunRecs, Left
    <3>5. QED
      BY <3>1, <3>3, <3>4
  <2>5. /\ out[r] \in Seq({"message", "done"}) /\ Len(out[r]) \in Nat
        /\ s \in Seq({"message", "done"}) /\ Len(s) = Len(out[r]) + 1 /\ s[Len(s)] = "message"
        /\ \A i \in DOMAIN out[r] : i \in DOMAIN s /\ s[i] = out[r][i]
        /\ \A i \in DOMAIN s : i \in DOMAIN out[r] \/ i = Len(s)
    BY <2>2, LenProperties DEF FieldsInv, FieldTypes
  <2>6. run' = [run EXCEPT ![r] = q]
    BY <1>2, <2>1 DEF Fields!Publish, FieldsInv, FieldTypes
  <2>7. out' = [out EXCEPT ![r] = s]
    BY <1>2, <2>2 DEF Fields!Publish, FieldsInv, FieldTypes
  <2>8. /\ run'[r] = q /\ out'[r] = s /\ covered' = covered
        /\ \A c \in Chats \ {r} : run'[c] = run[c] /\ out'[c] = out[c]
    BY <1>2, <2>6, <2>7 DEF FieldsInv, FieldTypes, Fields!Publish
  <2>9. RunIs(r)
    BY DEF FieldsInv
  <2>10. RunIs(r)'
    <3>1. covered[r] \in Nat /\ covered[r] = 0
      <4>1. covered[r] \in Nat /\ covered[r] <= Len(out[r])
        BY <2>9 DEF FieldsInv, FieldTypes, RunIs
      <4>2. covered[r] > 0 => covered[r] \in DOMAIN out[r] /\ out[r][covered[r]] = "done"
        BY <4>1, <2>5, <2>9, LenProperties DEF RunIs
      <4>3. QED
        BY <4>1, <4>2, <2>3, <2>9 DEF RunIs
    <3>2. Len(s) + q.left <= MaxEvents /\ Len(s) <= MaxEvents
      BY <2>3, <2>4, <2>5, <2>9, FieldConstants DEF RunIs
    <3>3. ASSUME NEW i \in DOMAIN s PROVE s[i] = "message" /\ i <= MaxEvents
      <4>1. CASE i \in DOMAIN out[r]
        BY <4>1, <2>3, <2>5, <2>9 DEF RunIs
      <4>2. CASE i = Len(s)
        BY <4>2, <2>5, <3>2
      <4>3. QED
        BY <2>5, <4>1, <4>2
    <3>4. QED
      BY <2>4, <2>5, <2>8, <3>1, <3>2, <3>3 DEF RunIs
  <2>11. \A c \in Chats : \A i : IsCounted(c, i) => IsCounted(c, i)'
    <3>1. SUFFICES ASSUME NEW c \in Chats, NEW i, IsCounted(c, i) PROVE IsCounted(c, i)'
      OBVIOUS
    <3>2. CASE c = r
      <4>1. i \in DOMAIN out[r] /\ out[r][i] = "message" /\ i > covered[r]
        BY <3>1, <3>2 DEF IsCounted
      <4>2. i \in DOMAIN s /\ s[i] = "message" /\ i < Len(s)
        BY <4>1, <2>5, LenProperties
      <4>3. QED
        BY <3>2, <4>1, <4>2, <2>8 DEF IsCounted
    <3>3. CASE c # r
      BY <3>1, <3>3, <2>8 DEF IsCounted
    <3>4. QED
      BY <3>2, <3>3
  <2>12. /\ doc' \in Docs /\ doc'.unread = doc.unread /\ Len(out[r]) <= Len(s)
         /\ UNCHANGED <<chat, covered, stale, revived>>
    BY <1>2, <2>5 DEF Fields!Publish, Fields!Untouched, FieldsInv, FieldTypes
  <2>13. QED
    BY <2>3, <2>4, <2>5, <2>6, <2>7, <2>10, <2>11, <2>12, RunnerTurn
<1>3. ASSUME Fields!Increment(r) PROVE FieldsInv'
  <2>1. PICK q : q = [run[r] EXCEPT !.pc = "flow"]
    OBVIOUS
  <2>2. run[r] \in RunRecs /\ doc \in Docs /\ run[r].pc = "count"
    BY <1>3 DEF Fields!Increment, Fields!Step, FieldsInv, FieldTypes
  <2>3. q \in RunRecs /\ q.pc = "flow" /\ q.left = run[r].left
    BY <2>1, <2>2 DEF RunRecs
  <2>4. run' = [run EXCEPT ![r] = q]
    BY <1>3, <2>1 DEF Fields!Increment, Fields!Step, FieldsInv, FieldTypes
  <2>5. doc' \in Docs /\ doc'.unread = doc.unread + 1 /\ doc.unread \in Nat
    BY <1>3, <2>2 DEF Fields!Increment, Fields!Update, Docs
  <2>6. /\ out[r] \in Seq({"message", "done"}) /\ Len(out[r]) \in Nat
        /\ DOMAIN out[r] = 1 .. Len(out[r]) /\ out' = [out EXCEPT ![r] = out[r]]
    BY <1>3, LenProperties DEF Fields!Increment, FieldsInv, FieldTypes
  <2>7. /\ run'[r] = q /\ out' = out /\ covered' = covered /\ chat' = chat
        /\ \A c \in Chats \ {r} : run'[c] = run[c]
    BY <1>3, <2>4 DEF FieldsInv, FieldTypes, Fields!Increment
  <2>8. RunIs(r)
    BY DEF FieldsInv
  <2>9. RunIs(r)'
    BY <2>2, <2>3, <2>7, <2>8 DEF RunIs
  <2> DEFINE new == <<r, Len(out[r])>>
  <2>10. /\ Len(out[r]) \in DOMAIN out[r] /\ out[r][Len(out[r])] = "message"
         /\ Len(out[r]) \in 1 .. MaxEvents
    BY <2>2, <2>6, <2>8, FieldConstants DEF RunIs
  <2>11. Len(out[r]) > covered[r]
    BY <2>2, <2>6, <2>8, <2>10 DEF RunIs, FieldsInv, FieldTypes
  <2>12. new \notin Counted
    BY <2>2, <2>6 DEF Counted, IsCounted
  <2>13. new \in Counted'
    BY <2>3, <2>7, <2>10, <2>11 DEF Counted, IsCounted
  <2>14. Counted \subseteq Counted'
    BY <2>3, <2>7 DEF Counted, IsCounted
  <2>15. /\ IsFiniteSet(Counted) /\ IsFiniteSet(Counted')
         /\ Cardinality(Counted) \in Nat /\ Cardinality(Counted') \in Nat
    BY PlacesAreFinite DEF Counted
  <2> HIDE DEF new
  <2>16. Cardinality(Counted \cup {new}) = Cardinality(Counted) + 1
    BY <2>12, <2>15, FS_AddElement
  <2>17. Cardinality(Counted \cup {new}) <= Cardinality(Counted')
    BY <2>13, <2>14, <2>15, FS_Subset
  <2>18. ~revived => doc'.unread <= Cardinality(Counted')
    BY <2>5, <2>15, <2>16, <2>17 DEF FieldsInv, CountsHold
  <2>19. Len(out[r]) <= Len(out[r]) /\ UNCHANGED <<chat, covered, stale, revived>>
    BY <1>3, <2>6 DEF Fields!Increment, Fields!Update
  <2>20. \A c \in Chats : \A i : IsCounted(c, i) => IsCounted(c, i)'
    BY <2>3, <2>7 DEF IsCounted
  <2>21. QED
    BY <2>2, <2>3, <2>4, <2>5, <2>6, <2>9, <2>18, <2>19, <2>20, RunnerTurn
<1>4. ASSUME Fields!Close(r) PROVE FieldsInv'
  <2>1. PICK q : q = [run[r] EXCEPT !.pc = "settle"]
    OBVIOUS
  <2>2. PICK s : s = Append(out[r], "done")
    OBVIOUS
  <2>3. run[r] \in RunRecs /\ run[r].pc = "flow"
    BY <1>4 DEF Fields!Close, Fields!Step, FieldsInv, FieldTypes
  <2>4. q \in RunRecs /\ q.pc = "settle"
    BY <2>1, <2>3 DEF RunRecs
  <2>5. /\ out[r] \in Seq({"message", "done"}) /\ Len(out[r]) \in Nat
        /\ s \in Seq({"message", "done"}) /\ Len(s) = Len(out[r]) + 1 /\ s[Len(s)] = "done"
        /\ \A i \in DOMAIN out[r] : i \in DOMAIN s /\ s[i] = out[r][i]
        /\ \A i \in DOMAIN s : i \in DOMAIN out[r] \/ i = Len(s)
    BY <2>2, LenProperties DEF FieldsInv, FieldTypes
  <2>6. run' = [run EXCEPT ![r] = q]
    BY <1>4, <2>1 DEF Fields!Close, Fields!Step, FieldsInv, FieldTypes
  <2>7. out' = [out EXCEPT ![r] = s]
    BY <1>4, <2>2 DEF Fields!Close, FieldsInv, FieldTypes
  <2>8. /\ run'[r] = q /\ out'[r] = s /\ covered' = covered
        /\ \A c \in Chats \ {r} : run'[c] = run[c] /\ out'[c] = out[c]
    BY <1>4, <2>6, <2>7 DEF FieldsInv, FieldTypes, Fields!Close
  <2>9. RunIs(r) /\ covered[r] \in Nat
    BY DEF FieldsInv, FieldTypes
  <2>10. RunIs(r)'
    <3>1. covered[r] <= Len(s) /\ (covered[r] > 0 => s[covered[r]] = "done")
      BY <2>5, <2>9, LenProperties DEF RunIs
    <3>2. \A i \in DOMAIN s : s[i] = "message" => i <= MaxEvents
      BY <2>5, <2>9 DEF RunIs
    <3>3. QED
      BY <2>4, <2>5, <2>8, <3>1, <3>2 DEF RunIs
  <2>11. \A c \in Chats : \A i : IsCounted(c, i) => IsCounted(c, i)'
    BY <2>4, <2>5, <2>8 DEF IsCounted
  <2>12. /\ doc' \in Docs /\ doc'.unread = doc.unread /\ Len(out[r]) <= Len(s)
         /\ UNCHANGED <<chat, covered, stale, revived>>
    BY <1>4, <2>5 DEF Fields!Close, Fields!Untouched, FieldsInv, FieldTypes
  <2>13. QED
    BY <2>3, <2>4, <2>5, <2>6, <2>7, <2>10, <2>11, <2>12, RunnerTurn
<1>5. ASSUME Fields!Settle(r) PROVE FieldsInv'
  <2>0. PICK q : q = [run[r] EXCEPT !.pc = "off"]
    OBVIOUS
  <2>1. run[r] \in RunRecs /\ doc \in Docs
    BY DEF FieldsInv, FieldTypes
  <2>2. q \in RunRecs /\ q.pc = "off" /\ q.left <= run[r].left
    BY <2>0, <2>1, FieldConstants DEF RunRecs
  <2>3. run' = [run EXCEPT ![r] = q]
    BY <1>5, <2>0 DEF Fields!Settle, Fields!Step, FieldsInv, FieldTypes
  <2>4. doc' \in Docs /\ doc'.unread = doc.unread
    BY <1>5, <2>1 DEF Fields!Settle, Fields!Update, Docs
  <2>5. QED
    BY <1>5, <2>2, <2>3, <2>4, SilentTurn DEF Fields!Settle, Fields!Step, Fields!Update, Fields!Untouched
<1>6. ASSUME Fields!LookUp(r) PROVE FieldsInv'
  <2>a. PICK p \in Paths : \E f \in IF Fields!Found(p) = {} THEN {None} ELSE Fields!Found(p) :
            run' = [run EXCEPT ![r].pc = "remove", ![r].left = @ - 1,
                               ![r].path = p, ![r].old = f]
    BY <1>6 DEF Fields!LookUp
  <2>1. PICK f \in IF Fields!Found(p) = {} THEN {None} ELSE Fields!Found(p) :
            run' = [run EXCEPT ![r].pc = "remove", ![r].left = @ - 1,
                               ![r].path = p, ![r].old = f]
    BY <2>a
  <2>2. PICK q : q = [run[r] EXCEPT !.pc = "remove", !.left = run[r].left - 1,
                                    !.path = p, !.old = f]
    OBVIOUS
  <2>3. run[r] \in RunRecs /\ doc \in Docs /\ run[r].left > 0 /\ run[r].pc = "flow"
    BY <1>6 DEF Fields!LookUp, FieldsInv, FieldTypes
  <2>4. f \in FileEntries \cup {None}
    BY <2>1, <2>3 DEF Fields!Found, Docs
  <2>5. q \in RunRecs /\ q.pc = "remove" /\ q.left <= run[r].left /\ q.path = p
    <3> HIDE DEF FileEntries
    <3>1. QED
      <4>1. PICK n : n = run[r].left - 1
        OBVIOUS
      <4>2. n \in 0 .. MaxEvents /\ n <= run[r].left
        BY <2>3, <4>1, FieldConstants DEF RunRecs
      <4>3. q = [run[r] EXCEPT !.pc = "remove", !.left = n, !.path = p, !.old = f]
        BY <2>2, <4>1
      <4>4. QED
        BY <2>3, <2>4, <4>2, <4>3 DEF RunRecs
  <2>6. run' = [run EXCEPT ![r] = q]
    BY <2>1, <2>2 DEF FieldsInv, FieldTypes
  <2>7. QED
    BY <1>6, <2>3, <2>5, <2>6, SilentTurn DEF Fields!LookUp, Fields!Untouched
<1>7. ASSUME Fields!Remove(r) PROVE FieldsInv'
  <2>0. PICK q : q = [run[r] EXCEPT !.pc = "upload"]
    OBVIOUS
  <2>1. run[r] \in RunRecs /\ doc \in Docs
    BY DEF FieldsInv, FieldTypes
  <2>2. q \in RunRecs /\ q.pc = "upload" /\ q.left <= run[r].left /\ q.path = run[r].path
    BY <2>0, <2>1, FieldConstants DEF RunRecs
  <2>3. run' = [run EXCEPT ![r] = q]
    BY <1>7, <2>0 DEF Fields!Remove, Fields!Step, FieldsInv, FieldTypes
  <2>4. doc' \in Docs /\ doc'.unread = doc.unread
    BY <1>7, <2>1 DEF Fields!Remove, Fields!Update, Docs
  <2>a. run[r].path \in Paths
    BY <1>7 DEF Fields!Remove, Fields!Step, FieldsInv, RunIs
  <2>5. QED
    BY <1>7, <2>a, <2>2, <2>3, <2>4, SilentTurn DEF Fields!Remove, Fields!Step, Fields!Update, Fields!Untouched
<1>8. ASSUME Fields!Upload(r) PROVE FieldsInv'
  <2>0. PICK q : q = [run[r] EXCEPT !.pc = "add"]
    OBVIOUS
  <2>1. run[r] \in RunRecs /\ doc \in Docs
    BY DEF FieldsInv, FieldTypes
  <2>2. q \in RunRecs /\ q.pc = "add" /\ q.left <= run[r].left /\ q.path = run[r].path
    BY <2>0, <2>1, FieldConstants DEF RunRecs
  <2>3. run' = [run EXCEPT ![r] = q]
    BY <1>8, <2>0 DEF Fields!Upload, Fields!Step, FieldsInv, FieldTypes
  <2>4. doc' \in Docs /\ doc'.unread = doc.unread
    BY <1>8, <2>1 DEF Fields!Upload, Fields!Untouched, Docs
  <2>a. run[r].path \in Paths
    BY <1>8 DEF Fields!Upload, Fields!Step, FieldsInv, RunIs
  <2>5. QED
    BY <1>8, <2>a, <2>2, <2>3, <2>4, SilentTurn DEF Fields!Upload, Fields!Step, Fields!Update, Fields!Untouched
<1>9. ASSUME Fields!UploadFails(r) PROVE FieldsInv'
  <2>0. PICK q : q = [Fields!NoRun EXCEPT !.pc = "flow", !.left = run[r].left]
    OBVIOUS
  <2>1. run[r] \in RunRecs /\ doc \in Docs
    BY DEF FieldsInv, FieldTypes
  <2>2. q \in RunRecs /\ q.pc = "flow" /\ q.left <= run[r].left
    <3>1. run[r].left \in 0 .. MaxEvents
      BY <2>1 DEF RunRecs
    <3>2. q = [pc |-> "flow", left |-> run[r].left, path |-> None, old |-> None]
      BY <2>0 DEF Fields!NoRun
    <3>3. run[r].left \in Nat
      BY <3>1, FieldConstants
    <3>4. QED
      BY <3>1, <3>2, <3>3 DEF RunRecs
  <2>3. run' = [run EXCEPT ![r] = q]
    BY <1>9, <2>0 DEF Fields!UploadFails, Fields!Synced, FieldsInv, FieldTypes
  <2>4. doc' \in Docs /\ doc'.unread = doc.unread
    BY <1>9, <2>1 DEF Fields!UploadFails, Fields!Untouched, Docs
  <2>5. QED
    BY <1>9, <2>2, <2>3, <2>4, SilentTurn DEF Fields!UploadFails, Fields!Synced, Fields!Update, Fields!Untouched
<1>10. ASSUME Fields!Add(r) PROVE FieldsInv'
  <2>0. PICK q : q = [Fields!NoRun EXCEPT !.pc = "flow", !.left = run[r].left]
    OBVIOUS
  <2>1. run[r] \in RunRecs /\ doc \in Docs
    BY DEF FieldsInv, FieldTypes
  <2>2. q \in RunRecs /\ q.pc = "flow" /\ q.left <= run[r].left
    <3>1. run[r].left \in 0 .. MaxEvents
      BY <2>1 DEF RunRecs
    <3>2. q = [pc |-> "flow", left |-> run[r].left, path |-> None, old |-> None]
      BY <2>0 DEF Fields!NoRun
    <3>3. run[r].left \in Nat
      BY <3>1, FieldConstants
    <3>4. QED
      BY <3>1, <3>2, <3>3 DEF RunRecs
  <2>3. run' = [run EXCEPT ![r] = q]
    BY <1>10, <2>0 DEF Fields!Add, Fields!Synced, FieldsInv, FieldTypes
  <2>4. doc' \in Docs /\ doc'.unread = doc.unread
    <3>1. [path |-> run[r].path, by |-> r, event |-> run[r].left] \in FileEntries
      <4>1. run[r].path \in Paths
        BY <1>10 DEF Fields!Add, Fields!Synced, FieldsInv, RunIs
      <4>2. run[r].left \in Nat
        BY <2>1, FieldConstants DEF RunRecs
      <4>3. QED
        BY <4>1, <4>2 DEF FileEntries
    <3>2. QED
      BY <1>10, <2>1, <3>1 DEF Fields!Add, Fields!Update, Docs
  <2>5. QED
    BY <1>10, <2>2, <2>3, <2>4, SilentTurn DEF Fields!Add, Fields!Synced, Fields!Update, Fields!Untouched
<1>11. QED
  BY <1>1, <1>2, <1>3, <1>4, <1>5, <1>6, <1>7, <1>8, <1>9, <1>10


\* The document of a session that nobody wrote to.
LEMMA FreshIs == Fields!Fresh \in Docs
BY FieldConstants DEF Fields!Fresh, Docs

\* A save of a stale document revives its count, and no other does.
LEMMA SaveMarks ==
    ASSUME NEW c, NEW d, Fields!Save(c, d)
    PROVE  doc' = d /\ revived' \in BOOLEAN /\ (revived' \/ c \notin stale)
<1>1. doc' = d /\ revived' = (c \in stale)
  BY DEF Fields!Save
<1>2. CASE c \in stale
  <2>1. revived' = TRUE
    BY <1>1, <1>2, Zenon
  <2>2. QED
    BY <1>1, <2>1
<1>3. CASE c \notin stale
  <2>1. revived' = FALSE
    <3>1. (c \in stale) = FALSE
      BY <1>3
    <3>2. QED
      BY <1>1, <3>1, Zenon
  <2>2. QED
    BY <1>1, <1>3, <2>1
<1>4. QED
  BY <1>2, <1>3

\* A chat that creates may save what it found.
Saved(c) == Fields!Save(c, chat[c].snap) \/ Fields!Untouched
LEMMA SavingTurn ==
    ASSUME FieldsInv, NEW c \in Chats, NEW q \in ChatRecs, chat' = [chat EXCEPT ![c] = q],
           chat[c].pc \in {"sandbox", "browser"}, UNCHANGED <<run, out, covered, stale>>, Saved(c),
           q.pc \in {"browser", "create", "leave"},
           q.pc \in {"browser", "create"} => q.snap = chat[c].snap,
           q.at = 0 \/ (q.at = chat[c].at /\ q.task = chat[c].task)
    PROVE  FieldsInv'
<1>1. covered' \in [Chats -> Nat] /\ Counted' = Counted /\ \A r \in Chats : RunIs(r)'
  BY StreamsStay
<1>2. /\ Fields!Creating(c) /\ chat[c].snap \in Docs /\ doc \in Docs
      /\ stale' \in SUBSET Chats /\ revived \in BOOLEAN
  BY DEF Fields!Creating, FieldsInv, FieldTypes, ChatRecs
<1>3. /\ doc' \in Docs /\ revived' \in BOOLEAN
      /\ \/ revived'
         \/ ~revived /\ doc'.unread = doc.unread
         \/ Fields!Creating(c) /\ c \notin stale /\ doc'.unread = chat[c].snap.unread
  <2>1. CASE Fields!Untouched
    BY <1>2, <2>1 DEF Fields!Untouched
  <2>2. CASE Fields!Save(c, chat[c].snap)
    BY <1>2, <2>2, SaveMarks
  <2>3. QED
    BY <2>1, <2>2 DEF Saved
<1>4. CountsHold'
  BY <1>1, <1>2, <1>3, CountTurn
<1>5. q.at > 0 => q.task \in Chats /\ q.at <= Len(out[q.task])
  BY DEF FieldsInv, ChatIs
<1>6. QED
  BY <1>1, <1>2, <1>3, <1>4, <1>5, ChatTurn

\* Every step of a chat keeps it.
LEMMA ChatKeeps ==
    ASSUME FieldsInv, NEW c \in Chats,
           Fields!Find(c) \/ Fields!Sandbox(c) \/ Fields!Browser(c) \/ Fields!Create(c)
           \/ Fields!Read(c) \/ Fields!Quit(c) \/ Fields!Leave(c)
    PROVE  FieldsInv'
<1>1. ASSUME Fields!Find(c) PROVE FieldsInv'
  <2>1. doc \in Docs /\ chat[c].pc = "idle"
    BY <1>1 DEF Fields!Find, FieldsInv, FieldTypes
  <2>2. PICK q : /\ chat' = [chat EXCEPT ![c] = q]
                 /\ q = IF doc.status # "running"
                        THEN [Fields!NoChat EXCEPT !.pc = "sandbox", !.snap = doc]
                        ELSE [Fields!NoChat EXCEPT !.task = doc.task,
                                !.pc = IF doc.task # None /\ run[doc.task].pc # "off"
                                       THEN "watch" ELSE "leave"]
    BY <1>1 DEF Fields!Find
  <2>3. /\ q \in ChatRecs /\ q.at = 0 /\ q.pc \in {"sandbox", "watch", "leave"}
        /\ q.pc = "sandbox" => q.snap = doc
        /\ q.pc = "watch" => q.task \in Chats
    <3>1. CASE doc.status # "running"
      <4>1. q = [pc |-> "sandbox", snap |-> doc, task |-> None, at |-> 0]
        BY <2>2, <3>1 DEF Fields!NoChat
      <4>2. QED
        BY <2>1, <4>1 DEF ChatRecs
    <3>2. CASE doc.status = "running"
      <4>1. PICK p \in {"watch", "leave"} : p = IF doc.task # None /\ run[doc.task].pc # "off"
                                                 THEN "watch" ELSE "leave"
        OBVIOUS
      <4>2. q = [pc |-> p, snap |-> Fields!Fresh, task |-> doc.task, at |-> 0]
        BY <2>2, <3>2, <4>1 DEF Fields!NoChat
      <4>3. doc.task \in Chats \cup {None} /\ Fields!Fresh \in Docs
        BY <2>1, FreshIs DEF Docs
      <4>4. QED
        BY <4>1, <4>2, <4>3 DEF ChatRecs
    <3>3. QED
      BY <3>1, <3>2
  <2>4. UNCHANGED <<doc, revived, run, out, covered>>
    BY <1>1 DEF Fields!Find, Fields!Untouched
  <2>5. /\ stale' \in SUBSET Chats /\ \A d \in Chats \ {c} : d \in stale => d \in stale'
        /\ c \notin stale' => ~revived
    BY <1>1 DEF Fields!Find, FieldsInv, FieldTypes
  <2>6. covered' \in [Chats -> Nat] /\ Counted' = Counted /\ \A r \in Chats : RunIs(r)'
    BY <2>4, StreamsStay
  <2>7. /\ q.at > 0 => q.task \in Chats /\ q.at <= Len(out[q.task])
        /\ q.pc \in {"sandbox", "browser", "create"} => q.snap = doc
        /\ doc' \in Docs /\ UNCHANGED <<run, out>> /\ revived' \in BOOLEAN
    BY <2>1, <2>3, <2>4 DEF FieldsInv, FieldTypes
  <2>8. CountsHold'
    BY <2>2, <2>3, <2>4, <2>5, <2>6, <2>7, CountTurn
  <2>9. QED
    BY <2>1, <2>2, <2>3, <2>5, <2>6, <2>7, <2>8, ChatTurn
<1>2. ASSUME Fields!Sandbox(c) PROVE FieldsInv'
  <2>1. chat[c].pc = "sandbox"
    BY <1>2 DEF Fields!Sandbox
  <2>2. PICK q : q = [chat[c] EXCEPT !.pc = "browser"]
    OBVIOUS
  <2>3. q \in ChatRecs /\ q.pc = "browser" /\ q.snap = chat[c].snap /\ q.at = chat[c].at
          /\ q.task = chat[c].task
    BY <2>2 DEF ChatRecs, FieldsInv, FieldTypes
  <2>4. chat' = [chat EXCEPT ![c] = q] /\ UNCHANGED <<run, out, covered, stale>>
    BY <1>2, <2>2 DEF Fields!Sandbox, FieldsInv, FieldTypes
  <2>5. Saved(c)
    BY <1>2 DEF Fields!Sandbox, Saved
  <2>6. QED
    BY <2>1, <2>3, <2>4, <2>5, SavingTurn
<1>3. ASSUME Fields!Browser(c) PROVE FieldsInv'
  <2>1. chat[c] \in ChatRecs /\ chat[c].pc = "browser"
    BY <1>3 DEF Fields!Browser, FieldsInv, FieldTypes
  <2>2. PICK q : /\ \/ q = [chat[c] EXCEPT !.pc = "create"]
                    \/ q = [Fields!NoChat EXCEPT !.pc = "leave"]
                 /\ chat' = [chat EXCEPT ![c] = q]
    <3>1. CASE chat' = [chat EXCEPT ![c].pc = "create"]
      <4>1. chat' = [chat EXCEPT ![c] = [chat[c] EXCEPT !.pc = "create"]]
        BY <3>1 DEF FieldsInv, FieldTypes
      <4>2. QED
        BY <4>1
    <3>2. CASE chat' = [chat EXCEPT ![c] = [Fields!NoChat EXCEPT !.pc = "leave"]]
      BY <3>2
    <3>3. QED
      BY <1>3, <3>1, <3>2 DEF Fields!Browser
  <2>3. /\ q \in ChatRecs /\ q.pc \in {"create", "leave"}
        /\ q.pc = "create" => q.snap = chat[c].snap
        /\ q.at = 0 \/ (q.at = chat[c].at /\ q.task = chat[c].task)
    <3>1. CASE q = [chat[c] EXCEPT !.pc = "create"]
      BY <2>1, <3>1 DEF ChatRecs
    <3>2. CASE q = [Fields!NoChat EXCEPT !.pc = "leave"]
      <4>1. q = [pc |-> "leave", snap |-> Fields!Fresh, task |-> None, at |-> 0]
        BY <3>2 DEF Fields!NoChat
      <4>2. QED
        BY <4>1, FreshIs DEF ChatRecs
    <3>3. QED
      BY <2>2, <3>1, <3>2
  <2>4. UNCHANGED <<run, out, covered, stale>> /\ Saved(c)
    BY <1>3 DEF Fields!Browser, Saved
  <2>5. QED
    BY <2>1, <2>2, <2>3, <2>4, SavingTurn
<1>4. ASSUME Fields!Create(c) PROVE FieldsInv'
  <2>1. chat[c] \in ChatRecs /\ chat[c].pc = "create" /\ Fields!Creating(c)
    BY <1>4 DEF Fields!Create, Fields!Creating, FieldsInv, FieldTypes
  <2>2. PICK q : q = [Fields!NoChat EXCEPT !.pc = "watch", !.task = c]
    OBVIOUS
  <2>3. q \in ChatRecs /\ q.pc = "watch" /\ q.task = c /\ q.at = 0
    <3>1. q = [pc |-> "watch", snap |-> Fields!Fresh, task |-> c, at |-> 0]
      BY <2>2 DEF Fields!NoChat
    <3>2. QED
      BY <3>1, FreshIs DEF ChatRecs
  <2>4. PICK x : x = [Fields!NoRun EXCEPT !.pc = "start", !.left = MaxEvents]
    OBVIOUS
  <2>5. x \in RunRecs /\ x.pc = "start" /\ x.left = MaxEvents
    <3>1. x = [pc |-> "start", left |-> MaxEvents, path |-> None, old |-> None]
      BY <2>4 DEF Fields!NoRun
    <3>2. QED
      BY <3>1, FieldConstants DEF RunRecs
  <2>6. chat' = [chat EXCEPT ![c] = q] /\ run' = [run EXCEPT ![c] = x] /\ UNCHANGED <<out, covered, stale>>
    BY <1>4, <2>2, <2>4 DEF Fields!Create
  <2>7. /\ doc' \in Docs /\ doc'.unread = chat[c].snap.unread
        /\ revived' \in BOOLEAN /\ (revived' \/ c \notin stale)
    <3>1. chat[c].snap \in Docs
      BY <2>1 DEF ChatRecs
    <3>2. doc' = [chat[c].snap EXCEPT !.task = c] /\ revived' \in BOOLEAN
            /\ (revived' \/ c \notin stale)
      BY <1>4, SaveMarks DEF Fields!Create
    <3>3. QED
      BY <3>1, <3>2 DEF Docs
  <2>8. FieldTypes'
    BY <2>3, <2>5, <2>6, <2>7 DEF FieldsInv, FieldTypes
  <2>9. /\ chat'[c] = q /\ run'[c] = x /\ out' = out
        /\ \A d \in Chats \ {c} : chat'[d] = chat[d] /\ run'[d] = run[d]
    BY <2>6 DEF FieldsInv, FieldTypes
  <2>10. out[c] = <<>>
    BY <2>1 DEF FieldsInv, ChatIs
  <2>11. ASSUME NEW r \in Chats PROVE RunIs(r)'
    <3>1. CASE r = c
      <4>1. covered[c] = 0
        BY <2>10 DEF FieldsInv, FieldTypes, RunIs
      <4>2. QED
        BY <2>5, <2>6, <2>9, <2>10, <3>1, <4>1, FieldConstants DEF RunIs
    <3>2. CASE r # c
      BY <2>6, <2>9, <3>2 DEF FieldsInv, RunIs
    <3>3. QED
      BY <3>1, <3>2
  <2>12. ASSUME NEW d \in Chats PROVE ChatIs(d)'
    <3>1. CASE d = c
      BY <2>3, <2>9, <3>1 DEF ChatIs, Fields!Creating
    <3>2. CASE d # c
      BY <2>9, <3>2 DEF ChatIs, FieldsInv, Fields!Creating
    <3>3. QED
      BY <3>1, <3>2
  <2>13. Counted' = Counted
    <3>1. \A d \in Chats : \A i : IsCounted(d, i)' <=> IsCounted(d, i)
      BY <2>5, <2>6, <2>9, <2>10 DEF IsCounted
    <3>2. QED
      BY <3>1 DEF Counted
  <2>14. CountsHold'
    BY <2>1, <2>3, <2>6, <2>7, <2>13, CountTurn
  <2>15. QED
    BY <2>8, <2>11, <2>12, <2>14 DEF FieldsInv
<1>5. ASSUME Fields!Read(c) PROVE FieldsInv'
  <2>1. /\ doc \in Docs /\ chat[c] \in ChatRecs /\ chat[c].pc = "watch" /\ ChatIs(c)
        /\ stale \in SUBSET Chats /\ revived \in BOOLEAN
    BY <1>5 DEF Fields!Read, FieldsInv, FieldTypes
  <2>2. PICK p \in {"watch", "leave"} :
             p = IF out[chat[c].task][chat[c].at + 1] = "done" THEN "leave" ELSE "watch"
    OBVIOUS
  <2>3. PICK q : q = [chat[c] EXCEPT !.at = chat[c].at + 1, !.pc = p]
    OBVIOUS
  <2>4. chat[c].at < Len(out[chat[c].task]) /\ chat[c].at \in Nat /\ chat[c].task \in Chats
    BY <1>5, <2>1 DEF Fields!Read, ChatIs, ChatRecs
  <2>5. /\ q \in ChatRecs /\ q.pc = p /\ q.task = chat[c].task /\ q.at = chat[c].at + 1
    <3>1. PICK n \in Nat : n = chat[c].at + 1
      BY <2>4
    <3>2. QED
      BY <2>1, <2>3, <3>1 DEF ChatRecs
  <2>6. chat' = [chat EXCEPT ![c] = q] /\ UNCHANGED <<run, out, covered, stale>>
    BY <1>5, <2>2, <2>3 DEF Fields!Read, FieldsInv, FieldTypes
  <2>7. doc' \in Docs /\ doc'.unread = 0 /\ revived' \in BOOLEAN
    BY <1>5, <2>1 DEF Fields!Read, Fields!Reset, Docs
  <2>8. q.at <= Len(out[q.task])
    BY <2>4, <2>5, LenProperties DEF FieldsInv, FieldTypes
  <2>9. CountsHold'
    BY <2>5, <2>6, <2>7, StreamsStay, CountTurn
  <2>10. QED
    BY <2>1, <2>4, <2>5, <2>6, <2>7, <2>8, <2>9, StreamsStay, ChatTurn
<1>6. ASSUME Fields!Quit(c) PROVE FieldsInv'
  <2>1. /\ doc \in Docs /\ chat[c] \in ChatRecs /\ chat[c].pc = "watch" /\ ChatIs(c)
        /\ stale \in SUBSET Chats /\ revived \in BOOLEAN
    BY <1>6 DEF Fields!Quit, FieldsInv, FieldTypes
  <2>2. PICK q : q = [chat[c] EXCEPT !.pc = "leave"]
    OBVIOUS
  <2>3. q \in ChatRecs /\ q.pc = "leave" /\ q.task = chat[c].task /\ q.at = chat[c].at
    BY <2>1, <2>2 DEF ChatRecs
  <2>4. chat' = [chat EXCEPT ![c] = q] /\ UNCHANGED <<doc, revived, run, out, covered, stale>>
    BY <1>6, <2>2 DEF Fields!Quit, Fields!Untouched, FieldsInv, FieldTypes
  <2>5. q.at > 0 => q.task \in Chats /\ q.at <= Len(out[q.task])
    BY <2>1, <2>3 DEF ChatIs
  <2>6. CountsHold'
    BY <2>1, <2>3, <2>4, StreamsStay, CountTurn
  <2>7. QED
    BY <2>1, <2>3, <2>4, <2>5, <2>6, StreamsStay, ChatTurn
<1>7. ASSUME Fields!Leave(c) PROVE FieldsInv'
  <2>1. /\ doc \in Docs /\ chat[c] \in ChatRecs /\ chat[c].pc = "leave" /\ ChatIs(c)
        /\ stale \in SUBSET Chats /\ revived \in BOOLEAN
    BY <1>7 DEF Fields!Leave, FieldsInv, FieldTypes
  <2>2. PICK q : q = [Fields!NoChat EXCEPT !.pc = "done"]
    OBVIOUS
  <2>3. q \in ChatRecs /\ q.pc = "done" /\ q.at = 0
    <3>1. q = [pc |-> "done", snap |-> Fields!Fresh, task |-> None, at |-> 0]
      BY <2>2 DEF Fields!NoChat
    <3>2. QED
      BY <3>1, FreshIs DEF ChatRecs
  <2>4. chat' = [chat EXCEPT ![c] = q] /\ UNCHANGED <<run, out>>
    BY <1>7, <2>2 DEF Fields!Leave
  <2>5. doc' \in Docs /\ doc'.unread = 0 /\ revived' \in BOOLEAN
    BY <1>7, <2>1 DEF Fields!Leave, Fields!Reset, Docs
  <2>6. /\ covered' \in [Chats -> Nat] /\ stale' \in SUBSET Chats /\ CountsHold'
        /\ \A r \in Chats : RunIs(r)'
    <3>1. PICK t, n : t = chat[c].task /\ n = chat[c].at
      OBVIOUS
    <3>2. CASE n > 0 /\ out[t][n] = "done" /\ n > covered[t]
      <4>1. covered' = [covered EXCEPT ![t] = n] /\ stale' = {d \in Chats : Fields!Creating(d)}
        BY <1>7, <3>1, <3>2 DEF Fields!Leave
      <4>2. n \in Nat /\ t \in Chats /\ n <= Len(out[t])
        BY <2>1, <3>1, <3>2 DEF ChatIs, ChatRecs
      <4>3. covered' \in [Chats -> Nat] /\ covered'[t] = n
              /\ \A r \in Chats \ {t} : covered'[r] = covered[r]
        BY <4>1, <4>2 DEF FieldsInv, FieldTypes
      <4>4. \A d \in Chats : Fields!Creating(d)' => d \in stale'
        BY <2>3, <2>4, <4>1 DEF Fields!Creating, FieldsInv, FieldTypes
      <4>5. CountsHold'
        <5>1. Cardinality(Counted') \in Nat
          BY PlacesAreFinite DEF Counted
        <5>2. QED
          BY <2>5, <4>4, <5>1 DEF CountsHold
      <4>6. \A r \in Chats : RunIs(r)'
        BY <2>4, <3>2, <4>2, <4>3 DEF FieldsInv, RunIs
      <4>7. QED
        BY <4>1, <4>3, <4>5, <4>6
    <3>3. CASE ~(n > 0 /\ out[t][n] = "done" /\ n > covered[t])
      <4>1. covered' = covered /\ stale' = stale
        BY <1>7, <3>1, <3>3 DEF Fields!Leave
      <4>2. CountsHold'
        BY <2>3, <2>4, <2>5, <4>1, StreamsStay, CountTurn
      <4>3. QED
        BY <2>1, <2>4, <4>1, <4>2, StreamsStay
    <3>4. QED
      BY <3>2, <3>3
  <2>7. /\ q.at > 0 => q.task \in Chats /\ q.at <= Len(out[q.task])
        /\ q.pc \notin {"idle", "sandbox", "browser", "create", "watch"}
    BY <2>3
  <2>8. QED
    BY <2>3, <2>4, <2>5, <2>6, <2>7, ChatTurn
<1>8. QED
  BY <1>1, <1>2, <1>3, <1>4, <1>5, <1>6, <1>7

\* Every step keeps it.
LEMMA FieldsStep == FieldsInv /\ [Fields!Next]_fieldVars => FieldsInv'
<1> SUFFICES ASSUME FieldsInv, [Fields!Next]_fieldVars PROVE FieldsInv'
  OBVIOUS
<1>1. ASSUME NEW on \in BOOLEAN, Fields!Share(on) PROVE FieldsInv'
  <2>1. doc' \in Docs /\ doc'.unread = doc.unread
    BY <1>1 DEF Fields!Share, Fields!Update, FieldsInv, FieldTypes, Docs
  <2>2. QED
    BY <1>1, <2>1, RouteTurn DEF Fields!Share, Fields!Update, FieldsInv, FieldTypes
<1>2. ASSUME Fields!ClearUnread PROVE FieldsInv'
  <2>1. doc' \in Docs /\ doc'.unread = 0
    BY <1>2 DEF Fields!ClearUnread, Fields!Reset, FieldsInv, FieldTypes, Docs
  <2>2. QED
    BY <1>2, <2>1, RouteTurn DEF Fields!ClearUnread, Fields!Reset
<1>3. CASE UNCHANGED fieldVars
  BY <1>3, StreamsStay
     DEF fieldVars, FieldsInv, FieldTypes, ChatIs, CountsHold, Fields!Creating
<1>4. QED
  BY <1>1, <1>2, <1>3, ChatKeeps, RunnerKeeps DEF Fields!Next

\* It holds throughout.
LEMMA FieldsHold == AllSpec => []FieldsInv
<1>1. AllInit => FieldsInv
  BY FieldsInit DEF AllInit
<1>2. FieldsInv /\ [AllNext]_allVars => FieldsInv'
  BY FieldsStep DEF AllNext, allVars, fieldVars
<1>3. QED
  BY <1>1, <1>2, PTL DEF AllSpec

\* What was counted and not watched is owed.
LEMMA CountedAreOwed == FieldsInv => Fields!TypeOK /\ Fields!UnreadIsOwed
<1> SUFFICES ASSUME FieldsInv PROVE Fields!TypeOK /\ Fields!UnreadIsOwed
  OBVIOUS
<1>1. Fields!Owed \in SUBSET (Chats \X (1 .. MaxEvents))
  <2>1. SUFFICES ASSUME NEW x \in Fields!Owed PROVE x \in Chats \X (1 .. MaxEvents)
    OBVIOUS
  <2>2. PICK c \in Chats : x \in {c} \X DOMAIN out[c] /\ out[x[1]][x[2]] = "message"
    BY DEF Fields!Owed
  <2>3. x[1] = c /\ x[2] \in DOMAIN out[c] /\ x = <<x[1], x[2]>>
    BY <2>2
  <2>4. x[2] \in 1 .. MaxEvents
    BY <2>2, <2>3, LenProperties, FieldConstants DEF FieldsInv, FieldTypes, RunIs
  <2>5. QED
    BY <2>3, <2>4
<1>2. Counted \subseteq Fields!Owed
  <2>1. SUFFICES ASSUME NEW x \in Counted PROVE x \in Fields!Owed
    OBVIOUS
  <2>2. /\ x[1] \in Chats /\ x = <<x[1], x[2]>> /\ x[2] \in DOMAIN out[x[1]]
        /\ out[x[1]][x[2]] = "message" /\ x[2] > covered[x[1]]
    BY DEF Counted, IsCounted
  <2>3. x \in UNION {{c} \X DOMAIN out[c] : c \in Chats}
    BY <2>2
  <2>4. QED
    BY <2>2, <2>3 DEF Fields!Owed
<1>3. /\ Cardinality(Counted) \in Nat /\ Cardinality(Fields!Owed) \in Nat
      /\ Cardinality(Counted) <= Cardinality(Fields!Owed)
      /\ Cardinality(Fields!Owed) <= Cardinality(Chats) * MaxEvents
  BY <1>1, <1>2, PlacesAreFinite, FS_Subset
<1>4. doc.unread \in Nat /\ (revived \/ doc.unread <= Cardinality(Fields!Owed))
  BY <1>3 DEF FieldsInv, FieldTypes, Docs, CountsHold
<1>5. Fields!UnreadIsOwed
  BY <1>4, SameCount DEF Fields!UnreadIsOwed
<1>6. Fields!TypeOK
  <2>1. doc.shared \in BOOLEAN /\ doc.status \in {"pending", "running", "completed"}
        /\ doc.task \in Chats \cup {None}
        /\ stale \subseteq Chats /\ revived \in BOOLEAN
        /\ \A f \in doc.files : f.path \in Paths
    BY DEF FieldsInv, FieldTypes, Docs, FileEntries
  <2>2. \A c \in Chats : out[c] \in Seq({"message", "done"}) /\ covered[c] \in 0 .. Len(out[c])
    BY LenProperties DEF FieldsInv, FieldTypes, RunIs
  <2>3. doc.unread \in Nat
    BY <1>4
  <2> HIDE DEF FieldsInv
  <2>4. QED
    BY <2>1, <2>2, <2>3, Zenon DEF Fields!TypeOK
<1>7. QED
  BY <1>5, <1>6

-----------------------------------------------------------------------------
(* The theorems *)

\* A shared page's links lapse: what the public opens is opened within a link's
\* life of the last moment the session was shared, whatever is shared, unshared,
\* signed, kept and used in which order (get_shared_session, create_signed_url,
\* download_file_by_signed_url).
THEOREM PublicLinksLapse == AllSpec => []PublicAccessLapses
<1>1. LinksInv => PublicAccessLapses
  BY DEF LinksInv, PublicAccessLapses
<1>2. QED
  BY LinksHold, <1>1, PTL

\* An e-mail address has one account, its password is one that was given for it,
\* and a code that was accepted was sent, recently and to that address, whatever
\* requests run between the steps of another (AuthService, EmailService).
THEOREM AccountsAreKept == AllSpec => []AccountsKept
<1>1. UsersInv => AccountsKept
  BY UsersMeans DEF AccountsKept
<1>2. QED
  BY UsersHold, <1>1, PTL

\* The servers that work are offered in full whatever the others do, and a name
\* is taken apart into what it was composed from when no prefix starts another
\* (MCPClientManager, MCPToolkit).
THEOREM WorkingToolsReached == AllSpec => []ToolsReached
<1>1. McpInv => ToolsReached
  BY WorkingOffered, NamesResolve DEF ToolsReached, Mcp!ToolsReached
<1>2. QED
  BY McpHold, <1>1, PTL

\* The unread count of a session never exceeds the messages that nobody watched to
\* the end, whichever chats, tasks and routes reset, increment and write it back; but
\* for a count that a chat wrote back from a document it had found before a task was
\* watched to its end, until the next reset (chat, _create_task, _run_flow,
\* clear_unread_message_count).
THEOREM UnreadStaysOwed == AllSpec => []UnreadIsOwed
<1>1. FieldsInv => UnreadIsOwed
  BY CountedAreOwed DEF UnreadIsOwed
<1>2. QED
  BY FieldsHold, <1>1, PTL

\* The five components keep their types.
THEOREM AllTypesHold == AllSpec => []AllTypeOK
<1>1. AllInit => TypeOK
  BY InitTypes DEF AllInit
<1>2. TypeOK /\ [AllNext]_allVars => TypeOK'
  BY TypeStep DEF AllNext, allVars
<1>3. AllSpec => []TypeOK
  BY <1>1, <1>2, PTL DEF AllSpec
<1>4. TypeOK /\ UsersInv /\ FieldsInv /\ LinksInv /\ McpInv => AllTypeOK
  BY UsersMeans, CountedAreOwed DEF AllTypeOK, LinksInv, McpInv
<1>5. QED
  BY <1>3, <1>4, UsersHold, FieldsHold, LinksHold, McpHold, PTL
=============================================================================

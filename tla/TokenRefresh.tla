----------------------------- MODULE TokenRefresh -----------------------------
(***************************************************************************)
(* The tokens of one browser tab: calls that meet a 401 share one refresh  *)
(* and go again with what it brings, while the user logs in and out        *)
(* (api/client.ts, useAuth.ts, auth.ts).                                   *)
(*                                                                         *)
(* A token is the number of its issue; the tab's header and its storage    *)
(* hold the same one, since every step writes both.  The server answers,   *)
(* refuses and lets tokens expire as it likes.                             *)
(***************************************************************************)
EXTENDS Naturals, FiniteSets

CONSTANTS Calls, Streams,   \* requests by axios, and by createSSEConnection
          People,
          Tight,            \* nobody logs in or out while a refresh is on its way
          MaxTokens, None

ASSUME RefreshAssumption ==
                     /\ Calls \cap Streams = {} /\ Tight \in BOOLEAN
                     /\ MaxTokens \in Nat /\ None \notin People

VARIABLES
    access,     \* access_token, 0 if there is none
    refresh,    \* refresh_token, as the user it was given to
    user,       \* currentUser
    owner,      \* the users the access tokens were issued to, in their order
    expired,    \* access tokens the server takes no more
    flight,     \* isRefreshing: whose token is being refreshed
    queue,      \* failedQueue
    call        \* request -> [pc, token, retried]

vars == <<access, refresh, user, owner, expired, flight, queue, call>>

All == Calls \cup Streams
Tokens == 1..MaxTokens
NoCall == [pc |-> "idle", token |-> 0, retried |-> FALSE]

Init == /\ access = 0 /\ refresh = None /\ user = None
        /\ owner = [t \in Tokens |-> None] /\ expired = {}
        /\ flight = None /\ queue = {}
        /\ call = [c \in All |-> NoCall]

TypeOK ==
    /\ access \in {0} \cup Tokens /\ {refresh, user, flight} \subseteq People \cup {None}
    /\ owner \in [Tokens -> People \cup {None}] /\ expired \subseteq Tokens
    /\ queue \subseteq All
    /\ call \in [All -> [pc : {"idle", "sent", "leads", "waits", "ok", "failed"},
                         token : {0} \cup Tokens, retried : BOOLEAN]]

Issued == {t \in Tokens : owner[t] # None}
Issue(t, u) == /\ t = Cardinality(Issued) + 1 /\ t \in Tokens
               /\ owner' = [owner EXCEPT ![t] = u]

Ends(some, pc) == [c \in All |-> IF c \in some THEN [NoCall EXCEPT !.pc = pc] ELSE call[c]]

(* The user and the server.                                                 *)

Calm == Tight => flight = None

Login(u) ==
    /\ Calm /\ user = None
    /\ \E t \in Tokens : Issue(t, u) /\ access' = t
    /\ refresh' = u /\ user' = u
    /\ UNCHANGED <<expired, flight, queue, call>>

\* clearAuth: also what the 'auth:logout' event of a failed refresh leads to.
Cleared == access' = 0 /\ refresh' = None /\ user' = None

Logout == /\ Calm /\ user # None /\ Cleared
          /\ UNCHANGED <<owner, expired, flight, queue, call>>

Expire == \E t \in Issued \ expired : /\ expired' = expired \cup {t}
                                      /\ UNCHANGED <<access, refresh, user, owner, flight, queue, call>>

(* A request.                                                               *)

Send(c) ==
    /\ call[c].pc = "idle" /\ call' = [call EXCEPT ![c].pc = "sent", ![c].token = access]
    /\ UNCHANGED <<access, refresh, user, owner, expired, flight, queue>>

Valid(c) == call[c].token \notin {0} \cup expired

Answered(c) == /\ call[c].pc = "sent" /\ Valid(c) /\ call' = Ends({c}, "ok")
               /\ UNCHANGED <<access, refresh, user, owner, expired, flight, queue>>

\* The network, another answer, or a 401 to what was sent again already.
Fails(c) == /\ call[c].pc = "sent" /\ call' = Ends({c}, "failed")
            /\ UNCHANGED <<access, refresh, user, owner, expired, flight, queue>>

(* refreshAuthToken: the first 401 leads, the others wait in the queue; a   *)
(* stream is never marked as retried.                                       *)

Unauthorized(c) == call[c].pc = "sent" /\ ~Valid(c) /\ ~call[c].retried

QueueUp(c) ==
    /\ Unauthorized(c) /\ flight # None
    /\ queue' = queue \cup {c}
    /\ call' = [call EXCEPT ![c].pc = "waits", ![c].retried = c \in Calls]
    /\ UNCHANGED <<access, refresh, user, owner, expired, flight>>

Lead(c) ==
    /\ Unauthorized(c) /\ flight = None /\ refresh # None
    /\ flight' = refresh
    /\ call' = [call EXCEPT ![c].pc = "leads", ![c].retried = c \in Calls]
    /\ UNCHANGED <<access, refresh, user, owner, expired, queue>>

NothingToRefresh(c) ==
    /\ Unauthorized(c) /\ flight = None /\ refresh = None
    /\ Cleared /\ call' = Ends({c}, "failed")
    /\ UNCHANGED <<owner, expired, flight, queue>>

Leads == {c \in All : call[c].pc = "leads"}

Refreshed ==
    /\ flight # None /\ flight' = None
    /\ \E t \in Tokens :
         /\ Issue(t, flight) /\ access' = t
         /\ call' = [c \in All |-> IF c \in queue \cup Leads
                                   THEN [call[c] EXCEPT !.pc = "sent", !.token = t] ELSE call[c]]
    /\ queue' = {}
    /\ UNCHANGED <<refresh, user, expired>>

\* Mutant of Rejected: processQueue is not called.
RejectedLeader == Leads

\* Refused, timed out, or no token in the answer.
Rejected == Leads \cup queue
RefreshFails ==
    /\ flight # None /\ flight' = None
    /\ Cleared /\ call' = Ends(Rejected, "failed") /\ queue' = {}
    /\ UNCHANGED <<owner, expired>>

Next ==
    \/ \E u \in People : Login(u)
    \/ Logout \/ Expire \/ Refreshed \/ RefreshFails
    \/ \E c \in All : \/ Send(c) \/ Answered(c) \/ Fails(c)
                      \/ QueueUp(c) \/ Lead(c) \/ NothingToRefresh(c)

Spec == Init /\ [][Next]_vars

\* A call that is sent is answered or times out, and so is a refresh.
Fairness == /\ WF_vars(Refreshed \/ RefreshFails)
            /\ \A c \in All : WF_vars(Answered(c) \/ Fails(c)
                                      \/ QueueUp(c) \/ Lead(c) \/ NothingToRefresh(c))

FairSpec == Spec /\ Fairness

-----------------------------------------------------------------------------
(* Properties *)

\* Whoever waits, waits for a refresh that is on its way, which one request leads
\* and whose end releases all: a request is never left in the queue, and no two
\* refreshes race for the token ("prevent multiple concurrent requests").
WaitersHaveALeader ==
    /\ queue = {c \in All : call[c].pc = "waits"}
    /\ IF flight = None THEN queue \cup Leads = {} ELSE Cardinality(Leads) = 1

\* The tab has the tokens of the user it shows, and none when it shows nobody
\* ("Clear local auth state").
TokensAreTheUsers ==
    /\ refresh = user
    /\ IF user = None THEN access = 0 ELSE access # 0 /\ owner[access] = user

\* Both, the second if nobody logs in or out while a refresh is on its way: a
\* refresh that ends after a logout brings tokens back.
TokensAreShared == WaitersHaveALeader /\ (Tight => TokensAreTheUsers)

\* Every request ends, whichever way the refreshes it waits for end.
CallsEnd == \A c \in All : call[c].pc = "sent" ~> call[c].pc \in {"ok", "failed"}
=============================================================================

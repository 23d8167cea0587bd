------------------------------ MODULE MCServices ------------------------------
(***************************************************************************)
(* The tokens of the web client, which this module extends, and four services  *)
(* of the backend for TLC: accounts and their codes, the fields of a session     *)
(* that lists and pages show, signed links to files, and the tools of MCP         *)
(* servers.  As in MCSandbox a behaviour is one of one part while the others     *)
(* rest.                                                                     *)
(***************************************************************************)
EXTENDS TokenRefresh, Sequences, TLC

CONSTANTS
    Emails, Passwords, Requests, Resend, Expiry, MaxMails,          \* of Accounts
    Chats, Paths, MaxEvents, MaxFlips,                              \* of SessionFields
    Files, Pages, Screen, LinkLife, ScreenLife, MaxLinks,           \* of FileLinks
    Names, ToolNames, MaxServers,                                   \* of McpTools
    MaxClock                                                        \* of the two with a clock

VARIABLES
    part,
    users, cache, clock, mails, req, given, created, accepted, tries, reset,
    doc, chat, run, out, asked, flips, covered, stale, revived, listed, today,
    stored, gone, attached, shared, page, links, hour, lastShared, opened,
    config, state, at, stage, open, clients, tools, offered, unknown

Users == INSTANCE Accounts WITH
    Kinds <- {"login", "register", "send", "verify"}, Serial <- FALSE, CacheFails <- TRUE

Fields == INSTANCE SessionFields WITH Faults <- TRUE

Links == INSTANCE FileLinks WITH clock <- hour, Deleting <- TRUE

Mcp == INSTANCE McpTools WITH
    opened <- open, cache <- tools, tools <- offered,
    Kinds <- {"disabled", "incomplete", "invalid", "refuses", "fails", "unlisted", "silent", "works"}

ASSUME ServicesAssumption ==
    /\ Users!AccountsAssumption /\ Fields!SessionFieldsAssumption
    /\ Links!FileLinksAssumption /\ Mcp!McpAssumption

\* "a", "aa", "a_a", "mcp_a": one starts another, with and without the underscore,
\* and two compose the same prefix.
FourNames == {<<"a">>, <<"a", "a">>, <<"a", "_", "a">>, <<"M", "_", "a">>}
TwoTools  == {<<"a">>, <<"a", "_", "a">>}

Symmetry == Permutations(Chats) \cup Permutations(Files) \cup Permutations(Calls)

userVars  == <<users, cache, clock, mails, req, given, created, accepted, tries, reset>>
fieldVars == <<doc, chat, run, out, asked, flips, covered, stale, revived, listed, today>>
linkVars  == <<stored, gone, attached, shared, page, links, hour, lastShared, opened>>
mcpVars   == <<config, state, at, stage, open, clients, tools, offered, unknown>>
allVars   == <<part, userVars, fieldVars, linkVars, mcpVars, vars>>

AllInit ==
    /\ part \in {"users", "fields", "links", "mcp", "calls"}
    /\ part # "users" => users = [e \in Emails |-> None]
    /\ Users!Init /\ Fields!Init /\ Links!Init /\ Mcp!Init /\ Init

AllNext ==
    /\ UNCHANGED part
    /\ \/ part = "users" /\ Users!Next /\ UNCHANGED <<fieldVars, linkVars, mcpVars, vars>>
       \/ part = "fields" /\ Fields!Next /\ UNCHANGED <<userVars, linkVars, mcpVars, vars>>
       \/ part = "links" /\ Links!Next /\ UNCHANGED <<userVars, fieldVars, mcpVars, vars>>
       \/ part = "mcp" /\ Mcp!Next /\ UNCHANGED <<userVars, fieldVars, linkVars, vars>>
       \/ part = "calls" /\ Next /\ UNCHANGED <<userVars, fieldVars, linkVars, mcpVars>>

AllSpec == AllInit /\ [][AllNext]_allVars

-----------------------------------------------------------------------------
(* Properties, each of the module that defines and explains it; TokensAreShared *)
(* is TokenRefresh's own.                                                       *)

\* Type correctness of the five.
AllTypeOK == Users!TypeOK /\ Fields!TypeOK /\ Links!TypeOK /\ Mcp!TypeOK /\ TypeOK

\* One registration, passwords that were given, codes within their life.
AccountsKept == Users!AccountsKept

\* The unread count is at most the messages nobody has watched to the end, but for
\* one that a stale save brought back.
UnreadIsOwed == Fields!UnreadIsOwed

\* Access through a shared page lapses with the links it made.
PublicAccessLapses == Links!PublicAccessLapses

\* Servers that work are offered, and their tools found by the composed names.
ToolsReached == Mcp!ToolsReached
=============================================================================

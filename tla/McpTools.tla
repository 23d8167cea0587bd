------------------------------ MODULE McpTools ------------------------------
(***************************************************************************)
(* The MCP servers of an agent: FileMCPRepository reads the configuration, *)
(* MCPClientManager connects the servers one after the other, MCPToolkit   *)
(* offers their tools to the model under composed names, and a call of the *)
(* model finds its tool by that name (mcp.py, agents/base.py).             *)
(*                                                                         *)
(* A name is a sequence of characters; "mcp" is the one character "M".     *)
(***************************************************************************)
EXTENDS Naturals, Sequences, FiniteSets, SequencesExt

CONSTANTS Names,      \* names of servers in a configuration
          ToolNames,  \* names of tools a server may have
          Kinds,      \* what an entry of the configuration is: see Entries
          MaxServers  \* entries of a configuration

\* An entry is disabled, lacks its command or url, is not of the schema, or its
\* server refuses the connection, fails the handshake, does not list its tools,
\* never answers, or works.
AllKinds == {"disabled", "incomplete", "invalid",
             "refuses", "fails", "unlisted", "silent", "works"}

McpAssumption ==
    /\ Kinds \subseteq AllKinds /\ MaxServers \in Nat
    /\ \A n \in Names \cup ToolNames : n \in Seq({"M", "_", "a", "b"}) /\ n # <<>>

VARIABLES
    config,   \* the servers of the configuration, in its order
    state,    \* of the toolkit: "new", "connecting", "ready", "destroyed"
    at,       \* the entry that is being connected
    stage,    \* of that entry: "open", "handshake", "list"
    opened,   \* entries whose transport the exit stack holds
    clients,  \* _clients: entries with a session
    cache,    \* _tools_cache: entry -> the tools listed
    tools,    \* MCPToolkit._tools: what is offered to the model
    unknown   \* offered tools the agent answered with "Unknown tool"

vars == <<config, state, at, stage, opened, clients, cache, tools, unknown>>

Entries == [name : Names, kind : Kinds, has : (SUBSET ToolNames) \ {{}}]
Configs == {c \in UNION {[1..n -> Entries] : n \in 0..MaxServers} :
              \A i, j \in DOMAIN c : c[i].name = c[j].name => i = j}

(* Names: get_all_tools composes them, call_tool takes them apart.          *)

MCP == <<"M", "_">>
Prefix(server) == IF IsPrefix(MCP, server) THEN server ELSE MCP \o server
ToolName(server, tool) == Prefix(server) \o <<"_">> \o tool

\* Mutant of Matches: the underscore after the prefix is not compared.
MatchesAny(server, name) == IsPrefix(Prefix(server), name)

\* call_tool: the first server of the configuration, connected or not, whose
\* prefix starts the name.
Matches(server, name) == IsPrefix(Prefix(server) \o <<"_">>, name)
Rest(server, name) == SubSeq(name, Len(Prefix(server)) + 2, Len(name))

Resolve(name) ==
    LET hits == {i \in DOMAIN config : Matches(config[i].name, name)}
        i == CHOOSE h \in hits : \A g \in hits : h <= g
    IN  IF hits = {} THEN <<>> ELSE <<i, Rest(config[i].name, name)>>

\* Agent.get_tool: a toolkit finds what BaseToolkit collected among its members;
\* MCPToolkit has no member that is a tool.
Registered == {}
GetTool(name) == {t \in Registered : t = name}

Init == /\ config = <<>> /\ state = "new" /\ at = 0 /\ stage = "open"
        /\ opened = {} /\ clients = {} /\ cache = <<>> /\ tools = {} /\ unknown = {}

\* One entry that is not of the schema makes the whole configuration empty.
ReadConfig ==
    /\ state = "new"
    /\ \E c \in Configs :
         config' = IF \E i \in DOMAIN c : c[i].kind = "invalid" THEN <<>> ELSE c
    /\ state' = "connecting" /\ at' = 1 /\ stage' = "open"
    /\ UNCHANGED <<opened, clients, cache, tools, unknown>>

Connecting(s) == state = "connecting" /\ at \in DOMAIN config /\ stage = s
NextEntry == at' = at + 1 /\ stage' = "open"

\* An exception of one server is logged and the loop continues with the next.
Fail ==
    /\ \/ Connecting("open") /\ config[at].kind \in {"disabled", "incomplete", "refuses"}
       \/ Connecting("handshake") /\ config[at].kind = "fails"
    /\ NextEntry
    /\ UNCHANGED <<config, state, opened, clients, cache, tools, unknown>>

\* The three transports go through the same steps: enter the transport, then the
\* session and its handshake, then list the tools.
Open ==
    /\ Connecting("open") /\ config[at].kind \in {"fails", "unlisted", "silent", "works"}
    /\ opened' = opened \cup {at} /\ stage' = "handshake"
    /\ UNCHANGED <<config, state, at, clients, cache, tools, unknown>>

Handshake ==
    /\ Connecting("handshake") /\ config[at].kind \in {"unlisted", "works"}
    /\ clients' = clients \cup {at} /\ stage' = "list"
    /\ UNCHANGED <<config, state, at, opened, cache, tools, unknown>>

List ==
    /\ Connecting("list") /\ NextEntry
    /\ cache' = [i \in DOMAIN cache \cup {at} |->
                   IF i # at THEN cache[i]
                   ELSE IF config[at].kind = "works" THEN config[at].has ELSE {}]
    /\ UNCHANGED <<config, state, opened, clients, tools, unknown>>

Ready ==
    /\ state = "connecting" /\ at = Len(config) + 1
    /\ tools' = UNION {{[name |-> ToolName(config[i].name, t), entry |-> i, tool |-> t] :
                           t \in cache[i]} : i \in DOMAIN cache}
    /\ state' = "ready"
    /\ UNCHANGED <<config, at, stage, opened, clients, cache, unknown>>

\* The model calls a tool that it was offered; the agent looks it up.
AgentCalls ==
    /\ state = "ready"
    /\ \E t \in tools : /\ GetTool(t.name) = {} /\ unknown' = unknown \cup {t}
    /\ UNCHANGED <<config, state, at, stage, opened, clients, cache, tools>>

\* destroy() of the runner: before the configuration was read there is no
\* manager and cleanup raises; closing the exit stack may fail too, and then
\* nothing is cleared.
Cleanup ==
    /\ state # "destroyed" /\ state' = "destroyed"
    /\ \/ state # "new" /\ opened' = {} /\ clients' = {} /\ cache' = <<>>
       \/ UNCHANGED <<opened, clients, cache>>
    /\ UNCHANGED <<config, at, stage, tools, unknown>>

Next == ReadConfig \/ Fail \/ Open \/ Handshake \/ List \/ Ready \/ AgentCalls \/ Cleanup

Spec == Init /\ [][Next]_vars

(***************************************************************************)
(* Properties                                                              *)
(***************************************************************************)

\* Type correctness: what has a session has a transport, what has tools a session.
TypeOK ==
    /\ config \in Seq(Entries) /\ Len(config) <= MaxServers /\ at \in 0..Len(config) + 1
    /\ DOMAIN cache \subseteq clients /\ clients \subseteq opened
    /\ opened \subseteq DOMAIN config
    /\ unknown \subseteq tools

\* Every server that works is offered in full when the toolkit is ready, whatever
\* servers before it refuse, fail or lack, and nothing of another is.
WorkingAreOffered ==
    state = "ready" =>
        tools = {t \in [name : {u.name : u \in tools}, entry : DOMAIN config, tool : ToolNames] :
                    /\ config[t.entry].kind = "works" /\ t.tool \in config[t.entry].has
                    /\ t.name = ToolName(config[t.entry].name, t.tool)}
        /\ \A i \in DOMAIN config : config[i].kind = "works" =>
             i \in clients /\ \A x \in config[i].has :
                \E t \in tools : t.entry = i /\ t.tool = x

\* A name resolves to the entry and the tool it was composed from.
CallReachesTool == \A t \in tools : Resolve(t.name) = <<t.entry, t.tool>>

PrefixFree == \A i, j \in DOMAIN config :
                 i # j => ~IsPrefix(Prefix(config[i].name) \o <<"_">>, Prefix(config[j].name) \o <<"_">>)

\* Whatever servers before them refuse, fail or lack, those that work are offered
\* in full, and a name resolves to what it was composed from whenever no server's
\* prefix starts another's (get_all_tools, call_tool).
ToolsReached == WorkingAreOffered /\ (PrefixFree => CallReachesTool)

\* The agent can call what it offers to the model ("MCP tools integration").
OfferedIsCallable == unknown = {}

=============================================================================

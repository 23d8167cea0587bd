------------------------------ MODULE ClawHistory ------------------------------
(***************************************************************************)
(* The history of a claw's chat: ClawDomainService.get_history merges the    *)
(* messages MongoDB holds with those the claw's own session holds.  Both        *)
(* sources keep the same conversation, with clocks of their own, and each may    *)
(* miss messages of the other.                                               *)
(*                                                                         *)
(* A step takes one native message.  A content stands for the first 120        *)
(* characters of the normalised text, which is all the merge compares; a time   *)
(* of the claw is in seconds or milliseconds.                                *)
(***************************************************************************)
EXTENDS Integers, Sequences, FiniteSets

CONSTANTS
    Roles, Contents, Files, Times,   \* what messages are made of
    Units,                           \* of native times: "s" or "ms"
    MaxLen                           \* bound: messages in one source

TS_WINDOW == 5

HistoryAssumption ==
    /\ "" \notin Contents /\ "attachments" \notin Roles
    /\ IsFiniteSet(Contents) /\ IsFiniteSet(Files)
    /\ Times \subseteq Nat
    /\ Units \subseteq {"s", "ms"}
    /\ MaxLen \in Nat

VARIABLES
    db, native,   \* the two sources
    next,         \* the native message that comes next
    merged,
    used,         \* messages of db whose fingerprint is used up
    seen,         \* seen_file_ids
    history       \* what get_history returns, once it has

vars == <<db, native, next, merged, used, seen, history>>

-----------------------------------------------------------------------------
\* A file message of the claw has no text; one of the database has a role of
\* its own.
Text(ts)        == [role : Roles, content : Contents, ts : ts, files : {{}}]
Attachments(ts) == [role : {"attachments"}, content : Roles, ts : ts,
                    files : (SUBSET Files) \ {{}}]
Native(ts)      == [role : Roles, content : Contents \cup {""}, ts : ts,
                    files : SUBSET Files]

ClawTime     == Units \X Times
SeqsUpTo(S)  == UNION {[1 .. n -> S] : n \in 0 .. MaxLen}
IsOrdered(s, Time(_)) ==
    \A i, j \in DOMAIN s : i < j => Time(s[i].ts) <= Time(s[j].ts)

\* _normalize_ts: milliseconds become seconds.
Normalize(t) == IF t[1] = "ms" THEN (1000 * t[2]) \div 1000 ELSE t[2]
Seconds(t)   == t

Message == Text(Nat) \cup Attachments(Nat)

TypeOK ==
    /\ next \in 1 .. Len(native) + 1
    /\ merged \in Seq(Message) /\ history \in Seq(Message)
    /\ used \in SUBSET DOMAIN db
    /\ seen \in SUBSET Files

FilesOf(s) == UNION {s[i].files : i \in DOMAIN s}

\* get_messages, and the native session, which answers in order or not at all.
Init ==
    /\ db \in {s \in SeqsUpTo(Text(Times) \cup Attachments(Times)) : IsOrdered(s, Seconds)}
    /\ native \in {s \in SeqsUpTo(Native(ClawTime)) : IsOrdered(s, Normalize)}
    /\ next = 1
    /\ merged = db
    /\ used = {}
    /\ seen = FilesOf(db)
    /\ history = <<>>

-----------------------------------------------------------------------------
Abs(n) == IF n < 0 THEN -n ELSE n

Near(t, u) == Abs(t - u) <= TS_WINDOW

\* The messages of db whose fingerprint is that of the native message m.
Matches(m) == {i \in DOMAIN db \ used :
                 /\ db[i].role = m.role
                 /\ db[i].content = m.content
                 /\ Near(db[i].ts, Normalize(m.ts))}

First(S) == CHOOSE i \in S : \A j \in S : i <= j

\* Mutant of Use: what was taken is taken again.
UseAgain(i)            == used' = used

Remember(files) == seen' = seen \cup files
Use(i)          == used' = used \cup {i}

\* The history with the files of m that are new.
WithFiles(m) ==
    IF m.files \subseteq seen THEN merged
    ELSE Append(merged, [role |-> "attachments", content |-> m.role,
                         ts |-> Normalize(m.ts), files |-> m.files \ seen])

Ours(m) == [role |-> m.role, content |-> m.content, ts |-> Normalize(m.ts), files |-> {}]

\* The next native message: without text, known to the database, or new.
Take ==
    /\ next <= Len(native)
    /\ next' = next + 1
    /\ LET m == native[next] IN
         /\ Remember(m.files)
         /\ \/ m.content = "" /\ merged' = WithFiles(m) /\ UNCHANGED used
            \/ /\ m.content # "" /\ Matches(m) # {}
               /\ merged' = WithFiles(m)
               /\ Use(First(Matches(m)))
            \/ /\ m.content # "" /\ Matches(m) = {}
               /\ merged' = Append(WithFiles(m), Ours(m))
               /\ UNCHANGED used
    /\ UNCHANGED <<db, native, history>>

\* A stable sort by time.
Place(s, i) == Cardinality({j \in DOMAIN s : s[j].ts < s[i].ts \/ (s[j].ts = s[i].ts /\ j <= i)})
SortByTime(s) == [p \in DOMAIN s |-> s[CHOOSE i \in DOMAIN s : Place(s, i) = p]]

\* Without native messages the database's are returned as they are.
Return ==
    /\ next = Len(native) + 1 /\ history = <<>> /\ merged # <<>>
    /\ history' = IF native = <<>> THEN db ELSE SortByTime(merged)
    /\ UNCHANGED <<db, native, next, merged, used, seen>>

Next == Take \/ Return
Spec == Init /\ [][Next]_vars

-----------------------------------------------------------------------------
(* Properties *)

Returned == history # <<>>

\* How often a source, or the result, holds a text.
Count(s, role, content) ==
    Cardinality({i \in DOMAIN s : s[i].role = role /\ s[i].content = content})

\* However often a text was said, it is shown at least as often as either source
\* has it: "identical messages sent at different times are kept distinct".
NothingLost ==
    Returned => \A r \in Roles, c \in Contents :
        /\ Count(history, r, c) >= Count(db, r, c)
        /\ Count(history, r, c) >= Count(native, r, c)

\* What both sources hold is shown once.  When each text of the claw has a message
\* of its own in the database within five seconds, in whichever way, none is
\* added, although the merge never takes back a choice; and a file of the claw is
\* not shown again when the database has it, nor twice when the claw names it twice.
Partners(f) == \A k \in DOMAIN f :
    /\ f[k] \in DOMAIN db
    /\ db[f[k]].role = native[k].role /\ db[f[k]].content = native[k].content
    /\ Abs(db[f[k]].ts - Normalize(native[k].ts)) <= 5
    /\ \A l \in DOMAIN f : f[k] = f[l] => k = l
Texts(s) == {i \in DOMAIN s : s[i].content # "" /\ s[i].role # "attachments"}
Shown(s, f) == Cardinality({i \in DOMAIN s : f \in s[i].files})
NoCopies ==
    Returned =>
        /\ (\E f \in [Texts(native) -> DOMAIN db] : Partners(f))
             => Cardinality(Texts(history)) = Cardinality(Texts(db))
        /\ \A f \in FilesOf(native) :
             Shown(history, f) = IF Shown(db, f) = 0 THEN 1 ELSE Shown(db, f)
=============================================================================

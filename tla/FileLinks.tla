------------------------------ MODULE FileLinks ------------------------------
(***************************************************************************)
(* Files, the session that shows them and the signed links they are shown  *)
(* by (file_routes.py, file_service.py, token_service.py, the session page *)
(* and the shared page of session_routes.py, schemas/event.py).            *)
(*                                                                         *)
(* A page is a request with one command per attachment: the session is     *)
(* read first, then each attachment is looked up and signed, while others  *)
(* delete files or stop sharing.  Time passes in units of 15 minutes, and  *)
(* between requests only.                                                  *)
(***************************************************************************)
EXTENDS Naturals, FiniteSets, TLC

CONSTANTS Files,      \* ids, never used again
          Screen,     \* the VNC socket, also reached by a link
          Pages,      \* requests for the session page or the shared page
          Deleting,   \* files may be deleted
          LinkLife,   \* the default life of a file's link and its cap: 30 minutes
          ScreenLife, \* the cap for the screen's: 15 minutes
          MaxClock,
          MaxLinks    \* links at a time, before another is asked for

FileLinksAssumption ==
    /\ Screen \notin Files /\ Deleting \in BOOLEAN
    /\ LinkLife \in Nat /\ ScreenLife \in Nat /\ MaxClock \in Nat /\ MaxLinks \in Nat

Symmetry == Permutations(Files) \cup Permutations(Pages)
Viewers == {"owner", "public"}

VARIABLES
    stored,    \* files in the storage
    gone,      \* ids of deleted files
    attached,  \* files the events of the session name
    shared,    \* the session's flag
    page,      \* the requests for a page
    links,     \* signed links that were handed out, dropped a while after they lapse
    clock,
    lastShared,\* history: when the session was shared last
    opened     \* history: the last opening of a link

vars == <<stored, gone, attached, shared, page, links, clock, lastShared, opened>>

NoPage == [pc |-> "idle", who |-> "owner", todo |-> {}, all |-> {}, signed |-> {}]
NotOpened == [who |-> "owner", at |-> 0]

Init == /\ stored = {} /\ gone = {} /\ attached = {} /\ shared = FALSE
        /\ page = [v \in Pages |-> NoPage] /\ links = {} /\ clock = 0
        /\ lastShared = 0 /\ opened = NotOpened

(* token_service.py: the signature covers the address and the time it ends. *)

Least(m, n) == IF m < n THEN m ELSE n
Signed(res, life, who) == [res |-> res, made |-> clock, expires |-> clock + life, who |-> who]
\* Mutant of Verified: the time is not compared.
VerifiedForEver(l) == l.expires > 0

Verified(l) == clock <= l.expires

(* Files.                                                                   *)

Upload(f) ==
    /\ f \notin stored \cup gone /\ stored' = stored \cup {f}
    /\ UNCHANGED <<gone, attached, shared, page, links, clock, lastShared, opened>>

Delete(f) ==
    /\ Deleting /\ f \in stored /\ stored' = stored \ {f} /\ gone' = gone \cup {f}
    /\ UNCHANGED <<attached, shared, page, links, clock, lastShared, opened>>

\* A message with a file that was uploaded: its id goes into an event.
Attach(f) ==
    /\ f \in stored \cup gone /\ attached' = attached \cup {f}
    /\ UNCHANGED <<stored, gone, shared, page, links, clock, lastShared, opened>>

\* POST .../signed-url: asked for in minutes from 1 to 15.
SignFile(f) ==
    /\ f \in stored /\ Cardinality(links) < MaxLinks
    /\ links' = links \cup {Signed(f, Least(1, LinkLife), "owner")}
    /\ UNCHANGED <<stored, gone, attached, shared, page, clock, lastShared, opened>>

SignScreen ==
    /\ Cardinality(links) < MaxLinks
    /\ links' = links \cup {Signed(Screen, Least(1, ScreenLife), "owner")}
    /\ UNCHANGED <<stored, gone, attached, shared, page, clock, lastShared, opened>>

(* Sharing, and the two pages.                                              *)

Share(on) ==
    /\ shared # on /\ shared' = on /\ lastShared' = clock
    /\ UNCHANGED <<stored, gone, attached, page, links, clock, opened>>

\* The session is read; the shared page is there while it is shared.
Allowed(who) == who = "owner" \/ shared

Find(v, who) ==
    /\ page[v].pc = "idle" /\ Cardinality(links) + Cardinality(attached) <= MaxLinks
    /\ page' = [page EXCEPT ![v] =
                  IF Allowed(who) THEN [pc |-> "events", who |-> who, todo |-> attached,
                                        all |-> attached, signed |-> {}]
                  ELSE [NoPage EXCEPT !.pc = "refused", !.who = who]]
    /\ UNCHANGED <<stored, gone, attached, shared, links, clock, lastShared, opened>>

\* An attachment is looked up and signed for the default life.
SignAttachment(v, f) ==
    /\ page[v].pc = "events" /\ f \in page[v].todo /\ f \in stored
    /\ page' = [page EXCEPT ![v].todo = @ \ {f}, ![v].signed = @ \cup {f}]
    /\ links' = links \cup {Signed(f, LinkLife, page[v].who)}
    /\ UNCHANGED <<stored, gone, attached, shared, clock, lastShared, opened>>

\* create_signed_url raises for a file it does not find, and so does the page.
AttachmentGone(v, f) ==
    /\ page[v].pc = "events" /\ f \in page[v].todo /\ f \notin stored
    /\ page' = [page EXCEPT ![v].pc = "failed"]
    /\ UNCHANGED <<stored, gone, attached, shared, links, clock, lastShared, opened>>

Answer(v) ==
    /\ page[v].pc = "events" /\ page[v].todo = {} /\ page' = [page EXCEPT ![v].pc = "shown"]
    /\ UNCHANGED <<stored, gone, attached, shared, links, clock, lastShared, opened>>

Again(v) ==
    /\ page[v].pc \in {"shown", "refused", "failed"} /\ page' = [page EXCEPT ![v] = NoPage]
    /\ UNCHANGED <<stored, gone, attached, shared, links, clock, lastShared, opened>>

(* A link is followed, by whoever has it.                                   *)

Open(l) ==
    /\ Verified(l) /\ l.res \in stored \cup {Screen}
    /\ opened' = [who |-> l.who, at |-> clock]
    /\ UNCHANGED <<stored, gone, attached, shared, page, links, clock, lastShared>>

Tick ==
    /\ clock < MaxClock /\ \A v \in Pages : page[v].pc # "events"
    /\ clock' = clock + 1 /\ lastShared' = IF shared THEN clock' ELSE lastShared
    /\ links' = {l \in links : clock <= l.expires}
    /\ UNCHANGED <<stored, gone, attached, shared, page, opened>>

Next ==
    \/ SignScreen \/ Tick \/ \E on \in BOOLEAN : Share(on)
    \/ \E f \in Files : Upload(f) \/ Delete(f) \/ Attach(f) \/ SignFile(f)
    \/ \E l \in links : Open(l)
    \/ \E v \in Pages : \/ \E who \in Viewers : Find(v, who)
                        \/ \E f \in Files : SignAttachment(v, f) \/ AttachmentGone(v, f)
                        \/ Answer(v) \/ Again(v)

Spec == Init /\ [][Next]_vars

(***************************************************************************)
(* Properties                                                              *)
(***************************************************************************)

\* Type correctness.
TypeOK ==
    /\ stored \subseteq Files /\ gone \subseteq Files \ stored /\ attached \subseteq stored \cup gone
    /\ shared \in BOOLEAN /\ clock \in 0..MaxClock /\ lastShared \in 0..clock
    /\ \A v \in Pages : page[v].signed \cup page[v].todo \subseteq attached
    /\ \A l \in links : l.res \in Files \cup {Screen} /\ l.made <= clock /\ l.who \in Viewers
    /\ opened.who \in Viewers /\ opened.at \in 0..clock

\* Access through the shared page lapses: whatever is opened by a link from it is
\* opened within a link's life of a time the session was shared, although the flag
\* may be withdrawn while a page is being signed (get_shared_session).
PublicAccessLapses == opened.who = "public" => opened.at <= lastShared + LinkLife

\* "Get session information including conversation history": the owner's page of a
\* session is answered.
SessionOpens == \A v \in Pages : page[v].who = "owner" => page[v].pc # "failed"

\* "removing public access": nothing is opened from the shared page after that.
UnshareEndsAccess == opened.who = "public" => opened.at <= lastShared

=============================================================================

--------------------------- MODULE TerminalSessions ---------------------------
(***************************************************************************)
(* TerminalManager: the gateway creates tmux sessions and attaches to each *)
(* at most one tmux client, which all viewers of the session share.  The   *)
(* tmux server is another service: sessions end, and clients attach and    *)
(* leave, without the gateway.  Requests run on several threads; a mutex   *)
(* protects the map of attachments, nothing protects the calls to tmux.    *)
(***************************************************************************)
EXTENDS Integers, FiniteSets

CONSTANTS
  Names,         \* of sessions
  Default,       \* DEFAULT_TERMINAL_SESSION
  Requests,      \* requests and terminal sockets served at a time
  Attachments,   \* TerminalSession objects that exist at a time
  None,          \* no attachment
  MaxOthers      \* bound on clients that are not the gateway's, per session

ASSUME DefaultAssumption == Default \in Names
ASSUME NoneAssumption == None \notin Attachments

VARIABLES
  live,    \* tmux: the sessions
  others,  \* tmux: clients of each that are not the gateway's
  child,   \* the tmux client of each attachment: "none", "starting", "attached", "gone"
  of,      \* the session each attachment is for
  slot,    \* the map TerminalManager.sessions
  req,     \* what each request is at
  list,    \* list_sessions: "idle" or "asked", and the names of its snapshot
  moved,   \* history: sessions whose gateway client changed since the snapshot
  ended,   \* history: requests whose session ended since they began
  refused  \* history: requests refused by the recheck although their session never ended

tmuxVars == <<live, others>>
attachmentVars == <<child, of, slot>>
vars == <<tmuxVars, attachmentVars, req, list, moved, ended, refused>>

Idle == [kind |-> "none", at |-> "idle", name |-> Default, held |-> None]

\* TerminalManager::new has made sure of the default session.
Init ==
  /\ live = {Default} /\ others = [n \in Names |-> 0]
  /\ child = [a \in Attachments |-> "none"] /\ of = [a \in Attachments |-> Default]
  /\ slot = [n \in Names |-> None]
  /\ req = [r \in Requests |-> Idle]
  /\ list = [at |-> "idle", mine |-> {}]
  /\ moved = {} /\ ended = {} /\ refused = {}

Alive(a) == child[a] \in {"starting", "attached"}
Mine(n) == {a \in Attachments : of[a] = n /\ Alive(a)}
Moves(ns) == moved' = IF list.at = "asked" THEN moved \cup ns ELSE moved
Goto(r, at) == req' = [req EXCEPT ![r].at = at]
Leaves(r) == req' = [req EXCEPT ![r] = Idle]

\* An Arc of attachment a is held by the map or a viewer, request r aside.
Referenced(a, r) == (\E n \in Names : slot[n] = a) \/ \E q \in Requests \ {r} : req[q].held = a
-----------------------------------------------------------------------------
(* Requests.                                                               *)

\* terminal_session_create, terminal_local_create or terminal_ws.
Call(r) ==
  /\ req[r].at = "idle"
  /\ \E n \in Names, kind \in {"create", "view"} :
       req' = [req EXCEPT ![r] = [Idle EXCEPT !.kind = kind, !.at = "has", !.name = n]]
  /\ ended' = ended \ {r}
  /\ refused' = refused \ {r}
  /\ UNCHANGED <<tmuxVars, attachmentVars, list, moved>>

\* ensure_tmux_session succeeds: create answers, session goes on.
Ensured(r) == IF req[r].kind = "create" THEN Leaves(r) ELSE Goto(r, "attach")

HasSession(r) ==
  /\ req[r].at = "has"
  /\ IF req[r].name \in live THEN Ensured(r) ELSE Goto(r, "new")
  /\ UNCHANGED <<tmuxVars, attachmentVars, list, moved, ended, refused>>

\* Mutant of NewSession: a session that is there already is a failure.
NewSessionUnchecked(r) ==
  /\ req[r].at = "new"
  /\ IF req[r].name \in live
       THEN /\ Leaves(r)
            /\ refused' = (IF r \in ended THEN refused ELSE refused \cup {r})
            /\ UNCHANGED live
       ELSE live' = live \cup {req[r].name} /\ Ensured(r) /\ UNCHANGED refused
  /\ UNCHANGED <<others, attachmentVars, list, moved, ended>>

\* new-session fails if another request was faster.
NewSession(r) ==
  /\ req[r].at = "new"
  /\ IF req[r].name \in live
       THEN Goto(r, "recheck") /\ UNCHANGED live
       ELSE live' = live \cup {req[r].name} /\ Ensured(r)
  /\ UNCHANGED <<others, attachmentVars, list, moved, ended, refused>>

Recheck(r) ==
  /\ req[r].at = "recheck"
  /\ IF req[r].name \in live
       THEN Ensured(r) /\ UNCHANGED refused
       ELSE /\ Leaves(r)
            /\ refused' = IF r \in ended THEN refused ELSE refused \cup {r}
  /\ UNCHANGED <<tmuxVars, attachmentVars, list, moved, ended>>

\* tmux cannot be run, or fails for a reason of its own: the request is an error.
CommandFails(r) ==
  /\ req[r].at \in {"has", "new", "recheck"}
  /\ Leaves(r)
  /\ UNCHANGED <<tmuxVars, attachmentVars, list, moved, ended, refused>>

\* Mutant of Shares: a viewer shares only an attachment that tmux has accepted.
SharesAttached(n) == slot[n] # None /\ child[slot[n]] = "attached"

Shares(n) == slot[n] # None /\ Alive(slot[n])

\* session() under its lock: the attachment there is, if its client runs;
\* otherwise a new one in its place, whose old viewers keep theirs.
Attach(r) ==
  /\ req[r].at = "attach"
  /\ LET n == req[r].name
     IN IF Shares(n)
          THEN /\ req' = [req EXCEPT ![r].at = "viewing", ![r].held = slot[n]]
               /\ UNCHANGED <<attachmentVars, moved>>
          ELSE \E a \in Attachments :
                 /\ child[a] = "none"
                 /\ child' = [b \in Attachments |->
                      IF b = a THEN "starting"
                      ELSE IF b = slot[n] /\ \A q \in Requests : req[q].held # b THEN "none"
                      ELSE child[b]]
                 /\ of' = [of EXCEPT ![a] = n]
                 /\ slot' = [slot EXCEPT ![n] = a]
                 /\ req' = [req EXCEPT ![r].at = "viewing", ![r].held = a]
                 /\ Moves({n})
  /\ UNCHANGED <<tmuxVars, list, ended, refused>>

\* session() has taken the old attachment out of the map and spawn_tmux fails:
\* the map is without one for the session.
AttachFails(r) ==
  /\ req[r].at = "attach" /\ ~Shares(req[r].name)
  /\ LET old == slot[req[r].name]
     IN child' = [b \in Attachments |->
          IF b = old /\ \A q \in Requests : req[q].held # b THEN "none" ELSE child[b]]
  /\ slot' = [slot EXCEPT ![req[r].name] = None]
  /\ Leaves(r)
  /\ Moves({req[r].name})
  /\ UNCHANGED <<tmuxVars, of, list, ended, refused>>

\* The socket ends; the last viewer of an attachment no longer in the map drops it.
ViewerLeaves(r) ==
  /\ req[r].at = "viewing"
  /\ Leaves(r)
  /\ child' = IF Referenced(req[r].held, r) THEN child
              ELSE [child EXCEPT ![req[r].held] = "none"]
  /\ UNCHANGED <<tmuxVars, of, slot, list, moved, ended, refused>>

\* Mutant of Snapshot: attachments whose client is gone are counted.
SnapshotMapped == {n \in Names : slot[n] # None}

Snapshot == {n \in Names : slot[n] # None /\ Alive(slot[n])}

\* list_sessions: the snapshot, then tmux is asked.
ListAsks ==
  /\ list.at = "idle"
  /\ list' = [at |-> "asked", mine |-> Snapshot]
  /\ moved' = {}
  /\ UNCHANGED <<tmuxVars, attachmentVars, req, ended, refused>>

\* other_clients, from what tmux says of the clients attached.
OtherClients(n) ==
  LET attached == others[n] + Cardinality({a \in Attachments : of[a] = n /\ child[a] = "attached"})
  IN IF n \in list.mine /\ attached > 0 THEN attached - 1 ELSE attached

ListAnswers ==
  /\ list.at = "asked"
  /\ list' = [at |-> "idle", mine |-> {}]
  /\ UNCHANGED <<tmuxVars, attachmentVars, req, moved, ended, refused>>
-----------------------------------------------------------------------------
(* tmux.                                                                   *)

\* A client the gateway started attaches, or finds its session gone.
ClientAttaches(a) ==
  /\ child[a] = "starting"
  /\ child' = [child EXCEPT ![a] = IF of[a] \in live THEN "attached" ELSE "gone"]
  /\ Moves({of[a]})
  /\ UNCHANGED <<tmuxVars, of, slot, req, list, ended, refused>>

\* A client exits: somebody detached it from inside.
ClientExits(a) ==
  /\ child[a] = "attached"
  /\ child' = [child EXCEPT ![a] = "gone"]
  /\ Moves({of[a]})
  /\ UNCHANGED <<tmuxVars, of, slot, req, list, ended, refused>>

\* A session ends with its last shell, and its clients with it.
SessionEnds(n) ==
  /\ n \in live
  /\ live' = live \ {n}
  /\ others' = [others EXCEPT ![n] = 0]
  /\ child' = [a \in Attachments |->
       IF of[a] = n /\ child[a] = "attached" THEN "gone" ELSE child[a]]
  /\ Moves({n})
  /\ ended' = ended \cup {r \in Requests : req[r].kind # "none" /\ req[r].name = n}
  /\ UNCHANGED <<of, slot, req, list, refused>>

OtherAttaches(n) ==
  /\ n \in live /\ others[n] < MaxOthers
  /\ others' = [others EXCEPT ![n] = @ + 1]
  /\ UNCHANGED <<live, attachmentVars, req, list, moved, ended, refused>>

OtherLeaves(n) ==
  /\ others[n] > 0
  /\ others' = [others EXCEPT ![n] = @ - 1]
  /\ UNCHANGED <<live, attachmentVars, req, list, moved, ended, refused>>

\* The gateway stops and starts again: dropping its attachments stops their
\* clients, and new() makes sure of the default session.
Restart ==
  /\ slot' = [n \in Names |-> None]
  /\ child' = [a \in Attachments |-> "none"]
  /\ req' = [r \in Requests |-> Idle]
  /\ list' = [at |-> "idle", mine |-> {}]
  /\ live' = live \cup {Default}
  /\ moved' = {} /\ ended' = {} /\ refused' = {}
  /\ UNCHANGED <<others, of>>

Next ==
  \/ \E r \in Requests :
       \/ Call(r) \/ HasSession(r) \/ NewSession(r) \/ Recheck(r) \/ CommandFails(r)
       \/ Attach(r) \/ AttachFails(r) \/ ViewerLeaves(r)
  \/ ListAsks \/ ListAnswers
  \/ \E a \in Attachments : ClientAttaches(a) \/ ClientExits(a)
  \/ \E n \in Names : SessionEnds(n) \/ OtherAttaches(n) \/ OtherLeaves(n)
  \/ Restart

Spec == Init /\ [][Next]_vars
-----------------------------------------------------------------------------
(* Properties.                                                             *)

Children == {"none", "starting", "attached", "gone"}
RequestSet ==
  [kind : {"none", "create", "view"}, at : {"idle", "has", "new", "recheck", "attach", "viewing"},
   name : Names, held : Attachments \cup {None}]

\* Types; an attachment exists as long as the map or a viewer holds it.
TypeOK ==
  /\ live \subseteq Names /\ others \in [Names -> Nat]
  /\ child \in [Attachments -> Children] /\ of \in [Attachments -> Names]
  /\ slot \in [Names -> Attachments \cup {None}]
  /\ req \in [Requests -> RequestSet]
  /\ list \in [at : {"idle", "asked"}, mine : SUBSET Names]
  /\ moved \subseteq Names /\ ended \subseteq Requests /\ refused \subseteq Requests
  /\ \A n \in Names : slot[n] # None => child[slot[n]] # "none" /\ of[slot[n]] = n
  /\ \A r \in Requests : req[r].held # None => child[req[r].held] # "none" /\ of[req[r].held] = req[r].name

\* docs/tmux-terminal-sessions-2026-07-19.md:6, the gateway "owns only the
\* browser-facing PTY clients": a client of the gateway that runs is the one in
\* the map, so a session has at most one and its viewers share it, however
\* requests, exits and restarts are interleaved.
OneClientEach == \A a \in Attachments : Alive(a) => slot[of[a]] = a

\* main.rs:757, the recheck: of requests that create one session at a time none
\* fails, unless the session ended in between or tmux itself failed.
CreatesTogether == refused = {}

\* list_sessions: other_clients leaves out exactly the gateway's own client,
\* unless that came or went since the snapshot or is about to attach.
OthersCounted ==
  [][ListAnswers =>
       \A n \in live \ moved : (\A a \in Mine(n) : child[a] = "attached") => OtherClients(n) = others[n]]_vars
=============================================================================

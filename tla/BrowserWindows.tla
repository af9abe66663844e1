---------------------------- MODULE BrowserWindows ----------------------------
(***************************************************************************)
(* BrowserManager: requests launch, focus and close Firefox windows in the *)
(* Sway compositor of the Forge session.  Launch and close hold a mutex,   *)
(* focus does not; every command to Sway is an await, at which the request *)
(* may be dropped and its command go on alone.  Firefox opens a window     *)
(* some time after it was asked to, and people open and close windows too. *)
(***************************************************************************)
EXTENDS Integers, FiniteSets, FiniteSetsExt

CONSTANTS
  Requests,    \* requests served at a time
  Nobody,      \* no request holds the mutex
  Limit,       \* windows open at most, 4 in the code
  Start,       \* BROWSER_WORKSPACE_START
  MaxWindows   \* bound on the windows ever opened

ASSUME NobodyAssumption == Nobody \notin Requests
ASSUME NumberAssumption == Limit \in Nat \ {0} /\ Start \in Nat \ {0, 1} /\ MaxWindows \in Nat

VARIABLES
  holder,    \* transition
  req,       \* what each request is at
  open,      \* Sway: the Firefox windows in the tree
  place,     \* Sway: the workspace of each
  current,   \* Sway: the workspace shown
  focused,   \* Sway: the focused window, or 0
  opening,   \* Firefox: the windows it was told to open and has not
  left,      \* commands whose request was dropped while they ran
  opened,    \* windows opened so far: Sway gives an id to each
  launched,  \* windows asked for so far
  opener,    \* history: the launch an open window was opened for, 0 for none
  given,     \* history: windows that launches have answered with
  strays,    \* history: windows opened, or to come, that no launch waits for
  disturbed  \* history: something came between this launch and its window

swayVars == <<open, place, current, focused>>
firefoxVars == <<opening, opened, launched, opener>>
historyVars == <<given, strays, disturbed>>
vars == <<holder, req, swayVars, firefoxVars, left, historyVars>>

Windows == 1..MaxWindows
Idle == [kind |-> "none", at |-> "idle", known |-> {}, window |-> 0, workspace |-> 0, no |-> 0]

Init ==
  /\ holder = Nobody
  /\ req = [r \in Requests |-> Idle]
  /\ open = {} /\ place = [w \in Windows |-> 0] /\ current = 1 /\ focused = 0
  /\ opening = {} /\ opened = 0 /\ launched = 0 /\ opener = [w \in Windows |-> 0]
  /\ left = {}
  /\ given = {} /\ strays = 0 /\ disturbed = FALSE

\* A launch has looked at the windows and not yet answered.
Launching == holder # Nobody /\ req[holder].kind = "launch" /\ req[holder].at # "list"
Disturbs == disturbed' = (disturbed \/ Launching)

At(r, at) == req[r].at = at
Goto(r, at) == req' = [req EXCEPT ![r].at = at]
Leaves(r) ==
  /\ req' = [req EXCEPT ![r] = Idle]
  /\ holder' = IF holder = r THEN Nobody ELSE holder
  /\ disturbed' = (disturbed /\ holder # r)
-----------------------------------------------------------------------------
(* Commands to Sway and Firefox.                                           *)

\* Windows of the workspace one of which is focused when it is shown.
Shown(ws, ws0) == IF {w \in ws0 : place[w] = ws} = {} THEN {0} ELSE {w \in ws0 : place[w] = ws}

\* What the command a request is at does, when it is run.
SwitchWorkspace(c) ==
  /\ current' = c.workspace
  /\ focused' \in Shown(c.workspace, open)
  /\ UNCHANGED <<opening, launched>>

ExecFirefox(c) ==
  /\ launched' = launched + 1
  /\ opening' = opening \cup {[no |-> launched', workspace |-> current]}
  /\ UNCHANGED <<current, focused>>

FocusWindow(c) ==
  /\ c.window \in open
  /\ current' = place[c.window]
  /\ focused' = c.window
  /\ UNCHANGED <<opening, launched>>

Runs(c) ==
  /\ \/ c.at = "workspace" /\ SwitchWorkspace(c)
     \/ c.at = "exec" /\ ExecFirefox(c)
     \/ c.at = "focus" /\ FocusWindow(c)
  /\ UNCHANGED <<open, place, opened, opener>>

\* Firefox opens a window it was told to: where Sway ran the command, or on the
\* workspace shown.  Sway focuses it unless another window is fullscreen.
FirefoxOpens ==
  \E o \in opening :
    /\ opening' = opening \ {o}
    /\ opened' = opened + 1
    /\ opener' = [opener EXCEPT ![opened'] = o.no]
    /\ open' = open \cup {opened'}
    /\ \E ws \in {o.workspace, current} : place' = [place EXCEPT ![opened'] = ws]
    /\ focused' \in {opened', focused}
    /\ IF holder # Nobody /\ req[holder].no = o.no THEN UNCHANGED disturbed ELSE Disturbs
    /\ UNCHANGED <<holder, req, current, launched, left, given, strays>>

\* Somebody opens a window inside Firefox, where it is shown.
SomebodyOpens ==
  /\ open # {}
  /\ opened + Cardinality(opening) + Cardinality(left) < MaxWindows
  /\ opened' = opened + 1
  /\ open' = open \cup {opened'}
  /\ place' = [place EXCEPT ![opened'] = current]
  /\ focused' \in {opened', focused}
  /\ strays' = strays + 1
  /\ Disturbs
  /\ UNCHANGED <<holder, req, current, opening, launched, opener, left, given>>

\* A window closes: Firefox was asked to, or somebody closes it there.
WindowCloses(w) ==
  /\ w \in open
  /\ open' = open \ {w}
  /\ place' = [place EXCEPT ![w] = 0]
  /\ opener' = [opener EXCEPT ![w] = 0]
  /\ focused' \in IF focused = w THEN Shown(current, open \ {w}) ELSE {focused}
  /\ Disturbs
  /\ UNCHANGED <<holder, req, current, opening, opened, launched, left, given, strays>>

\* The command of a dropped request is run.
LeftRuns ==
  \E c \in left :
    /\ Runs(c)
    /\ left' = left \ {c}
    /\ Disturbs
    /\ UNCHANGED <<holder, req, given, strays>>
-----------------------------------------------------------------------------
(* Requests.                                                               *)

\* Mutant of Lock: launch and close do not wait for the mutex.
LockFree(r) == holder' = r

Lock(r) == holder = Nobody /\ holder' = r

\* A request begins; until launch and close have the mutex they look at nothing.
\* The client names any window it has once been told of.
Request(r) ==
  /\ At(r, "idle")
  /\ \/ Lock(r) /\ req' = [req EXCEPT ![r] = [Idle EXCEPT !.kind = "launch", !.at = "list"]]
     \/ \E w \in 1..opened :
          \/ /\ Lock(r)
             /\ req' = [req EXCEPT ![r] = [Idle EXCEPT !.kind = "close", !.at = "exists", !.window = w]]
          \/ /\ req' = [req EXCEPT ![r] = [Idle EXCEPT !.kind = "focus", !.at = "check", !.window = w]]
             /\ UNCHANGED holder
  /\ UNCHANGED <<swayVars, firefoxVars, left, historyVars>>

\* Mutant of FreeWorkspace: the last workspace is used once more.
FreeWorkspaceLast == Max({Start} \cup {place[w] : w \in open})

\* Mutant of FreeWorkspace: the workspaces of the desktop are used too.
FreeWorkspaceLow == Max({0} \cup {place[w] : w \in open}) + 1

FreeWorkspace == Max({Start} \cup {place[w] + 1 : w \in open})

\* Mutant of LaunchList: one window too many.
LaunchListBeyond(r) ==
  /\ At(r, "list")
  /\ IF Cardinality(open) > Limit
       THEN Leaves(r)
       ELSE /\ req' = [req EXCEPT ![r].at = "workspace", ![r].known = open,
                                  ![r].workspace = FreeWorkspace]
            /\ UNCHANGED <<holder, disturbed>>
  /\ UNCHANGED <<swayVars, firefoxVars, left, given, strays>>

LaunchList(r) ==
  /\ At(r, "list")
  /\ IF Cardinality(open) >= Limit
       THEN Leaves(r)
       ELSE /\ req' = [req EXCEPT ![r].at = "workspace", ![r].known = open,
                                  ![r].workspace = FreeWorkspace]
            /\ UNCHANGED <<holder, disturbed>>
  /\ UNCHANGED <<swayVars, firefoxVars, left, given, strays>>

LaunchWorkspace(r) ==
  /\ At(r, "workspace")
  /\ Runs(req[r])
  /\ Goto(r, "exec")
  /\ UNCHANGED <<holder, left, historyVars>>

LaunchExec(r) ==
  /\ At(r, "exec")
  /\ opened + Cardinality(opening) + Cardinality(left) < MaxWindows
  /\ Runs(req[r])
  /\ req' = [req EXCEPT ![r].at = "poll", ![r].no = launched']
  /\ UNCHANGED <<holder, left, historyVars>>

\* The first of ws in the order of parse_browser_sessions.
First(ws) ==
  CHOOSE w \in ws : \A v \in ws : place[w] < place[v] \/ (place[w] = place[v] /\ w <= v)

\* Mutant of Fresh: the windows that were there are not left out.
FreshAny(r) == open

Fresh(r) == open \ req[r].known

LaunchPoll(r) ==
  /\ At(r, "poll")
  /\ Fresh(r) # {}
  /\ req' = [req EXCEPT ![r].at = "check", ![r].window = First(Fresh(r)),
                             ![r].known = {}, ![r].workspace = 0]
  /\ UNCHANGED <<holder, swayVars, firefoxVars, left, historyVars>>

\* 80 polls have shown no new window.
LaunchTimeout(r) ==
  /\ At(r, "poll")
  /\ Fresh(r) = {}
  /\ strays' = strays + Cardinality({o \in opening : o.no = req[r].no})
  /\ Leaves(r)
  /\ UNCHANGED <<swayVars, firefoxVars, left, given>>

\* focus, alone or as a part of launch.
FocusCheck(r) ==
  /\ At(r, "check")
  /\ IF req[r].window \in open
       THEN Goto(r, "focus") /\ UNCHANGED <<holder, disturbed>>
       ELSE Leaves(r)
  /\ UNCHANGED <<swayVars, firefoxVars, left, given, strays>>

FocusCommand(r) ==
  /\ At(r, "focus")
  /\ Runs(req[r])
  /\ Goto(r, "fullscreen")
  /\ IF holder = r THEN UNCHANGED disturbed ELSE Disturbs
  /\ UNCHANGED <<holder, left, given, strays>>

Fullscreen(r) ==
  /\ At(r, "fullscreen")
  /\ req[r].window \in open
  /\ IF req[r].kind = "launch"
       THEN Goto(r, "type") /\ UNCHANGED <<holder, disturbed>>
       ELSE Leaves(r)
  /\ UNCHANGED <<swayVars, firefoxVars, left, given, strays>>

\* navigate_to_start: the address is typed into whatever is focused, then Return.
TypeUrl(r) ==
  /\ At(r, "type")
  /\ Goto(r, "enter")
  /\ UNCHANGED <<holder, swayVars, firefoxVars, left, historyVars>>

LaunchAnswers(r) ==
  /\ At(r, "enter")
  /\ given' = given \cup {req[r].window}
  /\ Leaves(r)
  /\ UNCHANGED <<swayVars, firefoxVars, left, strays>>

\* close: the window is there, Sway asks it to close, and it is gone, or stays.
CloseCheck(r) ==
  /\ At(r, "exists")
  /\ IF req[r].window \in open
       THEN Goto(r, "kill") /\ UNCHANGED <<holder, disturbed>>
       ELSE Leaves(r)
  /\ UNCHANGED <<swayVars, firefoxVars, left, given, strays>>

Kill(r) ==
  /\ At(r, "kill")
  /\ req[r].window \in open
  /\ Goto(r, "gone")
  /\ UNCHANGED <<holder, swayVars, firefoxVars, left, historyVars>>

CloseAnswers(r) ==
  /\ At(r, "gone")
  /\ Leaves(r)
  /\ UNCHANGED <<swayVars, firefoxVars, left, given, strays>>

\* A command or the session file fails, and the request with it.
Fails(r) ==
  /\ req[r].at # "idle"
  /\ strays' = strays + Cardinality({o \in opening : o.no = req[r].no})
  /\ Leaves(r)
  /\ UNCHANGED <<swayVars, firefoxVars, left, given>>

\* The client goes away and its request is dropped; a command it was waiting
\* for may go on alone.
Cancel(r) ==
  /\ req[r].at # "idle"
  /\ \/ UNCHANGED left
     \/ /\ req[r].at \in {"workspace", "exec", "focus"}
        /\ opened + Cardinality(opening) + Cardinality(left) < MaxWindows
        /\ left' = left \cup {[Idle EXCEPT !.at = req[r].at, !.window = req[r].window,
                                          !.workspace = req[r].workspace]}
  /\ strays' = strays + Cardinality({o \in opening : o.no = req[r].no})
                      + Cardinality({c \in left' \ left : c.at = "exec"})
  /\ Leaves(r)
  /\ UNCHANGED <<swayVars, firefoxVars, given>>

RequestStep(r) ==
  \/ Request(r)
  \/ LaunchList(r) \/ LaunchWorkspace(r) \/ LaunchExec(r) \/ LaunchPoll(r) \/ LaunchTimeout(r)
  \/ FocusCheck(r) \/ FocusCommand(r) \/ Fullscreen(r) \/ TypeUrl(r) \/ LaunchAnswers(r)
  \/ CloseCheck(r) \/ Kill(r) \/ CloseAnswers(r)
  \/ Fails(r) \/ Cancel(r)

Next ==
  \/ \E r \in Requests : RequestStep(r)
  \/ FirefoxOpens \/ SomebodyOpens \/ LeftRuns
  \/ \E w \in Windows : WindowCloses(w)

Spec == Init /\ [][Next]_vars
-----------------------------------------------------------------------------
(* Properties.                                                             *)

Ats == {"idle", "list", "workspace", "exec", "poll", "check", "focus", "fullscreen",
        "type", "enter", "exists", "kill", "gone"}

RequestSet ==
  [kind : {"none", "launch", "focus", "close"}, at : Ats, known : SUBSET Windows,
   window : 0..MaxWindows, workspace : {0} \cup {n \in Nat : n >= Start}, no : Nat]

\* Types; a launch never takes one of the workspaces below BROWSER_WORKSPACE_START.
TypeOK ==
  /\ holder \in Requests \cup {Nobody}
  /\ req \in [Requests -> RequestSet]
  /\ open \in SUBSET Windows
  /\ place \in [Windows -> Nat] /\ current \in Nat /\ focused \in 0..MaxWindows
  /\ opening \subseteq [no : Nat, workspace : Nat]
  /\ left \subseteq RequestSet
  /\ opened \in 0..MaxWindows /\ launched \in Nat /\ opener \in [Windows -> Nat]
  /\ given \subseteq 0..MaxWindows /\ strays \in Nat /\ disturbed \in BOOLEAN

\* docs/eutherbrowse-stability-slice.md:43, "The Firefox-window limit is reduced
\* ... to four": launches, failed, dropped and late ones included, never open
\* more; only windows somebody else opened, and windows of launches that were
\* given up before they came, exceed it, each by one.
WithinLimit == Cardinality(open) + Cardinality(opening) <= Limit + strays

\* No two launches answer with the same window, whatever was late or dropped.
EachLaunchItsWindow == [][\A r \in Requests : LaunchAnswers(r) => req[r].window \notin given]_vars

\* docs/eutherbrowse-first-slice.md:17, "Each Firefox top-level window gets its
\* own Sway workspace": when nothing came between, the window a launch is about
\* to answer with is the only one on its workspace.
OwnWorkspace ==
  \A r \in Requests :
    LET window == req[r].window
    IN req[r].at = "type" /\ holder = r /\ ~disturbed =>
         \A w \in open : place[w] = place[window] => w = window

\* docs/eutherbrowse-first-slice.md:11, "The initial URL is fixed": when nothing
\* came between, it is typed into the window Firefox opened for this launch.
UrlIntoItsWindow ==
  \A r \in Requests :
    req[r].at = "type" /\ holder = r /\ ~disturbed =>
      focused = req[r].window /\ opener[focused] = req[r].no
=============================================================================

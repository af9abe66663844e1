----------------------------- MODULE Clipboard -----------------------------
(***************************************************************************)
(* The clipboard of the selected Wayland session, read and written through *)
(* the gateway by a page: the panel that previews it and sends the local   *)
(* one, and the browser view's PASTE IMAGE.  Each compositor has its own   *)
(* clipboard, which any application may replace at any time; the gateway   *)
(* reads it with two commands (the types, then one of them) and writes it  *)
(* with one, under a time limit each.  An operation of the page is an      *)
(* async function, its request's handler included; nothing keeps a second  *)
(* one from starting before the first is over.  Another page is one more   *)
(* application: requests share nothing but the clipboards.                 *)
(***************************************************************************)
EXTENDS Naturals, FiniteSets

CONSTANTS
  Tasks,      \* operations of the page that can be under way at once
  Desktops,   \* the compositors a selection can lie on
  NoDesktop,  \* no desktop is active
  Contents,   \* what an application can put on a clipboard
  Nothing,    \* an empty clipboard
  Offers      \* the supported types a content offers

Types == {"image", "text"}

ASSUME DesktopsAssumption == NoDesktop \notin Desktops
ASSUME ContentsAssumption ==
  /\ Nothing \notin Contents
  /\ Offers \in [Contents -> SUBSET Types]

VARIABLES
  selected,   \* the compositor of DesktopManager.selection while it is active
  clipboard,  \* per compositor: the content its clipboard offers
  task,       \* per task: its operation, a record
  panel       \* what the page holds and shows, a record

vars == <<selected, clipboard, task, panel>>

\* One type of one content; what the local clipboard of the page has and
\* wl-copy offers is of a single type.
Values  == {x \in [content : Contents, type : Types] : x.type \in Offers[x.content]}
Uploads == {x \in Values : Offers[x.content] = {x.type}}
NoValue == [content |-> Nothing, type |-> "none"]

\* What a handler answers: a status, and with "data" a type and a value.
Answers ==
  [status : {"none", "done", "empty", "error"}, mime : {"none"}, value : {NoValue}]
    \cup [status : {"data"}, mime : Types, value : Values]
Answer(s) == [status |-> s, mime |-> "none", value |-> NoValue]

PanelOps == {"refresh", "upload"}
Handling == {"listing", "pasting", "copying"}

Task ==
  [at : {"idle", "sent", "answered", "showing", "pressing"} \cup Handling,
   op : {"none", "image"} \cup PanelOps,
   item : Values \cup {NoValue},       \* what it uploads, then what it shows
   view : Desktops \cup {NoDesktop},   \* history: the desktop selected when it began;
                                      \* nobody asks what an upload saw
   calm : BOOLEAN,                     \* history: nobody else changed that or its clipboard
   desk : Desktops \cup {NoDesktop},   \* the handler's snapshot of the selection
   mime : Types \cup {"none"},         \* the type chosen from the list
   copying : BOOLEAN,                  \* wl-copy runs and has not taken the clipboard
   answer : Answers]

NoTask ==
  [at |-> "idle", op |-> "none", item |-> NoValue, view |-> NoDesktop, calm |-> FALSE,
   desk |-> NoDesktop, mime |-> "none", copying |-> FALSE, answer |-> Answer("none")]

\* hurried, a history, is set when an operation begins, or the view is left, before
\* another operation is over, and cleared by a refresh that begins alone.
Panel ==
  [blob : Values \cup {NoValue},   \* remoteClipboardBlob
   text : Values \cup {NoValue},   \* the text the preview shows
   image : Values \cup {NoValue},  \* the image it shows
   hurried : BOOLEAN]
NoPanel == [blob |-> NoValue, text |-> NoValue, image |-> NoValue, hurried |-> FALSE]

Shown == {panel.text, panel.image} \ {NoValue}

Offered(d) == IF clipboard[d] = Nothing THEN {} ELSE Offers[clipboard[d]]

\* choose_clipboard_mime: an image if there is one, else text.
Choose(types) == IF "image" \in types THEN "image" ELSE "text"

Becomes(t, k) == task' = [task EXCEPT ![t] = k]
Respond(t, a) == Becomes(t, [task[t] EXCEPT !.at = "answered", !.answer = a, !.copying = FALSE])

OnPanel(t) == task[t].op \in PanelOps
Overlaps == \E t \in Tasks : OnPanel(t)

Init ==
  /\ selected \in Desktops \cup {NoDesktop}
  /\ clipboard \in [Desktops -> Contents \cup {Nothing}]
  /\ task = [t \in Tasks |-> NoTask]
  /\ panel = NoPanel
-----------------------------------------------------------------------------
(* The page asks.                                                          *)

Begin(t, op, x) ==
  /\ task[t].at = "idle"
  /\ Becomes(t, [NoTask EXCEPT !.at = "sent", !.op = op, !.item = x,
                               !.view = IF op = "upload" THEN NoDesktop ELSE selected,
                               !.calm = op # "upload"])
  /\ UNCHANGED <<selected, clipboard>>

\* Mutant of Refresh: the old value is kept until there is a new one.
RefreshKeepsBlob(t) ==
  /\ Begin(t, "refresh", NoValue)
  /\ panel' = [panel EXCEPT !.hurried = Overlaps]

\* Opening the panel.
Refresh(t) ==
  /\ Begin(t, "refresh", NoValue)
  /\ panel' = [panel EXCEPT !.blob = NoValue, !.hurried = Overlaps]

\* HERE -> REMOTE, or a paste into the panel.
Upload(t, x) ==
  /\ Begin(t, "upload", x)
  /\ panel' = [panel EXCEPT !.hurried = @ \/ Overlaps]

\* PASTE IMAGE, in a browser view of the selected desktop.  Its button is disabled
\* while it is under way, but a view rendered anew has a button of its own.
PasteImage(t, x) ==
  /\ selected # NoDesktop
  /\ x.type = "image"
  /\ Begin(t, "image", x)
  /\ UNCHANGED panel

\* The view is left, the output or the protocol switched: the preview is cleared
\* and what is under way goes on.  Its value may then be shown in a later view or
\* nowhere; the panel counts as hurried until it is opened anew.
Dispose ==
  /\ panel' = [NoPanel EXCEPT !.hurried = panel.hurried \/ Overlaps]
  /\ UNCHANGED <<selected, clipboard, task>>

\* The page is reloaded or closed: its fetches are aborted and the handlers
\* dropped, which kills wl-paste and wl-copy (the wl-paste that lists types runs
\* on).
Reload ==
  /\ task' = [t \in Tasks |-> NoTask]
  /\ panel' = NoPanel
  /\ UNCHANGED <<selected, clipboard>>
-----------------------------------------------------------------------------
(* The handlers.                                                           *)

\* clipboard_selection; wl-copy is spawned, or cannot be.
Handle(t) ==
  /\ task[t].at = "sent"
  /\ IF selected = NoDesktop
       THEN Respond(t, Answer("error"))
       ELSE IF task[t].op = "refresh"
         THEN Becomes(t, [task[t] EXCEPT !.at = "listing", !.desk = selected])
         ELSE \/ Becomes(t, [task[t] EXCEPT !.at = "copying", !.desk = selected, !.copying = TRUE])
              \/ Respond(t, Answer("error"))
  /\ UNCHANGED <<selected, clipboard, panel>>

\* wl-paste --list-types: nothing supported, or a failure of it, is an empty
\* clipboard.
List(t) ==
  /\ task[t].at = "listing"
  /\ \/ Respond(t, Answer("empty"))
     \/ /\ Offered(task[t].desk) # {}
        /\ Becomes(t, [task[t] EXCEPT !.at = "pasting", !.mime = Choose(Offered(task[t].desk))])
  /\ UNCHANGED <<selected, clipboard, panel>>

\* Mutant of Paste: wl-paste without --type.
PasteUntyped(t) ==
  /\ task[t].at = "pasting"
  /\ \/ \E s \in {"empty", "error"} : Respond(t, Answer(s))
     \/ \E y \in Offered(task[t].desk) :
          Respond(t, [status |-> "data", mime |-> task[t].mime,
                      value |-> [content |-> clipboard[task[t].desk], type |-> y]])
  /\ UNCHANGED <<selected, clipboard, panel>>

\* wl-paste --type: by now the clipboard may offer something else.  It fails
\* without the type, with too much data, and when the owner gives nothing.
Paste(t) ==
  /\ task[t].at = "pasting"
  /\ \/ \E s \in {"empty", "error"} : Respond(t, Answer(s))
     \/ /\ task[t].mime \in Offered(task[t].desk)
        /\ Respond(t, [status |-> "data", mime |-> task[t].mime,
                       value |-> [content |-> clipboard[task[t].desk], type |-> task[t].mime]])
  /\ UNCHANGED <<selected, clipboard, panel>>

\* The clipboard of d changes under the others that look at it, or the selection
\* leaves d: what they rely on is gone.
Disturbed(d, others) ==
  [t \in Tasks |-> IF t \in others /\ task[t].view = d
                     THEN [task[t] EXCEPT !.view = NoDesktop, !.calm = FALSE]
                     ELSE task[t]]

\* wl-copy takes the clipboard over and leaves a server of its own behind.  The
\* others may be disturbed by an operation that is under way, not by a wl-copy that
\* is left of one that is over.
CopyTakes(t) ==
  /\ task[t].copying
  /\ clipboard' = [clipboard EXCEPT ![task[t].desk] = task[t].item.content]
  /\ LET others == IF task[t].at = "copying" THEN Tasks \ {t} ELSE {}
     IN  task' = [Disturbed(task[t].desk, others) EXCEPT ![t].copying = FALSE]
  /\ UNCHANGED <<selected, panel>>

\* Mutant of CopyDone: the answer does not wait for wl-copy to exit.
CopyUnawaited(t) ==
  /\ task[t].at = "copying"
  /\ Becomes(t, [task[t] EXCEPT !.at = "answered", !.answer = Answer("done")])
  /\ UNCHANGED <<selected, clipboard, panel>>

CopyDone(t) ==
  /\ task[t].at = "copying"
  /\ ~task[t].copying
  /\ Respond(t, Answer("done"))
  /\ UNCHANGED <<selected, clipboard, panel>>

\* Mutant of TimeLimit: none on the content.
TimeLimitNotOnPaste(t) ==
  /\ task[t].at \in Handling \ {"pasting"}
  /\ Respond(t, Answer("error"))
  /\ UNCHANGED <<selected, clipboard, panel>>

\* Mutant of TimeLimit: wl-copy is spawned without kill_on_drop.
TimeLimitNoKill(t) ==
  /\ task[t].at \in Handling
  /\ Becomes(t, [task[t] EXCEPT !.at = "answered", !.answer = Answer("error")])
  /\ UNCHANGED <<selected, clipboard, panel>>

\* CLIPBOARD_TIMEOUT, or another error of the command; wl-copy may have taken
\* the clipboard before it is killed.
TimeLimit(t) ==
  /\ task[t].at \in Handling
  /\ Respond(t, Answer("error"))
  /\ UNCHANGED <<selected, clipboard, panel>>
-----------------------------------------------------------------------------
(* The page goes on.                                                       *)

\* showClipboardPreview clears the preview; an image is there at once, a text
\* after an await.
Load(t, x) ==
  IF x.type = "image"
    THEN /\ Becomes(t, NoTask)
         /\ panel' = [panel EXCEPT !.blob = x, !.text = NoValue, !.image = x]
    ELSE /\ Becomes(t, [task[t] EXCEPT !.at = "showing", !.item = x])
         /\ panel' = [panel EXCEPT !.blob = x, !.text = NoValue, !.image = NoValue]

RefreshAnswered(t) ==
  /\ task[t].at = "answered"
  /\ task[t].op = "refresh"
  /\ IF task[t].answer.status = "data"
       THEN Load(t, task[t].answer.value)
       ELSE /\ Becomes(t, NoTask)
            /\ panel' = [panel EXCEPT !.text = NoValue, !.image = NoValue]
  /\ UNCHANGED <<selected, clipboard>>

UploadAnswered(t) ==
  /\ task[t].at = "answered"
  /\ task[t].op = "upload"
  /\ IF task[t].answer.status = "done"
       THEN Load(t, task[t].item)
       ELSE Becomes(t, NoTask) /\ UNCHANGED panel
  /\ UNCHANGED <<selected, clipboard>>

ShowText(t) ==
  /\ task[t].at = "showing"
  /\ Becomes(t, NoTask)
  /\ panel' = [panel EXCEPT !.text = task[t].item]
  /\ UNCHANGED <<selected, clipboard>>

\* bridgeImageIntoBrowser waits 80 ms before it presses the keys.
ImageAnswered(t) ==
  /\ task[t].at = "answered"
  /\ task[t].op = "image"
  /\ Becomes(t, IF task[t].answer.status = "done" THEN [task[t] EXCEPT !.at = "pressing"] ELSE NoTask)
  /\ UNCHANGED <<selected, clipboard, panel>>

\* Ctrl+V: the application in the view pastes what its clipboard holds now.
Press(t) ==
  /\ task[t].at = "pressing"
  /\ Becomes(t, NoTask)
  /\ UNCHANGED <<selected, clipboard, panel>>
-----------------------------------------------------------------------------
(* The surroundings.                                                       *)

\* Any application copies something or goes away with what it offered.
AppCopies(d, x) ==
  /\ clipboard[d] # x
  /\ clipboard' = [clipboard EXCEPT ![d] = x]
  /\ task' = Disturbed(d, Tasks)
  /\ UNCHANGED <<selected, panel>>

\* A desktop is started or stopped.
Select(d) ==
  /\ selected # d
  /\ selected' = d
  /\ task' = Disturbed(selected, Tasks)
  /\ UNCHANGED <<clipboard, panel>>

Step(t) ==
  \/ Handle(t) \/ CopyDone(t) \/ TimeLimit(t)
  \/ RefreshAnswered(t) \/ UploadAnswered(t) \/ ShowText(t) \/ ImageAnswered(t) \/ Press(t)

Next ==
  \/ \E t \in Tasks :
       \/ Refresh(t)
       \/ \E x \in Uploads : Upload(t, x) \/ PasteImage(t, x)
       \/ List(t) \/ Paste(t) \/ CopyTakes(t) \/ Step(t)
  \/ Dispose
  \/ Reload
  \/ \E d \in Desktops, x \in Contents \cup {Nothing} : AppCopies(d, x)
  \/ \E d \in Desktops \cup {NoDesktop} : Select(d)

Spec == Init /\ [][Next]_vars

\* Handlers and the page's continuations are scheduled and the time limits run
\* out; no command is assumed to return.
Fairness == \A t \in Tasks : WF_vars(Step(t))

FairSpec == Spec /\ Fairness
-----------------------------------------------------------------------------
(* Properties.                                                             *)

TypeOK ==
  /\ selected \in Desktops \cup {NoDesktop}
  /\ clipboard \in [Desktops -> Contents \cup {Nothing}]
  /\ task \in [Tasks -> Task]
  /\ panel \in Panel

\* The types and the content are read by two commands with other applications
\* and a new selection in between; still what is answered is of the announced
\* type, and when nobody interfered it is the best type of what the selected
\* desktop's clipboard holds (main.rs:1912-1961).
AnswerIsOneClipboard ==
  \A t \in Tasks :
    task[t].answer.status = "data" =>
      /\ task[t].answer.value.type = task[t].answer.mime
      /\ task[t].calm =>
           task[t].answer.value =
             [content |-> clipboard[selected], type |-> Choose(Offered(selected))]

\* What REMOTE -> HERE copies is what the preview shows, however the last
\* operations ended, unless one of them was begun, or the view left, before
\* another was over; a refresh on its own sets that right (main.ts:1225-1263,
\* 1319-1328, 2644-2646).
PreviewMatches ==
  ~panel.hurried /\ (\A t \in Tasks : ~OnPanel(t)) => Shown = {panel.blob} \ {NoValue}

\* docs/eutherbrowse-low-latency-slice.md:55-60: the keys are pressed with the
\* uploaded image on the clipboard of the desktop in view, unless another
\* application or another operation still under way copied there, or another
\* desktop was selected since.  An upload that was reported failed is no excuse:
\* its wl-copy is gone when the page hears of it (main.rs:1973, 1986-1989) and does
\* not replace the image of the next attempt.
PasteLands ==
  \A t \in Tasks :
    task[t].at = "pressing" /\ task[t].calm => clipboard[task[t].view] = task[t].item.content

\* Every operation ends, also when wl-paste or wl-copy or the application that
\* owns the clipboard hangs.
OperationsEnd == \A t \in Tasks : task[t].at # "idle" ~> task[t].at = "idle"
=============================================================================
